---------------------------- MODULE MCWireStream ----------------------------
(* Small instances of WireStream for TLC.                                         *)
EXTENDS WireStream

CONSTANTS c1, c2, r0

TwoCalls == {c1, c2}
OneEmpty == {c2}
OneOld == {r0}
AllFaults == {"graph", "values", "cancel"}
=============================================================================
