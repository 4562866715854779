------------------------------- MODULE MCHitl -------------------------------
(* Small instances of Hitl for TLC. *)
EXTENDS Hitl

CONSTANTS c1, c2, r1, r2

OneClient == {c1}
TwoClients == {c1, c2}
TwoRequests == {r1, r2}
AllFaults == {"cut", "evict", "restart"}
CutOnly == {"cut"}
NoFaults == {}
=============================================================================
