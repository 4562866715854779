--------------------------- MODULE MCToolThreads ----------------------------
(* Small instances of ToolThreads for TLC.                                        *)
EXTENDS ToolThreads

CONSTANTS c1, s1, s2

OneCall == {c1}
TwoScripts == {s1, s2}
OneEndless == {s2}
AllFaults == {"cancel", "service"}
OnlyCancel == {"cancel"}
=============================================================================
