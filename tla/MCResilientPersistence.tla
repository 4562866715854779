----------------------- MODULE MCResilientPersistence -----------------------
(* Small instances of ResilientPersistence for TLC. *)
EXTENDS ResilientPersistence, TLC

CONSTANTS w1, w2, o1, o2, o3

TwoWrappers == {w1, w2}
ThreeOps == {o1, o2, o3}
\* o1 and o2 belong to the first conversation, o3 to the second.
TwoAndTwo == [o \in Op |-> IF o \in {o1, o2} THEN w1 ELSE w2]
=============================================================================
