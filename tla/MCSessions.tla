----------------------------- MODULE MCSessions -----------------------------
(* Small instances of Sessions for TLC. *)
EXTENDS Sessions, TLC

CONSTANTS c1, c2, u2, s1, s2, s3, t1, t2, t3, u1

OneConn == {c1}
TwoConns == {c1, c2}
TwoSessions == {s1, s2}
ThreeSessions == {s1, s2, s3}
TwoTasks == {t1, t2}
ThreeTasks == {t1, t2, t3}
OneUser == {u1}
TwoUsers == {u1, u2}
OwnUser == [c \in Conn |-> IF c = c1 THEN u1 ELSE u2]
SameUser == [c \in Conn |-> u1]

\* The two clients with their users change places.
Swap == [v \in {c1, c2, u1, u2} |->
           IF v = c1 THEN c2 ELSE IF v = c2 THEN c1 ELSE IF v = u1 THEN u2 ELSE u1]
Symmetric == {Swap} \cup Permutations(Session) \cup Permutations(Task)

\* A bound: the run goes no further than the first step of a shutdown.
BeforeShutdown == phase = "up"
=============================================================================
