--------------------------- MODULE SessionsProofs ---------------------------
(* Theorems about Sessions for every number of connections, sessions, tasks and   *)
(* users and every cap: type correctness, the agreement of locks and tasks, the    *)
(* fate of dropped sessions, the cap, and, when no client switches sessions during *)
(* its own turn, mutual exclusion of the turns of one conversation, the client     *)
(* that a streaming turn has, the clients that stay open, and the refinement of    *)
(* Conversations.                                                                  *)
EXTENDS Sessions, SequenceTheorems, FiniteSetTheorems, TLAPS

-----------------------------------------------------------------------------
(* Helpers of the model *)

LEMMA WithoutType ==
    ASSUME NEW S, NEW q \in Seq(S), NEW t
    PROVE  Without(q, t) \in Seq(S)
<1>1. CASE ~ \E i \in 1..Len(q) : q[i] = t
  BY <1>1 DEF Without
<1>2. CASE \E i \in 1..Len(q) : q[i] = t
  <2> DEFINE at == CHOOSE i \in 1..Len(q) : q[i] = t
  <2>1. at \in 1..Len(q)
    BY <1>2
  <2>2. Len(q) \in Nat
    BY LenProperties
  <2>3. SubSeq(q, 1, at - 1) \in Seq(S)
    <3>1. \A i \in 1..(at - 1) : q[i] \in S
      BY <2>1, <2>2, ElementOfSeq
    <3> HIDE DEF at
    <3> QED BY <2>1, <2>2, <3>1, SubSeqProperties
  <2>4. SubSeq(q, at + 1, Len(q)) \in Seq(S)
    <3> HIDE DEF at
    <3> QED BY <2>1, <2>2, ElementOfSeq, SubSeqProperties
  <2>5. Without(q, t) = SubSeq(q, 1, at - 1) \o SubSeq(q, at + 1, Len(q))
    BY <1>2 DEF Without
  <2> HIDE DEF at
  <2> QED BY <2>3, <2>4, <2>5, ConcatProperties
<1> QED BY <1>1, <1>2

-----------------------------------------------------------------------------
(* Type correctness. A suspended handler knows the session it destroys and the     *)
(* identifier of the one it will create, and a task that has not ended belongs to   *)
(* a handler that has a session.                                                   *)
HandlerInv ==
    \A c \in Conn : pc[c] \in {"clearing", "evicting"} =>
        victim[c] \in Session /\ newId[c] \in Session

TaskInv ==
    \A t \in Task : Active(t) => by[t] \in Conn /\ runtime[by[t]] \in Session

TypeInv == TypeOK /\ HandlerInv /\ TaskInv

LEMMA InstallType ==
    ASSUME TypeInv, NEW c \in Conn, NEW u \in User \cup {None},
           NEW id \in Session, NEW cached \in SUBSET cache,
           NEW dead \in SUBSET Session, Install(c, u, id, cached, dead),
           mcp' \in [Session -> Task \cup {None}], open' \in SUBSET Task,
           UNCHANGED <<locks, tasks, server>>
    PROVE  TypeInv'
<1>1. TypeOK /\ HandlerInv /\ TaskInv
  BY DEF TypeInv
<1>2. /\ cache' \subseteq born' /\ born' \subseteq Session
      /\ owner' \in [Session -> User \cup {None}]
      /\ graph' \in [Session -> BOOLEAN]
  BY <1>1 DEF Install, TypeOK
<1>3. lastActive' \in [Session -> Nat] /\ clock' \in Nat
  BY <1>1 DEF Install, TypeOK
<1>4. /\ runtime' \in [Conn -> Session \cup {None}]
      /\ turnTask' \in [Conn -> Task \cup {None}]
      /\ pc' \in [Conn -> HandlerPc]
      /\ victim' \in [Conn -> Session \cup {None}]
      /\ newId' \in [Conn -> Session \cup {None}]
      /\ newUser' \in [Conn -> User \cup {None}]
      /\ closing' \in [Conn -> Task \cup {None}] /\ cut' \subseteq Task
  BY <1>1 DEF Install, TypeOK, HandlerPc
<1>5. TypeOK'
  BY <1>1, <1>2, <1>3, <1>4 DEF TypeOK, locks, tasks, server
<1>6. HandlerInv'
  BY <1>1 DEF Install, TypeOK, HandlerInv
<1>7. TaskInv'
  BY <1>1 DEF Install, TypeOK, TaskInv, Active, tasks
<1> QED BY <1>5, <1>6, <1>7 DEF TypeInv

LEMMA AwaitType ==
    ASSUME TypeInv, NEW c \in Conn, NEW u \in User \cup {None},
           NEW where \in {"clearing", "evicting"}, NEW s \in Session,
           NEW id \in Session, NEW cached \in SUBSET cache,
           NEW dead \in SUBSET Session, Await(c, where, s, u, id, cached, dead),
           mcp' \in [Session -> Task \cup {None}], open' \in SUBSET Task,
           UNCHANGED <<locks, tasks, server>>
    PROVE  TypeInv'
<1>1. TypeOK /\ HandlerInv /\ TaskInv
  BY DEF TypeInv
<1>2. /\ pc' \in [Conn -> HandlerPc]
      /\ victim' \in [Conn -> Session \cup {None}]
      /\ newId' \in [Conn -> Session \cup {None}]
      /\ newUser' \in [Conn -> User \cup {None}]
      /\ closing' \in [Conn -> Task \cup {None}] /\ cut' \subseteq Task
  BY <1>1 DEF Await, TypeOK, HandlerPc
<1>3. cache' \subseteq born' /\ graph' \in [Session -> BOOLEAN]
  BY <1>1 DEF Await, TypeOK
<1>4. UNCHANGED <<born, owner, clock, lastActive, runtime, turnTask>>
  BY DEF Await
<1>5. TypeOK'
  BY <1>1, <1>2, <1>3, <1>4 DEF TypeOK, locks, tasks, server
<1>6. HandlerInv'
  BY <1>1 DEF Await, TypeOK, HandlerInv
<1>7. TaskInv'
  BY <1>1, <1>4 DEF TaskInv, Active, tasks
<1> QED BY <1>5, <1>6, <1>7 DEF TypeInv

\* What a handler may leave behind when it creates a session or suspends.
LEMMA EvictAndCreateType ==
    ASSUME TypeInv, NEW c \in Conn, NEW u \in User \cup {None},
           NEW id \in Session, NEW cached \in SUBSET cache,
           NEW dead \in SUBSET Session,
           EvictAndCreate(c, u, id, cached, dead),
           mcp' \in [Session -> Task \cup {None}], open' \in SUBSET Task,
           UNCHANGED <<locks, tasks, server>>
    PROVE  TypeInv'
<1>1. CASE Install(c, u, id, cached, dead)
  BY <1>1, InstallType
<1>2. ASSUME NEW s \in SessionsOf(u, cached),
             IF mcp[s] = None
             THEN Install(c, u, id, cached \ {s}, dead \cup {s})
             ELSE Await(c, "evicting", s, u, id, cached \ {s}, dead)
      PROVE  TypeInv'
  <2>1. s \in Session
    BY DEF SessionsOf, TypeInv, TypeOK
  <2>2. cached \ {s} \in SUBSET cache /\ dead \cup {s} \in SUBSET Session
    BY <2>1
  <2>3. CASE Install(c, u, id, cached \ {s}, dead \cup {s})
    BY <2>2, <2>3, InstallType
  <2>4. CASE Await(c, "evicting", s, u, id, cached \ {s}, dead)
    BY <2>1, <2>2, <2>4, AwaitType
  <2> QED BY <1>2, <2>3, <2>4
<1> QED BY <1>1, <1>2 DEF EvictAndCreate

LEMMA LeaveType ==
    ASSUME TypeOK, NEW t \in Task, Leave(t)
    PROVE  /\ status' \in [Task -> Status]
           /\ holder' \in [Session -> Task \cup {None}]
           /\ waiters' \in [Session -> Seq(Task)]
<1>1. \A s \in Session : Without(waiters[s], t) \in Seq(Task)
  BY WithoutType DEF TypeOK
<1> QED BY <1>1 DEF Leave, TypeOK, Status

LEMMA TypeInit == Init => TypeInv
BY EmptySeq DEF Init, TypeInv, TypeOK, HandlerInv, TaskInv, Active, HandlerPc, Status

\* One step of the handler of c.
LEMMA HandlerType ==
    ASSUME ConstantsAssumption, TypeInv, NEW c \in Conn,
           \/ \E s \in Session : InitResume(c, s)
           \/ InitNew(c) \/ Clear(c) \/ HandlerResumes(c) \/ Disconnect(c)
           \/ \E t \in Task : TurnMessage(c, t) \/ DecisionsMessage(c, t)
    PROVE  TypeInv'
<1>0. TypeOK /\ HandlerInv /\ TaskInv
  BY DEF TypeInv
<1>1. ASSUME NEW s \in Session, InitResume(c, s) PROVE TypeInv'
  <2>1. TypeOK'
    BY <1>0, <1>1 DEF InitResume, TypeOK, store, gateways, locks, tasks, server
  <2>2. HandlerInv'
    BY <1>0, <1>1 DEF InitResume, HandlerInv
  <2>3. TaskInv'
    BY <1>0, <1>1 DEF InitResume, TaskInv, Active, TypeOK, tasks
  <2> QED BY <2>1, <2>2, <2>3 DEF TypeInv
<1>2. CASE InitNew(c)
  <2>1. PICK id \in Fresh : EvictAndCreate(c, UserOf[c], id, cache, {})
    BY <1>2 DEF InitNew
  <2>2. /\ mcp' \in [Session -> Task \cup {None}] /\ open' \in SUBSET Task
        /\ UNCHANGED <<locks, tasks, server>>
    BY <1>0, <1>2 DEF InitNew, TypeOK
  <2>3. id \in Session /\ UserOf[c] \in User \cup {None}
    BY DEF Fresh, ConstantsAssumption
  <2> QED BY <2>1, <2>2, <2>3, EvictAndCreateType
<1>3. CASE Clear(c)
  <2> DEFINE s == runtime[c]
  <2>1. PICK id \in Fresh :
                 IF s = None THEN EvictAndCreate(c, None, id, cache, {})
                 ELSE IF mcp[s] = None
                      THEN EvictAndCreate(c, owner[s], id, cache \ {s}, {s})
                      ELSE Await(c, "clearing", s, owner[s], id, cache \ {s}, {})
    BY <1>3 DEF Clear
  <2>2. /\ mcp' \in [Session -> Task \cup {None}] /\ open' \in SUBSET Task
        /\ UNCHANGED <<locks, tasks, server>>
    BY <1>0, <1>3 DEF Clear, TypeOK
  <2>3. id \in Session
    BY DEF Fresh
  <2>4. s # None => /\ s \in Session /\ owner[s] \in User \cup {None}
                    /\ cache \ {s} \in SUBSET cache
                    /\ {s} \in SUBSET Session
    BY <1>0 DEF TypeOK
  <2> HIDE DEF s
  <2>5. CASE EvictAndCreate(c, None, id, cache, {})
    BY <2>2, <2>3, <2>5, EvictAndCreateType
  <2>6. CASE s # None /\ EvictAndCreate(c, owner[s], id, cache \ {s}, {s})
    BY <2>2, <2>3, <2>4, <2>6, EvictAndCreateType
  <2>7. CASE s # None /\ Await(c, "clearing", s, owner[s], id, cache \ {s}, {})
    BY <2>2, <2>3, <2>4, <2>7, AwaitType
  <2> QED BY <2>1, <2>5, <2>6, <2>7
<1>4. CASE Cleared(c)
  <2>1. /\ newId[c] \in Session /\ newUser[c] \in User \cup {None}
        /\ {victim[c]} \in SUBSET Session
    BY <1>0, <1>4 DEF Cleared, HandlerInv, TypeOK
  <2>2. /\ mcp' \in [Session -> Task \cup {None}] /\ open' \in SUBSET Task
        /\ UNCHANGED <<locks, tasks, server>>
    BY <1>0, <1>4 DEF Cleared, CloseClient, TypeOK
  <2>3. EvictAndCreate(c, newUser[c], newId[c], cache, {victim[c]})
    BY <1>4 DEF Cleared
  <2> QED BY <2>1, <2>2, <2>3, EvictAndCreateType
<1>5. CASE Evicted(c)
  <2>1. /\ newId[c] \in Session /\ newUser[c] \in User \cup {None}
        /\ {victim[c]} \in SUBSET Session
    BY <1>0, <1>5 DEF Evicted, HandlerInv, TypeOK
  <2>2. /\ mcp' \in [Session -> Task \cup {None}] /\ open' \in SUBSET Task
        /\ UNCHANGED <<locks, tasks, server>>
    BY <1>0, <1>5 DEF Evicted, CloseClient, TypeOK
  <2>3. Install(c, newUser[c], newId[c], cache, {victim[c]})
    BY <1>5 DEF Evicted
  <2> QED BY <2>1, <2>2, <2>3, InstallType
<1>6. CASE Disconnect(c)
  <2>1. HandlerInv'
    BY <1>0, <1>6 DEF Disconnect, HandlerInv, TypeOK
  <2>2. CASE InFlight(c)
    <3>1. turnTask[c] \in Task /\ Leave(turnTask[c])
      BY <1>0, <1>6, <2>2 DEF Disconnect, InFlight, TypeOK
    <3>2. /\ status' \in [Task -> Status]
          /\ holder' \in [Session -> Task \cup {None}]
          /\ waiters' \in [Session -> Seq(Task)]
      BY <1>0, <3>1, LeaveType
    <3>3. UNCHANGED <<kind, by, lockOf, gw>>
      BY <3>1 DEF Leave
    <3>4. cut' \subseteq Task
      BY <1>0, <1>6, <2>2, <3>1 DEF Disconnect, TypeOK
    <3>5. /\ pc' \in [Conn -> HandlerPc]
          /\ UNCHANGED <<runtime, turnTask, victim, newId, newUser, closing>>
          /\ UNCHANGED <<store, gateways, server>>
      BY <1>0, <1>6 DEF Disconnect, TypeOK, HandlerPc
    <3>6. TypeOK'
      BY <1>0, <3>2, <3>3, <3>4, <3>5 DEF TypeOK, store, gateways, server
    <3>7. TaskInv'
      BY <1>0, <1>6, <3>1 DEF Disconnect, Leave, TaskInv, Active, TypeOK
    <3> QED BY <2>1, <3>6, <3>7 DEF TypeInv
  <2>3. CASE ~(InFlight(c))
    <3>1. TypeOK'
      BY <1>0, <1>6, <2>3 DEF Disconnect, TypeOK, HandlerPc, store, gateways, locks,
                              tasks, server
    <3>2. TaskInv'
      BY <1>0, <1>6, <2>3 DEF Disconnect, TaskInv, Active, tasks
    <3> QED BY <2>1, <3>1, <3>2 DEF TypeInv
  <2> QED BY <2>2, <2>3
<1>7. ASSUME NEW t \in Task, TurnMessage(c, t) \/ DecisionsMessage(c, t)
      PROVE  TypeInv'
  <2>0. runtime[c] \in Session
    BY <1>0, <1>7 DEF TurnMessage, DecisionsMessage, TypeOK
  <2>1. \E k \in {"turn", "resume"} : CreateTask(c, t, k)
    BY <1>7 DEF TurnMessage, DecisionsMessage
  <2>2. UNCHANGED <<store, gateways, locks, server>>
    BY <1>7 DEF TurnMessage, DecisionsMessage
  <2>3. TypeOK'
    BY <1>0, <2>1, <2>2 DEF TypeOK, CreateTask, Status, store, gateways, locks, server
  <2>4. HandlerInv'
    BY <1>0, <2>1 DEF CreateTask, HandlerInv
  <2>5. TaskInv'
    BY <1>0, <2>0, <2>1 DEF CreateTask, TaskInv, Active, TypeOK
  <2> QED BY <2>3, <2>4, <2>5 DEF TypeInv
<1> QED BY <1>1, <1>2, <1>3, <1>4, <1>5, <1>6, <1>7 DEF HandlerResumes

\* One step of the task t. gateways and locks only ever name tasks and sessions.
LEMMA TaskType ==
    ASSUME TypeInv, NEW t \in Task, TaskStep(t)
    PROVE  TypeInv'
<1>0. TypeOK /\ HandlerInv /\ TaskInv
  BY DEF TypeInv
<1>1. ASSUME TypeOK', UNCHANGED <<handlers, by>>, Active(t),
             \A x \in Task \ {t} : status'[x] = status[x]
      PROVE  TypeInv'
  <2>1. HandlerInv'
    BY <1>0, <1>1 DEF HandlerInv, handlers
  <2>2. TaskInv'
    BY <1>0, <1>1 DEF TaskInv, Active, handlers
  <2> QED BY <1>1, <2>1, <2>2 DEF TypeInv
<1>2. CASE StartTask(t)
  <2>0. Active(t) /\ runtime[by[t]] \in Session
    BY <1>0, <1>2 DEF StartTask, Active, TaskInv
  <2>1. /\ lockOf' \in [Task -> Session \cup {None}]
        /\ gw' \in [Task -> Session \cup {None}]
        /\ holder' \in [Session -> Task \cup {None}]
    BY <1>0, <1>2, <2>0 DEF StartTask, Enter, TypeOK
  <2>2. status' \in [Task -> Status]
    <3>1. \E x \in Status : status' = [status EXCEPT ![t] = x]
      BY <1>2 DEF StartTask, Enter, Status, InTurn
    <3> QED BY <1>0, <3>1 DEF TypeOK
  <2>3. waiters' \in [Session -> Seq(Task)]
    <3>1. \A s \in Session : Append(waiters[s], t) \in Seq(Task)
      BY <1>0, AppendProperties DEF TypeOK
    <3>2. waiters \in [Session -> Seq(Task)]
      BY <1>0 DEF TypeOK
    <3>3. \/ waiters' = waiters
          \/ LET s == runtime[by[t]]
             IN  waiters' = [waiters EXCEPT ![s] = Append(waiters[s], t)]
      BY <1>2 DEF StartTask
    <3> QED BY <3>1, <3>2, <3>3
  <2>4. UNCHANGED <<kind, by, store, gateways, handlers, server>>
    BY <1>2 DEF StartTask
  <2>5. TypeOK'
    BY <1>0, <2>1, <2>2, <2>3, <2>4 DEF TypeOK, store, gateways, handlers, server
  <2>6. \A x \in Task \ {t} : status'[x] = status[x]
    BY <1>0, <1>2 DEF StartTask, Enter, TypeOK
  <2> QED BY <1>1, <2>0, <2>4, <2>5, <2>6
<1>3. CASE Grant(t)
  <2>0. Active(t) /\ runtime[by[t]] \in Session
    BY <1>0, <1>3 DEF Grant, Active, TaskInv
  <2>1. /\ gw' \in [Task -> Session \cup {None}]
        /\ holder' \in [Session -> Task \cup {None}]
    BY <1>0, <1>3, <2>0 DEF Grant, Enter, TypeOK
  <2>2. status' \in [Task -> Status]
    <3>1. \E x \in Status : status' = [status EXCEPT ![t] = x]
      BY <1>3 DEF Grant, Enter, Status, InTurn
    <3> QED BY <1>0, <3>1 DEF TypeOK
  <2>3. waiters' \in [Session -> Seq(Task)]
    <3>1. \A s \in Session : waiters[s] # << >> => Tail(waiters[s]) \in Seq(Task)
      BY <1>0, HeadTailProperties DEF TypeOK
    <3>2. waiters \in [Session -> Seq(Task)]
      BY <1>0 DEF TypeOK
    <3> QED BY <1>3, <3>1, <3>2 DEF Grant
  <2>4. UNCHANGED <<kind, by, lockOf, store, gateways, handlers, server>>
    BY <1>3 DEF Grant
  <2>5. TypeOK'
    BY <1>0, <2>1, <2>2, <2>3, <2>4 DEF TypeOK, store, gateways, handlers, server
  <2>6. \A x \in Task \ {t} : status'[x] = status[x]
    BY <1>0, <1>3 DEF Grant, Enter, TypeOK
  <2> QED BY <1>1, <2>0, <2>4, <2>5, <2>6
<1>4. ASSUME NEW from \in InTurn, NEW to \in Status, Advance(t, from, to),
             mcp' \in [Session -> Task \cup {None}],
             graph' \in [Session -> BOOLEAN], open' \subseteq Task
      PROVE  TypeInv'
  <2>1. TypeOK'
    BY <1>0, <1>4 DEF TypeOK, Advance, store, locks, handlers, server
  <2>2. Active(t) /\ \A x \in Task \ {t} : status'[x] = status[x]
    BY <1>0, <1>4 DEF TypeOK, Advance, Active, InTurn
  <2> QED BY <1>1, <1>4, <2>1, <2>2 DEF Advance, handlers
<1>5. InTurn \subseteq Status
  BY DEF Status
<1>6. /\ mcp \in [Session -> Task \cup {None}]
      /\ graph \in [Session -> BOOLEAN] /\ open \subseteq Task
  BY <1>0 DEF TypeOK
<1>7. CASE GuardrailBlocks(t)
  BY <1>4, <1>5, <1>6, <1>7 DEF GuardrailBlocks, gateways, InTurn
<1>8. CASE EnsureGraph(t)
  <2>1. /\ mcp' \in [Session -> Task \cup {None}]
        /\ graph' \in [Session -> BOOLEAN] /\ open' \subseteq Task
    BY <1>6, <1>8 DEF EnsureGraph, gateways
  <2> QED BY <1>4, <1>5, <1>8, <2>1 DEF EnsureGraph, InTurn
<1>9. CASE Connected(t)
  BY <1>4, <1>5, <1>6, <1>9 DEF Connected, InTurn
<1>10. CASE BuildFails(t)
  BY <1>4, <1>5, <1>6, <1>10 DEF BuildFails, CloseClient, InTurn
<1>11. CASE GraphBuilt(t)
  BY <1>4, <1>5, <1>6, <1>11 DEF GraphBuilt, InTurn
<1>12. CASE StreamBegins(t)
  BY <1>4, <1>5, <1>6, <1>12 DEF StreamBegins, gateways, InTurn
<1>13. CASE TurnEnds(t)
  <2>1. /\ status' \in [Task -> Status]
        /\ holder' \in [Session -> Task \cup {None}]
        /\ waiters' \in [Session -> Seq(Task)]
    BY <1>0, <1>13, LeaveType DEF TurnEnds
  <2>2. UNCHANGED <<kind, by, lockOf, gw>>
    BY <1>13 DEF TurnEnds, Leave
  <2>3. lastActive' \in [Session -> Nat] /\ clock' \in Nat
    <3>1. /\ clock \in Nat /\ lastActive \in [Session -> Nat]
          /\ runtime[by[t]] \in Session
      BY <1>0, <1>13 DEF TypeOK, TurnEnds, TaskInv, Active
    <3>2. clock' = clock + 1 /\ clock + 1 \in Nat
      BY <1>13, <3>1 DEF TurnEnds, Touch
    <3>3. lastActive' = [lastActive EXCEPT ![runtime[by[t]]] = clock + 1]
      BY <1>13 DEF TurnEnds, Touch
    <3>4. ASSUME NEW n \in Nat, NEW s \in Session,
                 lastActive' = [lastActive EXCEPT ![s] = n]
          PROVE  lastActive' \in [Session -> Nat]
      BY <3>1, <3>4
    <3> QED BY <3>1, <3>2, <3>3, <3>4
  <2>4. UNCHANGED <<cache, owner, born, gateways, handlers, server>>
    BY <1>13 DEF TurnEnds, Touch
  <2>5. TypeOK'
    BY <1>0, <2>1, <2>2, <2>3, <2>4 DEF TypeOK, gateways, handlers, server
  <2>6. Active(t) /\ \A x \in Task \ {t} : status'[x] = status[x]
    BY <1>0, <1>13 DEF TypeOK, TurnEnds, Leave, Active
  <2> QED BY <1>1, <2>2, <2>4, <2>5, <2>6
<1> QED
  BY <1>2, <1>3, <1>7, <1>8, <1>9, <1>10, <1>11, <1>12, <1>13 DEF TaskStep

LEMMA ServerType ==
    ASSUME TypeInv, ShutdownBegins \/ ShutdownEnds \/ \E s \in Session : DestroyOne(s)
    PROVE  TypeInv'
<1>0. TypeOK /\ HandlerInv /\ TaskInv
  BY DEF TypeInv
<1>1. CASE ShutdownBegins
  BY <1>0, <1>1 DEF ShutdownBegins, TypeInv, TypeOK, HandlerInv, TaskInv, Active,
                    store, gateways, locks, handlers, tasks
<1>2. CASE ShutdownEnds
  <2>1. TypeOK'
    BY <1>0, <1>2, EmptySeq DEF ShutdownEnds, TypeOK, gateways, handlers, Status
  <2>2. HandlerInv' /\ TaskInv'
    BY <1>0, <1>2 DEF ShutdownEnds, HandlerInv, TaskInv, Active, TypeOK, handlers
  <2> QED BY <2>1, <2>2 DEF TypeInv
<1>3. ASSUME NEW s \in Session, DestroyOne(s) PROVE TypeInv'
  <2>1. TypeOK'
    BY <1>0, <1>3 DEF DestroyOne, CloseClient, TypeOK, store, locks, handlers, tasks
  <2>2. HandlerInv' /\ TaskInv'
    BY <1>0, <1>3 DEF DestroyOne, HandlerInv, TaskInv, Active, handlers, tasks
  <2> QED BY <2>1, <2>2 DEF TypeInv
<1> QED BY <1>1, <1>2, <1>3

LEMMA TypeNext == ConstantsAssumption /\ TypeInv /\ [Next]_vars => TypeInv'
<1> SUFFICES ASSUME ConstantsAssumption, TypeInv, [Next]_vars PROVE TypeInv'
  OBVIOUS
<1>1. CASE UNCHANGED vars
  BY <1>1 DEF TypeInv, TypeOK, HandlerInv, TaskInv, Active, vars, store, gateways, locks, handlers,
              tasks, server
<1> QED BY <1>1, HandlerType, TaskType, ServerType DEF Next, Stopped

(* Every variable keeps its type in every reachable state.                         *)
THEOREM TypeCorrect == Spec => []TypeOK
<1>1. Init => TypeInv
  BY TypeInit
<1>2. TypeInv /\ [Next]_vars => TypeInv'
  BY TypeNext, ConstantsAssumption
<1>3. TypeInv => TypeOK
  BY DEF TypeInv
<1> QED BY <1>1, <1>2, <1>3, PTL DEF Spec

-----------------------------------------------------------------------------
(* Locks and tasks. LockInv is inductive once a queued task is known to have       *)
(* entered some session's queue.                                                   *)
QueuedInv == \A t \in Task : status[t] = "queued" => lockOf[t] \in Session

LockIInv == TypeInv /\ LockInv /\ QueuedInv

LEMMA LockUnchanged ==
    ASSUME LockInv, QueuedInv, UNCHANGED <<holder, lockOf>>,
           \A t \in Task : Running(t)' <=> Running(t),
           \A t \in Task : status'[t] = "queued" => status[t] = "queued",
           TypeOK
    PROVE  LockInv' /\ QueuedInv'
<1>1. \A s \in Session : holder[s] # None => holder[s] \in Task
  BY DEF TypeOK
<1>2. LockInv'
  BY <1>1 DEF LockInv
<1> QED BY <1>2 DEF QueuedInv

\* A task that ends gives its lock back and leaves every other lock alone.
LEMMA LockLeave ==
    ASSUME TypeOK, LockInv, QueuedInv, NEW t \in Task, Leave(t)
    PROVE  LockInv' /\ QueuedInv'
<1>1. /\ \A x \in Task : status'[x] = IF x = t THEN "done" ELSE status[x]
      /\ \A s \in Session : holder'[s] = IF holder[s] = t THEN None ELSE holder[s]
      /\ lockOf' = lockOf
  BY DEF Leave, TypeOK
<1>2. /\ \A x \in Task : Running(x)' <=> (x # t /\ Running(x))
      /\ \A x \in Task : lockOf[x] # None => lockOf[x] \in Session
      /\ \A s \in Session : holder[s] # None => holder[s] \in Task
  BY <1>1 DEF Running, InTurn, TypeOK
<1>3. LockInv'
  BY <1>1, <1>2 DEF LockInv
<1>4. QueuedInv'
  BY <1>1 DEF QueuedInv
<1> QED BY <1>3, <1>4

\* A task that enters a free lock becomes its holder.
LEMMA LockEnter ==
    ASSUME ConstantsAssumption, TypeOK, LockInv, QueuedInv,
           NEW t \in Task, NEW s \in Session,
           ~Running(t), holder[s] = None, Enter(t),
           holder' = [holder EXCEPT ![s] = t],
           lockOf' = [lockOf EXCEPT ![t] = s]
    PROVE  LockInv' /\ QueuedInv'
<1>1. /\ status'[t] \in InTurn
      /\ \A x \in Task \ {t} : status'[x] = status[x]
  BY DEF Enter, TypeOK, InTurn
<1>2. /\ Running(t)' /\ \A x \in Task \ {t} : Running(x)' <=> Running(x)
      /\ \A x \in Task \ {t} : lockOf'[x] = lockOf[x]
      /\ lockOf'[t] = s
      /\ \A x \in Session \ {s} : holder'[x] = holder[x]
      /\ holder'[s] = t
      /\ \A x \in Session : holder[x] # None => holder[x] \in Task
      /\ \A x \in Task : lockOf[x] # None => lockOf[x] \in Session
      /\ s # None /\ t # None
  BY <1>1 DEF Running, TypeOK, ConstantsAssumption
<1>3. \A x \in Session : holder[x] # t
  BY <1>2 DEF LockInv
<1>4. LockInv'
  <2>1. ASSUME NEW x \in Session, holder'[x] # None
        PROVE  status'[holder'[x]] \in InTurn /\ lockOf'[holder'[x]] = x
    <3>1. CASE x = s
      BY <1>1, <1>2, <3>1
    <3>2. CASE x # s
      BY <1>1, <1>2, <1>3, <2>1, <3>2 DEF LockInv, Running
    <3> QED BY <3>1, <3>2
  <2>2. ASSUME NEW x \in Task, Running(x)'
        PROVE  lockOf'[x] # None /\ holder'[lockOf'[x]] = x
    <3>1. CASE x = t
      BY <1>2, <3>1
    <3>2. CASE x # t
      <4>1. lockOf[x] # None /\ lockOf[x] \in Session /\ holder[lockOf[x]] = x
        BY <1>2, <2>2, <3>2 DEF LockInv
      <4>2. lockOf[x] # s
        BY <4>1 DEF ConstantsAssumption
      <4> QED BY <1>2, <3>2, <4>1, <4>2
    <3> QED BY <3>1, <3>2
  <2> QED BY <2>1, <2>2 DEF LockInv, Running
<1>5. QueuedInv'
  BY <1>1, <1>2 DEF QueuedInv, InTurn
<1> QED BY <1>4, <1>5

LEMMA LockInit == Init => LockInv /\ QueuedInv
BY DEF Init, LockInv, QueuedInv, Running, InTurn

LEMMA LockNext ==
    ASSUME ConstantsAssumption, LockIInv, [Next]_vars
    PROVE  LockInv' /\ QueuedInv'
<1>0. TypeOK /\ HandlerInv /\ TaskInv /\ LockInv /\ QueuedInv
  BY DEF LockIInv, TypeInv
<1>1. ASSUME UNCHANGED <<locks, tasks>> PROVE LockInv' /\ QueuedInv'
  BY <1>0, <1>1, LockUnchanged DEF locks, tasks, Running
<1>2. ASSUME NEW c \in Conn, Disconnect(c) PROVE LockInv' /\ QueuedInv'
  <2>1. CASE InFlight(c)
    <3>1. turnTask[c] \in Task /\ Leave(turnTask[c])
      BY <1>0, <1>2, <2>1 DEF Disconnect, InFlight, TypeOK
    <3> QED BY <1>0, <3>1, LockLeave
  <2>2. CASE ~(InFlight(c))
    BY <1>1, <1>2, <2>2 DEF Disconnect
  <2> QED BY <2>1, <2>2
<1>3. ASSUME NEW c \in Conn, NEW t \in Task,
             TurnMessage(c, t) \/ DecisionsMessage(c, t)
      PROVE  LockInv' /\ QueuedInv'
  <2>1. UNCHANGED <<holder, lockOf>>
    BY <1>3 DEF TurnMessage, DecisionsMessage, CreateTask, locks
  <2>2. status[t] = "unused" /\ status' = [status EXCEPT ![t] = "created"]
    BY <1>3 DEF TurnMessage, DecisionsMessage, CreateTask
  <2>3. /\ \A x \in Task : Running(x)' <=> Running(x)
        /\ \A x \in Task : status'[x] = "queued" => status[x] = "queued"
    BY <1>0, <2>2 DEF Running, InTurn, TypeOK
  <2> QED BY <1>0, <2>1, <2>3, LockUnchanged
<1>4. ASSUME NEW t \in Task, StartTask(t) PROVE LockInv' /\ QueuedInv'
  <2> DEFINE s == runtime[by[t]]
  <2>1. s \in Session /\ ~Running(t)
    BY <1>0, <1>4 DEF StartTask, TaskInv, Active, Running, InTurn
  <2>2. lockOf' = [lockOf EXCEPT ![t] = s]
    BY <1>4 DEF StartTask
  <2>3. CASE holder[s] = None /\ waiters[s] = << >>
    <3>1. Enter(t) /\ holder' = [holder EXCEPT ![s] = t]
      BY <1>4, <2>3 DEF StartTask
    <3> HIDE DEF s
    <3> QED BY <1>0, <2>1, <2>2, <2>3, <3>1, LockEnter
  <2>4. CASE ~(holder[s] = None /\ waiters[s] = << >>)
    <3>1. status' = [status EXCEPT ![t] = "queued"] /\ holder' = holder
      BY <1>4, <2>4 DEF StartTask
    <3> HIDE DEF s
    <3>2. /\ \A x \in Task : Running(x)' <=> Running(x)
          /\ \A x \in Task : Running(x) => x # t
          /\ \A x \in Task \ {t} : lockOf'[x] = lockOf[x] /\ status'[x] = status[x]
          /\ lockOf'[t] = s
          /\ \A x \in Session : holder[x] # None => holder[x] \in Task
      BY <1>0, <2>1, <2>2, <3>1 DEF Running, InTurn, TypeOK
    <3>3. LockInv'
      BY <1>0, <3>1, <3>2 DEF LockInv
    <3>4. QueuedInv'
      BY <1>0, <2>1, <3>2 DEF QueuedInv
    <3> QED BY <3>3, <3>4
  <2> QED BY <2>3, <2>4
<1>5. ASSUME NEW t \in Task, Grant(t) PROVE LockInv' /\ QueuedInv'
  <2>1. /\ lockOf[t] \in Session /\ ~Running(t)
        /\ lockOf' = [lockOf EXCEPT ![t] = lockOf[t]]
    BY <1>0, <1>5 DEF Grant, QueuedInv, Running, InTurn, TypeOK
  <2>2. /\ holder[lockOf[t]] = None /\ Enter(t)
        /\ holder' = [holder EXCEPT ![lockOf[t]] = t]
    BY <1>5 DEF Grant
  <2> QED BY <1>0, <2>1, <2>2, LockEnter
<1>6. ASSUME NEW t \in Task, NEW from \in InTurn, NEW to \in InTurn,
             Advance(t, from, to)
      PROVE  LockInv' /\ QueuedInv'
  <2>1. UNCHANGED <<holder, lockOf>>
    BY <1>6 DEF Advance, locks
  <2>2. status[t] \in InTurn /\ status' = [status EXCEPT ![t] = to]
    BY <1>6 DEF Advance
  <2>3. /\ \A x \in Task : Running(x)' <=> Running(x)
        /\ \A x \in Task : status'[x] = "queued" => status[x] = "queued"
    BY <1>0, <2>2 DEF Running, InTurn, TypeOK
  <2> QED BY <1>0, <2>1, <2>3, LockUnchanged
<1>7. ASSUME NEW t \in Task, TaskStep(t) PROVE LockInv' /\ QueuedInv'
  <2>1. CASE GuardrailBlocks(t)
    BY <2>1, <1>6 DEF GuardrailBlocks, InTurn
  <2>2. CASE EnsureGraph(t)
    BY <2>2, <1>6 DEF EnsureGraph, InTurn
  <2>3. CASE Connected(t)
    BY <2>3, <1>6 DEF Connected, InTurn
  <2>4. CASE BuildFails(t)
    BY <2>4, <1>6 DEF BuildFails, InTurn
  <2>5. CASE GraphBuilt(t)
    BY <2>5, <1>6 DEF GraphBuilt, InTurn
  <2>6. CASE StreamBegins(t)
    BY <2>6, <1>6 DEF StreamBegins, InTurn
  <2>7. CASE TurnEnds(t)
    BY <1>0, <2>7, LockLeave DEF TurnEnds
  <2> QED BY <1>4, <1>5, <1>7, <2>1, <2>2, <2>3, <2>4, <2>5, <2>6, <2>7 DEF TaskStep
<1>8. CASE ShutdownEnds
  <2>1. /\ \A x \in Task : ~Running(x)' /\ status'[x] # "queued"
        /\ \A s \in Session : holder'[s] = None
    BY <1>0, <1>8 DEF ShutdownEnds, Active, Running, InTurn, TypeOK, Status
  <2> QED BY <2>1 DEF LockInv, QueuedInv
<1>9. ASSUME NEW c \in Conn,
             \/ \E s \in Session : InitResume(c, s)
             \/ InitNew(c) \/ Clear(c) \/ HandlerResumes(c)
      PROVE  LockInv' /\ QueuedInv'
  BY <1>1, <1>9 DEF InitResume, InitNew, Clear, HandlerResumes, Cleared, Evicted
<1>10. CASE ShutdownBegins \/ Stopped \/ \E s \in Session : DestroyOne(s)
  BY <1>1, <1>10 DEF ShutdownBegins, Stopped, DestroyOne, vars
<1>11. CASE UNCHANGED vars
  BY <1>1, <1>11 DEF vars
<1> QED BY <1>2, <1>3, <1>7, <1>8, <1>9, <1>10, <1>11 DEF Next

(* A held lock belongs to a running turn that entered it, and every running turn   *)
(* holds the lock it entered, whatever clients do: cancellation, eviction and      *)
(* session switches never leak a lock or steal one.                                *)
THEOREM LocksCorrect == Spec => []LockInv
<1>1. Init => LockIInv
  BY TypeInit, LockInit DEF LockIInv
<1>2. LockIInv /\ [Next]_vars => LockIInv'
  BY TypeNext, LockNext, ConstantsAssumption DEF LockIInv
<1>3. LockIInv => LockInv
  BY DEF LockIInv
<1> QED BY <1>1, <1>2, <1>3, PTL DEF Spec

-----------------------------------------------------------------------------
(* Mutual exclusion of turns. A client that does not switch sessions during its    *)
(* own turn keeps the handler's runtime fixed as long as a task of the handler has *)
(* not ended; so the gateway a task runs is the one whose lock it entered.         *)
StableInv ==
    /\ \A c \in Conn : pc[c] \in {"clearing", "evicting"} => Quiet(c)
    /\ \A t \in Task : status[t] = "queued" => lockOf[t] = runtime[by[t]]
    /\ \A t \in Task : Running(t) =>
            gw[t] = lockOf[t] /\ lockOf[t] = runtime[by[t]]

StableIInv == LockIInv /\ StableInv

LEMMA StableInit == Init => StableInv
BY DEF Init, StableInv, Running, InTurn

\* A handler that moves on while none of its tasks is active.
LEMMA StableHandler ==
    ASSUME TypeOK, StableInv, NEW c \in Conn, Quiet(c), UNCHANGED tasks,
           \A x \in Conn \ {c} : runtime'[x] = runtime[x] /\ pc'[x] = pc[x],
           TaskInv
    PROVE  StableInv'
<1>1. \A x \in Conn : Quiet(x)' <=> Quiet(x)
  BY DEF Quiet, Active, tasks
<1>2. \A t \in Task : Active(t) => by[t] \in Conn \ {c}
  BY DEF Quiet, TaskInv
<1>3. \A t \in Task : (status[t] = "queued" \/ Running(t)) => Active(t)
  BY DEF Active, Running, InTurn
<1>4. \A x \in Conn : pc'[x] \in {"clearing", "evicting"} => Quiet(x)'
  BY <1>1 DEF StableInv
<1>5. \A t \in Task : status'[t] = "queued" => lockOf'[t] = runtime'[by'[t]]
  BY <1>2, <1>3 DEF StableInv, tasks
<1>6. \A t \in Task : Running(t)' =>
          gw'[t] = lockOf'[t] /\ lockOf'[t] = runtime'[by'[t]]
  BY <1>2, <1>3 DEF StableInv, tasks, Running
<1> QED BY <1>4, <1>5, <1>6 DEF StableInv

\* Steps that move one task t and neither runtime nor the handlers' suspensions.
LEMMA StableTask ==
    ASSUME TypeOK, StableInv, NEW t \in Task, Active(t),
           UNCHANGED <<runtime, by>>,
           \A c \in Conn : pc'[c] \in {"clearing", "evicting"} => pc'[c] = pc[c],
           \A x \in Task \ {t} :
               status'[x] = status[x] /\ lockOf'[x] = lockOf[x] /\ gw'[x] = gw[x],
           status'[t] = "queued" => lockOf'[t] = runtime[by[t]],
           Running(t)' => gw'[t] = lockOf'[t] /\ lockOf'[t] = runtime[by[t]]
    PROVE  StableInv'
<1>1. \A x \in Task : Active(x)' => Active(x)
  BY DEF Active
<1>2. \A c \in Conn : Quiet(c) => Quiet(c)'
  BY <1>1 DEF Quiet
<1>3. \A c \in Conn : pc'[c] \in {"clearing", "evicting"} => Quiet(c)'
  BY <1>2 DEF StableInv
<1>4. \A x \in Task : status'[x] = "queued" => lockOf'[x] = runtime'[by'[x]]
  BY DEF StableInv
<1>5. \A x \in Task : Running(x)' =>
          gw'[x] = lockOf'[x] /\ lockOf'[x] = runtime'[by'[x]]
  BY DEF StableInv, Running
<1> QED BY <1>3, <1>4, <1>5 DEF StableInv

LEMMA StableNext ==
    ASSUME ConstantsAssumption, SwitchMidTurn = FALSE, StableIInv, [Next]_vars
    PROVE  StableInv'
<1>0. TypeOK /\ HandlerInv /\ TaskInv /\ LockInv /\ StableInv
  BY DEF StableIInv, LockIInv, TypeInv
<1>1. ASSUME NEW c \in Conn,
             \/ \E s \in Session : InitResume(c, s)
             \/ InitNew(c) \/ Clear(c) \/ HandlerResumes(c)
      PROVE  StableInv'
  <2>1. Quiet(c)
    BY <1>0, <1>1 DEF InitResume, InitNew, Clear, HandlerResumes, Cleared, Evicted,
                      MaySwitch, StableInv
  <2>2. UNCHANGED tasks
    BY <1>1 DEF InitResume, InitNew, Clear, HandlerResumes, Cleared, Evicted
  <2>3. ASSUME NEW u, NEW id, NEW cached, NEW dead,
               Install(c, u, id, cached, dead)
        PROVE  \A x \in Conn \ {c} : runtime'[x] = runtime[x] /\ pc'[x] = pc[x]
    BY <1>0, <2>3 DEF Install, TypeOK
  <2>4. ASSUME NEW where, NEW s, NEW u, NEW id, NEW cached, NEW dead,
               Await(c, where, s, u, id, cached, dead)
        PROVE  \A x \in Conn \ {c} : runtime'[x] = runtime[x] /\ pc'[x] = pc[x]
    BY <1>0, <2>4 DEF Await, TypeOK
  <2>5. ASSUME NEW u, NEW id, NEW cached, NEW dead,
               EvictAndCreate(c, u, id, cached, dead)
        PROVE  \A x \in Conn \ {c} : runtime'[x] = runtime[x] /\ pc'[x] = pc[x]
    BY <2>3, <2>4, <2>5 DEF EvictAndCreate
  <2>6. ASSUME NEW s \in Session, InitResume(c, s)
        PROVE  \A x \in Conn \ {c} : runtime'[x] = runtime[x] /\ pc'[x] = pc[x]
    BY <1>0, <2>6 DEF InitResume, TypeOK
  <2>7. CASE InitNew(c)
    BY <1>0, <2>1, <2>2, <2>5, <2>7, StableHandler DEF InitNew
  <2>8. CASE Clear(c)
    BY <1>0, <2>1, <2>2, <2>4, <2>5, <2>8, StableHandler DEF Clear
  <2>9. CASE HandlerResumes(c)
    BY <1>0, <2>1, <2>2, <2>3, <2>5, <2>9, StableHandler
       DEF HandlerResumes, Cleared, Evicted
  <2>10. CASE \E s \in Session : InitResume(c, s)
    BY <1>0, <2>1, <2>2, <2>6, <2>10, StableHandler
  <2> QED BY <1>1, <2>7, <2>8, <2>9, <2>10
<1>2. ASSUME NEW c \in Conn, Disconnect(c) PROVE StableInv'
  <2>1. /\ UNCHANGED <<runtime, by, lockOf, gw>>
        /\ \A x \in Conn : pc'[x] \in {"clearing", "evicting"} => pc'[x] = pc[x]
    BY <1>0, <1>2 DEF Disconnect, Leave, tasks, TypeOK
  <2>2. CASE InFlight(c)
    <3>1. PICK t \in Task : Active(t) /\ status' = [status EXCEPT ![t] = "done"]
      BY <1>0, <1>2, <2>2 DEF Disconnect, InFlight, Leave, TypeOK
    <3>2. /\ \A x \in Task \ {t} : status'[x] = status[x]
          /\ status'[t] = "done"
      BY <1>0, <3>1 DEF TypeOK
    <3>3. ~Running(t)'
      BY <3>2 DEF Running, InTurn
    <3> QED BY <1>0, <2>1, <3>1, <3>2, <3>3, StableTask
  <2>3. CASE ~(InFlight(c))
    BY <1>0, <1>2, <2>1, <2>3
       DEF Disconnect, StableInv, Quiet, Active, Running, tasks
  <2> QED BY <2>2, <2>3
<1>3. ASSUME NEW c \in Conn, NEW t \in Task,
             TurnMessage(c, t) \/ DecisionsMessage(c, t)
      PROVE  StableInv'
  <2>1. /\ pc[c] = "ready" /\ status[t] = "unused"
        /\ UNCHANGED <<runtime, pc, lockOf, gw>>
        /\ status' = [status EXCEPT ![t] = "created"]
        /\ by' = [by EXCEPT ![t] = c]
    BY <1>3 DEF TurnMessage, DecisionsMessage, CreateTask, Ready
  <2>2. /\ status'[t] = "created" /\ by'[t] = c
        /\ \A x \in Task \ {t} : status'[x] = status[x] /\ by'[x] = by[x]
    BY <1>0, <2>1 DEF TypeOK
  <2>3. \A x \in Conn : pc'[x] \in {"clearing", "evicting"} => Quiet(x)'
    BY <1>0, <2>1, <2>2 DEF StableInv, Quiet, Active
  <2>4. \A x \in Task : status'[x] = "queued" => lockOf'[x] = runtime'[by'[x]]
    BY <1>0, <2>1, <2>2 DEF StableInv
  <2>5. \A x \in Task : Running(x)' =>
            gw'[x] = lockOf'[x] /\ lockOf'[x] = runtime'[by'[x]]
    BY <1>0, <2>1, <2>2 DEF StableInv, Running, InTurn
  <2> QED BY <2>3, <2>4, <2>5 DEF StableInv
<1>4. ASSUME NEW t \in Task, StartTask(t) PROVE StableInv'
  <2>1. /\ Active(t) /\ UNCHANGED <<runtime, by, pc>>
        /\ lockOf' = [lockOf EXCEPT ![t] = runtime[by[t]]]
    BY <1>4 DEF StartTask, Active, handlers
  <2>2. \A x \in Task \ {t} :
            status'[x] = status[x] /\ lockOf'[x] = lockOf[x] /\ gw'[x] = gw[x]
    BY <1>0, <1>4, <2>1 DEF StartTask, Enter, TypeOK
  <2>3. lockOf'[t] = runtime[by[t]]
    BY <1>0, <2>1 DEF TypeOK
  <2>4. Running(t)' => gw'[t] = runtime[by[t]]
    BY <1>0, <1>4 DEF StartTask, Enter, TypeOK, Running, InTurn
  <2> QED BY <1>0, <2>1, <2>2, <2>3, <2>4, StableTask
<1>5. ASSUME NEW t \in Task, Grant(t) PROVE StableInv'
  <2>1. /\ Active(t) /\ UNCHANGED <<runtime, by, pc, lockOf>>
        /\ lockOf[t] = runtime[by[t]]
    BY <1>0, <1>5 DEF Grant, Active, handlers, StableInv
  <2>2. \A x \in Task \ {t} :
            status'[x] = status[x] /\ lockOf'[x] = lockOf[x] /\ gw'[x] = gw[x]
    BY <1>0, <1>5, <2>1 DEF Grant, Enter, TypeOK
  <2>3. gw'[t] = runtime[by[t]]
    BY <1>0, <1>5 DEF Grant, Enter, TypeOK
  <2> QED BY <1>0, <2>1, <2>2, <2>3, StableTask
<1>6. ASSUME NEW t \in Task, NEW from \in InTurn, NEW to \in InTurn,
             Advance(t, from, to)
      PROVE  StableInv'
  <2>1. /\ Active(t) /\ Running(t)
        /\ UNCHANGED <<runtime, by, pc, lockOf, gw>>
    BY <1>6 DEF Advance, Active, Running, InTurn, handlers
  <2>2. status'[t] = to /\ \A x \in Task \ {t} : status'[x] = status[x]
    BY <1>0, <1>6 DEF Advance, TypeOK
  <2>3. status'[t] # "queued"
    BY <2>2 DEF InTurn
  <2>4. gw[t] = lockOf[t] /\ lockOf[t] = runtime[by[t]]
    BY <1>0, <2>1 DEF StableInv
  <2> QED BY <1>0, <2>1, <2>2, <2>3, <2>4, StableTask
<1>7. ASSUME NEW t \in Task, TurnEnds(t) PROVE StableInv'
  <2>1. /\ Active(t) /\ UNCHANGED <<runtime, by, pc, lockOf, gw>>
        /\ status' = [status EXCEPT ![t] = "done"]
    BY <1>7 DEF TurnEnds, Leave, Active, handlers
  <2>2. status'[t] = "done" /\ \A x \in Task \ {t} : status'[x] = status[x]
    BY <1>0, <2>1 DEF TypeOK
  <2>3. ~Running(t)'
    BY <2>2 DEF Running, InTurn
  <2> QED BY <1>0, <2>1, <2>2, <2>3, StableTask
<1>8. ASSUME NEW t \in Task, TaskStep(t) PROVE StableInv'
  <2>1. CASE GuardrailBlocks(t)
    BY <2>1, <1>6 DEF GuardrailBlocks, InTurn
  <2>2. CASE EnsureGraph(t)
    BY <2>2, <1>6 DEF EnsureGraph, InTurn
  <2>3. CASE Connected(t)
    BY <2>3, <1>6 DEF Connected, InTurn
  <2>4. CASE BuildFails(t)
    BY <2>4, <1>6 DEF BuildFails, InTurn
  <2>5. CASE GraphBuilt(t)
    BY <2>5, <1>6 DEF GraphBuilt, InTurn
  <2>6. CASE StreamBegins(t)
    BY <2>6, <1>6 DEF StreamBegins, InTurn
  <2> QED BY <1>4, <1>5, <1>7, <1>8, <2>1, <2>2, <2>3, <2>4, <2>5, <2>6 DEF TaskStep
<1>9. CASE ShutdownEnds
  <2>1. \A x \in Task : ~Running(x)' /\ status'[x] # "queued" /\ ~Active(x)'
    BY <1>0, <1>9 DEF ShutdownEnds, Active, Running, InTurn, TypeOK, Status
  <2> QED BY <2>1 DEF StableInv, Quiet
<1>10. ASSUME UNCHANGED <<handlers, tasks>> PROVE StableInv'
  BY <1>0, <1>10 DEF StableInv, Quiet, Active, Running, handlers, tasks
<1>11. CASE ShutdownBegins \/ Stopped \/ \E s \in Session : DestroyOne(s)
  BY <1>10, <1>11 DEF ShutdownBegins, Stopped, DestroyOne, vars
<1>12. CASE UNCHANGED vars
  BY <1>10, <1>12 DEF vars
<1> QED BY <1>1, <1>2, <1>3, <1>8, <1>9, <1>11, <1>12 DEF Next

LEMMA StableImpliesMutex == StableIInv => TurnMutex
BY DEF StableIInv, LockIInv, StableInv, LockInv, TurnMutex

\* Only the end of a turn stamps a session while a running turn is done, and it
\* stamps the handler's runtime.
LEMMA StampStep ==
    ASSUME StableIInv, [Next]_vars, NEW t \in Task, Running(t),
           status'[t] = "done", NEW s \in Session \ {gw[t]}
    PROVE  lastActive'[s] = lastActive[s]
<1>0. TypeOK /\ TaskInv /\ StableInv
  BY DEF StableIInv, LockIInv, TypeInv
<1>1. status[t] # "done" /\ gw[t] = runtime[by[t]]
  BY <1>0 DEF Running, InTurn, StableInv
<1>2. ASSUME NEW x \in Task, TurnEnds(x) PROVE lastActive'[s] = lastActive[s]
  <2>1. x = t
    BY <1>0, <1>1, <1>2 DEF TurnEnds, Leave, TypeOK
  <2>2. lastActive' = [lastActive EXCEPT ![gw[t]] = clock + 1]
    BY <1>1, <1>2, <2>1 DEF TurnEnds, Touch
  <2> QED BY <1>0, <2>2 DEF TypeOK
<1>3. ASSUME UNCHANGED tasks PROVE FALSE
  BY <1>1, <1>3 DEF tasks
<1>4. CASE UNCHANGED lastActive
  BY <1>4
<1>5. ASSUME NEW x \in Task, TaskStep(x)
      PROVE  UNCHANGED lastActive \/ TurnEnds(x)
  BY <1>5 DEF TaskStep, StartTask, Grant, GuardrailBlocks, EnsureGraph, Connected,
              BuildFails, GraphBuilt, StreamBegins, Advance, store
<1>6. ASSUME NEW c \in Conn,
             \/ \E x \in Session : InitResume(c, x)
             \/ InitNew(c) \/ Clear(c) \/ HandlerResumes(c)
      PROVE  FALSE
  BY <1>3, <1>6 DEF InitResume, InitNew, Clear, HandlerResumes, Cleared, Evicted
<1>7. ASSUME NEW c \in Conn,
             \/ Disconnect(c)
             \/ \E x \in Task : TurnMessage(c, x) \/ DecisionsMessage(c, x)
      PROVE  UNCHANGED lastActive
  BY <1>7 DEF Disconnect, TurnMessage, DecisionsMessage, store
<1>8. CASE ShutdownBegins \/ ShutdownEnds \/ Stopped \/ \E x \in Session : DestroyOne(x)
  BY <1>4, <1>8 DEF ShutdownBegins, ShutdownEnds, Stopped, DestroyOne, vars, store
<1>9. CASE UNCHANGED vars
  BY <1>4, <1>9 DEF vars, store
<1> QED BY <1>2, <1>4, <1>5, <1>6, <1>7, <1>8, <1>9 DEF Next

(* If clients send no init and no clear during their own turn, at most one turn    *)
(* runs on a conversation at any time.                                             *)
THEOREM OneTurnPerConversation ==
    ASSUME SwitchMidTurn = FALSE
    PROVE  Spec => []TurnMutex
<1>1. Init => StableIInv
  BY TypeInit, LockInit, StableInit DEF StableIInv, LockIInv
<1>2. StableIInv /\ [Next]_vars => StableIInv'
  BY TypeNext, LockNext, StableNext, ConstantsAssumption DEF StableIInv, LockIInv
<1>3. StableIInv => TurnMutex
  BY StableImpliesMutex
<1> QED BY <1>1, <1>2, <1>3, PTL DEF Spec

(* Under the same discipline of the clients, a turn that ends moves only its own   *)
(* conversation in the LRU order that eviction follows.                            *)
THEOREM StampsOwnSessionHolds ==
    ASSUME SwitchMidTurn = FALSE
    PROVE  Spec => StampsOwnSession
<1>1. Init => StableIInv
  BY TypeInit, LockInit, StableInit DEF StableIInv, LockIInv
<1>2. StableIInv /\ [Next]_vars => StableIInv'
  BY TypeNext, LockNext, StableNext, ConstantsAssumption DEF StableIInv, LockIInv
<1>3. StableIInv /\ [Next]_vars =>
        [\A t \in Task : Running(t) /\ status'[t] = "done" =>
          \A s \in Session \ {gw[t]} : lastActive'[s] = lastActive[s]]_vars
  BY StampStep
<1> QED BY <1>1, <1>2, <1>3, PTL DEF Spec, StampsOwnSession
-----------------------------------------------------------------------------
(* Creation. A session under creation is not born yet, and belongs to one handler.   *)
NewInv ==
    \A c \in Conn : newId[c] # None =>
        /\ newId[c] \notin born
        /\ \A x \in Conn \ {c} : newId[x] # newId[c]

\* What a handler's step may do to the cache and to what is born.
Creates(c) ==
    \/ \E id \in Session \ born :
         /\ \A x \in Conn \ {c} : newId[x] # id
         /\ cache' \subseteq cache \cup {id} /\ born' = born \cup {id}
         /\ newId' = [newId EXCEPT ![c] = None]
    \/ \E id \in Session \ born :
         /\ \A x \in Conn \ {c} : newId[x] # id
         /\ cache' \subseteq cache /\ UNCHANGED born
         /\ newId' = [newId EXCEPT ![c] = id]

LEMMA HandlerCreates ==
    ASSUME ConstantsAssumption, TypeInv, NewInv, NEW c \in Conn,
           InitNew(c) \/ Clear(c) \/ HandlerResumes(c)
    PROVE  Creates(c)
<1>0. TypeOK /\ HandlerInv
  BY DEF TypeInv
<1> DEFINE Free(id) == id \in Session \ born /\ \A x \in Conn \ {c} : newId[x] # id
<1>1. ASSUME NEW u, NEW id, NEW cached, NEW dead, Free(id), cached \subseteq cache,
             Install(c, u, id, cached, dead)
      PROVE  Creates(c)
  BY <1>1 DEF Install, Creates
<1>2. ASSUME NEW where, NEW s, NEW u, NEW id, NEW cached, NEW dead, Free(id),
             cached \subseteq cache, Await(c, where, s, u, id, cached, dead)
      PROVE  Creates(c)
  BY <1>2 DEF Await, Creates
<1>3. ASSUME NEW u, NEW id, NEW cached, NEW dead, Free(id), cached \subseteq cache,
             EvictAndCreate(c, u, id, cached, dead)
      PROVE  Creates(c)
  <2>1. \A s : cached \ {s} \subseteq cache
    BY <1>3
  <2> HIDE DEF Free
  <2> QED BY <1>1, <1>2, <1>3, <2>1 DEF EvictAndCreate
<1>4. \A id \in Fresh : Free(id)
  BY DEF Fresh
<1>5. pc[c] \in {"clearing", "evicting"} => Free(newId[c])
  <2>1. ASSUME pc[c] \in {"clearing", "evicting"} PROVE newId[c] \in Session /\ newId[c] # None
    BY <1>0, <2>1 DEF HandlerInv, ConstantsAssumption
  <2> QED BY <2>1 DEF NewInv
<1> HIDE DEF Free
<1>6. CASE InitNew(c)
  BY <1>3, <1>4, <1>6 DEF InitNew
<1>7. CASE Clear(c)
  <2>1. PICK id \in Fresh :
            IF runtime[c] = None THEN EvictAndCreate(c, None, id, cache, {})
            ELSE IF mcp[runtime[c]] = None
                 THEN EvictAndCreate(c, owner[runtime[c]], id, cache \ {runtime[c]}, {runtime[c]})
                 ELSE Await(c, "clearing", runtime[c], owner[runtime[c]], id,
                            cache \ {runtime[c]}, {})
    BY <1>7 DEF Clear
  <2>2. cache \ {runtime[c]} \subseteq cache /\ Free(id)
    BY <1>4
  <2> QED BY <1>2, <1>3, <2>1, <2>2
<1>8. CASE Cleared(c)
  BY <1>3, <1>5, <1>8 DEF Cleared
<1>9. CASE Evicted(c)
  BY <1>1, <1>5, <1>9 DEF Evicted
<1> QED BY <1>6, <1>7, <1>8, <1>9 DEF HandlerResumes

\* No other step creates a session.
LEMMA CreatesOnly ==
    ASSUME ConstantsAssumption, TypeInv, NewInv, [Next]_vars
    PROVE  \/ \E c \in Conn : Creates(c)
           \/ cache' \subseteq cache /\ UNCHANGED <<born, newId>>
<1>1. ASSUME NEW c \in Conn, InitNew(c) \/ Clear(c) \/ HandlerResumes(c) PROVE Creates(c)
  BY <1>1, HandlerCreates
<1>2. ASSUME NEW c \in Conn,
             \/ \E s \in Session : InitResume(c, s)
             \/ Disconnect(c)
             \/ \E t \in Task : TurnMessage(c, t) \/ DecisionsMessage(c, t)
      PROVE  UNCHANGED <<cache, born, newId>>
  BY <1>2 DEF InitResume, Disconnect, TurnMessage, DecisionsMessage, CreateTask, store
<1>3. ASSUME NEW t \in Task, TaskStep(t) PROVE UNCHANGED <<cache, born, newId>>
  BY <1>3 DEF TaskStep, StartTask, Grant, GuardrailBlocks, EnsureGraph, Connected, BuildFails,
              GraphBuilt, StreamBegins, TurnEnds, Touch, Advance, store, handlers
<1>4. CASE ShutdownEnds
  BY <1>4 DEF ShutdownEnds, handlers
<1>5. CASE ShutdownBegins \/ Stopped \/ UNCHANGED vars \/ \E s \in Session : DestroyOne(s)
  BY <1>5 DEF ShutdownBegins, Stopped, DestroyOne, vars, store, handlers
<1> QED BY <1>1, <1>2, <1>3, <1>4, <1>5 DEF Next

LEMMA NewNext ==
    ASSUME ConstantsAssumption, TypeInv, NewInv, [Next]_vars
    PROVE  NewInv' /\ \A s \in born \ cache : s \notin cache'
<1>0. newId \in [Conn -> Session \cup {None}]
  BY DEF TypeInv, TypeOK
<1>1. ASSUME NEW c \in Conn, Creates(c)
      PROVE  NewInv' /\ \A s \in born \ cache : s \notin cache'
  <2>1. CASE \E id \in Session \ born :
               /\ \A x \in Conn \ {c} : newId[x] # id
               /\ cache' \subseteq cache \cup {id} /\ born' = born \cup {id}
               /\ newId' = [newId EXCEPT ![c] = None]
    <3>1. newId'[c] = None /\ \A x \in Conn \ {c} : newId'[x] = newId[x]
      BY <1>0, <2>1
    <3> QED BY <2>1, <3>1 DEF NewInv
  <2>2. CASE \E id \in Session \ born :
               /\ \A x \in Conn \ {c} : newId[x] # id
               /\ cache' \subseteq cache /\ UNCHANGED born
               /\ newId' = [newId EXCEPT ![c] = id]
    <3>1. /\ newId'[c] \notin born' /\ \A x \in Conn \ {c} : newId[x] # newId'[c]
          /\ \A x \in Conn \ {c} : newId'[x] = newId[x]
      BY <1>0, <2>2
    <3> QED BY <2>2, <3>1 DEF NewInv
  <2> QED BY <1>1, <2>1, <2>2 DEF Creates
<1>2. CASE cache' \subseteq cache /\ UNCHANGED <<born, newId>>
  BY <1>2 DEF NewInv
<1> QED BY <1>1, <1>2, CreatesOnly

(* A session that was cleared or evicted never comes back to the cache.              *)
THEOREM NoResurrectionHolds == Spec => NoResurrection
<1>1. Init => TypeInv /\ NewInv
  BY TypeInit DEF Init, NewInv
<1>2. TypeInv /\ NewInv /\ [Next]_vars => (TypeInv /\ NewInv)'
  BY TypeNext, NewNext, ConstantsAssumption
<1>3. TypeInv /\ NewInv /\ [Next]_vars => [\A s \in born \ cache : s \notin cache']_vars
  BY NewNext, ConstantsAssumption
<1> QED BY <1>1, <1>2, <1>3, PTL DEF Spec, NoResurrection

-----------------------------------------------------------------------------
(* Clients. The client of a gateway, or one that a handler closes for it, was opened by *)
(* a task that has run on that gateway, so no two gateways share one. A cached gateway  *)
(* with a graph has an open client, and a task that builds or streams agrees with its   *)
(* gateway about graph and client. What a handler destroys has left the cache. A client *)
(* that is open without a graph belongs to a build that goes on or was cut.             *)
Opened(t, s)    == gw[t] = s /\ status[t] \notin {"unused", "created", "queued"}
HasConnected(t) ==
    gw[t] \in born /\ status[t] \notin {"unused", "created", "queued", "guard", "connect"}

OpenerInv ==
    /\ \A s \in Session : mcp[s] # None => Opened(mcp[s], s)
    /\ \A c \in Conn : pc[c] \in {"clearing", "evicting"} =>
         closing[c] \in Task /\ Opened(closing[c], victim[c])
    /\ \A t \in open : HasConnected(t)

BornInv ==
    /\ \A s \in Session \ born : ~graph[s] /\ mcp[s] = None
    /\ \A c \in Conn : runtime[c] # None => runtime[c] \in born
    /\ \A c \in Conn : pc[c] \in {"clearing", "evicting"} => victim[c] \in born \ cache

CachedInv ==
    phase = "up" =>
        /\ \A s \in cache : graph[s] => mcp[s] \in open
        /\ \A t \in Task : gw[t] \in cache =>
             /\ status[t] \in {"connect", "list"} => ~graph[gw[t]] /\ mcp[gw[t]] = t
             /\ status[t] = "list" => t \in open
             /\ status[t] = "stream" => graph[gw[t]]

StrayInv ==
    /\ NoStrayClient
    /\ phase = "up" => \A s \in cache : ~graph[s] /\ mcp[s] \in open =>
                                 status[mcp[s]] = "list" \/ mcp[s] \in cut

ClientInv == OpenerInv /\ BornInv /\ CachedInv /\ StrayInv

LEMMA ClientInit == Init => ClientInv
BY DEF Init, ClientInv, OpenerInv, BornInv, CachedInv, StrayInv, NoStrayClient

LEMMA ClientImplies == ClientInv => StreamHasClient /\ NoStrayClient
BY DEF ClientInv, CachedInv, StrayInv, StreamHasClient

\* A running task's gateway is its handler's session, which has been created.
LEMMA RunningBorn ==
    ASSUME StableIInv, BornInv, NEW t \in Task, Running(t)
    PROVE  gw[t] \in born /\ gw[t] \in Session
<1>1. TaskInv /\ StableInv /\ ConstantsAssumption /\ born \subseteq Session
  BY ConstantsAssumption DEF StableIInv, LockIInv, TypeInv, TypeOK
<1>2. by[t] \in Conn /\ runtime[by[t]] \in Session
  BY <1>1 DEF TaskInv, Active, Running, InTurn
<1>3. gw[t] = runtime[by[t]] /\ runtime[by[t]] # None
  BY <1>1, <1>2 DEF StableInv, ConstantsAssumption
<1> QED BY <1>1, <1>2, <1>3 DEF BornInv

\* What a handler's step does to the gateways.
Closes(v, x) ==
    /\ mcp' = [s \in Session |-> IF s = v THEN None ELSE mcp[s]]
    /\ open' \in {open, open \ {x}}

Serves(c, v) ==
    /\ UNCHANGED <<tasks, phase, cut>>
    /\ v \notin cache' /\ (v = None \/ v \in born)
    /\ \E x \in Task \cup {None} : Closes(v, x) /\ (x # None => gw[x] = v)
    /\ \E id \in Session \ born, dead \in SUBSET born :
         /\ cache' \subseteq cache \cup {id}
         /\ \/ born' = born \cup {id} /\ runtime'[c] = id
            \/ cache' \subseteq cache /\ born' = born /\ runtime'[c] = runtime[c]
         /\ dead \cap cache' = {}
         /\ graph' = [s \in Session |-> graph[s] /\ s \notin dead]
         /\ \A x \in Conn \ {c} : /\ runtime'[x] = runtime[x] /\ pc'[x] = pc[x]
                                  /\ victim'[x] = victim[x] /\ closing'[x] = closing[x]
         /\ pc'[c] \in {"clearing", "evicting"} =>
              /\ victim'[c] \in born \ cache'
              /\ closing'[c] \in Task /\ Opened(closing'[c], victim'[c])

LEMMA ServesClient ==
    ASSUME StableIInv, ClientInv, NEW c \in Conn, NEW v \in Session \cup {None}, Serves(c, v)
    PROVE  ClientInv'
<1>0. /\ TypeOK /\ None \notin Session /\ None \notin Task
      /\ OpenerInv /\ BornInv /\ CachedInv /\ StrayInv
      /\ cache \subseteq born /\ born \subseteq Session
      /\ UNCHANGED <<status, kind, by, lockOf, gw, phase, cut>>
  BY ConstantsAssumption
     DEF StableIInv, LockIInv, TypeInv, TypeOK, ConstantsAssumption, ClientInv, Serves, tasks
<1>1. PICK id \in Session \ born, dead \in SUBSET born :
         /\ cache' \subseteq cache \cup {id}
         /\ \/ born' = born \cup {id} /\ runtime'[c] = id
            \/ cache' \subseteq cache /\ born' = born /\ runtime'[c] = runtime[c]
         /\ dead \cap cache' = {}
         /\ graph' = [s \in Session |-> graph[s] /\ s \notin dead]
         /\ \A x \in Conn \ {c} : /\ runtime'[x] = runtime[x] /\ pc'[x] = pc[x]
                                  /\ victim'[x] = victim[x] /\ closing'[x] = closing[x]
         /\ pc'[c] \in {"clearing", "evicting"} =>
              /\ victim'[c] \in born \ cache'
              /\ closing'[c] \in Task /\ Opened(closing'[c], victim'[c])
  BY DEF Serves
<1>2. PICK x \in Task \cup {None} :
         /\ \A s \in Session : mcp'[s] = IF s = v THEN None ELSE mcp[s]
         /\ open' \in {open, open \ {x}} /\ (x # None => gw[x] = v)
  BY DEF Serves, Closes
<1>3. /\ \A s \in Session : graph'[s] <=> graph[s] /\ s \notin dead
      /\ v \notin cache' /\ open' \subseteq open /\ born \subseteq born'
      /\ UNCHANGED <<status, gw>>
      /\ \A t \in open : gw[t] \in cache' => t \in open'
  <2>1. v \notin cache' /\ open \subseteq Task
    BY <1>0 DEF Serves, TypeOK
  <2>2. \A t \in open : gw[t] \in cache' => t # x
    BY <1>0, <1>2, <2>1
  <2> QED BY <1>0, <1>1, <1>2, <2>1, <2>2
<1>4. OpenerInv'
  <2>1. \A s \in Session : mcp'[s] # None => Opened(mcp[s], s)'
    BY <1>0, <1>2, <1>3 DEF OpenerInv, Opened
  <2>2. \A y \in Conn : pc'[y] \in {"clearing", "evicting"} =>
             closing'[y] \in Task /\ Opened(closing[y], victim[y])'
    BY <1>0, <1>1, <1>3 DEF OpenerInv, Opened
  <2>3. \A t \in open' : HasConnected(t)'
    BY <1>0, <1>3 DEF OpenerInv, HasConnected
  <2> QED BY <2>1, <2>2, <2>3 DEF OpenerInv
<1>5. BornInv'
  <2>1. \A s \in Session \ born' : ~graph'[s] /\ mcp'[s] = None
    BY <1>0, <1>1, <1>2, <1>3 DEF BornInv
  <2>2. \A y \in Conn : runtime'[y] # None => runtime'[y] \in born'
    BY <1>0, <1>1 DEF BornInv
  <2>3. \A y \in Conn : pc'[y] \in {"clearing", "evicting"} => victim'[y] \in born' \ cache'
    BY <1>0, <1>1 DEF BornInv
  <2> QED BY <2>1, <2>2, <2>3 DEF BornInv
<1>6. ASSUME NEW s \in cache', s \in born
      PROVE  s \in cache /\ (graph'[s] <=> graph[s]) /\ mcp'[s] = mcp[s]
  <2>1. s \in cache /\ s # v /\ s \notin dead
    BY <1>1, <1>3, <1>6
  <2> QED BY <1>0, <1>2, <1>3, <2>1
<1>7. \A s \in cache' \ born : ~graph'[s] /\ mcp'[s] \notin open'
  <2>1. ASSUME NEW s \in cache', s \notin born PROVE ~graph'[s] /\ mcp'[s] = None
    BY <1>0, <1>1, <1>2, <1>3, <2>1 DEF BornInv
  <2>2. None \notin open'
    BY <1>0, <1>3 DEF TypeOK
  <2> QED BY <2>1, <2>2
<1>8. CachedInv'
  <2> SUFFICES ASSUME phase = "up" PROVE CachedInv'
    BY <1>0 DEF CachedInv
  <2>1. ASSUME NEW s \in cache', graph'[s] PROVE mcp'[s] \in open'
    <3>1. s \in born
      BY <1>7, <2>1
    <3>2. s \in cache /\ mcp[s] \in open /\ mcp[s] # None /\ mcp'[s] = mcp[s]
      BY <1>0, <1>6, <2>1, <3>1 DEF CachedInv, TypeOK
    <3>3. gw[mcp[s]] \in cache'
      BY <1>0, <3>1, <3>2 DEF OpenerInv, Opened
    <3> QED BY <1>3, <3>2, <3>3
  <2>2. ASSUME NEW t \in Task, gw[t] \in cache', Running(t)
        PROVE  /\ gw[t] \in cache /\ (graph'[gw[t]] <=> graph[gw[t]])
               /\ mcp'[gw[t]] = mcp[gw[t]] /\ (t \in open => t \in open')
    <3>1. gw[t] \in born /\ gw[t] \in Session
      BY <1>0, <2>2, RunningBorn
    <3> QED BY <1>3, <1>6, <2>2, <3>1
  <2>3. ASSUME NEW t \in Task, gw[t] \in cache'
        PROVE  /\ status[t] \in {"connect", "list"} => ~graph'[gw[t]] /\ mcp'[gw[t]] = t
               /\ status[t] = "list" => t \in open'
               /\ status[t] = "stream" => graph'[gw[t]]
    <3>1. status[t] \in {"connect", "list", "stream"} => Running(t)
      BY DEF Running, InTurn
    <3> QED BY <1>0, <2>2, <2>3, <3>1 DEF CachedInv
  <2> QED BY <1>0, <2>1, <2>3 DEF CachedInv
<1>9. StrayInv'
  <2>1. ASSUME phase = "up", NEW t \in open', gw[t] \in cache'
        PROVE  mcp'[gw[t]] = t \/ t \in cut
    <3>1. t \in open /\ gw[t] \in born
      BY <1>0, <1>3, <2>1 DEF OpenerInv, HasConnected
    <3> QED BY <1>0, <1>6, <2>1, <3>1 DEF StrayInv, NoStrayClient
  <2>2. ASSUME phase = "up", NEW s \in cache', ~graph'[s], mcp'[s] \in open'
        PROVE  status[mcp'[s]] = "list" \/ mcp'[s] \in cut
    <3>1. s \in born
      BY <1>7, <2>2
    <3> QED BY <1>0, <1>3, <1>6, <2>2, <3>1 DEF StrayInv
  <2> QED BY <1>0, <2>1, <2>2 DEF StrayInv, NoStrayClient
<1> QED BY <1>4, <1>5, <1>8, <1>9 DEF ClientInv

LEMMA HandlerServes ==
    ASSUME StableIInv, ClientInv, NewInv, NEW c \in Conn,
           InitNew(c) \/ Clear(c) \/ HandlerResumes(c)
    PROVE  \E v \in Session \cup {None} : Serves(c, v)
<1>0. /\ TypeOK /\ HandlerInv /\ OpenerInv /\ BornInv /\ None \notin Session
      /\ None \notin born /\ cache \subseteq born /\ born \subseteq Session
      /\ UNCHANGED <<tasks, phase>>
  BY ConstantsAssumption
     DEF StableIInv, LockIInv, TypeInv, TypeOK, ConstantsAssumption, ClientInv,
         InitNew, Clear, HandlerResumes, Cleared, Evicted, server
<1> DEFINE Open(v, id, cached, dead) ==
               /\ v \in born \cup {None} /\ v \notin cached
               /\ \E x \in Task \cup {None} : Closes(v, x) /\ (x # None => gw[x] = v)
               /\ id \in Session \ born /\ cached \subseteq cache
               /\ dead \subseteq born /\ dead \cap cached = {}
<1>1. ASSUME NEW v, NEW u, NEW id, NEW cached, NEW dead, Open(v, id, cached, dead),
             Install(c, u, id, cached, dead)
      PROVE  Serves(c, v)
  <2>1. /\ runtime'[c] = id /\ pc'[c] = "ready" /\ cut' = cut
        /\ \A x \in Conn \ {c} : /\ runtime'[x] = runtime[x] /\ pc'[x] = pc[x]
                                 /\ victim'[x] = victim[x] /\ closing'[x] = closing[x]
    BY <1>0, <1>1 DEF Install, TypeOK
  <2>2. /\ cache' = cached \cup {id} /\ born' = born \cup {id}
        /\ graph' = [s \in Session |-> graph[s] /\ s \notin dead]
    BY <1>1 DEF Install
  <2>3. v \notin cache' /\ (v = None \/ v \in born) /\ dead \cap cache' = {}
        /\ cache' \subseteq cache \cup {id}
    BY <1>0, <1>1, <2>2
  <2> QED BY <1>0, <1>1, <2>1, <2>2, <2>3 DEF Serves
<1>2. ASSUME NEW v, NEW where, NEW s \in born, NEW u, NEW id, NEW cached, NEW dead,
             s \notin cached, mcp[s] # None, Open(v, id, cached, dead),
             Await(c, where, s, u, id, cached, dead)
      PROVE  Serves(c, v)
  <2>1. /\ runtime' = runtime /\ victim'[c] = s /\ closing'[c] = mcp[s] /\ cut' = cut
        /\ \A x \in Conn \ {c} : /\ pc'[x] = pc[x] /\ victim'[x] = victim[x]
                                 /\ closing'[x] = closing[x]
    BY <1>0, <1>2 DEF Await, TypeOK
  <2>2. /\ cache' = cached /\ born' = born
        /\ graph' = [x \in Session |-> graph[x] /\ x \notin dead]
    BY <1>2 DEF Await
  <2>3. closing'[c] \in Task /\ Opened(closing'[c], victim'[c])
    BY <1>0, <1>2, <2>1 DEF OpenerInv, TypeOK
  <2> QED BY <1>0, <1>2, <2>1, <2>2, <2>3 DEF Serves
<1>3. ASSUME NEW v, NEW u, NEW id, NEW cached, NEW dead, Open(v, id, cached, dead),
             EvictAndCreate(c, u, id, cached, dead)
      PROVE  Serves(c, v)
  <2>1. CASE Install(c, u, id, cached, dead)
    BY <1>1, <1>3, <2>1
  <2>2. ASSUME NEW s \in SessionsOf(u, cached),
               IF mcp[s] = None
               THEN Install(c, u, id, cached \ {s}, dead \cup {s})
               ELSE Await(c, "evicting", s, u, id, cached \ {s}, dead)
        PROVE  Serves(c, v)
    <3>1. s \in born /\ s \in cached
      BY <1>0, <1>3 DEF SessionsOf
    <3>2. Open(v, id, cached \ {s}, dead \cup {s}) /\ Open(v, id, cached \ {s}, dead)
      BY <1>3, <3>1
    <3>3. s \notin cached \ {s}
      OBVIOUS
    <3> HIDE DEF Open
    <3> QED BY <1>1, <1>2, <2>2, <3>1, <3>2, <3>3
  <2> QED BY <1>3, <2>1, <2>2 DEF EvictAndCreate
<1>4. ASSUME UNCHANGED <<mcp, open>> PROVE Closes(None, None)
  BY <1>0, <1>4 DEF Closes, TypeOK
<1>5. ASSUME NEW v \in Session, NEW x, CloseClient(v, x) PROVE Closes(v, x)
  BY <1>0, <1>5 DEF Closes, CloseClient, TypeOK
<1>6. \A id \in Fresh : id \in Session \ born
  BY DEF Fresh
<1>7. ASSUME pc[c] \in {"clearing", "evicting"}, CloseClient(victim[c], closing[c])
      PROVE  victim[c] \in Session /\ Open(victim[c], newId[c], cache, {victim[c]})
  <2>1. victim[c] \in born \ cache /\ newId[c] \in Session /\ newId[c] # None
    BY <1>0, <1>7 DEF BornInv, HandlerInv
  <2>2. newId[c] \notin born
    BY <2>1 DEF NewInv
  <2>3. closing[c] \in Task /\ gw[closing[c]] = victim[c]
    BY <1>0, <1>7 DEF OpenerInv, Opened
  <2> QED BY <1>0, <1>5, <1>7, <2>1, <2>2, <2>3
<1>8. CASE InitNew(c)
  <2>1. PICK id \in Fresh : EvictAndCreate(c, UserOf[c], id, cache, {})
    BY <1>8 DEF InitNew
  <2>2. Open(None, id, cache, {})
    BY <1>0, <1>4, <1>6, <1>8 DEF InitNew
  <2> HIDE DEF Open
  <2> QED BY <1>3, <2>1, <2>2
<1>9. CASE Clear(c)
  <2> DEFINE s == runtime[c]
  <2>1. PICK id \in Fresh :
            IF s = None THEN EvictAndCreate(c, None, id, cache, {})
            ELSE IF mcp[s] = None
                 THEN EvictAndCreate(c, owner[s], id, cache \ {s}, {s})
                 ELSE Await(c, "clearing", s, owner[s], id, cache \ {s}, {})
    BY <1>9 DEF Clear
  <2>2. Closes(None, None) /\ id \in Session \ born
    BY <1>4, <1>6, <1>9 DEF Clear
  <2>3. s # None => s \in born
    BY <1>0 DEF BornInv
  <2> HIDE DEF s
  <2>4. /\ Open(None, id, cache, {})
        /\ s # None => Open(None, id, cache \ {s}, {s}) /\ Open(None, id, cache \ {s}, {})
    BY <1>0, <2>2, <2>3
  <2>5. s \notin cache \ {s}
    OBVIOUS
  <2> HIDE DEF Open
  <2> QED BY <1>2, <1>3, <2>1, <2>3, <2>4, <2>5
<1>10. CASE Cleared(c)
  <2>1. victim[c] \in Session /\ Open(victim[c], newId[c], cache, {victim[c]})
    BY <1>7, <1>10 DEF Cleared
  <2> HIDE DEF Open
  <2> QED BY <1>3, <1>10, <2>1 DEF Cleared
<1>11. CASE Evicted(c)
  <2>1. victim[c] \in Session /\ Open(victim[c], newId[c], cache, {victim[c]})
    BY <1>7, <1>11 DEF Evicted
  <2> HIDE DEF Open
  <2> QED BY <1>1, <1>11, <2>1 DEF Evicted
<1> QED BY <1>8, <1>9, <1>10, <1>11 DEF HandlerResumes

\* Where a step of the task t alone leaves the gateways as they are.
LEMMA ClientTask ==
    ASSUME StableIInv, ClientInv, NEW t \in Task, Active(t),
           UNCHANGED <<cache, born, runtime, victim, closing, phase, gateways>>,
           \A c \in Conn : pc'[c] \in {"clearing", "evicting"} => pc[c] = pc'[c],
           \A x \in Task \ {t} : status'[x] = status[x] /\ gw'[x] = gw[x],
           Running(t) => gw'[t] = gw[t] /\ status'[t] \notin {"unused", "created", "queued",
                                                                        "guard"},
           status'[t] \notin {"connect", "list"},
           status'[t] = "stream" => graph[gw'[t]],
           cut \subseteq cut', status[t] = "list" => t \in cut'
    PROVE  ClientInv'
<1>0. /\ OpenerInv /\ BornInv /\ CachedInv /\ StrayInv /\ UNCHANGED <<mcp, open, graph>>
      /\ status \in [Task -> Status] /\ mcp \in [Session -> Task \cup {None}]
      /\ None \notin Task /\ open \subseteq Task /\ cache \subseteq Session
  BY ConstantsAssumption
     DEF ClientInv, gateways, StableIInv, LockIInv, TypeInv, TypeOK, ConstantsAssumption
<1>1. ASSUME NEW x \in Task, NEW s, Opened(x, s)
      PROVE  gw'[x] = gw[x] /\ Opened(x, s)'
  <2>1. x = t => Running(t)
    <3>1. ASSUME x = t PROVE status[t] \in Status \ {"unused", "created", "queued", "done"}
      BY <1>0, <1>1, <3>1 DEF Active, Opened
    <3> QED BY <3>1 DEF Running, Status
  <2> QED BY <1>1, <2>1 DEF Opened
<1>2. OpenerInv'
  <2>1. \A s \in Session : mcp'[s] # None => Opened(mcp[s], s)'
    BY <1>0, <1>1 DEF OpenerInv
  <2>2. \A c \in Conn : pc'[c] \in {"clearing", "evicting"} =>
             closing'[c] \in Task /\ Opened(closing[c], victim[c])'
    <3>1. ASSUME NEW c \in Conn, pc'[c] \in {"clearing", "evicting"}
          PROVE  closing[c] \in Task /\ Opened(closing[c], victim[c])
      BY <1>0, <3>1 DEF OpenerInv
    <3>2. victim' = victim
      OBVIOUS
    <3> QED BY <1>1, <3>1, <3>2 DEF Opened
  <2>3. \A x \in open' : HasConnected(x)'
    <3>1. \A x \in open : x \in Task /\ HasConnected(x) /\ Opened(x, gw[x])
      BY <1>0 DEF OpenerInv, HasConnected, Opened
    <3>2. t \in open => Running(t)
      BY <1>0, <3>1 DEF HasConnected, Active, Running, Status
    <3> QED BY <1>0, <1>1, <3>1, <3>2 DEF HasConnected
  <2> QED BY <2>1, <2>2, <2>3 DEF OpenerInv
<1>3. BornInv'
  BY <1>0 DEF BornInv
<1>4. CachedInv'
  BY <1>0 DEF CachedInv
<1>5. \A x \in open : x \in Task /\ gw'[x] = gw[x]
  BY <1>0, <1>1 DEF OpenerInv, HasConnected, Opened
<1>6. NoStrayClient'
  BY <1>0, <1>5 DEF StrayInv, NoStrayClient
<1>7. StrayInv'
  <2> SUFFICES ASSUME phase = "up", NEW s \in cache, ~graph[s], mcp[s] \in open
               PROVE  status'[mcp[s]] = "list" \/ mcp[s] \in cut'
    BY <1>0, <1>6 DEF StrayInv
  <2>1. mcp[s] \in Task /\ (status[mcp[s]] = "list" \/ mcp[s] \in cut)
    BY <1>0 DEF StrayInv
  <2>2. mcp[s] # t => status'[mcp[s]] = status[mcp[s]]
    BY <2>1
  <2> QED BY <2>1, <2>2
<1> QED BY <1>2, <1>3, <1>4, <1>7 DEF ClientInv

\* The client of the gateway that t builds is closed.
LEMMA ClientFails ==
    ASSUME StableIInv, ClientInv, NEW t \in Task, BuildFails(t)
    PROVE  ClientInv'
<1> DEFINE g == gw[t]
<1>0. /\ OpenerInv /\ BornInv /\ CachedInv /\ StrayInv
      /\ status \in [Task -> Status] /\ mcp \in [Session -> Task \cup {None}]
      /\ None \notin Task /\ cache \subseteq Session /\ open \subseteq Task
  BY ConstantsAssumption
     DEF ClientInv, StableIInv, LockIInv, TypeInv, TypeOK, ConstantsAssumption
<1>1. /\ status[t] \in {"connect", "list"} /\ status' = [status EXCEPT ![t] = "ending"]
      /\ UNCHANGED <<gw, cache, born, runtime, pc, victim, closing, cut, phase, graph>>
      /\ open' = open \ {mcp[g]} /\ mcp' = [mcp EXCEPT ![g] = None]
  BY DEF BuildFails, Advance, store, handlers, server
<1>2. g \in Session /\ (phase = "up" /\ g \in cache => ~graph[g] /\ mcp[g] = t) /\ Running(t)
  <2>1. Running(t)
    BY <1>1 DEF Running, InTurn
  <2>2. g \in Session
    BY <1>0, <2>1, RunningBorn
  <2> QED BY <1>0, <1>1, <2>1, <2>2 DEF CachedInv
<1>3. /\ \A s \in Session \ {g} : mcp'[s] = mcp[s]
      /\ mcp'[g] = None
      /\ \A x \in Task \ {t} : status'[x] = status[x]
      /\ status'[t] = "ending"
  BY <1>0, <1>1, <1>2
<1>4. \A s \in Session : mcp'[s] # None => s # g /\ mcp'[s] = mcp[s] /\ mcp[s] # None
  BY <1>3
<1>5. ASSUME NEW x \in Task, NEW s, Opened(x, s) PROVE Opened(x, s)'
  BY <1>1, <1>3, <1>5 DEF Opened
<1>6. OpenerInv'
  <2>1. \A s \in Session : mcp'[s] # None => Opened(mcp[s], s)'
    BY <1>0, <1>4, <1>5 DEF OpenerInv
  <2>2. \A c \in Conn : pc'[c] \in {"clearing", "evicting"} =>
             closing'[c] \in Task /\ Opened(closing[c], victim[c])'
    BY <1>0, <1>1, <1>5 DEF OpenerInv
  <2>3. \A x \in open' : HasConnected(x)'
    BY <1>0, <1>1, <1>3 DEF OpenerInv, HasConnected
  <2> QED BY <1>1, <1>4, <2>1, <2>2, <2>3 DEF OpenerInv, Opened
<1>7. BornInv'
  BY <1>0, <1>1, <1>4 DEF BornInv
<1>8. ASSUME NEW s \in Session, s # g, mcp[s] # None PROVE mcp[s] # mcp[g]
  BY <1>0, <1>2, <1>8 DEF OpenerInv, Opened
<1>9. CachedInv'
  <2>1. ASSUME phase = "up", NEW s \in cache, graph[s] PROVE mcp'[s] \in open'
    <3>1. s # g /\ mcp[s] \in open /\ mcp[s] # None
      BY <1>0, <1>2, <2>1 DEF CachedInv
    <3> QED BY <1>0, <1>1, <1>3, <1>8, <3>1
  <2>2. ASSUME phase = "up", NEW x \in Task \ {t}, gw[x] \in cache,
               status[x] \in {"connect", "list"}
        PROVE  mcp'[gw[x]] = x /\ (status[x] = "list" => x \in open')
    <3>1. gw[x] # g
      <4>1. Running(x)
        BY <2>2 DEF Running, InTurn
      <4> QED BY <1>2, <2>2, <4>1, StableImpliesMutex DEF TurnMutex
    <3>2. mcp[gw[x]] = x /\ (status[x] = "list" => x \in open)
      BY <1>0, <2>2 DEF CachedInv
    <3> QED BY <1>0, <1>1, <1>3, <1>8, <2>2, <3>1, <3>2
  <2> QED BY <1>0, <1>1, <1>3, <2>1, <2>2 DEF CachedInv
<1>10. StrayInv'
  <2>1. ASSUME phase = "up", NEW x \in open', gw[x] \in cache
        PROVE  mcp'[gw[x]] = x \/ x \in cut
    <3>1. x \in open /\ x # mcp[g] /\ (mcp[gw[x]] = x \/ x \in cut)
      BY <1>0, <1>1, <2>1 DEF StrayInv, NoStrayClient
    <3>2. mcp[gw[x]] = x => gw[x] # g
      BY <3>1
    <3> QED BY <1>0, <1>3, <2>1, <3>1, <3>2
  <2>2. ASSUME phase = "up", NEW s \in cache, ~graph[s], mcp'[s] \in open'
        PROVE  status'[mcp'[s]] = "list" \/ mcp'[s] \in cut
    <3>1. s # g /\ mcp'[s] = mcp[s] /\ mcp[s] \in open
      BY <1>0, <1>1, <1>3, <2>2
    <3>2. mcp[s] \in Task \ {t}
      BY <1>0, <2>2, <3>1 DEF OpenerInv, Opened
    <3> QED BY <1>0, <1>3, <2>2, <3>1, <3>2 DEF StrayInv
  <2> QED BY <1>0, <1>1, <2>1, <2>2 DEF StrayInv, NoStrayClient
<1> QED BY <1>6, <1>7, <1>9, <1>10 DEF ClientInv

\* t builds its gateway's graph, and nobody else does.
LEMMA ClientBuilt ==
    ASSUME StableIInv, ClientInv, NEW t \in Task, GraphBuilt(t)
    PROVE  ClientInv'
<1> DEFINE g == gw[t]
<1>0. /\ OpenerInv /\ BornInv /\ CachedInv /\ StrayInv /\ TurnMutex
      /\ status \in [Task -> Status] /\ graph \in [Session -> BOOLEAN]
      /\ cache \subseteq Session /\ open \subseteq Task /\ None \notin Task
  BY StableImpliesMutex, ConstantsAssumption DEF ClientInv, StableIInv, LockIInv, TypeInv, TypeOK, ConstantsAssumption
<1>1. /\ status[t] = "list" /\ status' = [status EXCEPT ![t] = "ensured"]
      /\ UNCHANGED <<gw, cache, born, runtime, pc, victim, closing, cut, phase, mcp, open>>
      /\ graph' = [graph EXCEPT ![g] = TRUE]
  BY DEF GraphBuilt, Advance, store, handlers, server
<1>2. Running(t) /\ g \in born /\ g \in Session
  <2>1. Running(t)
    BY <1>1 DEF Running, InTurn
  <2> QED BY <1>0, <2>1, RunningBorn
<1>3. /\ \A x \in Task \ {t} : status'[x] = status[x]
      /\ status'[t] = "ensured" /\ graph'[g]
      /\ \A s \in Session \ {g} : graph'[s] <=> graph[s]
  BY <1>0, <1>1, <1>2
<1>4. ASSUME NEW x, NEW s, Opened(x, s) PROVE Opened(x, s)'
  BY <1>0, <1>1, <1>4 DEF Opened
<1>5. OpenerInv'
  <2>1. \A s \in Session : mcp'[s] # None => Opened(mcp[s], s)'
    BY <1>0, <1>1, <1>4 DEF OpenerInv
  <2>2. \A c \in Conn : pc'[c] \in {"clearing", "evicting"} =>
             closing'[c] \in Task /\ Opened(closing[c], victim[c])'
    BY <1>0, <1>1, <1>4 DEF OpenerInv
  <2>3. \A x \in open' : HasConnected(x)'
    BY <1>0, <1>1 DEF OpenerInv, HasConnected
  <2> QED BY <1>1, <2>1, <2>2, <2>3 DEF OpenerInv, Opened
<1>6. BornInv'
  BY <1>0, <1>1, <1>2, <1>3 DEF BornInv
<1>7. CachedInv'
  <2>1. ASSUME phase = "up", NEW x \in Task, gw[x] \in cache
        PROVE  /\ status'[x] \in {"connect", "list"} => ~graph'[gw[x]] /\ mcp[gw[x]] = x
               /\ status'[x] = "list" => x \in open
               /\ status'[x] = "stream" => graph'[gw[x]]
    <3>1. CASE x = t
      BY <1>3, <3>1
    <3>2. CASE x # t /\ gw[x] = g
      <4>1. ~Running(x)
        BY <1>0, <1>2, <3>2 DEF TurnMutex
      <4> QED BY <1>3, <3>2, <4>1 DEF Running, InTurn
    <3>3. CASE x # t /\ gw[x] # g
      BY <1>0, <1>3, <2>1, <3>3 DEF CachedInv
    <3> QED BY <3>1, <3>2, <3>3
  <2>2. ASSUME phase = "up", NEW s \in cache, graph'[s] PROVE mcp[s] \in open
    <3>1. CASE s = g
      BY <1>0, <1>1, <2>2, <3>1 DEF CachedInv
    <3> QED BY <1>0, <1>3, <2>2, <3>1 DEF CachedInv
  <2> QED BY <1>1, <2>1, <2>2 DEF CachedInv
<1>8. StrayInv'
  <2>1. NoStrayClient'
    BY <1>0, <1>1 DEF StrayInv, NoStrayClient
  <2>2. ASSUME phase = "up", NEW s \in cache, ~graph'[s], mcp[s] \in open
        PROVE  status'[mcp[s]] = "list" \/ mcp[s] \in cut
    <3>1. s # g /\ ~graph[s] /\ (status[mcp[s]] = "list" \/ mcp[s] \in cut)
      BY <1>0, <1>3, <2>2 DEF StrayInv
    <3>2. mcp[s] \in Task \ {t}
      BY <1>0, <2>2, <3>1 DEF OpenerInv, Opened
    <3> QED BY <1>3, <3>1, <3>2
  <2> QED BY <1>1, <2>1, <2>2 DEF StrayInv
<1> QED BY <1>5, <1>6, <1>7, <1>8 DEF ClientInv

\* t opens a client for a gateway without a graph, whose client, if it has one, is not open
\* or belongs to a build that was cut.
LEMMA ClientOpens ==
    ASSUME StableIInv, ClientInv, NEW t \in Task, EnsureGraph(t) \/ Connected(t)
    PROVE  ClientInv'
<1> DEFINE g == gw[t]
<1>0. /\ OpenerInv /\ BornInv /\ CachedInv /\ StrayInv /\ TurnMutex
      /\ status \in [Task -> Status] /\ mcp \in [Session -> Task \cup {None}]
      /\ cache \subseteq Session /\ open \subseteq Task
  BY StableImpliesMutex DEF ClientInv, StableIInv, LockIInv, TypeInv, TypeOK
<1>1. /\ status[t] \in {"guard", "connect"}
      /\ \E to \in InTurn : status' = [status EXCEPT ![t] = to]
      /\ UNCHANGED <<gw, cache, born, runtime, pc, victim, closing, cut, phase, graph>>
  BY DEF EnsureGraph, Connected, Advance, InTurn, store, handlers, server, gateways
<1>2. Running(t) /\ g \in born /\ g \in Session
  <2>1. Running(t)
    BY <1>1 DEF Running, InTurn
  <2> QED BY <1>0, <2>1, RunningBorn
<1>3. /\ \A x \in Task \ {t} : status'[x] = status[x]
      /\ status'[t] \in InTurn
  BY <1>0, <1>1
<1>4. ASSUME NEW x \in Task, NEW s, Opened(x, s) PROVE Opened(x, s)'
  BY <1>1, <1>3, <1>4 DEF Opened, InTurn
<1>5. Opened(t, g)'
  BY <1>1, <1>3 DEF Opened, InTurn
<1>6. /\ \A c \in Conn : pc'[c] \in {"clearing", "evicting"} =>
             closing'[c] \in Task /\ Opened(closing[c], victim[c])'
      /\ \A s \in Session, x \in Task : mcp[s] = x => Opened(x, s)'
      /\ \A x \in Task \ {t} : x \in open => HasConnected(x)'
  <2>1. \A c \in Conn : pc'[c] \in {"clearing", "evicting"} =>
             closing'[c] \in Task /\ Opened(closing[c], victim[c])'
    BY <1>0, <1>1, <1>4 DEF OpenerInv
  <2>2. \A s \in Session, x \in Task : mcp[s] = x => Opened(x, s)'
    BY <1>0, <1>4, ConstantsAssumption DEF OpenerInv, ConstantsAssumption
  <2>3. \A x \in Task \ {t} : x \in open => HasConnected(x)'
    BY <1>0, <1>1, <1>3 DEF OpenerInv, HasConnected
  <2> QED BY <2>1, <2>2, <2>3
<1>7. \A x \in Task \ {t} : Running(x) => gw[x] # g
  BY <1>0, <1>2 DEF TurnMutex
<1>8. CASE EnsureGraph(t) /\ graph[g]
  <2>1. /\ status[t] = "guard" /\ status' = [status EXCEPT ![t] = "ensured"]
        /\ UNCHANGED gateways
    BY <1>8 DEF EnsureGraph, Advance
  <2>2. status'[t] = "ensured" /\ Active(t)
    BY <1>0, <2>1 DEF Active
  <2> QED BY <1>1, <1>3, <2>1, <2>2, ClientTask
<1>9. CASE EnsureGraph(t) /\ ~graph[g]
  <2>1. /\ status[t] = "guard" /\ status'[t] = "connect" /\ open' = open
        /\ mcp'[g] = t /\ \A s \in Session \ {g} : mcp'[s] = mcp[s]
    BY <1>0, <1>2, <1>9 DEF EnsureGraph, Advance
  <2>2. t \notin open
    BY <1>0, <2>1 DEF OpenerInv, HasConnected
  <2>3. OpenerInv'
    <3>1. ASSUME NEW s \in Session, mcp'[s] # None PROVE Opened(mcp[s], s)'
      <4>1. CASE s = g
        BY <1>1, <1>5, <2>1, <4>1 DEF Opened
      <4>2. CASE s # g
        BY <1>0, <1>6, <2>1, <3>1, <4>2 DEF Opened
      <4> QED BY <4>1, <4>2
    <3>2. \A x \in open' : HasConnected(x)'
      BY <1>0, <1>6, <2>1, <2>2
    <3>3. \A c \in Conn : pc'[c] \in {"clearing", "evicting"} =>
             closing'[c] \in Task /\ Opened(closing[c], victim[c])'
      BY <1>6
    <3> QED BY <3>1, <3>2, <3>3 DEF OpenerInv
  <2>4. BornInv'
    BY <1>0, <1>1, <1>2, <2>1 DEF BornInv
  <2>5. CachedInv'
    <3>1. ASSUME phase = "up", NEW s \in cache, graph[s] PROVE mcp'[s] \in open'
      BY <1>0, <1>9, <2>1, <3>1 DEF CachedInv
    <3>2. ASSUME phase = "up", NEW x \in Task \ {t}, gw[x] \in cache,
                 status[x] \in {"connect", "list"}
          PROVE  mcp'[gw[x]] = x
      <4>1. gw[x] # g
        BY <1>7, <3>2 DEF Running, InTurn
      <4> QED BY <1>0, <2>1, <3>2, <4>1 DEF CachedInv
    <3> QED BY <1>0, <1>1, <1>3, <1>9, <2>1, <3>1, <3>2 DEF CachedInv
  <2>6. NoStrayClient'
    <3> SUFFICES ASSUME phase = "up", NEW x \in open, gw[x] \in cache
                 PROVE  mcp'[gw[x]] = x \/ x \in cut
      BY <1>1, <2>1 DEF NoStrayClient
    <3>1. x \in Task \ {t} /\ (mcp[gw[x]] = x \/ x \in cut)
      BY <1>0, <2>2 DEF StrayInv, NoStrayClient
    <3>2. ASSUME gw[x] = g, mcp[g] = x PROVE x \in cut
      <4>1. status[x] = "list" \/ x \in cut
        BY <1>0, <1>9, <3>2 DEF StrayInv
      <4> QED BY <1>7, <3>1, <3>2, <4>1 DEF Running, InTurn
    <3> QED BY <1>0, <2>1, <3>1, <3>2
  <2>7. ASSUME phase = "up", NEW s \in cache, ~graph[s], mcp'[s] \in open
        PROVE  status'[mcp'[s]] = "list" \/ mcp'[s] \in cut
    <3>1. s # g /\ mcp'[s] = mcp[s] /\ mcp[s] \in Task \ {t}
      BY <1>0, <2>1, <2>2, <2>7
    <3> QED BY <1>0, <1>3, <2>7, <3>1 DEF StrayInv
  <2> QED BY <1>1, <2>1, <2>3, <2>4, <2>5, <2>6, <2>7 DEF ClientInv, StrayInv
<1>10. CASE Connected(t)
  <2>1. /\ status[t] = "connect" /\ open' = open \cup {t} /\ mcp' = mcp
        /\ status'[t] \in {"list", "ending"}
        /\ mcp[g] = t => status'[t] = "list"
    BY <1>0, <1>10, ConstantsAssumption DEF Connected, Advance, ConstantsAssumption
  <2>2. phase = "up" /\ g \in cache => mcp[g] = t /\ ~graph[g]
    BY <1>0, <2>1 DEF CachedInv
  <2>3. OpenerInv'
    <3>1. HasConnected(t)'
      BY <1>1, <1>2, <2>1 DEF HasConnected
    <3>2. \A x \in open' : HasConnected(x)'
      BY <1>0, <1>6, <2>1, <3>1
    <3>3. \A s \in Session : mcp'[s] # None => Opened(mcp[s], s)'
      BY <1>0, <1>6, <2>1 DEF Opened
    <3>4. \A c \in Conn : pc'[c] \in {"clearing", "evicting"} =>
             closing'[c] \in Task /\ Opened(closing[c], victim[c])'
      BY <1>6
    <3> QED BY <3>2, <3>3, <3>4 DEF OpenerInv
  <2>4. BornInv'
    BY <1>0, <1>1, <2>1 DEF BornInv
  <2>5. CachedInv'
    BY <1>0, <1>1, <1>3, <2>1, <2>2 DEF CachedInv
  <2>6. NoStrayClient'
    BY <1>0, <1>1, <2>1, <2>2 DEF StrayInv, NoStrayClient
  <2>7. ASSUME phase = "up", NEW s \in cache, ~graph[s], mcp[s] \in open'
        PROVE  status'[mcp[s]] = "list" \/ mcp[s] \in cut
    <3>1. CASE mcp[s] = t
      <4>1. s = g
        BY <1>0, <2>7, <3>1, ConstantsAssumption DEF OpenerInv, Opened, ConstantsAssumption
      <4> QED BY <2>1, <3>1, <4>1
    <3>2. CASE mcp[s] # t
      <4>1. mcp[s] \in open /\ mcp[s] \in Task
        BY <1>0, <2>1, <2>7, <3>2
      <4> QED BY <1>0, <1>3, <2>7, <3>2, <4>1 DEF StrayInv
    <3> QED BY <3>1, <3>2
  <2> QED BY <1>1, <2>1, <2>3, <2>4, <2>5, <2>6, <2>7 DEF ClientInv, StrayInv
<1> QED BY <1>8, <1>9, <1>10

LEMMA ClientTaskStep ==
    ASSUME StableIInv, ClientInv, NEW t \in Task, TaskStep(t)
    PROVE  ClientInv'
<1>0. /\ status \in [Task -> Status] /\ gw \in [Task -> Session \cup {None}]
  BY DEF StableIInv, LockIInv, TypeInv, TypeOK
<1>1. ASSUME StartTask(t) \/ Grant(t) PROVE ClientInv'
  <2>1. /\ status[t] \in {"created", "queued"}
        /\ UNCHANGED <<cache, born, runtime, pc, victim, closing, cut, phase, gateways>>
        /\ \/ status' = [status EXCEPT ![t] = "queued"] /\ gw' = gw
           \/ Enter(t)
    BY <1>1 DEF StartTask, Grant, store, handlers, server
  <2>2. /\ \A x \in Task \ {t} : status'[x] = status[x] /\ gw'[x] = gw[x]
        /\ status'[t] \notin {"connect", "list"}
        /\ status'[t] = "stream" => graph[gw'[t]]
    BY <1>0, <2>1 DEF Enter
  <2>3. Active(t) /\ ~Running(t)
    BY <2>1 DEF Active, Running, InTurn
  <2> QED BY <2>1, <2>2, <2>3, ClientTask
<1>2. ASSUME GuardrailBlocks(t) \/ StreamBegins(t) \/ TurnEnds(t) PROVE ClientInv'
  <2>1. /\ status[t] \in InTurn
        /\ status[t] # "list"
        /\ UNCHANGED <<gw, cache, born, runtime, pc, victim, closing, cut, phase, gateways>>
        /\ \E to \in {"ending", "stream", "done"} : status' = [status EXCEPT ![t] = to]
    BY <1>2 DEF GuardrailBlocks, StreamBegins, TurnEnds, Leave, Touch, Advance, InTurn,
                store, handlers, server
  <2>2. /\ \A x \in Task \ {t} : status'[x] = status[x]
        /\ status'[t] \in {"ending", "stream", "done"}
    BY <1>0, <2>1
  <2>3. status'[t] = "stream" => graph[gw[t]]
    BY <1>0, <1>2 DEF GuardrailBlocks, StreamBegins, TurnEnds, Leave, Advance
  <2>4. Active(t)
    BY <2>1 DEF Active, InTurn
  <2> QED BY <2>1, <2>2, <2>3, <2>4, ClientTask
<1> QED BY <1>1, <1>2, ClientFails, ClientBuilt, ClientOpens DEF TaskStep

LEMMA ClientNext ==
    ASSUME StableIInv, ClientInv, NewInv, [Next]_vars
    PROVE  ClientInv'
<1>0. /\ TypeOK /\ OpenerInv /\ BornInv /\ CachedInv /\ StrayInv
      /\ None \notin Session /\ None \notin Task
  BY ConstantsAssumption
     DEF StableIInv, LockIInv, TypeInv, ClientInv, ConstantsAssumption
<1>1. ASSUME NEW c \in Conn, NEW s \in Session, InitResume(c, s) PROVE ClientInv'
  <2>1. /\ UNCHANGED <<cache, born, pc, victim, closing, cut, phase, mcp, open, graph, status,
                        gw>>
        /\ runtime' = [runtime EXCEPT ![c] = s] /\ s \in born
    BY <1>0, <1>1 DEF InitResume, TypeOK, store, gateways, tasks, server
  <2>2. BornInv'
    BY <1>0, <2>1 DEF BornInv, TypeOK
  <2> QED BY <1>0, <2>1, <2>2
          DEF ClientInv, OpenerInv, Opened, HasConnected, CachedInv, StrayInv, NoStrayClient
<1>2. ASSUME NEW c \in Conn, InitNew(c) \/ Clear(c) \/ HandlerResumes(c) PROVE ClientInv'
  BY <1>2, HandlerServes, ServesClient
<1>3. ASSUME NEW c \in Conn, Disconnect(c) PROVE ClientInv'
  <2>1. /\ UNCHANGED <<cache, born, runtime, victim, closing, phase, gateways, gw>>
        /\ pc' = [pc EXCEPT ![c] = "closed"]
    BY <1>3 DEF Disconnect, Leave, store, server, tasks
  <2>2. \A x \in Conn : pc'[x] \in {"clearing", "evicting"} => pc[x] = pc'[x]
    BY <1>0, <2>1 DEF TypeOK
  <2>3. CASE InFlight(c)
    <3>1. PICK t \in Task : /\ Active(t) /\ status' = [status EXCEPT ![t] = "done"]
                            /\ cut' = cut \cup {x \in {t} : status[x] = "list"}
      BY <1>0, <1>3, <2>3 DEF Disconnect, InFlight, Leave, TypeOK
    <3>2. status'[t] = "done" /\ \A x \in Task \ {t} : status'[x] = status[x]
      BY <1>0, <3>1 DEF TypeOK
    <3>3. cut \subseteq cut' /\ (status[t] = "list" => t \in cut')
      BY <3>1
    <3> QED BY <2>1, <3>3, <2>2, <3>1, <3>2, ClientTask
  <2>4. CASE ~InFlight(c)
    <3>1. UNCHANGED <<status, cut, mcp, open, graph>>
      BY <1>3, <2>1, <2>4 DEF Disconnect, tasks, gateways
    <3> QED BY <1>0, <2>1, <2>2, <3>1
            DEF ClientInv, OpenerInv, Opened, HasConnected, BornInv, CachedInv, StrayInv,
                NoStrayClient
  <2> QED BY <2>3, <2>4
<1>4. ASSUME NEW c \in Conn, NEW t \in Task, TurnMessage(c, t) \/ DecisionsMessage(c, t)
      PROVE  ClientInv'
  <2>1. /\ UNCHANGED <<cache, born, runtime, pc, victim, closing, cut, phase, mcp, open, graph,
                        gw>>
        /\ status[t] = "unused" /\ status' = [status EXCEPT ![t] = "created"]
    BY <1>4 DEF TurnMessage, DecisionsMessage, CreateTask, store, gateways, server
  <2>2. status'[t] = "created" /\ \A x \in Task \ {t} : status'[x] = status[x]
    BY <1>0, <2>1 DEF TypeOK
  <2>3. OpenerInv'
    <3>1. \A x \in Task : \A s : Opened(x, s) => Opened(x, s)'
      BY <2>1, <2>2 DEF Opened
    <3>2. \A x \in open : x \in Task \ {t}
      BY <1>0, <2>1 DEF OpenerInv, HasConnected, TypeOK
    <3>3. \A x \in open : HasConnected(x)'
      BY <1>0, <2>1, <2>2, <3>2 DEF OpenerInv, HasConnected
    <3>4. \A s \in Session : mcp[s] # None => mcp[s] \in Task
      BY <1>0 DEF TypeOK
    <3> QED BY <1>0, <2>1, <3>1, <3>3, <3>4 DEF OpenerInv, Opened
  <2>4. BornInv' /\ CachedInv'
    BY <1>0, <2>1, <2>2 DEF BornInv, CachedInv
  <2>5. StrayInv'
    <3>1. \A x \in open : x \in Task \ {t}
      BY <1>0, <2>1 DEF OpenerInv, HasConnected, TypeOK
    <3> QED BY <1>0, <2>1, <2>2, <3>1 DEF StrayInv, NoStrayClient
  <2> QED BY <2>3, <2>4, <2>5 DEF ClientInv
<1>5. CASE ShutdownBegins
  BY <1>0, <1>5 DEF ShutdownBegins, ClientInv, OpenerInv, Opened, HasConnected, BornInv,
                    CachedInv, StrayInv, NoStrayClient, store, gateways, handlers, tasks
<1>6. ASSUME NEW s \in Session, DestroyOne(s) PROVE ClientInv'
  <2>1. /\ UNCHANGED <<cache, born, runtime, pc, victim, closing, phase, status, gw>>
        /\ phase # "up" /\ mcp' = [mcp EXCEPT ![s] = None] /\ open' \subseteq open
        /\ graph' = [graph EXCEPT ![s] = FALSE]
    BY <1>6 DEF DestroyOne, CloseClient, store, handlers, tasks
  <2>2. OpenerInv' /\ BornInv'
    BY <1>0, <2>1 DEF OpenerInv, Opened, HasConnected, BornInv, TypeOK
  <2> QED BY <2>1, <2>2 DEF ClientInv, CachedInv, StrayInv, NoStrayClient
<1>7. CASE ShutdownEnds
  <2>1. /\ UNCHANGED <<born, runtime, pc, victim, closing, mcp, open, graph, gw>> /\ cache' = {}
        /\ phase' = "down"
        /\ \A t \in Task : status'[t] = IF Active(t) THEN "done" ELSE status[t]
    BY <1>7 DEF ShutdownEnds, gateways, handlers
  <2>2. OpenerInv'
    <3>1. \A x \in Task : \A s : Opened(x, s) => Opened(x, s)'
      BY <2>1 DEF Opened
    <3>2. \A x \in Task : HasConnected(x) => HasConnected(x)'
      BY <2>1 DEF HasConnected
    <3>3. open \subseteq Task /\ \A s \in Session : mcp[s] # None => mcp[s] \in Task
      BY <1>0 DEF TypeOK
    <3> QED BY <1>0, <2>1, <3>1, <3>2, <3>3 DEF OpenerInv, Opened, HasConnected
  <2>3. BornInv'
    BY <1>0, <2>1 DEF BornInv
  <2> QED BY <2>1, <2>2, <2>3 DEF ClientInv, CachedInv, StrayInv, NoStrayClient
<1>8. CASE Stopped \/ UNCHANGED vars
  BY <1>0, <1>8 DEF Stopped, vars, store, gateways, handlers, tasks, server, ClientInv,
                    OpenerInv, Opened, HasConnected, BornInv, CachedInv, StrayInv, NoStrayClient
<1> QED BY <1>1, <1>2, <1>3, <1>4, <1>5, <1>6, <1>7, <1>8, ClientTaskStep DEF Next

\* The steps of the two theorems that follow.
LEMMA ClientsKept ==
    ASSUME SwitchMidTurn = FALSE
    PROVE  Spec => [](StreamHasClient /\ NoStrayClient)
<1>1. Init => StableIInv /\ NewInv /\ ClientInv
  BY TypeInit, LockInit, StableInit, ClientInit DEF StableIInv, LockIInv, Init, NewInv
<1>2. StableIInv /\ NewInv /\ ClientInv /\ [Next]_vars => (StableIInv /\ NewInv /\ ClientInv)'
  BY TypeNext, LockNext, StableNext, NewNext, ClientNext, ConstantsAssumption
     DEF StableIInv, LockIInv
<1>3. ClientInv => StreamHasClient /\ NoStrayClient
  BY ClientImplies
<1> QED BY <1>1, <1>2, <1>3, PTL DEF Spec

(* Until the shutdown, a turn that streams on a cached session has an open MCP client, *)
(* if clients send no init and no clear during their own turn.                         *)
THEOREM StreamHasClientHolds ==
    ASSUME SwitchMidTurn = FALSE
    PROVE  Spec => []StreamHasClient
<1>1. Spec => [](StreamHasClient /\ NoStrayClient)
  BY ClientsKept
<1> QED BY <1>1, PTL

(* Every MCP client that was opened for a cached session and is still open is the one  *)
(* its gateway holds, so that destroy() finds it; except those whose build was         *)
(* cancelled while it listed the tools. The client of a failed build is never left.    *)
THEOREM NoStrayClientHolds ==
    ASSUME SwitchMidTurn = FALSE
    PROVE  Spec => []NoStrayClient
<1>1. Spec => [](StreamHasClient /\ NoStrayClient)
  BY ClientsKept
<1> QED BY <1>1, PTL

-----------------------------------------------------------------------------
(* The cap. What counts against it are a user's cached sessions and the handlers that *)
(* have evicted one of them for the session they will create. A handler that creates   *)
(* without waiting found room, or gave up one session; so the count exceeds the cap    *)
(* only by handlers that waited at the same time, of which the last one finds no room. *)
CapInv == IsFiniteSet(cache) /\ CapOvershoot

\* What a step may do to a user's sessions S and to the handlers C creating one.
Fits(S, C, S2, C2) ==
    \/ S2 \subseteq S /\ C2 \subseteq C
    \/ \E S0 \in SUBSET S, x \in Session :
         S2 \subseteq S0 \cup {x} /\ Cardinality(S0) < Cap /\ C2 # Conn
    \/ \E y \in S, x \in Session : S2 \subseteq (S \ {y}) \cup {x} /\ C2 \subseteq C
    \/ \E y \in S, d \in Conn : S2 \subseteq S \ {y} /\ C2 \subseteq C \cup {d}
    \/ \E d \in C, x \in Session : S2 \subseteq S \cup {x} /\ C2 \subseteq C \ {d}

LEMMA FitsCap ==
    ASSUME NEW S, NEW C \in SUBSET Conn, NEW S2, NEW C2 \in SUBSET Conn,
           IsFiniteSet(S), IsFiniteSet(Conn), Fits(S, C, S2, C2),
           Cardinality(S) + Cardinality(C) <= Cap + Cardinality(Conn) - 1
    PROVE  Cardinality(S2) + Cardinality(C2) <= Cap + Cardinality(Conn) - 1
<1>1. /\ IsFiniteSet(C) /\ IsFiniteSet(C2) /\ Cap \in Nat
      /\ Cardinality(Conn) \in Nat /\ Cardinality(S) \in Nat
      /\ Cardinality(C) \in Nat /\ Cardinality(C2) \in Nat
  BY FS_Subset, FS_CardinalityType, ConstantsAssumption DEF ConstantsAssumption
<1>2. ASSUME NEW A, NEW B, IsFiniteSet(B), A \subseteq B
      PROVE  IsFiniteSet(A) /\ Cardinality(A) \in Nat /\ Cardinality(A) <= Cardinality(B)
  BY <1>2, FS_Subset, FS_CardinalityType
<1>3. ASSUME NEW A, NEW x, IsFiniteSet(A)
      PROVE  /\ IsFiniteSet(A \cup {x}) /\ Cardinality(A \cup {x}) \in Nat
             /\ Cardinality(A \cup {x}) <= Cardinality(A) + 1
  <2>1. /\ IsFiniteSet(A \cup {x}) /\ Cardinality(A) \in Nat
        /\ Cardinality(A \cup {x}) = Cardinality(A) \/ Cardinality(A \cup {x}) = Cardinality(A) + 1
    BY <1>3, FS_AddElement, FS_CardinalityType
  <2> QED BY <2>1
<1>4. ASSUME NEW A, NEW x \in A, IsFiniteSet(A)
      PROVE  /\ IsFiniteSet(A \ {x}) /\ Cardinality(A \ {x}) \in Nat
             /\ Cardinality(A \ {x}) = Cardinality(A) - 1 /\ Cardinality(A) \in Nat
  <2>1. /\ IsFiniteSet(A \ {x}) /\ Cardinality(A \ {x}) = Cardinality(A) - 1
    BY <1>4, FS_RemoveElement
  <2> QED BY <1>4, <2>1, FS_CardinalityType
<1>5. CASE S2 \subseteq S /\ C2 \subseteq C
  <2>1. /\ Cardinality(S2) \in Nat /\ Cardinality(S2) <= Cardinality(S)
        /\ Cardinality(C2) <= Cardinality(C)
    BY <1>1, <1>2, <1>5
  <2> QED BY <1>1, <2>1
<1>6. CASE \E S0 \in SUBSET S, x \in Session :
             S2 \subseteq S0 \cup {x} /\ Cardinality(S0) < Cap /\ C2 # Conn
  <2>1. PICK S0 \in SUBSET S, x \in Session :
            S2 \subseteq S0 \cup {x} /\ Cardinality(S0) < Cap /\ C2 # Conn
    BY <1>6
  <2>2. IsFiniteSet(S0) /\ Cardinality(S0) \in Nat
    BY <1>2
  <2>3. IsFiniteSet(S0 \cup {x}) /\ Cardinality(S0 \cup {x}) \in Nat
        /\ Cardinality(S0 \cup {x}) <= Cardinality(S0) + 1
    BY <1>3, <2>2
  <2>4. Cardinality(S2) \in Nat /\ Cardinality(S2) <= Cardinality(S0 \cup {x})
    BY <1>2, <2>1, <2>3
  <2>5. PICK d \in Conn : d \notin C2
    BY <2>1
  <2>6. Cardinality(Conn \ {d}) = Cardinality(Conn) - 1 /\ IsFiniteSet(Conn \ {d})
    BY <1>4
  <2>7. Cardinality(C2) <= Cardinality(Conn \ {d})
    <3>1. C2 \subseteq Conn \ {d}
      BY <2>5
    <3> QED BY <1>2, <2>6, <3>1
  <2> QED BY <1>1, <2>1, <2>2, <2>3, <2>4, <2>6, <2>7
<1>7. CASE \E y \in S, x \in Session : S2 \subseteq (S \ {y}) \cup {x} /\ C2 \subseteq C
  <2>1. PICK y \in S, x \in Session : S2 \subseteq (S \ {y}) \cup {x} /\ C2 \subseteq C
    BY <1>7
  <2>2. IsFiniteSet(S \ {y}) /\ Cardinality(S \ {y}) = Cardinality(S) - 1
    BY <1>4
  <2>3. /\ IsFiniteSet((S \ {y}) \cup {x}) /\ Cardinality((S \ {y}) \cup {x}) \in Nat
        /\ Cardinality((S \ {y}) \cup {x}) <= Cardinality(S \ {y}) + 1
    BY <1>3, <2>2
  <2>4. Cardinality(S2) \in Nat /\ Cardinality(S2) <= Cardinality((S \ {y}) \cup {x})
    BY <1>2, <2>1, <2>3
  <2>5. Cardinality(C2) <= Cardinality(C)
    BY <1>1, <1>2, <2>1
  <2> QED BY <1>1, <2>2, <2>3, <2>4, <2>5
<1>8. CASE \E y \in S, d \in Conn : S2 \subseteq S \ {y} /\ C2 \subseteq C \cup {d}
  <2>1. PICK y \in S, d \in Conn : S2 \subseteq S \ {y} /\ C2 \subseteq C \cup {d}
    BY <1>8
  <2>2. IsFiniteSet(S \ {y}) /\ Cardinality(S \ {y}) = Cardinality(S) - 1
    BY <1>4
  <2>3. Cardinality(S2) \in Nat /\ Cardinality(S2) <= Cardinality(S \ {y})
    BY <1>2, <2>1, <2>2
  <2>4. /\ IsFiniteSet(C \cup {d}) /\ Cardinality(C \cup {d}) \in Nat
        /\ Cardinality(C \cup {d}) <= Cardinality(C) + 1
    BY <1>1, <1>3
  <2>5. Cardinality(C2) <= Cardinality(C \cup {d})
    BY <1>2, <2>1, <2>4
  <2> QED BY <1>1, <2>2, <2>3, <2>4, <2>5
<1>9. CASE \E d \in C, x \in Session : S2 \subseteq S \cup {x} /\ C2 \subseteq C \ {d}
  <2>1. PICK d \in C, x \in Session : S2 \subseteq S \cup {x} /\ C2 \subseteq C \ {d}
    BY <1>9
  <2>2. IsFiniteSet(C \ {d}) /\ Cardinality(C \ {d}) = Cardinality(C) - 1
    BY <1>1, <1>4
  <2>3. Cardinality(C2) <= Cardinality(C \ {d})
    BY <1>2, <2>1, <2>2
  <2>4. /\ IsFiniteSet(S \cup {x}) /\ Cardinality(S \cup {x}) \in Nat
        /\ Cardinality(S \cup {x}) <= Cardinality(S) + 1
    BY <1>3
  <2>5. Cardinality(S2) \in Nat /\ Cardinality(S2) <= Cardinality(S \cup {x})
    BY <1>2, <2>1, <2>4
  <2> QED BY <1>1, <2>2, <2>3, <2>4, <2>5
<1> QED BY <1>5, <1>6, <1>7, <1>8, <1>9 DEF Fits

LEMMA InstallCounts ==
    ASSUME TypeOK, NEW c \in Conn, NEW v, NEW id \in Session \ cache, NEW cached, NEW dead,
           cached \subseteq cache, Install(c, v, id, cached, dead), NEW u
    PROVE  /\ SessionsOf(u, cache)' \subseteq
                  SessionsOf(u, cached) \cup (IF u = v THEN {id} ELSE {})
           /\ Creating(u)' \subseteq Creating(u) \ {c}
<1>1. /\ cache' = cached \cup {id} /\ owner' = [owner EXCEPT ![id] = v]
      /\ pc' = [pc EXCEPT ![c] = "ready"] /\ newUser' = [newUser EXCEPT ![c] = None]
      /\ DOMAIN owner = Session /\ DOMAIN pc = Conn /\ DOMAIN newUser = Conn
      /\ cache \subseteq Session
  BY DEF Install, TypeOK
<1>2. SessionsOf(u, cache)' \subseteq SessionsOf(u, cached) \cup (IF u = v THEN {id} ELSE {})
  <2>1. owner'[id] = v /\ \A s \in cached : owner'[s] = owner[s]
    BY <1>1
  <2> QED BY <1>1, <2>1 DEF SessionsOf
<1>3. Creating(u)' \subseteq Creating(u) \ {c}
  <2>1. pc'[c] = "ready" /\ \A d \in Conn \ {c} : pc'[d] = pc[d] /\ newUser'[d] = newUser[d]
    BY <1>1
  <2> QED BY <2>1 DEF Creating
<1> QED BY <1>2, <1>3

LEMMA AwaitCounts ==
    ASSUME TypeOK, NEW c \in Conn, NEW where, NEW s, NEW v, NEW id, NEW cached, NEW dead,
           Await(c, where, s, v, id, cached, dead), NEW u
    PROVE  /\ SessionsOf(u, cache)' = SessionsOf(u, cached)
           /\ Creating(u)' \subseteq
                  (Creating(u) \ {c}) \cup (IF where = "evicting" /\ u = v THEN {c} ELSE {})
<1>1. /\ cache' = cached /\ UNCHANGED owner
      /\ pc' = [pc EXCEPT ![c] = where] /\ newUser' = [newUser EXCEPT ![c] = v]
      /\ DOMAIN pc = Conn /\ DOMAIN newUser = Conn
  BY DEF Await, TypeOK
<1>2. /\ pc'[c] = where /\ newUser'[c] = v
      /\ \A d \in Conn \ {c} : pc'[d] = pc[d] /\ newUser'[d] = newUser[d]
  BY <1>1
<1>3. SessionsOf(u, cache)' = SessionsOf(u, cached)
  BY <1>1 DEF SessionsOf
<1>4. Creating(u)' \subseteq
          (Creating(u) \ {c}) \cup (IF where = "evicting" /\ u = v THEN {c} ELSE {})
  BY <1>2 DEF Creating
<1> QED BY <1>3, <1>4

LEMMA EvictCounts ==
    ASSUME TypeOK, NEW c \in Conn, NEW v, NEW id \in Session \ cache, NEW cached, NEW dead,
           cached \subseteq cache, EvictAndCreate(c, v, id, cached, dead), NEW u
    PROVE  Fits(SessionsOf(u, cache), Creating(u), SessionsOf(u, cache)', Creating(u)')
<1> DEFINE mine == SessionsOf(v, cached)
<1>0. \A w, a, b : a \subseteq b => SessionsOf(w, a) \subseteq SessionsOf(w, b)
  BY DEF SessionsOf
<1>1. CASE HasRoom(mine) /\ Install(c, v, id, cached, dead)
  <2>1. /\ SessionsOf(u, cache)' \subseteq
               SessionsOf(u, cached) \cup (IF u = v THEN {id} ELSE {})
        /\ Creating(u)' \subseteq Creating(u) \ {c}
    BY <1>1, InstallCounts
  <2>2. SessionsOf(u, cached) \subseteq SessionsOf(u, cache)
    BY <1>0
  <2>3. CASE u # v
    BY <2>1, <2>2, <2>3 DEF Fits
  <2>4. CASE u = v
    <3>1. /\ SessionsOf(u, cached) \in SUBSET SessionsOf(u, cache)
          /\ SessionsOf(u, cache)' \subseteq SessionsOf(u, cached) \cup {id}
          /\ Cardinality(SessionsOf(u, cached)) < Cap
          /\ Creating(u)' # Conn
      BY <1>1, <2>1, <2>2, <2>4 DEF HasRoom
    <3> QED BY <3>1 DEF Fits
  <2> QED BY <2>3, <2>4
<1>2. CASE \E s \in mine : mcp[s] = None /\ Install(c, v, id, cached \ {s}, dead \cup {s})
  <2>1. PICK s \in mine : Install(c, v, id, cached \ {s}, dead \cup {s})
    BY <1>2
  <2>2. /\ SessionsOf(u, cache)' \subseteq
               SessionsOf(u, cached \ {s}) \cup (IF u = v THEN {id} ELSE {})
        /\ Creating(u)' \subseteq Creating(u) \ {c}
    <3>1. cached \ {s} \subseteq cache
      OBVIOUS
    <3> QED BY <2>1, <3>1, InstallCounts
  <2>3. SessionsOf(u, cached \ {s}) \subseteq SessionsOf(u, cache) \ {s}
    BY DEF SessionsOf
  <2>4. CASE u # v
    BY <2>2, <2>3, <2>4 DEF Fits
  <2>5. CASE u = v
    <3>1. s \in SessionsOf(u, cache)
      BY <1>0, <2>5
    <3>2. /\ SessionsOf(u, cache)' \subseteq (SessionsOf(u, cache) \ {s}) \cup {id}
          /\ Creating(u)' \subseteq Creating(u)
      BY <2>2, <2>3, <2>5
    <3> QED BY <3>1, <3>2 DEF Fits
  <2> QED BY <2>4, <2>5
<1>3. CASE \E s \in mine : Await(c, "evicting", s, v, id, cached \ {s}, dead)
  <2>1. PICK s \in mine : Await(c, "evicting", s, v, id, cached \ {s}, dead)
    BY <1>3
  <2>2. /\ SessionsOf(u, cache)' = SessionsOf(u, cached \ {s})
        /\ Creating(u)' \subseteq (Creating(u) \ {c}) \cup (IF u = v THEN {c} ELSE {})
    BY <2>1, AwaitCounts
  <2>3. SessionsOf(u, cached \ {s}) \subseteq SessionsOf(u, cache) \ {s}
    BY DEF SessionsOf
  <2>4. CASE u # v
    BY <2>2, <2>3, <2>4 DEF Fits
  <2>5. CASE u = v
    <3>1. s \in SessionsOf(u, cache)
      BY <1>0, <2>5
    <3>2. /\ SessionsOf(u, cache)' \subseteq SessionsOf(u, cache) \ {s}
          /\ Creating(u)' \subseteq Creating(u) \cup {c}
      BY <2>2, <2>3
    <3> QED BY <3>1, <3>2 DEF Fits
  <2> QED BY <2>4, <2>5
<1> HIDE DEF Fits
<1> QED BY <1>1, <1>2, <1>3 DEF EvictAndCreate

LEMMA HandlerCounts ==
    ASSUME ConstantsAssumption, TypeInv, NewInv, NEW c \in Conn,
           InitNew(c) \/ Clear(c) \/ HandlerResumes(c), NEW u
    PROVE  Fits(SessionsOf(u, cache), Creating(u), SessionsOf(u, cache)', Creating(u)')
<1>0. TypeOK /\ HandlerInv /\ cache \subseteq born
  BY DEF TypeInv, TypeOK
<1>1. Fresh \subseteq Session \ cache
  BY <1>0 DEF Fresh
<1>2. pc[c] \in {"clearing", "evicting"} => newId[c] \in Session \ cache
  BY <1>0 DEF HandlerInv, NewInv, ConstantsAssumption
<1>3. CASE InitNew(c)
  BY <1>0, <1>1, <1>3, EvictCounts DEF InitNew
<1>4. CASE Clear(c)
  <2>1. PICK id \in Fresh :
            IF runtime[c] = None THEN EvictAndCreate(c, None, id, cache, {})
            ELSE IF mcp[runtime[c]] = None
                 THEN EvictAndCreate(c, owner[runtime[c]], id, cache \ {runtime[c]}, {runtime[c]})
                 ELSE Await(c, "clearing", runtime[c], owner[runtime[c]], id,
                            cache \ {runtime[c]}, {})
    BY <1>4 DEF Clear
  <2>2. CASE Await(c, "clearing", runtime[c], owner[runtime[c]], id, cache \ {runtime[c]}, {})
    <3>1. /\ SessionsOf(u, cache)' = SessionsOf(u, cache \ {runtime[c]})
          /\ Creating(u)' \subseteq Creating(u)
      BY <1>0, <2>2, AwaitCounts
    <3>2. SessionsOf(u, cache \ {runtime[c]}) \subseteq SessionsOf(u, cache)
      BY DEF SessionsOf
    <3> QED BY <3>1, <3>2 DEF Fits
  <2>3. cache \ {runtime[c]} \subseteq cache /\ id \in Session \ cache
    BY <1>1
  <2> QED BY <1>0, <2>1, <2>2, <2>3, EvictCounts
<1>5. CASE Cleared(c)
  BY <1>0, <1>2, <1>5, EvictCounts DEF Cleared
<1>6. CASE Evicted(c)
  <2>1. Install(c, newUser[c], newId[c], cache, {victim[c]}) /\ pc[c] = "evicting"
    BY <1>6 DEF Evicted
  <2>2. /\ SessionsOf(u, cache)' \subseteq
               SessionsOf(u, cache) \cup (IF u = newUser[c] THEN {newId[c]} ELSE {})
        /\ Creating(u)' \subseteq Creating(u) \ {c}
    BY <1>0, <1>2, <2>1, InstallCounts
  <2>3. CASE u # newUser[c]
    BY <2>2, <2>3 DEF Fits
  <2>4. CASE u = newUser[c]
    <3>1. c \in Creating(u) /\ newId[c] \in Session
      BY <1>2, <2>1, <2>4 DEF Creating
    <3> QED BY <2>2, <2>4, <3>1 DEF Fits
  <2> QED BY <2>3, <2>4
<1> QED BY <1>3, <1>4, <1>5, <1>6 DEF HandlerResumes

LEMMA CapNext ==
    ASSUME ConstantsAssumption, TypeInv, NewInv, CapInv, IsFiniteSet(Conn), [Next]_vars
    PROVE  CapInv'
<1>1. ASSUME NEW u
      PROVE  Fits(SessionsOf(u, cache), Creating(u), SessionsOf(u, cache)', Creating(u)')
  <2>1. CASE /\ cache' \subseteq cache /\ UNCHANGED <<owner, newUser>>
             /\ \A c \in Conn : pc'[c] = "evicting" => pc[c] = "evicting"
    <3>1. SessionsOf(u, cache)' \subseteq SessionsOf(u, cache)
      BY <2>1 DEF SessionsOf
    <3>2. Creating(u)' \subseteq Creating(u)
      BY <2>1 DEF Creating
    <3> QED BY <3>1, <3>2 DEF Fits
  <2>2. ASSUME NEW c \in Conn, InitNew(c) \/ Clear(c) \/ HandlerResumes(c)
        PROVE  Fits(SessionsOf(u, cache), Creating(u), SessionsOf(u, cache)', Creating(u)')
    BY <2>2, HandlerCounts
  <2>3. ASSUME NEW c \in Conn,
               \/ \E s \in Session : InitResume(c, s)
               \/ \E t \in Task : TurnMessage(c, t) \/ DecisionsMessage(c, t)
        PROVE  UNCHANGED <<cache, owner, newUser, pc>>
    BY <2>3 DEF InitResume, TurnMessage, DecisionsMessage, CreateTask, store
  <2>4. ASSUME NEW c \in Conn, Disconnect(c)
        PROVE  /\ UNCHANGED <<cache, owner, newUser>>
               /\ \A d \in Conn : pc'[d] = "evicting" => pc[d] = "evicting"
    BY <2>4 DEF Disconnect, store, TypeInv, TypeOK
  <2>5. ASSUME NEW t \in Task, TaskStep(t) PROVE UNCHANGED <<cache, owner, newUser, pc>>
    BY <2>5 DEF TaskStep, StartTask, Grant, GuardrailBlocks, EnsureGraph, Connected, BuildFails,
                GraphBuilt, StreamBegins, TurnEnds, Touch, Advance, store, handlers
  <2>6. CASE ShutdownEnds
    <3>1. cache' = {} /\ UNCHANGED <<owner, newUser, pc>>
      BY <2>6 DEF ShutdownEnds, handlers
    <3> QED BY <2>1, <3>1
  <2>7. CASE ShutdownBegins \/ Stopped \/ UNCHANGED vars \/ \E s \in Session : DestroyOne(s)
    <3>1. UNCHANGED <<cache, owner, newUser, pc>>
      BY <2>7 DEF ShutdownBegins, Stopped, DestroyOne, vars, store, handlers
    <3> QED BY <2>1, <3>1
  <2> QED BY <2>1, <2>2, <2>3, <2>4, <2>5, <2>6, <2>7 DEF Next
<1>2. IsFiniteSet(cache)'
  <2>1. \/ cache' \subseteq cache
        \/ \E id \in Session : cache' \subseteq cache \cup {id}
    BY CreatesOnly DEF Creates
  <2> QED BY <2>1, FS_Subset, FS_AddElement DEF CapInv
<1>3. CapOvershoot'
  <2>1. ASSUME NEW u \in User \cup {None}
        PROVE  Cardinality(SessionsOf(u, cache)') + Cardinality(Creating(u)')
                   <= Cap + Cardinality(Conn) - 1
    <3>1. /\ IsFiniteSet(SessionsOf(u, cache))
          /\ Creating(u) \in SUBSET Conn /\ Creating(u)' \in SUBSET Conn
          /\ Cardinality(SessionsOf(u, cache)) + Cardinality(Creating(u))
                 <= Cap + Cardinality(Conn) - 1
      <4>1. SessionsOf(u, cache) \in SUBSET cache
        BY DEF SessionsOf
      <4> QED BY <4>1, FS_Subset DEF CapInv, CapOvershoot, Creating
    <3> QED BY <1>1, <3>1, FitsCap
  <2> QED BY <2>1 DEF CapOvershoot
<1> QED BY <1>2, <1>3 DEF CapInv

(* A user's sessions exceed the cap by less than the number of connections.          *)
THEOREM CapOvershootHolds ==
    ASSUME IsFiniteSet(Conn)
    PROVE  Spec => []CapOvershoot
<1>1. Init => TypeInv /\ NewInv /\ CapInv
  <2>1. ASSUME Init PROVE CapInv
    <3>1. cache = {} /\ \A c \in Conn : pc[c] = "ready"
      BY <2>1 DEF Init
    <3>2. \A u : SessionsOf(u, cache) = {} /\ Creating(u) = {}
      BY <3>1 DEF SessionsOf, Creating
    <3>3. /\ IsFiniteSet({}) /\ Cardinality({}) = 0 /\ Cardinality(Conn) \in Nat
          /\ Cap \in Nat \ {0}
      BY FS_EmptySet, FS_CardinalityType, ConstantsAssumption DEF ConstantsAssumption
    <3> QED BY <3>1, <3>2, <3>3 DEF CapInv, CapOvershoot
  <2> QED BY <2>1, TypeInit DEF Init, NewInv
<1>2. TypeInv /\ NewInv /\ CapInv /\ [Next]_vars => (TypeInv /\ NewInv /\ CapInv)'
  BY TypeNext, NewNext, CapNext, ConstantsAssumption
<1>3. CapInv => CapOvershoot
  BY DEF CapInv
<1> QED BY <1>1, <1>2, <1>3, PTL DEF Spec
-----------------------------------------------------------------------------
(* What the session layer promises. A task that was created has a handler, and the     *)
(* session that a handler is about to create is for its user, or for the user of the    *)
(* session that it clears.                                                             *)
AskedInv ==
    \A t \in Task : IF status[t] = "unused" THEN by[t] = None ELSE by[t] \in Conn

ForInv == \A c \in Conn : pc[c] \in {"clearing", "evicting"} => newUser[c] \in Promised!For(c)

PromiseInv == StableIInv /\ NewInv /\ ClientInv /\ AskedInv /\ ForInv

promised ==
    <<<<cache, born \ cache, owner, runtime>>,
      <<by, [s \in Session |-> Driving(s)], {t \in Task : status[t] = "done"}>>>>

LEMMA AskedNext ==
    ASSUME TypeInv, AskedInv, [Next]_vars
    PROVE  AskedInv'
<1>0. TypeOK
  BY DEF TypeInv
<1>1. ASSUME UNCHANGED by, \A t \in Task : status'[t] = "unused" <=> status[t] = "unused"
      PROVE  AskedInv'
  BY <1>1 DEF AskedInv
<1>2. ASSUME NEW t \in Task, Leave(t), status[t] # "unused" PROVE AskedInv'
  <2>1. UNCHANGED by /\ \A x \in Task : status'[x] = IF x = t THEN "done" ELSE status[x]
    BY <1>0, <1>2 DEF Leave, TypeOK
  <2> QED BY <1>1, <1>2, <2>1
<1>3. ASSUME NEW c \in Conn,
             \/ \E s \in Session : InitResume(c, s)
             \/ InitNew(c) \/ Clear(c) \/ HandlerResumes(c)
      PROVE  AskedInv'
  BY <1>1, <1>3 DEF InitResume, InitNew, Clear, HandlerResumes, Cleared, Evicted, tasks
<1>4. ASSUME NEW c \in Conn, Disconnect(c) PROVE AskedInv'
  BY <1>0, <1>1, <1>2, <1>4 DEF Disconnect, InFlight, Active, TypeOK, tasks
<1>5. ASSUME NEW c \in Conn, NEW t \in Task, TurnMessage(c, t) \/ DecisionsMessage(c, t)
      PROVE  AskedInv'
  <2>1. /\ by' = [by EXCEPT ![t] = c] /\ status' = [status EXCEPT ![t] = "created"]
    BY <1>5 DEF TurnMessage, DecisionsMessage, CreateTask
  <2> QED BY <1>0, <2>1 DEF AskedInv, TypeOK
<1>6. ASSUME NEW t \in Task, status[t] # "unused", UNCHANGED by,
             \E x \in Status \ {"unused"} : status' = [status EXCEPT ![t] = x]
      PROVE  AskedInv'
  <2>1. \A x \in Task : status'[x] = "unused" <=> status[x] = "unused"
    BY <1>0, <1>6 DEF TypeOK
  <2> QED BY <1>1, <1>6, <2>1
<1>7. ASSUME NEW t \in Task, TaskStep(t) PROVE AskedInv'
  <2>1. ASSUME NEW from \in InTurn, NEW to \in InTurn, Advance(t, from, to) PROVE AskedInv'
    BY <1>6, <2>1 DEF Advance, InTurn, Status
  <2>2. CASE StartTask(t)
    BY <1>6, <2>2 DEF StartTask, Enter, InTurn, Status
  <2>3. CASE Grant(t)
    BY <1>6, <2>3 DEF Grant, Enter, InTurn, Status
  <2>4. CASE TurnEnds(t)
    BY <1>2, <2>4 DEF TurnEnds
  <2>5. CASE GuardrailBlocks(t) \/ EnsureGraph(t) \/ Connected(t)
    BY <2>1, <2>5 DEF GuardrailBlocks, EnsureGraph, Connected, InTurn
  <2>6. CASE BuildFails(t) \/ GraphBuilt(t) \/ StreamBegins(t)
    BY <2>1, <2>6 DEF BuildFails, GraphBuilt, StreamBegins, InTurn
  <2> QED BY <1>7, <2>2, <2>3, <2>4, <2>5, <2>6 DEF TaskStep
<1>8. CASE ShutdownEnds
  <2>1. UNCHANGED by /\ \A t \in Task : status'[t] = "unused" <=> status[t] = "unused"
    BY <1>8 DEF ShutdownEnds, Active
  <2> QED BY <1>1, <2>1
<1>9. CASE ShutdownBegins \/ Stopped \/ UNCHANGED vars \/ \E s \in Session : DestroyOne(s)
  BY <1>1, <1>9 DEF ShutdownBegins, Stopped, DestroyOne, vars, tasks
<1> QED BY <1>3, <1>4, <1>5, <1>7, <1>8, <1>9 DEF Next

\* Steps that leave owners, runtimes and suspended handlers alone.
LEMMA ForKept ==
    ASSUME ForInv, UNCHANGED <<owner, runtime, newUser>>,
           \A c \in Conn : pc'[c] \in {"clearing", "evicting"} => pc'[c] = pc[c]
    PROVE  ForInv'
BY DEF ForInv, Promised!For

\* A handler's step drops the session it is in and some of the user it creates one for,
\* and opens at most one.
LEMMA HandlerPromises ==
    ASSUME PromiseInv, NEW c \in Conn, InitNew(c) \/ Clear(c) \/ HandlerResumes(c)
    PROVE  /\ ForInv'
           /\ \E dropped \in SUBSET cache :
                \/ Promised!Drop(c, dropped)
                \/ \E id \in Session : Promised!Open(c, id, dropped)
<1> DEFINE Goal == /\ ForInv'
                   /\ \E dropped \in SUBSET cache :
                        \/ Promised!Drop(c, dropped)
                        \/ \E id \in Session : Promised!Open(c, id, dropped)
           Free(u, id, cached) ==
               /\ id \in Session \ born /\ u \in Promised!For(c)
               /\ cached \subseteq cache
               /\ cache \ cached \subseteq Promised!Takes(c, u)
<1>0. /\ TypeOK /\ HandlerInv /\ NewInv /\ BornInv /\ ForInv
      /\ None \notin Session /\ cache \subseteq born /\ born \subseteq Session
  BY ConstantsAssumption
     DEF PromiseInv, StableIInv, LockIInv, TypeInv, TypeOK, ClientInv, ConstantsAssumption
<1>1. UNCHANGED tasks
  BY DEF InitNew, Clear, HandlerResumes, Cleared, Evicted
<1>2. UNCHANGED <<by, [s \in Session |-> Driving(s)], {t \in Task : status[t] = "done"}>>
  BY <1>1 DEF tasks, Driving, Running
<1>3. ASSUME NEW u, NEW id, NEW cached, NEW dead, Free(u, id, cached),
             Install(c, u, id, cached, dead)
      PROVE  Goal
  <2>1. /\ cache' = cached \cup {id} /\ born' = born \cup {id}
        /\ owner' = [owner EXCEPT ![id] = u] /\ runtime' = [runtime EXCEPT ![c] = id]
        /\ pc' = [pc EXCEPT ![c] = "ready"] /\ newUser' = [newUser EXCEPT ![c] = None]
    BY <1>3 DEF Install
  <2>2. born' \ cache' = (born \ cache) \cup (cache \ cached)
        /\ cache' = (cache \ (cache \ cached)) \cup {id}
    BY <1>0, <1>3, <2>1
  <2>3. Promised!Open(c, id, cache \ cached)
    <3>1. id \notin cache \cup (born \ cache)
      BY <1>0, <1>3
    <3>2. \E user \in Promised!For(c) :
             /\ cache \ cached \subseteq Promised!Takes(c, user)
             /\ owner' = [owner EXCEPT ![id] = user]
      BY <1>3, <2>1
    <3> HIDE DEF Free
    <3> QED BY <1>2, <2>1, <2>2, <3>1, <3>2 DEF Promised!Open, Promised!turns
  <2>4. ForInv'
    <3> SUFFICES ASSUME NEW x \in Conn, pc'[x] \in {"clearing", "evicting"}
                 PROVE  newUser'[x] \in Promised!For(x)'
      BY DEF ForInv
    <3>1. /\ x # c /\ pc[x] = pc'[x] /\ newUser'[x] = newUser[x] /\ runtime'[x] = runtime[x]
      BY <1>0, <2>1 DEF TypeOK
    <3>2. runtime[x] # None => owner'[runtime[x]] = owner[runtime[x]]
      BY <1>0, <1>3, <2>1 DEF BornInv, TypeOK
    <3> QED BY <1>0, <3>1, <3>2 DEF ForInv, Promised!For
  <2> QED BY <1>0, <1>3, <2>3, <2>4
<1>4. ASSUME NEW where, NEW s, NEW u, NEW id, NEW cached, NEW dead, Free(u, id, cached),
             Await(c, where, s, u, id, cached, dead)
      PROVE  Goal
  <2>1. /\ cache' = cached /\ UNCHANGED <<born, owner, runtime>>
        /\ pc' = [pc EXCEPT ![c] = where] /\ newUser' = [newUser EXCEPT ![c] = u]
    BY <1>4 DEF Await
  <2>2. born' \ cache' = (born \ cache) \cup (cache \ cached)
        /\ cache' = cache \ (cache \ cached)
    BY <1>0, <1>4, <2>1
  <2>3. Promised!Drop(c, cache \ cached)
    <3>1. \E user \in Promised!For(c) : cache \ cached \subseteq Promised!Takes(c, user)
      BY <1>4
    <3> HIDE DEF Free
    <3> QED BY <1>2, <2>1, <2>2, <3>1 DEF Promised!Drop, Promised!turns
  <2>4. ForInv'
    BY <1>0, <1>4, <2>1 DEF TypeOK, ForInv, Promised!For
  <2> QED BY <2>3, <2>4
<1>5. ASSUME NEW u, NEW id, NEW cached, NEW dead, Free(u, id, cached),
             EvictAndCreate(c, u, id, cached, dead)
      PROVE  Goal
  <2>1. ASSUME NEW s \in SessionsOf(u, cached) PROVE Free(u, id, cached \ {s})
    BY <1>5, <2>1 DEF SessionsOf, Promised!Takes
  <2> HIDE DEF Free, Goal
  <2> QED BY <1>3, <1>4, <1>5, <2>1 DEF EvictAndCreate
<1>6. \A id \in Fresh : id \in Session \ born
  BY DEF Fresh
<1>7. pc[c] \in {"clearing", "evicting"} => Free(newUser[c], newId[c], cache)
  BY <1>0 DEF HandlerInv, NewInv, ForInv
<1>8. CASE InitNew(c)
  <2>1. \A id \in Fresh : Free(UserOf[c], id, cache)
    BY <1>6 DEF Promised!For
  <2> HIDE DEF Free, Goal
  <2>2. Goal
    BY <1>5, <1>8, <2>1 DEF InitNew
  <2> QED BY <2>2 DEF Goal
<1>9. CASE Clear(c)
  <2> DEFINE s == runtime[c]
  <2>1. PICK id \in Fresh :
            IF s = None THEN EvictAndCreate(c, None, id, cache, {})
            ELSE IF mcp[s] = None
                 THEN EvictAndCreate(c, owner[s], id, cache \ {s}, {s})
                 ELSE Await(c, "clearing", s, owner[s], id, cache \ {s}, {})
    BY <1>9 DEF Clear
  <2>2. s = None => Free(None, id, cache)
    BY <1>6 DEF Promised!For
  <2>3. s # None => Free(owner[s], id, cache \ {s})
    BY <1>6 DEF Promised!For, Promised!Takes
  <2> HIDE DEF s, Free, Goal
  <2>4. Goal
    BY <1>4, <1>5, <2>1, <2>2, <2>3
  <2> QED BY <2>4 DEF Goal
<1>10. CASE HandlerResumes(c)
  <2> HIDE DEF Free, Goal
  <2>1. Goal
    BY <1>3, <1>5, <1>7, <1>10 DEF HandlerResumes, Cleared, Evicted
  <2> QED BY <2>1 DEF Goal
<1> QED BY <1>8, <1>9, <1>10

LEMMA ForNext ==
    ASSUME PromiseInv, [Next]_vars
    PROVE  ForInv'
<1>0. TypeOK /\ ForInv
  BY DEF PromiseInv, StableIInv, LockIInv, TypeInv
<1>1. ASSUME NEW c \in Conn, NEW s \in Session, InitResume(c, s) PROVE ForInv'
  <2>1. /\ runtime' = [runtime EXCEPT ![c] = s] /\ pc[c] = "ready"
        /\ UNCHANGED <<owner, pc, newUser>>
    BY <1>1 DEF InitResume, Ready, store
  <2> QED BY <1>0, <2>1 DEF ForInv, Promised!For, TypeOK
<1>2. ASSUME NEW c \in Conn, InitNew(c) \/ Clear(c) \/ HandlerResumes(c) PROVE ForInv'
  BY <1>2, HandlerPromises
<1>3. ASSUME NEW c \in Conn,
             \/ Disconnect(c)
             \/ \E t \in Task : TurnMessage(c, t) \/ DecisionsMessage(c, t)
      PROVE  ForInv'
  BY <1>0, <1>3, ForKept DEF Disconnect, TurnMessage, DecisionsMessage, CreateTask, store, TypeOK
<1>4. ASSUME NEW t \in Task, TaskStep(t) PROVE UNCHANGED <<owner, runtime, newUser, pc>>
  BY <1>4 DEF TaskStep, StartTask, Grant, GuardrailBlocks, EnsureGraph, Connected, BuildFails,
              GraphBuilt, StreamBegins, TurnEnds, Touch, Advance, store, handlers
<1>5. CASE \/ ShutdownBegins \/ ShutdownEnds \/ Stopped \/ UNCHANGED vars
           \/ \E s \in Session : DestroyOne(s)
  BY <1>0, <1>5, ForKept
     DEF ShutdownBegins, ShutdownEnds, Stopped, DestroyOne, vars, store, handlers
<1> QED BY <1>0, <1>1, <1>2, <1>3, <1>4, <1>5, ForKept DEF Next

\* What the abstract turns see of a step in which nothing begins or ends.
LEMMA TurnsKept ==
    ASSUME UNCHANGED <<cache, born, owner, runtime, by>>,
           \A t \in Task : /\ Running(t)' <=> Running(t)
                           /\ Running(t) => gw'[t] = gw[t]
                           /\ status'[t] = "done" <=> status[t] = "done"
    PROVE  UNCHANGED promised
<1>1. \A s \in Session : Driving(s)' = Driving(s)
  BY DEF Driving
<1>2. {t \in Task : status[t] = "done"}' = {t \in Task : status[t] = "done"}
  OBVIOUS
<1> QED BY <1>1, <1>2 DEF promised

\* A task enters the lock that its handler's session has left free.
LEMMA Begins ==
    ASSUME PromiseInv, NEW t \in Task, status[t] \in {"created", "queued"},
           NEW s \in Session, s = runtime[by[t]], holder[s] = None, Enter(t),
           UNCHANGED <<cache, born, owner, runtime, by>>
    PROVE  Promised!Begin(t, s)
<1>0. /\ TypeOK /\ TaskInv /\ LockInv /\ StableInv /\ ConstantsAssumption
  BY ConstantsAssumption DEF PromiseInv, StableIInv, LockIInv, TypeInv
<1>1. by[t] \in Conn /\ by[t] # None
  BY <1>0 DEF TaskInv, Active, ConstantsAssumption
<1>2. ~Running(t) /\ status[t] # "done"
  BY DEF Running, InTurn
<1>3. Driving(s) = {}
  <2>1. ASSUME NEW x \in Task, Running(x), gw[x] = s PROVE FALSE
    <3>1. holder[s] = x
      BY <1>0, <2>1 DEF LockInv, StableInv
    <3> QED BY <1>0, <3>1 DEF ConstantsAssumption
  <2> QED BY <2>1 DEF Driving
<1>4. Promised!Waits(t)
  <2>1. \A x \in Session : t \notin Driving(x)
    BY <1>2 DEF Driving
  <2> QED BY <1>1, <1>2, <2>1 DEF Promised!Waits
<1>6. /\ status'[t] \in InTurn /\ gw'[t] = s
      /\ \A x \in Task \ {t} : status'[x] = status[x] /\ gw'[x] = gw[x]
  BY <1>0 DEF Enter, TypeOK, InTurn
<1>7. /\ Driving(s)' = {t}
      /\ \A x \in Session \ {s} : Driving(x)' = Driving(x)
  BY <1>2, <1>3, <1>6 DEF Driving, Running
<1>8. [x \in Session |-> Driving(x)]'
          = [[x \in Session |-> Driving(x)] EXCEPT ![s] = {t}]
  BY <1>7
<1>9. {x \in Task : status[x] = "done"}' = {x \in Task : status[x] = "done"}
  BY <1>2, <1>6 DEF InTurn
<1>10. [x \in Session |-> Driving(x)][s] = {}
  BY <1>3
<1> QED BY <1>4, <1>8, <1>9, <1>10 DEF Promised!Begin, Promised!conversations

\* A task leaves: it has waited until now, or it is the one that runs on its session.
LEMMA Ends ==
    ASSUME PromiseInv, NEW t \in Task, Active(t), Leave(t), UNCHANGED <<cache, born, owner, runtime>>
    PROVE  Promised!End(t)
<1>0. /\ TypeOK /\ TaskInv /\ TurnMutex /\ AskedInv /\ StableIInv /\ BornInv
      /\ ConstantsAssumption
  BY ConstantsAssumption, StableImpliesMutex
     DEF PromiseInv, StableIInv, LockIInv, TypeInv, ClientInv
<1>1. /\ UNCHANGED <<by, gw>> /\ status'[t] = "done"
      /\ \A x \in Task \ {t} : status'[x] = status[x]
  BY <1>0 DEF Leave, TypeOK
<1>2. \A s \in Session : Driving(s)' = Driving(s) \ {t}
  BY <1>1 DEF Driving, Running, InTurn
<1>3. {x \in Task : status[x] = "done"}' = {x \in Task : status[x] = "done"} \cup {t}
  BY <1>1
<1>5. CASE ~Running(t)
  <2>1. \A s \in Session : t \notin Driving(s)
    BY <1>5 DEF Driving
  <2>2. by[t] # None /\ t \notin {x \in Task : status[x] = "done"}
    BY <1>0 DEF TaskInv, Active, ConstantsAssumption
  <2>3. Promised!Waits(t)
    BY <2>1, <2>2 DEF Promised!Waits
  <2>4. [s \in Session |-> Driving(s)]' = [s \in Session |-> Driving(s)]
    BY <1>2, <2>1
  <2> QED BY <1>1, <1>3, <2>3, <2>4 DEF Promised!End, Promised!conversations
<1>6. CASE Running(t)
  <2>1. PICK s \in Session : s = gw[t]
    BY <1>0, <1>6, RunningBorn
  <2>2. Driving(s) = {t}
    BY <1>0, <1>6, <2>1 DEF Driving, TurnMutex
  <2>3. Driving(s)' = {} /\ \A x \in Session \ {s} : Driving(x)' = Driving(x)
    <3>1. \A x \in Session \ {s} : t \notin Driving(x)
      BY <2>1 DEF Driving
    <3> QED BY <1>2, <2>2, <3>1
  <2>4. [x \in Session |-> Driving(x)]' = [[x \in Session |-> Driving(x)] EXCEPT ![s] = {}]
        /\ [x \in Session |-> Driving(x)][s] = {t}
    BY <2>2, <2>3
  <2> QED BY <1>1, <1>3, <2>4 DEF Promised!End, Promised!conversations
<1> QED BY <1>5, <1>6

LEMMA PromisedTask ==
    ASSUME PromiseInv, NEW t \in Task, TaskStep(t)
    PROVE  [Promised!Next]_promised
<1>0. TypeOK /\ TaskInv /\ StableInv
  BY DEF PromiseInv, StableIInv, LockIInv, TypeInv
<1>1. ASSUME NEW s \in Session, Promised!Begin(t, s) PROVE [Promised!Next]_promised
  BY <1>1 DEF Promised!Next
<1>2. CASE StartTask(t)
  <2>1. UNCHANGED <<cache, born, owner, runtime, by>>
    BY <1>2 DEF StartTask, store, handlers
  <2>2. CASE holder[runtime[by[t]]] = None /\ waiters[runtime[by[t]]] = << >>
    <3>1. Enter(t) /\ status[t] = "created"
      BY <1>2, <2>2 DEF StartTask
    <3>2. PICK s \in Session : s = runtime[by[t]]
      BY <1>0, <3>1 DEF TaskInv, Active
    <3> QED BY <1>1, <2>1, <2>2, <3>1, <3>2, Begins
  <2>3. CASE ~(holder[runtime[by[t]]] = None /\ waiters[runtime[by[t]]] = << >>)
    <3>1. status[t] = "created" /\ status' = [status EXCEPT ![t] = "queued"] /\ gw' = gw
      BY <1>2, <2>3 DEF StartTask
    <3>2. \A x \in Task : /\ Running(x)' <=> Running(x)
                          /\ status'[x] = "done" <=> status[x] = "done"
      BY <1>0, <3>1 DEF Running, InTurn, TypeOK
    <3> QED BY <2>1, <3>1, <3>2, TurnsKept
  <2> QED BY <2>2, <2>3
<1>3. CASE Grant(t)
  <2>1. /\ UNCHANGED <<cache, born, owner, runtime, by>> /\ status[t] = "queued" /\ Enter(t)
        /\ holder[lockOf[t]] = None /\ lockOf[t] = runtime[by[t]]
    BY <1>0, <1>3 DEF Grant, store, handlers, StableInv
  <2>2. PICK s \in Session : s = runtime[by[t]]
    BY <1>0, <2>1 DEF TaskInv, Active
  <2> QED BY <1>1, <2>1, <2>2, Begins
<1>4. CASE TurnEnds(t)
  <2>1. Active(t) /\ Leave(t) /\ UNCHANGED <<cache, born, owner, runtime>>
    BY <1>4 DEF TurnEnds, Touch, Active, handlers
  <2>2. Promised!End(t)
    BY <2>1, Ends
  <2> QED BY <2>2 DEF Promised!Next
<1>5. ASSUME NEW from \in InTurn, NEW to \in InTurn, Advance(t, from, to)
      PROVE  UNCHANGED promised
  <2>1. /\ UNCHANGED <<cache, born, owner, runtime, by, gw>> /\ status[t] = from
        /\ status' = [status EXCEPT ![t] = to]
    BY <1>5 DEF Advance, store, handlers
  <2>2. \A x \in Task : /\ Running(x)' <=> Running(x)
                        /\ status'[x] = "done" <=> status[x] = "done"
    BY <1>0, <2>1 DEF Running, InTurn, TypeOK
  <2> QED BY <2>1, <2>2, TurnsKept
<1>6. CASE GuardrailBlocks(t) \/ EnsureGraph(t) \/ Connected(t)
  BY <1>5, <1>6 DEF GuardrailBlocks, EnsureGraph, Connected, InTurn
<1>7. CASE BuildFails(t) \/ GraphBuilt(t) \/ StreamBegins(t)
  BY <1>5, <1>7 DEF BuildFails, GraphBuilt, StreamBegins, InTurn
<1> QED BY <1>2, <1>3, <1>4, <1>6, <1>7 DEF TaskStep

LEMMA PromisedMessage ==
    ASSUME PromiseInv, NEW c \in Conn, NEW t \in Task,
           TurnMessage(c, t) \/ DecisionsMessage(c, t)
    PROVE  Promised!Submit(c, t)
<1>0. TypeOK /\ AskedInv
  BY DEF PromiseInv, StableIInv, LockIInv, TypeInv
<1>1. /\ status[t] = "unused" /\ by[t] = None /\ runtime[c] # None
      /\ by' = [by EXCEPT ![t] = c]
      /\ UNCHANGED <<cache, born, owner, runtime, gw>>
      /\ status'[t] = "created"
      /\ \A x \in Task \ {t} : status'[x] = status[x]
  BY <1>0
     DEF TurnMessage, DecisionsMessage, CreateTask, store, AskedInv, TypeOK
<1>2. \A s \in Session : Driving(s)' = Driving(s)
  BY <1>1 DEF Driving, Running, InTurn
<1>3. {x \in Task : status[x] = "done"}' = {x \in Task : status[x] = "done"}
  BY <1>1
<1>4. [s \in Session |-> Driving(s)]' = [s \in Session |-> Driving(s)]
  BY <1>2
<1> QED BY <1>1, <1>3, <1>4 DEF Promised!Submit, Promised!conversations

LEMMA PromisedStop ==
    ASSUME PromiseInv, ShutdownEnds
    PROVE  Promised!Stop
<1>0. TypeOK /\ AskedInv /\ cache \subseteq born
  BY DEF PromiseInv, StableIInv, LockIInv, TypeInv, TypeOK
<1>1. /\ cache' = {} /\ UNCHANGED <<born, owner, runtime, by>>
      /\ \A t \in Task : status'[t] = IF status[t] = "unused" THEN "unused" ELSE "done"
  BY DEF ShutdownEnds, Active, handlers
<1>2. \A s \in Session : Driving(s)' = {}
  BY <1>1 DEF Driving, Running, InTurn
<1>3. \A t \in Task : by[t] # None <=> status[t] # "unused"
  BY <1>0, ConstantsAssumption DEF AskedInv, ConstantsAssumption
<1>4. [s \in Session |-> Driving(s)]' = [s \in Session |-> {}]
  BY <1>2
<1>5. {t \in Task : status[t] = "done"}' = {t \in Task : by[t] # None}
  BY <1>1, <1>3
<1>6. (born \ cache)' = (born \ cache) \cup cache
  BY <1>0, <1>1
<1> QED BY <1>1, <1>4, <1>5, <1>6 DEF Promised!Stop

LEMMA PromisedNext ==
    ASSUME PromiseInv, [Next]_vars
    PROVE  [Promised!Next]_promised
<1>0. TypeOK
  BY DEF PromiseInv, StableIInv, LockIInv, TypeInv
<1>1. ASSUME UNCHANGED <<cache, born, owner, runtime, tasks>> PROVE UNCHANGED promised
  BY <1>1, TurnsKept DEF tasks, Running
<1>2. ASSUME NEW c \in Conn, NEW s \in Session, InitResume(c, s) PROVE Promised!Next
  <2>1. /\ s \in cache /\ runtime' = [runtime EXCEPT ![c] = s]
        /\ UNCHANGED <<cache, born, owner, tasks>>
    BY <1>2 DEF InitResume, store
  <2>2. UNCHANGED <<by, [x \in Session |-> Driving(x)], {t \in Task : status[t] = "done"}>>
    BY <2>1 DEF tasks, Driving, Running
  <2>3. Promised!Come(c, s)
    BY <2>1, <2>2 DEF Promised!Come, Promised!turns
  <2> QED BY <2>3 DEF Promised!Next
<1>3. ASSUME NEW c \in Conn, InitNew(c) \/ Clear(c) \/ HandlerResumes(c)
      PROVE  Promised!Next
  BY <1>3, HandlerPromises DEF Promised!Next
<1>4. ASSUME NEW c \in Conn, Disconnect(c) PROVE [Promised!Next]_promised
  <2>1. UNCHANGED <<cache, born, owner, runtime>>
    BY <1>4 DEF Disconnect, store
  <2>2. CASE InFlight(c)
    <3>1. PICK t \in Task : Active(t) /\ Leave(t)
      BY <1>0, <1>4, <2>2 DEF Disconnect, InFlight, TypeOK
    <3>2. Promised!End(t)
      BY <2>1, <3>1, Ends
    <3> QED BY <3>2 DEF Promised!Next
  <2>3. CASE ~(InFlight(c))
    BY <1>1, <1>4, <2>1, <2>3 DEF Disconnect
  <2> QED BY <2>2, <2>3
<1>5. ASSUME NEW c \in Conn, NEW t \in Task, TurnMessage(c, t) \/ DecisionsMessage(c, t)
      PROVE  Promised!Next
  <2>1. Promised!Submit(c, t)
    BY <1>5, PromisedMessage
  <2> QED BY <2>1 DEF Promised!Next
<1>6. CASE ShutdownEnds
  BY <1>6, PromisedStop DEF Promised!Next
<1>7. CASE ShutdownBegins \/ Stopped \/ UNCHANGED vars \/ \E s \in Session : DestroyOne(s)
  BY <1>1, <1>7 DEF ShutdownBegins, Stopped, DestroyOne, vars, store, handlers
<1> QED BY <1>2, <1>3, <1>4, <1>5, <1>6, <1>7, PromisedTask DEF Next

(* If clients do not switch sessions in mid-turn, handlers and tasks together keep the   *)
(* promise of Conversations: every step is one of its steps, or changes nothing it sees. *)
THEOREM SessionsImplement ==
    ASSUME SwitchMidTurn = FALSE
    PROVE  Spec => ImplementsConversations
<1>1. Init => PromiseInv
  BY TypeInit, LockInit, StableInit, ClientInit
     DEF PromiseInv, StableIInv, LockIInv, NewInv, AskedInv, ForInv, Init
<1>2. PromiseInv /\ [Next]_vars => PromiseInv'
  BY TypeNext, LockNext, StableNext, NewNext, ClientNext, AskedNext, ForNext,
     ConstantsAssumption DEF PromiseInv, StableIInv, LockIInv
<1>3. Init => Promised!Init
  <2> SUFFICES ASSUME Init PROVE Promised!Init
    OBVIOUS
  <2>1. \A t \in Task : status[t] # "done"
    BY DEF Init
  <2>2. \A s \in Session : Driving(s) = {}
    BY DEF Init, Driving, Running, InTurn
  <2> QED BY <2>1, <2>2 DEF Init, Promised!Init
<1>4. PromiseInv /\ [Next]_vars => [Promised!Next]_promised
  BY PromisedNext
<1> QED BY <1>1, <1>2, <1>3, <1>4, PTL
        DEF Spec, ImplementsConversations, Promised!Spec, promised, Promised!conversations,
            Promised!turns
=============================================================================
