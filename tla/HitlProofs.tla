----------------------------- MODULE HitlProofs -----------------------------
(* Theorems about Hitl for every set of clients and requests, every width and      *)
(* every bound: type correctness and, for one careful client, that only what a     *)
(* human approved is carried out, whatever is cut, evicted or restarted.           *)
EXTENDS Hitl, SequenceTheorems, TLAPS

-----------------------------------------------------------------------------
(* Type correctness. A run that has started is the first task's; it is in its      *)
(* tools only on a checkpoint that is, and such a checkpoint names its request.     *)
RunInv ==
    /\ run # "no" => tasks # << >>
    /\ run = "tools" => ckpt.at = "tools"
    /\ run = "model" => ckpt.at = "rest"
    /\ ckpt.at # "rest" => ckpt.req \in Request

TypeInv == TypeOK /\ RunInv

LEMMA ReplyPositions ==
    ASSUME NEW ds \in Replies \cup {NoReply}
    PROVE  DOMAIN ds \subseteq Position
<1>1. CASE ds = NoReply
  BY <1>1 DEF NoReply
<1>2. CASE ds \in Replies
  BY <1>2, ConstantsAssumption DEF Replies, Position
<1> QED BY <1>1, <1>2

LEMMA ConstantTypes ==
    /\ AtRest \in Checkpoint
    /\ \A r \in Request : Asking(r) \in Checkpoint
    /\ \A r \in Request, S \in SUBSET Position : InTools(r, S) \in Checkpoint
  BY DEF AtRest, Asking, InTools, Checkpoint

\* What is left of the queue when one task of a lost connection is removed from it.
LEMMA CutQueue ==
    ASSUME NEW c \in Client, NEW i \in DOMAIN tasks, NEW T, tasks \in Seq(T),
           \A x \in T : [x EXCEPT !.by = IF @ = c THEN None ELSE @] \in T
    PROVE  /\ RemoveAt(Orphaned(c), i) \in Seq(T)
           /\ Len(RemoveAt(Orphaned(c), i)) = Len(tasks) - 1
<1> DEFINE q == Orphaned(c)
<1>1. Len(tasks) \in Nat /\ DOMAIN tasks = 1..Len(tasks)
  BY LenProperties
<1>2. \A j \in 1..Len(tasks) : tasks[j] \in T
  BY ElementOfSeq
<1>3. \A j \in 1..Len(tasks) :
         [tasks[j] EXCEPT !.by = IF @ = c THEN None ELSE @] \in T
  BY <1>2
<1>4. q \in [1..Len(tasks) -> T]
  BY <1>1, <1>3 DEF Orphaned
<1>5. q \in Seq(T) /\ Len(q) = Len(tasks)
  <2>1. q \in Seq(T)
    BY <1>1, <1>4, SeqDef
  <2>2. DOMAIN q = 1..Len(tasks)
    BY <1>4
  <2> HIDE DEF q
  <2> QED BY <1>1, <2>1, <2>2, LenProperties
<1> HIDE DEF q
<1>6. i \in 1..Len(q)
  BY <1>1, <1>5
<1>7. \A j \in 1..Len(q) : q[j] \in T
  BY <1>5, ElementOfSeq
<1> DEFINE before == SubSeq(q, 1, i - 1)
           after == SubSeq(q, i + 1, Len(q))
<1>8. before \in Seq(T) /\ Len(before) = i - 1
  BY <1>1, <1>5, <1>6, <1>7, SubSeqProperties
<1>9. after \in Seq(T) /\ Len(after) = Len(q) - i
  BY <1>1, <1>5, <1>6, <1>7, SubSeqProperties
<1>10. RemoveAt(q, i) = before \o after
  BY DEF RemoveAt
<1>11. RemoveAt(q, i) \in Seq(T) /\ Len(RemoveAt(q, i)) = Len(q) - 1
  <2> HIDE DEF before, after
  <2>1. before \o after \in Seq(T)
        /\ Len(before \o after) = Len(before) + Len(after)
    BY <1>8, <1>9, ConcatProperties
  <2>2. Len(q) \in Nat
    BY <1>1, <1>5
  <2>3. Len(before) + Len(after) = Len(q) - 1
    BY <1>6, <1>8, <1>9, <2>2
  <2> QED BY <1>10, <2>1, <2>3
<1> QED BY <1>5, <1>11 DEF q

LEMMA OrphanType ==
    ASSUME NEW c \in Client, NEW x \in Task
    PROVE  [x EXCEPT !.by = IF @ = c THEN None ELSE @] \in Task
  BY DEF Task

LEMMA EndType ==
    ASSUME TypeInv, tasks # << >>, End
    PROVE  tasks' \in Seq(Task) /\ run' = "no" /\ ran' = {}
  BY HeadTailProperties DEF TypeInv, TypeOK, End

LEMMA HeadType ==
    ASSUME TypeInv, tasks # << >>
    PROVE  Head(tasks) \in Task
  BY HeadTailProperties DEF TypeInv, TypeOK

LEMMA SendType ==
    ASSUME TypeInv, NEW c \in Client, NEW task \in Task, Send(c, task)
    PROVE  /\ tasks' \in Seq(Task) /\ tasks' # << >>
           /\ sent' \in Nat
           /\ shown' \in [Client -> Request \cup {None}]
<1>1. tasks' \in Seq(Task) /\ Len(tasks') = Len(tasks) + 1
  BY AppendProperties DEF Send, TypeInv, TypeOK
<1>2. Len(tasks) \in Nat
  BY LenProperties DEF TypeInv, TypeOK
<1>3. tasks' # << >>
  BY <1>1, <1>2, EmptySeq
<1> QED BY <1>1, <1>3 DEF Send, TypeInv, TypeOK

LEMMA TypeInvInit == ASSUME Init PROVE TypeInv
<1>1. << >> \in Seq(Task)
  BY EmptySeq
<1>2. ckpt \in Checkpoint /\ ckpt.at = "rest"
  BY ConstantTypes DEF Init, AtRest
<1> QED BY <1>1, <1>2 DEF Init, TypeInv, TypeOK, RunInv

LEMMA CounterType ==
    ASSUME NEW A, NEW f \in [A -> Nat], NEW a
    PROVE  [f EXCEPT ![a] = @ + 1] \in [A -> Nat]
<1> DEFINE g == [f EXCEPT ![a] = @ + 1]
<1>1. g = [x \in A |-> IF x = a THEN f[x] + 1 ELSE f[x]]
  OBVIOUS
<1>2. \A x \in A : f[x] + 1 \in Nat /\ f[x] \in Nat
  OBVIOUS
<1> HIDE DEF g
<1> QED BY <1>1, <1>2

LEMMA TypeInvNext == ASSUME TypeInv, [Next]_vars PROVE TypeInv'
<1> USE DEF TypeInv
<1>0. TypeOK /\ RunInv
  OBVIOUS
<1>1. ASSUME NEW c \in Client, Attach(c) PROVE TypeInv'
  <2>1. ckpt' \in Checkpoint /\ graph' \in BOOLEAN
    BY <1>0, <1>1, ConstantTypes DEF Attach, TypeOK
  <2>2. TypeOK'
    BY <1>0, <1>1, <2>1 DEF Attach, TypeOK, work, human, effects
  <2>3. RunInv'
    BY <1>0, <1>1 DEF Attach, TypeOK, RunInv, AtRest, work
  <2> QED BY <2>2, <2>3
<1>2. ASSUME NEW c \in Client, TurnMessage(c) PROVE TypeInv'
  <2> DEFINE task == [by |-> c, for |-> None, reply |-> NoReply]
  <2>1. task \in Task /\ Send(c, task)
    BY <1>2 DEF TurnMessage, Task
  <2> HIDE DEF task
  <2>2. /\ tasks' \in Seq(Task) /\ tasks' # << >> /\ sent' \in Nat
        /\ shown' \in [Client -> Request \cup {None}]
    BY <2>1, SendType
  <2>3. TypeOK'
    BY <1>0, <1>2, <2>1, <2>2
    DEF TurnMessage, Send, TypeOK, session, thread, effects
  <2>4. RunInv'
    BY <1>0, <2>1, <2>2 DEF Send, RunInv, thread
  <2> QED BY <2>3, <2>4
<1>3. ASSUME NEW c \in Client, DecisionsMessage(c) PROVE TypeInv'
  <2>1. PICK ds \in Replies :
          /\ Send(c, [by |-> c, for |-> shown[c], reply |-> ds])
          /\ approved' = approved \cup
                {<<shown[c], i>> : i \in {j \in DOMAIN ds : ds[j] = "approve"}}
    BY <1>3 DEF DecisionsMessage
  <2>2. shown[c] \in Request
    BY <1>0, <1>3 DEF DecisionsMessage, TypeOK
  <2> DEFINE task == [by |-> c, for |-> shown[c], reply |-> ds]
  <2>3. task \in Task
    BY <2>2 DEF Task
  <2>4. /\ tasks' \in Seq(Task) /\ tasks' # << >> /\ sent' \in Nat
        /\ shown' \in [Client -> Request \cup {None}]
    <3> HIDE DEF task
    <3> QED BY <2>1, <2>3, SendType DEF task
  <2>5. approved' \subseteq Request \X Position
    BY <1>0, <2>1, <2>2, ReplyPositions DEF TypeOK
  <2>6. answered' \subseteq Request
    BY <1>0, <1>3, <2>2 DEF DecisionsMessage, TypeOK
  <2>7. UNCHANGED <<run, ran, refused, session, thread, effects, faults>>
    BY <2>1 DEF Send
  <2>8. TypeOK'
    BY <1>0, <2>4, <2>5, <2>6, <2>7 DEF TypeOK, session, thread, effects
  <2>9. RunInv'
    BY <1>0, <2>4, <2>7 DEF RunInv, thread
  <2> QED BY <2>8, <2>9
<1>4. ASSUME NEW c \in Client, Cut(c) PROVE TypeInv'
  <2>1. /\ attached' \in [Client -> BOOLEAN] /\ faults' \in Nat
        /\ UNCHANGED <<cached, graph, thread, human, effects, sent>>
    BY <1>0, <1>4 DEF Cut, Fault, TypeOK
  <2>2. CASE UNCHANGED work
    BY <1>0, <2>1, <2>2 DEF TypeOK, RunInv, work, thread, human, effects
  <2>3. ASSUME NEW i \in DOMAIN tasks,
               tasks' = RemoveAt(Orphaned(c), i),
               IF i = 1 THEN run' = "no" /\ ran' = {}
               ELSE UNCHANGED <<run, ran>>
        PROVE  TypeInv'
    <3>1. tasks' \in Seq(Task) /\ Len(tasks') = Len(tasks) - 1
      BY <1>0, <2>3, CutQueue, OrphanType DEF TypeOK
    <3>2. i \in 1..Len(tasks) /\ Len(tasks) \in Nat
      BY <1>0, LenProperties DEF TypeOK
    <3>3. i # 1 => tasks' # << >>
      BY <3>1, <3>2, EmptySeq
    <3>4. TypeOK'
      BY <1>0, <2>1, <2>3, <3>1 DEF TypeOK, thread, human, effects
    <3>5. RunInv'
      BY <1>0, <2>1, <2>3, <3>3 DEF RunInv, thread
    <3> QED BY <3>4, <3>5
  <2> QED BY <1>4, <2>2, <2>3 DEF Cut
<1>5. ASSUME TurnRefused \/ ResumeRejected \/ ModelEnds \/ GraphFails
      PROVE  TypeInv'
  <2>1. tasks # << >> /\ End
    BY <1>0, <1>5 DEF TurnRefused, ResumeRejected, ModelEnds, GraphFails,
                      TurnIsNext, ResumeIsNext, RunInv
  <2>2. tasks' \in Seq(Task) /\ run' = "no" /\ ran' = {}
    BY <2>1, EndType
  <2>3. UNCHANGED <<session, thread, human, effects, sent>> /\ faults' \in Nat
    BY <1>0, <1>5
    DEF TurnRefused, ResumeRejected, ModelEnds, GraphFails, Fault, TypeOK
  <2>4. TypeOK'
    BY <1>0, <2>2, <2>3 DEF TypeOK, session, thread, human, effects
  <2>5. RunInv'
    BY <1>0, <2>2, <2>3 DEF RunInv, thread
  <2> QED BY <2>4, <2>5
<1>6. ASSUME TurnStarts PROVE TypeInv'
  <2>1. ckpt' \in Checkpoint /\ ckpt'.at = "rest"
    BY <1>6, ConstantTypes DEF TurnStarts, AtRest
  <2>2. TypeOK'
    BY <1>0, <1>6, <2>1 DEF TurnStarts, TypeOK, human, effects
  <2>3. RunInv'
    BY <1>6, <2>1 DEF TurnStarts, TurnIsNext, RunInv
  <2> QED BY <2>2, <2>3
<1>7. ASSUME ResumeRefused PROVE TypeInv'
  <2>1. tasks # << >> /\ End /\ Head(tasks).for # None
    BY <1>7 DEF ResumeRefused, ResumeIsNext
  <2>2. tasks' \in Seq(Task) /\ run' = "no" /\ ran' = {}
    BY <2>1, EndType
  <2>3. Head(tasks).for \in Request
    BY <2>1, HeadType DEF Task
  <2>4. refused' \subseteq Request
    BY <1>0, <1>7, <2>3 DEF ResumeRefused, TypeOK
  <2>5. TypeOK'
    BY <1>0, <1>7, <2>2, <2>4 DEF ResumeRefused, TypeOK, session, thread, effects
  <2>6. RunInv'
    BY <1>0, <1>7, <2>2 DEF ResumeRefused, RunInv, thread
  <2> QED BY <2>5, <2>6
<1>8. ASSUME ResumeDecides PROVE TypeInv'
  <2>1. Head(tasks) \in Task
    BY <1>8, HeadType DEF ResumeDecides, ResumeIsNext
  <2>2. GoAhead(Head(tasks).reply) \subseteq Position
    BY <2>1, ReplyPositions DEF GoAhead, Task
  <2>3. ckpt.req \in Request
    BY <1>0, <1>8 DEF ResumeDecides, RunInv
  <2>4. ckpt' \in Checkpoint /\ ckpt'.at = "tools" /\ ckpt'.req = ckpt.req
    BY <1>8, <2>2, <2>3, ConstantTypes DEF ResumeDecides, InTools
  <2>5. TypeOK'
    BY <1>0, <1>8, <2>4 DEF ResumeDecides, TypeOK, session, human, effects
  <2>6. RunInv'
    BY <1>8, <2>3, <2>4 DEF ResumeDecides, ResumeIsNext, RunInv
  <2> QED BY <2>5, <2>6
<1>9. ASSUME ResumeElsewhere PROVE TypeInv'
  <2>1. tasks # << >>
        /\ UNCHANGED <<session, thread, human, effects, sent, faults>>
    BY <1>9 DEF ResumeElsewhere, ResumeIsNext
  <2>2. CASE End
    <3>1. tasks' \in Seq(Task) /\ run' = "no" /\ ran' = {}
      BY <2>1, <2>2, EndType
    <3> QED BY <1>0, <2>1, <3>1
            DEF TypeOK, RunInv, session, thread, human, effects
  <2>3. CASE ckpt.at = "tools" /\ run' = "tools" /\ UNCHANGED <<tasks, ran>>
    BY <1>0, <2>1, <2>3 DEF TypeOK, RunInv, session, thread, human, effects
  <2> QED BY <1>9, <2>2, <2>3 DEF ResumeElsewhere
<1>10. ASSUME NEW r \in Request, ModelAsks(r) PROVE TypeInv'
  <2>1. tasks # << >> /\ End
    BY <1>0, <1>10 DEF ModelAsks, RunInv
  <2>2. tasks' \in Seq(Task) /\ run' = "no" /\ ran' = {}
    BY <2>1, EndType
  <2>3. ckpt' \in Checkpoint /\ ckpt'.req = r
    BY <1>10, ConstantTypes DEF ModelAsks, Asking
  <2>4. actions' \in [Request -> Proposals \cup {NoReply}]
    BY <1>0, <1>10 DEF ModelAsks, TypeOK
  <2>5. shown' \in [Client -> Request \cup {None}]
    BY <1>0, <1>10 DEF ModelAsks, TypeOK
  <2>6. TypeOK'
    BY <1>0, <1>10, <2>2, <2>3, <2>4, <2>5
    DEF ModelAsks, TypeOK, session, effects
  <2>7. RunInv'
    BY <2>2, <2>3 DEF RunInv
  <2> QED BY <2>6, <2>7
<1>11. ASSUME NEW i \in Position, ToolRuns(i) PROVE TypeInv'
  <2>1. executed' \in [Request \X Position -> Nat]
    <3>1. executed \in [Request \X Position -> Nat]
      BY <1>0 DEF TypeOK
    <3>2. executed' = [executed EXCEPT ![<<ckpt.req, i>>] = @ + 1]
      BY <1>11 DEF ToolRuns
    <3> QED BY <3>1, <3>2, CounterType
  <2>2. TypeOK'
    BY <1>0, <1>11, <2>1 DEF ToolRuns, TypeOK, session, thread, human
  <2>3. RunInv'
    BY <1>0, <1>11 DEF ToolRuns, RunInv, thread
  <2> QED BY <2>2, <2>3
<1>12. ASSUME NEW i \in Position, ToolRecorded(i) PROVE TypeInv'
  <2>1. ckpt.at = "tools" /\ ckpt.req \in Request
    BY <1>0, <1>12 DEF ToolRecorded, RunInv
  <2>2. ckpt' \in Checkpoint /\ ckpt'.at = "tools" /\ ckpt'.req = ckpt.req
    BY <1>0, <1>12, <2>1 DEF ToolRecorded, TypeOK, Checkpoint
  <2>3. settled' \subseteq Request \X Position
    BY <1>0, <1>12, <2>1 DEF ToolRecorded, TypeOK
  <2>4. TypeOK'
    BY <1>0, <1>12, <2>2, <2>3 DEF ToolRecorded, TypeOK, session, work, human
  <2>5. RunInv'
    BY <1>0, <1>12, <2>1, <2>2 DEF ToolRecorded, RunInv, work
  <2> QED BY <2>4, <2>5
<1>13. ASSUME ToolsDone PROVE TypeInv'
  <2>1. ckpt' \in Checkpoint /\ ckpt'.at = "rest"
    BY <1>13, ConstantTypes DEF ToolsDone, AtRest
  <2>2. TypeOK'
    BY <1>0, <1>13, <2>1 DEF ToolsDone, TypeOK, session, human, effects
  <2>3. RunInv'
    BY <1>0, <1>13, <2>1 DEF ToolsDone, RunInv
  <2> QED BY <2>2, <2>3
<1>14. ASSUME Evict \/ Restart PROVE TypeInv'
  <2>1. << >> \in Seq(Task)
    BY EmptySeq
  <2>2. TypeOK'
    <3>1. faults' \in Nat
      BY <1>0, <1>14 DEF Evict, Restart, Fault, TypeOK
    <3>2. CASE Evict
      <4>1. UNCHANGED <<attached, thread, work, human, effects, sent>>
            /\ cached' = FALSE /\ graph' = FALSE
        BY <3>2 DEF Evict
      <4> QED BY <1>0, <3>1, <4>1 DEF TypeOK, thread, human, effects, work
    <3>3. CASE Restart
      <4>1. /\ attached' = [c \in Client |-> FALSE]
            /\ cached' = FALSE /\ graph' = FALSE
            /\ tasks' = << >> /\ run' = "no" /\ ran' = {}
            /\ UNCHANGED <<thread, human, effects, sent>>
        BY <3>3 DEF Restart
      <4>2. attached' \in [Client -> BOOLEAN] /\ tasks' \in Seq(Task)
        BY <2>1, <4>1
      <4> QED BY <1>0, <3>1, <4>1, <4>2 DEF TypeOK, thread, human, effects
    <3> QED BY <1>14, <3>2, <3>3
  <2>3. RunInv'
    BY <1>0, <1>14 DEF Evict, Restart, RunInv, thread, work
  <2> QED BY <2>2, <2>3
<1>15. CASE UNCHANGED vars
  BY <1>0, <1>15
  DEF TypeOK, RunInv, vars, session, thread, work, human, effects
<1> QED
  BY <1>1, <1>2, <1>3, <1>4, <1>5, <1>6, <1>7, <1>8, <1>9, <1>10, <1>11, <1>12,
     <1>13, <1>14, <1>15 DEF Next, TaskStep

(* Every reachable state of the conversation has its type, whatever clients do and *)
(* whatever is cut, evicted or restarted.                                          *)
THEOREM HitlTypeCorrect == Spec => []TypeOK
<1>1. Init => TypeInv
  BY TypeInvInit
<1>2. TypeInv /\ [Next]_vars => TypeInv'
  BY TypeInvNext
<1>3. TypeInv => TypeOK
  BY DEF TypeInv
<1> QED BY <1>1, <1>2, <1>3, PTL DEF Spec

-----------------------------------------------------------------------------
(* One careful client. It has at most one task at a time and displays no request   *)
(* meanwhile; a request it displays is unanswered and, if any request is pending,   *)
(* the pending one; hence the decisions a task brings are for the pending request.  *)
OneTask(me) ==
    /\ Len(tasks) <= 1
    /\ tasks # << >> => Head(tasks).by = me /\ shown[me] = None

AnswersInv ==
    /\ \A r \in answered : actions[r] # NoReply
    /\ \A r \in Request, i \in Position :
          <<r, i>> \in approved => r \in answered /\ i \in DOMAIN actions[r]

ShownInv(me) ==
    shown[me] # None =>
        /\ actions[shown[me]] # NoReply /\ shown[me] \notin answered
        /\ ckpt.at = "ask" => ckpt.req = shown[me]

BringsAnswer ==
    ResumeIsNext =>
        /\ \A i \in GoAhead(Head(tasks).reply) : <<Head(tasks).for, i>> \in approved
        /\ ckpt.at = "ask" => ckpt.req = Head(tasks).for

ToolsApproved ==
    ckpt.at = "tools" => \A i \in ckpt.go : <<ckpt.req, i>> \in approved

CarefulInv(me) ==
    /\ TypeInv /\ OneTask(me) /\ AnswersInv /\ ShownInv(me)
    /\ BringsAnswer /\ ToolsApproved /\ ApprovedOnly

LEMMA LastTaskEnds ==
    ASSUME TypeInv, Len(tasks) <= 1, tasks # << >>, End
    PROVE  tasks' = << >>
<1>1. tasks \in Seq(Task) /\ Len(tasks) \in Nat
  BY LenProperties DEF TypeInv, TypeOK
<1>2. Tail(tasks) \in Seq(Task) /\ Len(Tail(tasks)) = Len(tasks) - 1
  BY <1>1, HeadTailProperties
<1>3. Len(Tail(tasks)) = 0
  BY <1>1, <1>2, LenProperties
<1> QED BY <1>2, <1>3, EmptySeq DEF End

LEMMA OnlyTaskSent ==
    ASSUME TypeInv, NEW me \in Client, OneTask(me), Careful, MaySend(me),
           NEW task \in Task, Send(me, task)
    PROVE  /\ tasks = << >>
           /\ Len(tasks') = 1 /\ Head(tasks') = task
           /\ shown'[me] = None
<1>1. tasks \in Seq(Task)
  BY DEF TypeInv, TypeOK
<1>2. tasks = << >>
  <2>1. SUFFICES ASSUME tasks # << >> PROVE FALSE
    OBVIOUS
  <2>2. tasks[1] = Head(tasks) /\ 1 \in DOMAIN tasks
    BY <1>1, <2>1, HeadTailProperties, EmptySeq, LenProperties
  <2> QED BY <2>1, <2>2 DEF OneTask, MaySend, Outstanding
<1>3. tasks' = << task >>
  BY <1>2 DEF Send
<1>4. shown'[me] = None
  BY DEF Send, TypeInv, TypeOK
<1> QED BY <1>2, <1>3, <1>4

LEMMA CarefulInvInit ==
    ASSUME Init, NEW me \in Client
    PROVE  CarefulInv(me)
<1>1. TypeInv
  BY TypeInvInit
<1>2. OneTask(me) /\ AnswersInv /\ ShownInv(me)
  BY DEF Init, OneTask, AnswersInv, ShownInv
<1>3. BringsAnswer /\ ToolsApproved
  BY DEF Init, BringsAnswer, ToolsApproved, ResumeIsNext, AtRest
<1>4. ApprovedOnly
  BY DEF Init, ApprovedOnly
<1> QED BY <1>1, <1>2, <1>3, <1>4 DEF CarefulInv

LEMMA CarefulInvNext ==
    ASSUME NEW me, Client = {me}, Careful, CarefulInv(me), [Next]_vars
    PROVE  CarefulInv(me)'
<1>0. /\ TypeInv /\ OneTask(me) /\ AnswersInv /\ ShownInv(me)
      /\ BringsAnswer /\ ToolsApproved /\ ApprovedOnly
      /\ TypeOK /\ RunInv
  BY DEF CarefulInv, TypeInv
<1>t. TypeInv'
  BY <1>0, TypeInvNext
<1> DEFINE Rest == /\ OneTask(me) /\ AnswersInv /\ ShownInv(me)
                   /\ BringsAnswer /\ ToolsApproved /\ ApprovedOnly
<1> SUFFICES Rest'
  BY <1>t DEF CarefulInv
<1>1. ASSUME Attach(me) PROVE Rest'
  <2>1. UNCHANGED <<actions, work, human, effects>>
    BY <1>1 DEF Attach
  <2>2. UNCHANGED ckpt \/ ckpt' = AtRest
    BY <1>1 DEF Attach
  <2> QED BY <1>0, <2>1, <2>2
          DEF OneTask, AnswersInv, ShownInv, BringsAnswer, ResumeIsNext,
              ToolsApproved, ApprovedOnly, AtRest, work, human, effects
<1>2. ASSUME TurnMessage(me) PROVE Rest'
  <2> DEFINE task == [by |-> me, for |-> None, reply |-> NoReply]
  <2>1. task \in Task /\ Send(me, task) /\ MaySend(me)
    BY <1>2 DEF TurnMessage, Task
  <2>2. Len(tasks') = 1 /\ Head(tasks') = task /\ shown'[me] = None
    <3> HIDE DEF task
    <3> QED BY <1>0, <2>1, OnlyTaskSent
  <2>3. UNCHANGED <<approved, answered, thread, effects>>
    BY <1>2 DEF TurnMessage, Send
  <2>4. OneTask(me)' /\ ShownInv(me)'
    BY <2>2 DEF OneTask, ShownInv
  <2>5. BringsAnswer'
    BY <2>2 DEF BringsAnswer, ResumeIsNext
  <2>6. AnswersInv' /\ ToolsApproved' /\ ApprovedOnly'
    BY <1>0, <2>3 DEF AnswersInv, ToolsApproved, ApprovedOnly, thread, effects
  <2> QED BY <2>4, <2>5, <2>6
<1>3. ASSUME DecisionsMessage(me) PROVE Rest'
  <2> DEFINE r == shown[me]
  <2>1. r \in Request /\ MaySend(me) /\ answered' = answered \cup {r}
    BY <1>0, <1>3 DEF DecisionsMessage, TypeOK
  <2>2. PICK ds \in Replies :
          /\ Fits(ds, actions[r])
          /\ Send(me, [by |-> me, for |-> r, reply |-> ds])
          /\ approved' = approved \cup
                {<<r, i>> : i \in {j \in DOMAIN ds : ds[j] = "approve"}}
    BY <1>3 DEF DecisionsMessage
  <2> DEFINE task == [by |-> me, for |-> r, reply |-> ds]
  <2>3. task \in Task
    BY <2>1 DEF Task
  <2>4. Len(tasks') = 1 /\ Head(tasks') = task /\ shown'[me] = None
    <3> HIDE DEF task
    <3> QED BY <1>0, <2>1, <2>2, <2>3, OnlyTaskSent DEF task
  <2>5. UNCHANGED <<thread, effects>>
    BY <2>2 DEF Send
  <2>6. OneTask(me)' /\ ShownInv(me)'
    BY <2>4 DEF OneTask, ShownInv
  <2>7. BringsAnswer'
    <3>1. \A i \in GoAhead(ds) : <<r, i>> \in approved'
      BY <2>2 DEF GoAhead
    <3>2. ckpt.at = "ask" => ckpt.req = r
      BY <1>0, <1>3 DEF ShownInv, DecisionsMessage
    <3> QED BY <2>4, <2>5, <3>1, <3>2 DEF BringsAnswer, thread
  <2>8. AnswersInv'
    <3>1. actions[r] # NoReply /\ UNCHANGED actions
      BY <1>0, <1>3, <2>5 DEF ShownInv, DecisionsMessage, thread
    <3>2. \A i : <<r, i>> \in approved' \ approved => i \in DOMAIN actions[r]
      BY <2>2 DEF Fits
    <3>3. \A x, i : <<x, i>> \in approved' \ approved => x = r
      BY <2>2
    <3> HIDE DEF r
    <3> QED BY <1>0, <2>1, <3>1, <3>2, <3>3 DEF AnswersInv
  <2>9. ToolsApproved' /\ ApprovedOnly'
    BY <1>0, <2>2, <2>5 DEF ToolsApproved, ApprovedOnly, thread, effects
  <2> QED BY <2>6, <2>7, <2>8, <2>9
<1>4. ASSUME Cut(me) PROVE Rest'
  <2>1. UNCHANGED <<thread, human, effects>>
    BY <1>4 DEF Cut
  <2>2. AnswersInv' /\ ShownInv(me)' /\ ToolsApproved' /\ ApprovedOnly'
    BY <1>0, <2>1
    DEF AnswersInv, ShownInv, ToolsApproved, ApprovedOnly, thread, human, effects
  <2>3. CASE UNCHANGED work
    BY <1>0, <2>1, <2>2, <2>3
    DEF OneTask, BringsAnswer, ResumeIsNext, work, thread, human
  <2>4. ASSUME NEW i \in DOMAIN tasks, tasks' = RemoveAt(Orphaned(me), i)
        PROVE  tasks' = << >>
    <3>1. tasks \in Seq(Task) /\ tasks' \in Seq(Task)
          /\ Len(tasks') = Len(tasks) - 1
      BY <1>0, <2>4, CutQueue, OrphanType DEF TypeOK
    <3>2. Len(tasks) <= 1 /\ Len(tasks) \in Nat /\ Len(tasks') \in Nat
      BY <1>0, <3>1, LenProperties DEF OneTask
    <3> QED BY <3>1, <3>2, EmptySeq
  <2>5. CASE tasks' = << >>
    BY <2>2, <2>5 DEF OneTask, BringsAnswer, ResumeIsNext
  <2> QED BY <1>4, <2>3, <2>4, <2>5 DEF Cut
<1>5. ASSUME \/ TurnRefused \/ ResumeRejected \/ ModelEnds \/ GraphFails
             \/ ResumeRefused
      PROVE  Rest'
  <2>1. tasks # << >> /\ End
    BY <1>0, <1>5 DEF TurnRefused, ResumeRejected, ModelEnds, GraphFails,
                      ResumeRefused, TurnIsNext, ResumeIsNext, RunInv
  <2>2. tasks' = << >>
    BY <1>0, <2>1, LastTaskEnds DEF OneTask
  <2>3. UNCHANGED <<thread, shown, approved, answered, effects>>
    BY <1>5 DEF TurnRefused, ResumeRejected, ModelEnds, GraphFails,
                ResumeRefused, human
  <2> QED BY <1>0, <2>2, <2>3
          DEF OneTask, AnswersInv, ShownInv, BringsAnswer, ResumeIsNext,
              ToolsApproved, ApprovedOnly, thread, effects
<1>6. ASSUME TurnStarts \/ ToolsDone PROVE Rest'
  <2>1. ckpt' = AtRest /\ run' = "model"
        /\ UNCHANGED <<actions, tasks, human, effects>>
    BY <1>6 DEF TurnStarts, ToolsDone
  <2> QED BY <1>0, <2>1
          DEF OneTask, AnswersInv, ShownInv, BringsAnswer, ResumeIsNext,
              ToolsApproved, ApprovedOnly, AtRest, human, effects
<1>7. ASSUME ResumeDecides PROVE Rest'
  <2>1. /\ ResumeIsNext /\ ckpt.at = "ask"
        /\ ckpt' = InTools(ckpt.req, GoAhead(Head(tasks).reply))
        /\ run' = "tools" /\ UNCHANGED <<actions, tasks, human, effects>>
    BY <1>7 DEF ResumeDecides
  <2>2. ToolsApproved'
    BY <1>0, <2>1 DEF ToolsApproved, BringsAnswer, InTools, human
  <2> QED BY <1>0, <2>1, <2>2
          DEF OneTask, AnswersInv, ShownInv, BringsAnswer, ResumeIsNext,
              ApprovedOnly, InTools, human, effects
<1>8. ASSUME ResumeElsewhere PROVE Rest'
  <2>1. tasks # << >> /\ UNCHANGED <<thread, human, effects>>
    BY <1>8 DEF ResumeElsewhere, ResumeIsNext
  <2>2. AnswersInv' /\ ShownInv(me)' /\ ToolsApproved' /\ ApprovedOnly'
    BY <1>0, <2>1
    DEF AnswersInv, ShownInv, ToolsApproved, ApprovedOnly, thread, human, effects
  <2>3. CASE End
    <3>1. tasks' = << >>
      BY <1>0, <2>1, <2>3, LastTaskEnds DEF OneTask
    <3> QED BY <2>2, <3>1 DEF OneTask, BringsAnswer, ResumeIsNext
  <2>4. CASE run' = "tools" /\ UNCHANGED <<tasks, ran>>
    BY <1>0, <2>1, <2>2, <2>4 DEF OneTask, BringsAnswer, ResumeIsNext, human
  <2> QED BY <1>8, <2>3, <2>4 DEF ResumeElsewhere
<1>9. ASSUME NEW r \in Request, ModelAsks(r) PROVE Rest'
  <2>1. tasks # << >> /\ End
    BY <1>0, <1>9 DEF ModelAsks, RunInv
  <2>2. tasks' = << >>
    BY <1>0, <2>1, LastTaskEnds DEF OneTask
  <2>3. /\ ckpt' = Asking(r) /\ UNCHANGED <<approved, answered, effects>>
        /\ actions[r] = NoReply
    BY <1>9 DEF ModelAsks
  <2>4. PICK k \in Proposals : actions' = [actions EXCEPT ![r] = k]
    BY <1>9 DEF ModelAsks
  <2>5. k # NoReply
    BY <2>4, ConstantsAssumption DEF Proposals, NoReply, Position
  <2>6. shown'[me] = r
    <3>1. Head(tasks).by = me
      BY <1>0, <2>1 DEF OneTask
    <3> QED BY <1>9, <3>1 DEF ModelAsks
  <2>7. r \notin answered
    BY <1>0, <2>3 DEF AnswersInv
  <2>8. actions'[r] = k /\ \A x \in Request \ {r} : actions'[x] = actions[x]
    BY <1>0, <2>4 DEF TypeOK
  <2>9. ShownInv(me)'
    BY <2>3, <2>5, <2>6, <2>7, <2>8 DEF ShownInv, Asking
  <2>10. AnswersInv'
    BY <1>0, <2>3, <2>7, <2>8 DEF AnswersInv, TypeOK
  <2>11. ToolsApproved' /\ ApprovedOnly'
    BY <1>0, <2>3 DEF ToolsApproved, ApprovedOnly, Asking, effects
  <2>12. OneTask(me)' /\ BringsAnswer'
    BY <2>2 DEF OneTask, BringsAnswer, ResumeIsNext
  <2> QED BY <2>9, <2>10, <2>11, <2>12
<1>10. ASSUME NEW i \in Position, ToolRuns(i) PROVE Rest'
  <2>1. UNCHANGED <<tasks, run, thread, human>>
    BY <1>10 DEF ToolRuns
  <2>2. <<ckpt.req, i>> \in approved
    BY <1>0, <1>10 DEF ToolRuns, RunInv, ToolsApproved
  <2>3. executed' = [executed EXCEPT ![<<ckpt.req, i>>] = @ + 1]
    BY <1>10 DEF ToolRuns
  <2>4. ApprovedOnly'
    <3>1. \A a \in Request \X Position :
             a # <<ckpt.req, i>> => executed'[a] = executed[a]
      BY <1>0, <2>3 DEF TypeOK
    <3>2. UNCHANGED approved
      BY <2>1 DEF human
    <3> QED BY <1>0, <2>2, <3>1, <3>2 DEF ApprovedOnly
  <2> QED BY <1>0, <2>1, <2>4
          DEF OneTask, AnswersInv, ShownInv, BringsAnswer, ResumeIsNext,
              ToolsApproved, thread, human
<1>11. ASSUME NEW i \in Position, ToolRecorded(i) PROVE Rest'
  <2>1. /\ ckpt.at = "tools" /\ run = "tools"
        /\ ckpt' = [ckpt EXCEPT !.go = @ \ {i}]
        /\ UNCHANGED <<actions, executed, work, human>>
    BY <1>0, <1>11 DEF ToolRecorded, RunInv
  <2>2. ckpt'.at = "tools" /\ ckpt'.req = ckpt.req /\ ckpt'.go \subseteq ckpt.go
    BY <1>0, <2>1 DEF TypeOK, Checkpoint
  <2> QED BY <1>0, <2>1, <2>2
          DEF OneTask, AnswersInv, ShownInv, BringsAnswer, ResumeIsNext,
              ToolsApproved, ApprovedOnly, work, human
<1>12. ASSUME Evict \/ Restart PROVE Rest'
  <2>1. UNCHANGED <<thread, human, effects>>
        /\ (UNCHANGED work \/ tasks' = << >>)
    BY <1>12 DEF Evict, Restart
  <2>2. AnswersInv' /\ ShownInv(me)' /\ ToolsApproved' /\ ApprovedOnly'
    BY <1>0, <2>1
    DEF AnswersInv, ShownInv, ToolsApproved, ApprovedOnly, thread, human, effects
  <2>3. OneTask(me)' /\ BringsAnswer'
    BY <1>0, <2>1 DEF OneTask, BringsAnswer, ResumeIsNext, work, thread, human
  <2> QED BY <2>2, <2>3
<1>13. CASE UNCHANGED vars
  BY <1>0, <1>13
  DEF OneTask, AnswersInv, ShownInv, BringsAnswer, ResumeIsNext, ToolsApproved,
      ApprovedOnly, vars, thread, work, human, effects
<1> HIDE DEF Rest
<1> QED
  BY <1>1, <1>2, <1>3, <1>4, <1>5, <1>6, <1>7, <1>8, <1>9, <1>10, <1>11, <1>12,
     <1>13 DEF Next, TaskStep

(* A single careful client's approvals cover everything that is carried out, even  *)
(* when its connection is cut, the session evicted or the server restarted.        *)
THEOREM OnlyApprovedRuns ==
    ASSUME NEW me, Client = {me}, Careful
    PROVE  Spec => []ApprovedOnly
<1>1. Init => CarefulInv(me)
  BY CarefulInvInit
<1>2. CarefulInv(me) /\ [Next]_vars => CarefulInv(me)'
  BY CarefulInvNext
<1>3. CarefulInv(me) => ApprovedOnly
  BY DEF CarefulInv
<1> QED BY <1>1, <1>2, <1>3, PTL DEF Spec

-----------------------------------------------------------------------------
(* Refinement: seen from the human, the steps of Hitl are those of Approvals.      *)
fates == [r \in Request |-> [i \in Position |-> FateOf(r, i)]]

\* Only a proposal, an answer and a tool call change the fate of an action.
LEMMA SameFates ==
    ASSUME UNCHANGED <<actions, executed, approved, answered>>
    PROVE  UNCHANGED fates
  BY DEF fates, FateOf

LEMMA GateAsks ==
    ASSUME NEW me, Client = {me}, Careful, CarefulInv(me),
           NEW r \in Request, ModelAsks(r)
    PROVE  Gate!Ask(r)
<1>0. /\ TypeOK /\ AnswersInv /\ ApprovedOnly
      /\ actions[r] = NoReply /\ UNCHANGED <<executed, approved, answered>>
  BY DEF CarefulInv, TypeInv, ModelAsks, effects
<1>n. PICK n \in Position :
         \E k \in [1..n -> Kind] : actions' = [actions EXCEPT ![r] = k]
  BY DEF ModelAsks, Proposals
<1>1. PICK k \in [1..n -> Kind] : actions' = [actions EXCEPT ![r] = k]
  BY <1>n
<1>2. n \in Nat /\ n >= 1 /\ 1 \in Position
  BY ConstantsAssumption DEF Position
<1>3. \A i \in Position : FateOf(r, i) = "unasked"
  BY <1>0 DEF FateOf, NoReply
<1>4. \A i \in Position : ~(executed[<<r, i>>] > 0) /\ <<r, i>> \notin approved
  BY <1>0 DEF AnswersInv, ApprovedOnly
<1>5. actions'[r] = k /\ DOMAIN k = 1..n /\ r \notin answered
  BY <1>0, <1>1 DEF TypeOK, AnswersInv
<1>6. \A i \in Position :
         FateOf(r, i)' = IF i <= n THEN "asked" ELSE "unasked"
  BY <1>0, <1>2, <1>4, <1>5 DEF FateOf, Position
<1>7. \A x \in Request \ {r}, i \in Position : FateOf(x, i)' = FateOf(x, i)
  BY <1>0, <1>1 DEF FateOf, TypeOK
<1>8. fates' = [fates EXCEPT ![r] =
                  [i \in Position |-> IF i <= n THEN "asked" ELSE "unasked"]]
  BY <1>6, <1>7 DEF fates
<1>9. fates[r][1] = "unasked"
  BY <1>2, <1>3 DEF fates
<1> QED BY <1>8, <1>9 DEF Gate!Ask, Gate!Position, Position, fates

LEMMA GateDecides ==
    ASSUME NEW me, Client = {me}, Careful, CarefulInv(me), DecisionsMessage(me),
           NEW r \in Request, shown[me] = r
    PROVE  Gate!Decide(r)
<1>0. /\ TypeOK /\ AnswersInv /\ ApprovedOnly /\ ShownInv(me)
      /\ answered' = answered \cup {r} /\ r # None
  BY DEF CarefulInv, TypeInv, TypeOK, DecisionsMessage
<1>1. PICK ds \in Replies :
        /\ Fits(ds, actions[r])
        /\ Send(me, [by |-> me, for |-> r, reply |-> ds])
        /\ approved' = approved \cup
              {<<r, i>> : i \in {j \in DOMAIN ds : ds[j] = "approve"}}
  BY DEF DecisionsMessage
<1> DEFINE S == {j \in DOMAIN ds : ds[j] = "approve"}
<1>2. UNCHANGED <<actions, executed>>
  BY <1>1 DEF Send, thread, effects
<1>3. actions[r] # NoReply /\ r \notin answered
  BY <1>0 DEF ShownInv
<1>4. \A i \in Position : ~(executed[<<r, i>>] > 0) /\ <<r, i>> \notin approved
  BY <1>0, <1>3 DEF AnswersInv, ApprovedOnly
<1>5. \A i \in Position :
         FateOf(r, i) = IF i \in DOMAIN actions[r] THEN "asked" ELSE "unasked"
  BY <1>3, <1>4 DEF FateOf
<1>6. S \subseteq Position
  BY <1>1, ReplyPositions
<1>7. \A i \in Position : <<r, i>> \in approved' <=> i \in S
  BY <1>1, <1>4
<1>8. \A i \in Position :
         FateOf(r, i)' = IF FateOf(r, i) = "unasked" THEN "unasked"
                         ELSE IF i \in S THEN "approved" ELSE "declined"
  <2> HIDE DEF S
  <2> QED BY <1>0, <1>2, <1>4, <1>5, <1>7 DEF FateOf
<1>9. \A x \in Request \ {r}, i \in Position : FateOf(x, i)' = FateOf(x, i)
  <2>1. \A x \in Request \ {r}, i \in Position :
           <<x, i>> \in approved' <=> <<x, i>> \in approved
    BY <1>1
  <2>2. \A x \in Request \ {r} : x \in answered' <=> x \in answered
    BY <1>0
  <2> QED BY <1>2, <2>1, <2>2 DEF FateOf
<1>10. fates' = [fates EXCEPT ![r] =
                   [i \in Position |->
                      IF fates[r][i] = "unasked" THEN "unasked"
                      ELSE IF i \in S THEN "approved" ELSE "declined"]]
  <2> DEFINE decided == [i \in Position |->
                            IF fates[r][i] = "unasked" THEN "unasked"
                            ELSE IF i \in S THEN "approved" ELSE "declined"]
  <2> HIDE DEF S
  <2>1. [i \in Position |-> FateOf(r, i)'] = decided
    <3>1. r \in Request /\ fates[r] = [i \in Position |-> FateOf(r, i)]
      BY <1>0 DEF fates
    <3>2. \A i \in Position : fates[r][i] = FateOf(r, i)
      BY <3>1
    <3> QED BY <1>8, <3>2
  <2>2. \A x \in Request \ {r} : [i \in Position |-> FateOf(x, i)'] = fates[x]
    BY <1>9 DEF fates
  <2> HIDE DEF decided
  <2>3. fates' = [x \in Request |-> [i \in Position |-> FateOf(x, i)']]
    BY DEF fates
  <2>4. \A x \in Request :
           [i \in Position |-> FateOf(x, i)'] = IF x = r THEN decided ELSE fates[x]
    BY <2>1, <2>2
  <2>5. fates' = [x \in Request |-> IF x = r THEN decided ELSE fates[x]]
    BY <2>3, <2>4, Zenon
  <2>6. DOMAIN fates = Request
    BY DEF fates
  <2>7. fates' = [fates EXCEPT ![r] = decided]
    BY <2>5, <2>6, Zenon
  <2> QED BY <2>7 DEF decided
<1>11. fates[r][1] = "asked"
  <2>1. actions[r] \in Proposals
    BY <1>0, <1>3 DEF TypeOK
  <2>2. 1 \in DOMAIN actions[r] /\ 1 \in Position
    BY <2>1, ConstantsAssumption DEF Proposals, Position
  <2> QED BY <1>0, <1>5, <2>2 DEF fates
<1> HIDE DEF S
<1> QED BY <1>6, <1>10, <1>11 DEF Gate!Decide, Gate!Position, Position, fates

LEMMA GateRuns ==
    ASSUME NEW me, Client = {me}, Careful, CarefulInv(me),
           NEW i \in Position, ToolRuns(i), NEW r \in Request, ckpt.req = r
    PROVE  Gate!Run(r, i) \/ UNCHANGED fates
<1>0. /\ TypeOK /\ RunInv /\ AnswersInv /\ ToolsApproved
      /\ executed' = [executed EXCEPT ![<<r, i>>] = @ + 1]
      /\ UNCHANGED <<actions, approved, answered>>
  BY DEF CarefulInv, TypeInv, ToolRuns, thread, human
<1>1. <<r, i>> \in approved /\ i \in DOMAIN actions[r]
  BY <1>0 DEF ToolRuns, RunInv, ToolsApproved, AnswersInv
<1>2. executed[<<r, i>>] \in Nat /\ executed'[<<r, i>>] = executed[<<r, i>>] + 1
  BY <1>0, <1>1 DEF TypeOK
<1>3. FateOf(r, i)' = "ran"
  BY <1>0, <1>1, <1>2 DEF FateOf
<1>4. \A x \in Request, j \in Position :
         <<x, j>> # <<r, i>> => FateOf(x, j)' = FateOf(x, j)
  BY <1>0 DEF FateOf, TypeOK
<1>5. CASE executed[<<r, i>>] > 0
  <2>1. FateOf(r, i) = "ran"
    BY <1>1, <1>5 DEF FateOf
  <2>2. \A x \in Request, j \in Position : FateOf(x, j)' = FateOf(x, j)
    BY <1>3, <1>4, <2>1
  <2> QED BY <2>2 DEF fates
<1>6. CASE ~(executed[<<r, i>>] > 0)
  <2>1. FateOf(r, i) = "approved"
    BY <1>1, <1>6 DEF FateOf
  <2>2. fates[r][i] = "approved"
    BY <1>1, <2>1 DEF fates
  <2>3. fates' = [fates EXCEPT ![r][i] = "ran"]
    <3>1. [j \in Position |-> FateOf(r, j)'] = [fates[r] EXCEPT ![i] = "ran"]
      BY <1>3, <1>4 DEF fates
    <3>2. \A x \in Request \ {r} :
            [j \in Position |-> FateOf(x, j)'] = fates[x]
      BY <1>4 DEF fates
    <3>3. fates' = [x \in Request |-> [j \in Position |-> FateOf(x, j)']]
      BY DEF fates
    <3> DEFINE changed == [fates[r] EXCEPT ![i] = "ran"]
    <3>4. \A x \in Request :
             [j \in Position |-> FateOf(x, j)'] = IF x = r THEN changed ELSE fates[x]
      <4> HIDE DEF changed
      <4> QED BY <3>1, <3>2 DEF changed
    <3> HIDE DEF changed
    <3>5. fates' = [x \in Request |-> IF x = r THEN changed ELSE fates[x]]
      BY <3>3, <3>4, Zenon
    <3>6. DOMAIN fates = Request
      BY DEF fates
    <3>7. fates' = [fates EXCEPT ![r] = changed]
      BY <3>5, <3>6, Zenon
    <3> QED BY <3>7 DEF changed
  <2> QED BY <2>2, <2>3 DEF Gate!Run, fates
<1> QED BY <1>5, <1>6

LEMMA GateNext ==
    ASSUME NEW me, Client = {me}, Careful, CarefulInv(me), [Next]_vars
    PROVE  Gate!Next \/ UNCHANGED fates
<1>1. CASE \E r \in Request : ModelAsks(r)
  BY <1>1, GateAsks DEF Gate!Next
<1>2. CASE DecisionsMessage(me)
  <2>1. shown[me] \in Request
    BY <1>2 DEF DecisionsMessage, CarefulInv, TypeInv, TypeOK
  <2> QED BY <1>2, <2>1, GateDecides DEF Gate!Next
<1>3. ASSUME NEW i \in Position, ToolRuns(i)
      PROVE  Gate!Next \/ UNCHANGED fates
  <2>1. ckpt.req \in Request
    BY <1>3 DEF ToolRuns, CarefulInv, TypeInv, RunInv
  <2> QED BY <1>3, <2>1, GateRuns DEF Gate!Next, Gate!Position, Position
<1>4. ASSUME \/ Attach(me) \/ TurnMessage(me) \/ Cut(me)
             \/ TurnRefused \/ TurnStarts \/ ResumeRefused \/ ResumeRejected
             \/ ResumeDecides \/ ResumeElsewhere \/ ModelEnds
             \/ (\E i \in Position : ToolRecorded(i)) \/ ToolsDone
             \/ GraphFails \/ Evict \/ Restart \/ UNCHANGED vars
      PROVE  UNCHANGED fates
  <2>1. UNCHANGED <<actions, executed, approved, answered>>
    BY <1>4
    DEF Attach, TurnMessage, Send, Cut, TurnRefused, TurnStarts, ResumeRefused,
        ResumeRejected, ResumeDecides, ResumeElsewhere, ModelEnds, ToolRecorded,
        ToolsDone, GraphFails, Evict, Restart, vars, thread, human, effects
  <2> QED BY <2>1, SameFates
<1> QED BY <1>1, <1>2, <1>3, <1>4 DEF Next, TaskStep

(* The conversation of one careful client keeps the promise of Approvals: every    *)
(* request is decided at most once, as a whole, and only approved actions run.      *)
THEOREM HitlImplementsGate ==
    ASSUME NEW me, Client = {me}, Careful
    PROVE  Spec => ImplementsGate
<1>1. Init => CarefulInv(me)
  BY CarefulInvInit
<1>2. CarefulInv(me) /\ [Next]_vars => CarefulInv(me)'
  BY CarefulInvNext
<1>3. Init => Gate!Init
  <2>1. SUFFICES ASSUME Init PROVE Gate!Init
    OBVIOUS
  <2>2. \A r \in Request, i \in Position : FateOf(r, i) = "unasked"
    BY <2>1 DEF Init, FateOf, NoReply
  <2> QED BY <2>2 DEF Gate!Init, Gate!Position, Position
<1>4. CarefulInv(me) /\ [Next]_vars => [Gate!Next]_fates
  BY GateNext
<1> QED BY <1>1, <1>2, <1>3, <1>4, PTL DEF Spec, ImplementsGate, Gate!Spec, fates

-----------------------------------------------------------------------------
(* Without a careful client. A tool whose result is not recorded has taken effect at  *)
(* most once for each fault so far, and once more by the run that is in its tools.      *)
PendingInv ==
    ckpt.at # "rest" => \A i \in Position :
        LET a == <<ckpt.req, i>> IN
        /\ ckpt.at = "ask" => executed[a] = 0
        /\ ckpt.at = "tools" /\ i \in ckpt.go =>
               executed[a] <= faults + (IF i \in ran THEN 1 ELSE 0)

BoundInv ==
    /\ TypeInv /\ PendingInv /\ RunsBounded
    /\ run # "tools" => ran = {}
    /\ \A r \in Request, i \in Position : actions[r] = NoReply => executed[<<r, i>>] = 0
    /\ ckpt.at # "rest" => actions[ckpt.req] # NoReply

LEMMA BoundKept ==
    ASSUME BoundInv, TypeInv', UNCHANGED <<executed, actions, ckpt>>,
           \/ faults' = faults /\ ran' = ran /\ run' = run
           \/ faults' = faults /\ ran' = {} /\ ran = {}
           \/ faults' = faults + 1 /\ ran' = {}
           \/ faults' = faults + 1 /\ ran' = ran /\ run' = run
    PROVE  BoundInv'
<1>0. /\ PendingInv /\ RunsBounded /\ (run # "tools" => ran = {})
      /\ \A r \in Request, i \in Position : actions[r] = NoReply => executed[<<r, i>>] = 0
      /\ (ckpt.at # "rest" => actions[ckpt.req] # NoReply)
      /\ (ckpt.at # "rest" => ckpt.req \in Request)
      /\ executed \in [Request \X Position -> Nat] /\ faults \in Nat
  BY DEF BoundInv, TypeInv, TypeOK, RunInv
<1>1. \A a \in Request \X Position : executed[a] \in Nat
  BY <1>0
<1>2. RunsBounded'
  BY <1>0, <1>1 DEF RunsBounded
<1>3. PendingInv'
  <2>1. ASSUME NEW i \in Position, ckpt.at = "tools", i \in ckpt.go
        PROVE  executed[<<ckpt.req, i>>] <= faults' + (IF i \in ran' THEN 1 ELSE 0)
    <3>1. /\ executed[<<ckpt.req, i>>] \in Nat
          /\ executed[<<ckpt.req, i>>] <= faults + (IF i \in ran THEN 1 ELSE 0)
      BY <1>0, <1>1, <2>1 DEF PendingInv
    <3> QED BY <1>0, <3>1
  <2>2. ckpt.at = "ask" => \A i \in Position : executed[<<ckpt.req, i>>] = 0
    BY <1>0 DEF PendingInv
  <2> QED BY <2>1, <2>2 DEF PendingInv
<1>4. run' # "tools" => ran' = {}
  BY <1>0
<1> QED BY <1>0, <1>2, <1>3, <1>4 DEF BoundInv

LEMMA BoundNext == ASSUME BoundInv, [Next]_vars PROVE BoundInv'
<1>0. /\ TypeOK /\ RunInv /\ PendingInv /\ RunsBounded /\ (run # "tools" => ran = {})
      /\ \A r \in Request, i \in Position : actions[r] = NoReply => executed[<<r, i>>] = 0
      /\ (ckpt.at # "rest" => actions[ckpt.req] # NoReply)
      /\ \A a \in Request \X Position : executed[a] \in Nat
      /\ executed \in [Request \X Position -> Nat] /\ faults \in Nat
      /\ actions \in [Request -> Proposals \cup {NoReply}]
  BY DEF BoundInv, TypeInv, TypeOK
<1>1. TypeInv'
  BY TypeInvNext DEF BoundInv
\* The checkpoint is given up: nothing is pending any more.
<1>2. ASSUME ckpt' = AtRest, UNCHANGED <<executed, actions, faults>>, run' # "tools" => ran' = {}
      PROVE  BoundInv'
  BY <1>0, <1>1, <1>2 DEF BoundInv, PendingInv, RunsBounded, AtRest
<1>3. ASSUME NEW c \in Client, Attach(c) PROVE BoundInv'
  BY <1>0, <1>1, <1>2, <1>3, BoundKept DEF Attach, work, effects
<1>4. ASSUME NEW c \in Client, TurnMessage(c) \/ DecisionsMessage(c) PROVE BoundInv'
  BY <1>1, <1>4, BoundKept DEF TurnMessage, DecisionsMessage, Send, thread, effects
<1>5. ASSUME NEW c \in Client, Cut(c) PROVE BoundInv'
  BY <1>1, <1>5, BoundKept DEF Cut, Fault, thread, work, effects
<1>6. CASE TurnRefused \/ ResumeRefused \/ ResumeRejected
  BY <1>0, <1>1, <1>6, BoundKept
     DEF TurnRefused, ResumeRefused, ResumeRejected, TurnIsNext, ResumeIsNext, End, thread, effects
<1>7. CASE TurnStarts
  BY <1>0, <1>2, <1>7 DEF TurnStarts, TurnIsNext, effects
<1>8. CASE ResumeDecides
  <2>1. /\ ckpt.at = "ask" /\ ckpt.req \in Request /\ run = "no"
        /\ ckpt' = InTools(ckpt.req, GoAhead(Head(tasks).reply)) /\ run' = "tools"
        /\ UNCHANGED <<actions, ran, executed, faults>>
    BY <1>0, <1>8 DEF ResumeDecides, ResumeIsNext, RunInv, effects
  <2>2. ckpt'.at = "tools" /\ ckpt'.req = ckpt.req
    BY <2>1 DEF InTools
  <2>3. \A i \in Position : executed[<<ckpt.req, i>>] = 0
    BY <1>0, <2>1 DEF PendingInv
  <2>4. PendingInv'
    BY <1>0, <2>1, <2>2, <2>3 DEF PendingInv
  <2>5. RunsBounded'
    BY <1>0, <2>1 DEF RunsBounded
  <2> QED BY <1>0, <1>1, <2>1, <2>2, <2>4, <2>5 DEF BoundInv
<1>9. CASE ResumeElsewhere
  <2>1. /\ run = "no" /\ UNCHANGED <<executed, actions, ckpt, faults>>
        /\ (ran' = {} \/ ran' = ran)
    BY <1>9 DEF ResumeElsewhere, ResumeIsNext, End, thread, effects
  <2> QED BY <1>0, <1>1, <2>1, BoundKept
<1>10. ASSUME NEW r \in Request, ModelAsks(r) PROVE BoundInv'
  <2>1. /\ actions[r] = NoReply /\ ckpt' = Asking(r) /\ run' = "no" /\ ran' = {}
        /\ UNCHANGED <<executed, faults>>
    BY <1>10 DEF ModelAsks, End, effects
  <2>2. PICK k \in Proposals : actions' = [actions EXCEPT ![r] = k]
    BY <1>10 DEF ModelAsks
  <2>3. ckpt'.at = "ask" /\ ckpt'.req = r
    BY <2>1 DEF Asking
  <2>4. k # NoReply
    <3>1. PICK n \in 1..Width : k \in [1..n -> Kind]
      BY <2>2 DEF Proposals, Position
    <3>2. 1 \in DOMAIN k
      BY <3>1, ConstantsAssumption DEF ConstantsAssumption
    <3> QED BY <3>2 DEF NoReply
  <2>5. actions'[r] # NoReply /\ \A x \in Request \ {r} : actions'[x] = actions[x]
    BY <1>0, <2>2, <2>4
  <2>6. PendingInv' /\ RunsBounded'
    BY <1>0, <2>1, <2>3 DEF PendingInv, RunsBounded
  <2> QED BY <1>0, <1>1, <2>1, <2>3, <2>5, <2>6 DEF BoundInv
<1>11. CASE ModelEnds
  BY <1>0, <1>1, <1>11, BoundKept DEF ModelEnds, End, thread, effects
<1>12. ASSUME NEW i \in Position, ToolRuns(i) PROVE BoundInv'
  <2> DEFINE a == <<ckpt.req, i>>
  <2>1. /\ run = "tools" /\ i \in ckpt.go /\ i \notin ran /\ ran' = ran \cup {i}
        /\ executed' = [executed EXCEPT ![a] = @ + 1]
        /\ UNCHANGED <<run, actions, ckpt, faults>>
    BY <1>12 DEF ToolRuns, thread
  <2>2. ckpt.at = "tools" /\ a \in Request \X Position
    BY <1>0, <2>1 DEF RunInv
  <2>3. executed[a] \in Nat /\ executed[a] <= faults
    BY <1>0, <2>1, <2>2 DEF PendingInv
  <2>4. /\ executed'[a] = executed[a] + 1
        /\ \A b \in Request \X Position : b # a => executed'[b] = executed[b]
    BY <1>0, <2>1, <2>2
  <2>5. RunsBounded'
    BY <1>0, <2>1, <2>3, <2>4 DEF RunsBounded
  <2>6. PendingInv'
    <3>1. ASSUME NEW j \in Position, j \in ckpt.go
          PROVE  executed'[<<ckpt.req, j>>] <= faults + (IF j \in ran' THEN 1 ELSE 0)
      <4>1. CASE j = i
        BY <1>0, <2>1, <2>3, <2>4, <4>1
      <4>2. CASE j # i
        <5>1. executed'[<<ckpt.req, j>>] = executed[<<ckpt.req, j>>]
          BY <1>0, <2>2, <2>4, <4>2 DEF RunInv
        <5> QED BY <1>0, <2>1, <2>2, <3>1, <4>2, <5>1 DEF PendingInv
      <4> QED BY <4>1, <4>2
    <3> QED BY <2>1, <2>2, <3>1 DEF PendingInv
  <2>7. \A r \in Request, j \in Position : actions[r] = NoReply => executed'[<<r, j>>] = 0
    BY <1>0, <2>2, <2>4
  <2> QED BY <1>0, <1>1, <2>1, <2>2, <2>5, <2>6, <2>7 DEF BoundInv
<1>13. ASSUME NEW i \in Position, ToolRecorded(i) PROVE BoundInv'
  <2>1. /\ ckpt' = [ckpt EXCEPT !.go = @ \ {i}] /\ ckpt \in Checkpoint
        /\ UNCHANGED <<actions, executed, run, ran, faults>>
    BY <1>0, <1>13 DEF ToolRecorded, work, TypeOK
  <2>2. ckpt'.at = ckpt.at /\ ckpt'.req = ckpt.req /\ ckpt'.go \subseteq ckpt.go
    BY <2>1 DEF Checkpoint
  <2>3. PendingInv' /\ RunsBounded'
    BY <1>0, <2>1, <2>2 DEF PendingInv, RunsBounded
  <2> QED BY <1>0, <1>1, <2>1, <2>2, <2>3 DEF BoundInv
<1>14. CASE ToolsDone
  BY <1>0, <1>2, <1>14 DEF ToolsDone, effects
<1>15. CASE GraphFails
  BY <1>1, <1>15, BoundKept DEF GraphFails, Fault, End, thread, effects
<1>16. CASE Evict \/ Restart
  BY <1>1, <1>16, BoundKept DEF Evict, Restart, Fault, thread, work, effects
<1>17. CASE UNCHANGED vars
  BY <1>1, <1>17, BoundKept DEF vars, thread, work, effects
<1> QED
  BY <1>3, <1>4, <1>5, <1>6, <1>7, <1>8, <1>9, <1>10, <1>11, <1>12, <1>13, <1>14, <1>15,
     <1>16, <1>17 DEF Next, TaskStep

(* An action takes effect once, and once more for each fault at most: whatever any     *)
(* number of clients send, and in whatever order.                                      *)
THEOREM RunsBoundedHolds == Spec => []RunsBounded
<1>1. Init => BoundInv
  <2>1. ASSUME Init PROVE BoundInv
    <3>1. TypeInv
      BY <2>1, TypeInvInit
    <3>2. /\ ckpt.at = "rest" /\ ran = {} /\ faults = 0
          /\ \A a \in Request \X Position : executed[a] = 0
      BY <2>1 DEF Init, AtRest
    <3> QED BY <3>1, <3>2 DEF BoundInv, PendingInv, RunsBounded
  <2> QED BY <2>1
<1>2. BoundInv /\ [Next]_vars => BoundInv'
  BY BoundNext
<1>3. BoundInv => RunsBounded
  BY DEF BoundInv
<1> QED BY <1>1, <1>2, <1>3, PTL DEF Spec

-----------------------------------------------------------------------------
(* Lost connections alone. A gateway that has had a graph keeps it, and before that    *)
(* no request was shown and no answer sent.                                            *)
PlainTask == {x \in Task : x.for = None}

GraphInv ==
    /\ TypeInv /\ refused = {}
    /\ ~cached => ~graph /\ tasks = << >> /\ \A c \in Client : ~attached[c]
    /\ ~graph => /\ \A c \in Client : shown[c] = None
                 /\ run = "no" /\ tasks \in Seq(PlainTask)

LEMMA GraphNext ==
    ASSUME GraphInv, Faults \subseteq {"cut"}, [Next]_vars
    PROVE  GraphInv'
<1>0. /\ TypeOK /\ RunInv /\ refused = {}
      /\ ~cached => ~graph /\ tasks = << >> /\ \A c \in Client : ~attached[c]
      /\ ~graph => /\ \A c \in Client : shown[c] = None
                   /\ run = "no" /\ tasks \in Seq(PlainTask)
  BY DEF GraphInv, TypeInv
<1>1. TypeInv'
  BY TypeInvNext DEF GraphInv
<1>2. ~graph /\ tasks # << >> => Head(tasks) \in PlainTask /\ Tail(tasks) \in Seq(PlainTask)
  BY <1>0, HeadTailProperties
<1>3. ASSUME NEW c \in Client, Attach(c) PROVE GraphInv'
  <2>1. /\ cached' = TRUE /\ UNCHANGED <<shown, refused, run>>
        /\ \/ cached /\ UNCHANGED <<graph, tasks>>
           \/ ~cached /\ graph' = FALSE /\ UNCHANGED tasks
    BY <1>3 DEF Attach, work, human
  <2> QED BY <1>0, <1>1, <2>1 DEF GraphInv
<1>4. ASSUME NEW c \in Client, TurnMessage(c) PROVE GraphInv'
  <2> DEFINE task == [by |-> c, for |-> None, reply |-> NoReply]
  <2>1. task \in PlainTask
    BY DEF PlainTask, Task
  <2>2. /\ tasks' = Append(tasks, task) /\ UNCHANGED <<run, refused, graph, cached>>
        /\ shown' = IF Careful THEN [shown EXCEPT ![c] = None] ELSE shown
    BY <1>4 DEF TurnMessage, Send, session
  <2>3. cached
    BY <1>0, <1>4 DEF TurnMessage, MaySend
  <2>4. ~graph => \A x \in Client : shown'[x] = None
    BY <1>0, <2>2 DEF TypeOK
  <2>5. ~graph => tasks' \in Seq(PlainTask)
    <3> HIDE DEF task
    <3> QED BY <1>0, <2>1, <2>2, AppendProperties
  <2> QED BY <1>0, <1>1, <2>2, <2>3, <2>4, <2>5 DEF GraphInv
<1>5. ASSUME NEW c \in Client, DecisionsMessage(c) PROVE GraphInv'
  <2>1. graph
    BY <1>0, <1>5 DEF DecisionsMessage
  <2>2. UNCHANGED <<run, refused, graph, cached>>
    BY <1>5 DEF DecisionsMessage, Send, session
  <2> QED BY <1>0, <1>1, <2>1, <2>2 DEF GraphInv
<1>6. ASSUME NEW c \in Client, Cut(c) PROVE GraphInv'
  <2>1. /\ UNCHANGED <<graph, cached, shown, refused>> /\ (UNCHANGED run \/ run' = "no")
        /\ cached
    BY <1>0, <1>6 DEF Cut, human, work
  <2>2. ~graph => tasks' \in Seq(PlainTask)
    <3>1. CASE UNCHANGED work
      BY <1>0, <3>1 DEF work
    <3>2. ASSUME NEW i \in DOMAIN tasks, tasks' = RemoveAt(Orphaned(c), i), ~graph
          PROVE  tasks' \in Seq(PlainTask)
      <4>1. \A x \in PlainTask : [x EXCEPT !.by = IF @ = c THEN None ELSE @] \in PlainTask
        BY DEF PlainTask, Task
      <4> QED BY <1>0, <3>2, <4>1, CutQueue
    <3> QED BY <1>6, <3>1, <3>2 DEF Cut
  <2> QED BY <1>0, <1>1, <2>1, <2>2 DEF GraphInv
<1>7. CASE TurnRefused
  BY <1>0, <1>1, <1>2, <1>7 DEF TurnRefused, TurnIsNext, End, GraphInv, session, human
<1>8. CASE TurnStarts
  <2>1. cached
    BY <1>0, <1>8 DEF TurnStarts, TurnIsNext
  <2> QED BY <1>0, <1>1, <1>8, <2>1 DEF TurnStarts, GraphInv, human
<1>9. CASE ResumeRefused
  BY <1>2, <1>9 DEF ResumeRefused, ResumeIsNext, PlainTask
<1>10. CASE \/ ResumeRejected \/ ResumeDecides \/ ResumeElsewhere \/ ModelEnds \/ ToolsDone
            \/ GraphFails \/ (\E r \in Request : ModelAsks(r))
            \/ \E i \in Position : ToolRuns(i) \/ ToolRecorded(i)
  <2>1. graph
    BY <1>0, <1>10 DEF ResumeRejected, ResumeDecides, ResumeElsewhere, ModelEnds, ToolsDone,
       GraphFails, ModelAsks, ToolRuns, ToolRecorded
  <2>2. UNCHANGED <<graph, cached, refused>>
    BY <1>10 DEF ResumeRejected, ResumeDecides, ResumeElsewhere, ModelEnds, ToolsDone,
       GraphFails, ModelAsks, ToolRuns, ToolRecorded, session, human
  <2> QED BY <1>0, <1>1, <2>1, <2>2 DEF GraphInv
<1>11. CASE Evict \/ Restart
  BY <1>11 DEF Evict, Restart, Fault
<1>12. CASE UNCHANGED vars
  BY <1>0, <1>1, <1>12 DEF vars, session, work, human, GraphInv
<1> QED BY <1>3, <1>4, <1>5, <1>6, <1>7, <1>8, <1>9, <1>10, <1>11, <1>12 DEF Next, TaskStep

(* As long as only connections are lost, an answer finds a graph to resume.           *)
THEOREM AnswersResumeHolds == Spec => []AnswersResume
<1>1. Init => GraphInv
  BY TypeInvInit, EmptySeq DEF Init, GraphInv
<1>2. CASE Faults \subseteq {"cut"}
  <2>1. GraphInv /\ [Next]_vars => GraphInv'
    BY <1>2, GraphNext
  <2>2. GraphInv => AnswersResume
    BY DEF GraphInv, AnswersResume
  <2> QED BY <1>1, <2>1, <2>2, PTL DEF Spec
<1>3. CASE ~(Faults \subseteq {"cut"})
  <2>1. AnswersResume
    BY <1>3 DEF AnswersResume
  <2> QED BY <2>1, PTL
<1> QED BY <1>2, <1>3
=============================================================================
