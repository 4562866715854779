----------------------------- MODULE ToolProofs -----------------------------
(* Theorems about ToolThreads for any number of calls, scripts, threads, files and  *)
(* tool calls, whatever faults occur.                                              *)
EXTENDS ToolThreads, TLAPS

(* Why the counters stay in range: a file is downloaded only while one is pending,  *)
(* and a thread that waits for a tool has its coroutine on the loop.               *)
FilesCounted(c) ==
    /\ files[c] + pending[c] <= MaxFiles
    /\ phase[c] = "download" => pending[c] > 0
    /\ phase[c] \in {"idle", "start", "exec"} => files[c] = 0

Counts ==
    /\ \A c \in Call : FilesCounted(c)
    /\ \A s \in Script : blocked[s] => inFlight[s] > 0

LEMMA TypeInit == ConstantsAssumption /\ Init => TypeOK /\ Counts
BY DEF ConstantsAssumption, Init, TypeOK, Counts, FilesCounted

LEMMA TypeNext ==
    ConstantsAssumption /\ TypeOK /\ Counts /\ [Next]_vars => TypeOK'
<1> SUFFICES ASSUME ConstantsAssumption, TypeOK, Counts, [Next]_vars
             PROVE  TypeOK'
  OBVIOUS
<1> USE DEF TypeOK, ConstantsAssumption
<1>1. ASSUME NEW j \in queued, BeginJob(j) PROVE TypeOK'
  BY <1>1 DEF BeginJob, calls, scripts
<1>2. ASSUME NEW c \in Call, CallStep(c) PROVE TypeOK'
  <2> USE DEF GoOn, Report, Dropped, EndJob, scripts, pool, Job, Operation
  <2>1. CASE RunPython(c)
    BY <2>1 DEF RunPython
  <2>2. CASE Started(c)
    BY <2>2 DEF Started
  <2>3. CASE StartFails(c)
    BY <2>3 DEF StartFails
  <2>4. CASE Executed(c)
    BY <2>4 DEF Executed
  <2>5. CASE ExecTimesOut(c)
    BY <2>5 DEF ExecTimesOut
  <2>6. CASE Downloaded(c)
    <3> USE DEF Counts, FilesCounted
    <3>1. CASE phase[c] = "download"
      <4>1. /\ pending[c] - 1 \in 0..MaxFiles
            /\ files[c] + 1 \in 0..MaxFiles
        BY <3>1
      <4>2. /\ pending' = [pending EXCEPT ![c] = pending[c] - 1]
            /\ files' = files \/ files' = [files EXCEPT ![c] = files[c] + 1]
        BY <2>6, <3>1 DEF Downloaded
      <4>3. pending' \in [Call -> 0..MaxFiles] /\ files' \in [Call -> 0..MaxFiles]
        BY <4>1, <4>2
      <4> QED BY <2>6, <3>1, <4>3 DEF Downloaded
    <3>2. CASE phase[c] # "download"
      BY <2>6, <3>2 DEF Downloaded
    <3> QED BY <3>1, <3>2
  <2>7. CASE Stopped(c)
    BY <2>7 DEF Stopped, RunReports, RegisterOutputs
  <2>8. CASE Cancel(c)
    BY <2>8 DEF Cancel, CutOff
  <2>9. CASE Expire(c)
    BY <2>9 DEF Expire
  <2> QED BY <1>2, <2>1, <2>2, <2>3, <2>4, <2>5, <2>6, <2>7, <2>8, <2>9
             DEF CallStep
<1>3. ASSUME NEW s \in Script, ScriptStep(s) PROVE TypeOK'
  <2> USE DEF calls, pool, Job
  <2>1. CASE RunOrchestration(s)
    BY <2>1 DEF RunOrchestration
  <2>2. CASE ScriptCalls(s)
    <3>1. count[s] + 1 \in 0..(MaxCalls + 1)
      BY <2>2 DEF ScriptCalls
    <3>2. /\ blocked' \in [Script -> BOOLEAN]
          /\ inFlight' \in [Script -> Nat]
      <4>1. CASE count[s] < MaxCalls
        <5>1. inFlight' = [inFlight EXCEPT ![s] = inFlight[s] + 1]
          BY <2>2, <4>1 DEF ScriptCalls
        <5>2. inFlight[s] + 1 \in Nat
          OBVIOUS
        <5>3. blocked' = [blocked EXCEPT ![s] = TRUE]
          BY <2>2, <4>1 DEF ScriptCalls
        <5> QED BY <5>1, <5>2, <5>3
      <4>2. CASE ~(count[s] < MaxCalls)
        BY <2>2, <4>2 DEF ScriptCalls
      <4> QED BY <4>1, <4>2
    <3> QED BY <2>2, <3>1, <3>2 DEF ScriptCalls
  <2>3. CASE ToolAnswers(s)
    <3>1. inFlight[s] - 1 \in Nat
      BY <2>3 DEF ToolAnswers, Counts
    <3> QED BY <2>3, <3>1 DEF ToolAnswers
  <2>4. CASE CallTimesOut(s)
    BY <2>4 DEF CallTimesOut
  <2>5. CASE AnswersLate(s)
    BY <2>5 DEF AnswersLate
  <2>6. CASE ScriptEnds(s)
    BY <2>6 DEF ScriptEnds
  <2>7. CASE GiveUp(s)
    BY <2>7 DEF GiveUp
  <2> QED BY <1>3, <2>1, <2>2, <2>3, <2>4, <2>5, <2>6, <2>7 DEF ScriptStep
<1>4. CASE UNCHANGED vars
  BY <1>4 DEF vars, pool, calls, scripts
<1> QED BY <1>1, <1>2, <1>3, <1>4 DEF Next, AtRest

LEMMA CountsNext ==
    ConstantsAssumption /\ TypeOK /\ Counts /\ [Next]_vars => Counts'
<1> SUFFICES ASSUME ConstantsAssumption, TypeOK, Counts, [Next]_vars
             PROVE  Counts'
  OBVIOUS
<1> USE DEF TypeOK, ConstantsAssumption, Counts, FilesCounted
<1>1. ASSUME NEW j \in queued, BeginJob(j) PROVE Counts'
  BY <1>1 DEF BeginJob, calls, scripts
<1>2. ASSUME NEW c \in Call, CallStep(c) PROVE Counts'
  <2> USE DEF GoOn, Report, Dropped, EndJob, scripts, pool, Operation
  <2>1. CASE RunPython(c)
    BY <2>1 DEF RunPython
  <2>2. CASE Started(c)
    BY <2>2 DEF Started
  <2>3. CASE StartFails(c)
    BY <2>3 DEF StartFails
  <2>4. CASE Executed(c)
    BY <2>4 DEF Executed
  <2>5. CASE ExecTimesOut(c)
    BY <2>5 DEF ExecTimesOut
  <2>6. CASE Downloaded(c)
    BY <2>6 DEF Downloaded
  <2>7. CASE Stopped(c)
    BY <2>7 DEF Stopped, RunReports, RegisterOutputs
  <2>8. CASE Cancel(c)
    BY <2>8 DEF Cancel, CutOff
  <2>9. CASE Expire(c)
    BY <2>9 DEF Expire
  <2> QED BY <1>2, <2>1, <2>2, <2>3, <2>4, <2>5, <2>6, <2>7, <2>8, <2>9
             DEF CallStep
<1>3. ASSUME NEW s \in Script, ScriptStep(s) PROVE Counts'
  <2> USE DEF calls, pool
  <2>1. CASE RunOrchestration(s)
    BY <2>1 DEF RunOrchestration
  <2>2. CASE ScriptCalls(s)
    BY <2>2 DEF ScriptCalls
  <2>3. CASE ToolAnswers(s)
    BY <2>3 DEF ToolAnswers
  <2>4. CASE CallTimesOut(s)
    BY <2>4 DEF CallTimesOut
  <2>5. CASE AnswersLate(s)
    BY <2>5 DEF AnswersLate
  <2>6. CASE ScriptEnds(s)
    BY <2>6 DEF ScriptEnds
  <2>7. CASE GiveUp(s)
    BY <2>7 DEF GiveUp
  <2> QED BY <1>3, <2>1, <2>2, <2>3, <2>4, <2>5, <2>6, <2>7 DEF ScriptStep
<1>4. CASE UNCHANGED vars
  BY <1>4 DEF vars, calls, scripts
<1> QED BY <1>1, <1>2, <1>3, <1>4 DEF Next, AtRest

LEMMA TypeInvariant == Spec => [](TypeOK /\ Counts)
<1>1. Init => TypeOK /\ Counts
  BY TypeInit, ConstantsAssumption
<1>2. (TypeOK /\ Counts) /\ [Next]_vars => (TypeOK /\ Counts)'
  BY TypeNext, CountsNext, ConstantsAssumption
<1> QED BY <1>1, <1>2, PTL DEF Spec

(* Every variable keeps its type, for every value of the constants.               *)
THEOREM ToolTypeCorrect == Spec => []TypeOK
BY TypeInvariant, PTL

-----------------------------------------------------------------------------
(* No late start: a queued job is wanted, because whoever stops waiting takes it     *)
(* back in the same step. It takes two more facts to know that a coroutine which      *)
(* goes on leaves nothing in the queue: no job is both queued and running, and an    *)
(* operation runs only if its call has reached it.                                 *)
NotBoth == queued \cap running = {}

CallJobs(c) ==
    /\ \A op \in Operation : <<c, op>> \in queued => phase[c] = op
    /\ <<c, "start">> \in running => phase[c] # "idle"
    /\ <<c, "exec">> \in running => phase[c] \notin {"idle", "start"}
    /\ <<c, "download">> \in running
          => phase[c] \notin {"idle", "start", "exec"}
    /\ <<c, "stop">> \in running => phase[c] \in {"stop", "done"}

ScriptJobs(s) ==
    /\ <<s, "script">> \in queued => tool[s] = "asked"
    /\ <<s, "script">> \in running => tool[s] # "idle"

JobsInv ==
    /\ NotBoth
    /\ \A c \in Call : CallJobs(c)
    /\ \A s \in Script : ScriptJobs(s)

LEMMA QueuedAreWanted ==
    TypeOK /\ JobsInv => \A j \in queued : Wanted(j)
<1> SUFFICES ASSUME TypeOK, JobsInv, NEW j \in queued PROVE Wanted(j)
  OBVIOUS
<1>1. CASE j \in Call \X Operation
  <2>1. PICK c \in Call, op \in Operation : j = <<c, op>>
    BY <1>1
  <2> QED BY <2>1 DEF JobsInv, CallJobs, Wanted, Operation
<1>2. CASE j \in Script \X {"script"}
  <2>1. PICK s \in Script : j = <<s, "script">>
    BY <1>2
  <2> QED BY <2>1 DEF JobsInv, ScriptJobs, Wanted
<1> QED BY <1>1, <1>2 DEF TypeOK, Job

(* A thread ends the job op that c awaits, and c goes on to next.                 *)
Follows(op, next) ==
    \/ op = "start" /\ next \in {"exec", "done"}
    \/ op \in {"exec", "download"} /\ next \in {"download", "stop"}
    \/ op = "stop" /\ next = "done"

LEMMA JobAnswered ==
    ASSUME TypeOK, JobsInv, NEW c \in Call, NEW op \in Operation,
           NEW next \in {"exec", "download", "stop", "done"}, Follows(op, next),
           <<c, op>> \in running, running' = running \ {<<c, op>>},
           phase[c] = op, phase' = [phase EXCEPT ![c] = next],
           \/ next = "done" /\ queued' = queued
           \/ next # "done" /\ queued' = queued \cup {<<c, next>>},
           tool' = tool
    PROVE  JobsInv'
<1> USE DEF TypeOK, JobsInv, NotBoth, CallJobs, ScriptJobs, Operation
<1>1. <<c, op>> \notin queued
  OBVIOUS
<1>2. next # "done" => <<c, next>> \notin running'
  <2>1. CASE next = "exec"
    BY <2>1 DEF Follows
  <2>2. CASE next = "download"
    BY <2>2 DEF Follows
  <2>3. CASE next = "stop"
    BY <2>3 DEF Follows
  <2> QED BY <2>1, <2>2, <2>3
<1>3. NotBoth'
  BY <1>2
<1>4. CallJobs(c)'
  BY <1>1 DEF Follows
<1>5. ASSUME NEW d \in Call \ {c} PROVE CallJobs(d)'
  <2>1. phase'[d] = phase[d]
    OBVIOUS
  <2>2. \A o \in Operation :
            /\ <<d, o>> \in queued' => <<d, o>> \in queued
            /\ <<d, o>> \in running' => <<d, o>> \in running
    OBVIOUS
  <2> QED BY <2>1, <2>2
<1>6. ASSUME NEW s \in Script PROVE ScriptJobs(s)'
  <2>1. next # "script"
    OBVIOUS
  <2> QED BY <2>1
<1> HIDE DEF NotBoth, CallJobs, ScriptJobs
<1> QED BY <1>3, <1>4, <1>5, <1>6

(* A thread ends a job that nobody awaits any more.                               *)
LEMMA JobDropped ==
    ASSUME JobsInv, running' \subseteq running,
           queued' = queued, phase' = phase, tool' = tool
    PROVE  JobsInv'
BY DEF JobsInv, NotBoth, CallJobs, ScriptJobs

(* Nothing but c moves: it begins, or gives up what it awaits for a stop or for good. *)
GivesUp(from, next) ==
    \/ from = "idle" /\ next = "start"
    \/ from \in {"exec", "download"} /\ next = "stop"
    \/ from \in {"start", "stop"} /\ next = "done"

LEMMA JobMoved ==
    ASSUME TypeOK, JobsInv, NEW c \in Call, NEW next \in {"start", "stop", "done"},
           GivesUp(phase[c], next), phase' = [phase EXCEPT ![c] = next],
           running' = running, tool' = tool,
           queued' = (queued \ {<<c, phase[c]>>})
                        \cup (IF next = "done" THEN {} ELSE {<<c, next>>})
    PROVE  JobsInv'
<1> DEFINE added == IF next = "done" THEN {} ELSE {<<c, next>>}
<1>1. \A op \in Operation : <<c, op>> \in queued' => op = next
  BY DEF JobsInv, CallJobs, Operation
<1>2. added \cap running = {}
  <2>1. next = "start" => <<c, next>> \notin running
    BY DEF JobsInv, CallJobs, GivesUp
  <2>2. next = "stop" => <<c, next>> \notin running
    BY DEF JobsInv, CallJobs, GivesUp
  <2> QED BY <2>1, <2>2
<1>3. queued' = (queued \ {<<c, phase[c]>>}) \cup added /\ queued \cap running = {}
  BY DEF JobsInv, NotBoth
<1>4. NotBoth'
  <2> HIDE DEF added
  <2> QED BY <1>2, <1>3 DEF NotBoth
<1>5. phase'[c] = next
  BY DEF TypeOK
<1>6. CallJobs(c)'
  <2>1. CallJobs(c)
    BY DEF JobsInv
  <2> QED BY <1>1, <1>5, <2>1 DEF CallJobs, GivesUp, Operation
<1>7. ASSUME NEW d \in Call \ {c} PROVE CallJobs(d)'
  <2>1. phase'[d] = phase[d] /\ CallJobs(d)
    BY DEF TypeOK, JobsInv
  <2>2. \A op \in Operation : <<d, op>> \in queued' => <<d, op>> \in queued
    OBVIOUS
  <2> QED BY <2>1, <2>2 DEF CallJobs
<1>8. ASSUME NEW s \in Script PROVE ScriptJobs(s)'
  <2>1. <<s, "script">> \in queued' => <<s, "script">> \in queued
    OBVIOUS
  <2> QED BY <2>1 DEF JobsInv, ScriptJobs
<1> QED BY <1>4, <1>6, <1>7, <1>8 DEF JobsInv

(* Nothing but s moves.                                                            *)
LEMMA ScriptMoved ==
    ASSUME TypeOK, JobsInv, NEW s \in Script, NEW to, tool' = [tool EXCEPT ![s] = to],
           NotBoth', ScriptJobs(s)', phase' = phase,
           queued' \subseteq queued \cup {<<s, "script">>}, running' \subseteq running
    PROVE  JobsInv'
<1>1. ASSUME NEW c \in Call PROVE CallJobs(c)'
  <2>1. \A op \in Operation : <<c, op>> \in queued' => <<c, op>> \in queued
    BY DEF Operation
  <2> QED BY <2>1 DEF JobsInv, CallJobs
<1>2. ASSUME NEW x \in Script \ {s} PROVE ScriptJobs(x)'
  <2>1. tool'[x] = tool[x]
    BY DEF TypeOK
  <2>2. <<x, "script">> \in queued' => <<x, "script">> \in queued
    OBVIOUS
  <2> QED BY <2>1, <2>2 DEF JobsInv, ScriptJobs
<1> QED BY <1>1, <1>2 DEF JobsInv

LEMMA JobsNext == TypeOK /\ JobsInv /\ [Next]_vars => JobsInv'
<1> SUFFICES ASSUME TypeOK, JobsInv, [Next]_vars PROVE JobsInv'
  OBVIOUS
<1>1. ASSUME NEW j \in queued, BeginJob(j) PROVE JobsInv'
  <2>0. /\ queued' = queued \ {j} /\ running' = running \cup {j}
        /\ phase' = phase /\ tool' = tool
    BY <1>1 DEF BeginJob, calls, scripts
  <2>1. NotBoth'
    BY <2>0 DEF JobsInv, NotBoth
  <2>2. ASSUME NEW c \in Call PROVE CallJobs(c)'
    <3>1. CallJobs(c)
      BY DEF JobsInv
    <3>2. \A op \in Operation : <<c, op>> \in running' =>
             <<c, op>> \in running \/ phase[c] = op
      BY <2>0, <3>1 DEF CallJobs
    <3> QED BY <2>0, <3>1, <3>2 DEF CallJobs, Operation
  <2>3. ASSUME NEW s \in Script PROVE ScriptJobs(s)'
    BY <2>0 DEF JobsInv, ScriptJobs
  <2> QED BY <2>1, <2>2, <2>3 DEF JobsInv
<1>2. ASSUME NEW c \in Call, CallStep(c) PROVE JobsInv'
  <2> USE DEF GoOn, Report, Dropped, EndJob, Operation, scripts, pool
  <2>1. CASE RunPython(c)
    <3>1. /\ phase[c] = "idle" /\ phase' = [phase EXCEPT ![c] = "start"]
          /\ queued' = queued \cup {<<c, "start">>}
          /\ running' = running /\ tool' = tool
      BY <2>1 DEF RunPython
    <3>2. <<c, "idle">> \notin queued
      BY DEF TypeOK, Job, Operation
    <3> QED BY <3>1, <3>2, JobMoved DEF GivesUp
  <2>2. CASE Started(c)
    <3>1. CASE phase[c] = "start"
      BY <2>2, <3>1, JobAnswered DEF Started, Follows
    <3>2. CASE phase[c] # "start"
      BY <2>2, <3>2, JobDropped DEF Started
    <3> QED BY <3>1, <3>2
  <2>3. CASE StartFails(c)
    <3>1. CASE phase[c] = "start"
      BY <2>3, <3>1, JobAnswered DEF StartFails, Follows
    <3>2. CASE phase[c] # "start"
      BY <2>3, <3>2, JobDropped DEF StartFails
    <3> QED BY <3>1, <3>2
  <2>4. CASE Executed(c)
    <3>1. CASE phase[c] = "exec"
      <4>1. \E op \in {"download", "stop"} : GoOn(c, op)
        BY <2>4, <3>1 DEF Executed
      <4> QED BY <2>4, <3>1, <4>1, JobAnswered DEF Executed, Follows
    <3>2. CASE phase[c] # "exec"
      BY <2>4, <3>2, JobDropped DEF Executed
    <3> QED BY <3>1, <3>2
  <2>5. CASE ExecTimesOut(c)
    BY <2>5, JobMoved DEF ExecTimesOut, GivesUp
  <2>6. CASE Downloaded(c)
    <3>1. CASE phase[c] = "download"
      <4>1. \E op \in {"download", "stop"} : GoOn(c, op)
        BY <2>6, <3>1 DEF Downloaded
      <4> QED BY <2>6, <3>1, <4>1, JobAnswered DEF Downloaded, Follows
    <3>2. CASE phase[c] # "download"
      BY <2>6, <3>2, JobDropped DEF Downloaded
    <3> QED BY <3>1, <3>2
  <2>7. CASE Stopped(c)
    <3>1. CASE phase[c] = "stop"
      BY <2>7, <3>1, JobAnswered DEF Stopped, RunReports, RegisterOutputs, Follows
    <3>2. CASE phase[c] # "stop"
      BY <2>7, <3>2, JobDropped DEF Stopped
    <3> QED BY <3>1, <3>2
  <2>8. CASE Cancel(c)
    <3>1. phase[c] \in Operation /\ running' = running /\ tool' = tool
      BY <2>8 DEF Cancel
    <3>2. CutOff(c)
      BY <2>8 DEF Cancel
    <3>3. CASE phase[c] \in {"start", "stop"}
      BY <3>1, <3>2, <3>3, JobMoved DEF CutOff, GivesUp
    <3>4. CASE phase[c] \in {"exec", "download"}
      BY <3>1, <3>2, <3>4, JobMoved DEF CutOff, GivesUp
    <3> QED BY <3>1, <3>3, <3>4
  <2>9. CASE Expire(c)
    BY <2>9, JobDropped DEF Expire
  <2> QED BY <1>2, <2>1, <2>2, <2>3, <2>4, <2>5, <2>6, <2>7, <2>8, <2>9
             DEF CallStep
<1>3. ASSUME NEW s \in Script, ScriptStep(s) PROVE JobsInv'
  <2> USE DEF calls, pool
  <2>1. CASE RunOrchestration(s)
    <3>1. /\ tool[s] = "idle" /\ tool' = [tool EXCEPT ![s] = "asked"]
          /\ queued' = queued \cup {<<s, "script">>}
          /\ running' = running /\ phase' = phase
      BY <2>1 DEF RunOrchestration
    <3>2. <<s, "script">> \notin running /\ tool'[s] = "asked"
      BY <3>1 DEF JobsInv, ScriptJobs, TypeOK
    <3>3. NotBoth' /\ ScriptJobs(s)'
      BY <3>1, <3>2 DEF JobsInv, NotBoth, ScriptJobs
    <3> QED BY <3>1, <3>3, ScriptMoved
  <2>2. CASE ScriptCalls(s) \/ ToolAnswers(s) \/ CallTimesOut(s) \/ AnswersLate(s)
    BY <2>2, JobDropped DEF ScriptCalls, ToolAnswers, CallTimesOut, AnswersLate
  <2>3. CASE ScriptEnds(s)
    <3>1. /\ <<s, "script">> \in running /\ running' = running \ {<<s, "script">>}
          /\ tool' = [tool EXCEPT ![s] = "reported"]
          /\ queued' = queued /\ phase' = phase
      BY <2>3 DEF ScriptEnds, InCode
    <3>2. <<s, "script">> \notin queued
      BY <3>1 DEF JobsInv, NotBoth
    <3>3. NotBoth' /\ ScriptJobs(s)'
      BY <3>1, <3>2 DEF JobsInv, NotBoth, ScriptJobs
    <3> QED BY <3>1, <3>3, ScriptMoved
  <2>4. CASE GiveUp(s)
    <3>1. /\ tool' = [tool EXCEPT ![s] = "reported"]
          /\ queued' = queued \ {<<s, "script">>}
          /\ running' = running /\ phase' = phase
      BY <2>4 DEF GiveUp
    <3>2. tool'[s] = "reported"
      BY <3>1 DEF TypeOK
    <3>3. NotBoth' /\ ScriptJobs(s)'
      BY <3>1, <3>2 DEF JobsInv, NotBoth, ScriptJobs
    <3> QED BY <3>1, <3>3, ScriptMoved
  <2> QED BY <1>3, <2>1, <2>2, <2>3, <2>4 DEF ScriptStep
<1>4. CASE UNCHANGED vars
  BY <1>4, JobDropped DEF vars, pool, calls, scripts
<1> QED BY <1>1, <1>2, <1>3, <1>4 DEF Next, AtRest

(* Only BeginJob adds to the running jobs, and what it takes from the queue is        *)
(* wanted.                                                                         *)
LEMMA BeginWanted ==
    TypeOK /\ JobsInv /\ [Next]_vars
        => [\A j \in running' \ running : Wanted(j)]_vars
<1> SUFFICES ASSUME TypeOK, JobsInv, [Next]_vars,
                    NEW j \in running' \ running
             PROVE  Wanted(j)
  OBVIOUS
<1>1. ASSUME NEW i \in queued, BeginJob(i) PROVE Wanted(j)
  BY <1>1, QueuedAreWanted DEF BeginJob
<1>2. ASSUME NEW c \in Call, CallStep(c) PROVE Wanted(j)
  BY <1>2 DEF CallStep, RunPython, Started, StartFails, Executed,
       ExecTimesOut, Downloaded, Stopped, Cancel, Expire, EndJob, pool
<1>3. ASSUME NEW s \in Script, ScriptStep(s) PROVE Wanted(j)
  BY <1>3 DEF ScriptStep, RunOrchestration, ScriptCalls, ToolAnswers,
       CallTimesOut, AnswersLate, ScriptEnds, GiveUp, pool
<1>4. CASE UNCHANGED vars
  BY <1>4 DEF vars, pool
<1> QED BY <1>1, <1>2, <1>3, <1>4 DEF Next, AtRest

(* A thread never begins a job whose coroutine has stopped waiting: nothing is        *)
(* executed or read after the stop, no session opened for a cancelled call.         *)
THEOREM NoLateStartHolds == Spec => NoLateStart
<1>1. Init => JobsInv
  BY DEF Init, JobsInv, NotBoth, CallJobs, ScriptJobs
<1>2. TypeOK /\ JobsInv /\ [Next]_vars => JobsInv'
  BY JobsNext
<1>3. TypeOK /\ JobsInv /\ [Next]_vars
         => [\A j \in running' \ running : Wanted(j)]_vars
  BY BeginWanted
<1> QED BY <1>1, <1>2, <1>3, ToolTypeCorrect, PTL DEF Spec, NoLateStart

-----------------------------------------------------------------------------
(* Leaks: a session that a finished call leaves open, with no stop under way, has    *)
(* its cause on record. A start that is still running for a finished call was cut,   *)
(* which is why the session it is going to open is explained as well.               *)
Cause(c) == (cutAt[c] \cup failed[c]) \cap {"start", "stop"} # {}

Explained(c) ==
    /\ phase[c] = "done" /\ session[c] = "open"
          /\ <<c, "stop">> \notin running => Cause(c)
    /\ phase[c] \notin {"idle", "start"} /\ <<c, "start">> \in running
          => Cause(c)

LeakInv == \A c \in Call : Explained(c)

LEMMA LeakNext == TypeOK /\ JobsInv /\ LeakInv /\ [Next]_vars => LeakInv'
<1> SUFFICES ASSUME TypeOK, JobsInv, LeakInv, [Next]_vars,
                    NEW d \in Call
             PROVE  Explained(d)'
  BY DEF LeakInv
<1> USE DEF TypeOK, LeakInv, Explained, Cause, Operation
<1>0. <<d, "start">> \in queued => phase[d] = "start"
  <2> HIDE DEF TypeOK, LeakInv
  <2> QED BY DEF JobsInv, CallJobs
<1>1. ASSUME NEW j \in queued, BeginJob(j) PROVE Explained(d)'
  <2>1. j = <<d, "start">> => phase[d] = "start"
    BY <1>0
  <2>2. /\ running' = running \cup {j}
        /\ UNCHANGED <<phase, session, cutAt, failed>>
    BY <1>1 DEF BeginJob, calls
  <2>3. CASE j = <<d, "start">>
    <3>1. phase'[d] = "start"
      BY <2>1, <2>2, <2>3
    <3> QED BY <3>1
  <2>4. CASE j # <<d, "start">>
    <3>1. <<d, "start">> \in running' <=> <<d, "start">> \in running
      BY <2>2, <2>4
    <3>2. <<d, "stop">> \in running => <<d, "stop">> \in running'
      BY <2>2
    <3> QED BY <2>2, <3>1, <3>2
  <2> QED BY <2>3, <2>4
<1>2. ASSUME NEW c \in Call, CallStep(c) PROVE Explained(d)'
  <2> USE DEF GoOn, Report, Dropped, EndJob, pool
  <2>1. CASE RunPython(c)
    BY <2>1 DEF RunPython
  <2>2. CASE Started(c)
    <3>1. /\ <<c, "start">> \in running /\ running' = running \ {<<c, "start">>}
          /\ session' = [session EXCEPT ![c] = "open"]
          /\ cutAt' = cutAt /\ failed' = failed
          /\ IF phase[c] = "start" THEN phase' = [phase EXCEPT ![c] = "exec"]
             ELSE phase' = phase
      BY <2>2 DEF Started
    <3>2. phase[c] # "idle"
      BY <3>1 DEF JobsInv, CallJobs
    <3>3. CASE d = c /\ phase[c] = "start"
      BY <3>1, <3>3
    <3>4. CASE d = c /\ phase[c] # "start"
      <4>1. Cause(c) /\ cutAt'[c] = cutAt[c] /\ failed'[c] = failed[c]
        BY <3>1, <3>2, <3>4
      <4> QED BY <3>4, <4>1
    <3>5. CASE d # c
      <4>1. /\ phase'[d] = phase[d] /\ session'[d] = session[d]
            /\ \A op : <<d, op>> \in running' <=> <<d, op>> \in running
        BY <3>1, <3>5
      <4> QED BY <3>1, <4>1
    <3> QED BY <3>3, <3>4, <3>5
  <2>3. CASE StartFails(c)
    <3>1. /\ running' = running \ {<<c, "start">>} /\ cutAt' = cutAt
          /\ failed' = [failed EXCEPT ![c] = @ \cup {"start"}]
      BY <2>3 DEF StartFails
    <3>2. CASE d = c
      <4>1. "start" \in failed'[d]
        BY <3>1, <3>2
      <4> QED BY <4>1
    <3>3. CASE d # c
      <4>1. phase'[d] = phase[d] /\ session'[d] = session[d] /\ failed'[d] = failed[d]
        BY <2>3, <3>3 DEF StartFails
      <4>2. \A op : <<d, op>> \in running' <=> <<d, op>> \in running
        BY <3>1, <3>3
      <4> QED BY <3>1, <4>1, <4>2
    <3> QED BY <3>2, <3>3
  <2>4. CASE Executed(c)
    BY <2>4 DEF Executed
  <2>5. CASE ExecTimesOut(c)
    BY <2>5 DEF ExecTimesOut
  <2>6. CASE Downloaded(c)
    BY <2>6 DEF Downloaded
  <2>7. CASE Stopped(c)
    <3>1. session'[c] # "open" \/ "stop" \in failed'[c]
      BY <2>7 DEF Stopped
    <3>2. /\ failed[c] \subseteq failed'[c] /\ cutAt' = cutAt
          /\ running' \subseteq running
      BY <2>7 DEF Stopped
    <3>3. phase'[c] = phase[c] \/ phase[c] = "stop"
      BY <2>7 DEF Stopped
    <3>4. \A x \in Call \ {c} :
             /\ phase'[x] = phase[x] /\ session'[x] = session[x]
             /\ failed'[x] = failed[x]
             /\ <<x, "stop">> \in running' <=> <<x, "stop">> \in running
      <4>1. phase' = phase \/ phase' = [phase EXCEPT ![c] = "done"]
        BY <2>7 DEF Stopped, RunReports, RegisterOutputs
      <4>2. /\ session' = [session EXCEPT ![c] = session'[c]]
            /\ failed' = [failed EXCEPT ![c] = failed'[c]]
        BY <2>7 DEF Stopped
      <4>3. running' = running \ {<<c, "stop">>}
        BY <2>7 DEF Stopped
      <4>4. ASSUME NEW x \in Call \ {c}
            PROVE  /\ phase'[x] = phase[x] /\ session'[x] = session[x]
                   /\ failed'[x] = failed[x]
        BY <4>1, <4>2
      <4>5. ASSUME NEW x \in Call \ {c}
            PROVE  <<x, "stop">> \in running' <=> <<x, "stop">> \in running
        BY <4>3
      <4> QED BY <4>4, <4>5
    <3> QED BY <3>1, <3>2, <3>3, <3>4
  <2>8. CASE Cancel(c)
    <3>1. /\ phase[c] \in Operation /\ UNCHANGED <<running, session, failed>>
          /\ cutAt' = [cutAt EXCEPT ![c] = @ \cup {phase[c]}]
      BY <2>8 DEF Cancel
    <3>2. phase' = [phase EXCEPT ![c] =
                      IF phase[c] \in {"start", "stop"} THEN "done" ELSE "stop"]
      BY <2>8 DEF Cancel, CutOff
    <3>3. CASE d = c
      <4>1. cutAt'[d] = cutAt[d] \cup {phase[d]} /\ failed'[d] = failed[d]
        BY <3>1, <3>3
      <4>2. CASE phase[d] \in {"start", "stop"}
        BY <4>1, <4>2
      <4>3. CASE phase[d] \notin {"start", "stop"}
        <5>1. phase'[d] = "stop"
          BY <3>2, <3>3, <4>3
        <5>2. <<d, "start">> \in running => Cause(d)
          BY <3>1, <3>3, <4>3
        <5>3. Cause(d) => Cause(d)'
          BY <4>1
        <5> HIDE DEF Cause, TypeOK, LeakInv
        <5> QED BY <3>1, <5>1, <5>2, <5>3
      <4> QED BY <4>2, <4>3
    <3>4. CASE d # c
      <4>1. phase'[d] = phase[d] /\ cutAt'[d] = cutAt[d]
        BY <3>1, <3>2, <3>4
      <4> QED BY <3>1, <4>1
    <3> QED BY <3>3, <3>4
  <2>9. CASE Expire(c)
    BY <2>9 DEF Expire
  <2> QED BY <1>2, <2>1, <2>2, <2>3, <2>4, <2>5, <2>6, <2>7, <2>8, <2>9
             DEF CallStep
<1>3. ASSUME NEW s \in Script, ScriptStep(s) PROVE Explained(d)'
  BY <1>3 DEF ScriptStep, RunOrchestration, ScriptCalls, ToolAnswers,
       CallTimesOut, AnswersLate, ScriptEnds, GiveUp, calls, pool
<1>4. CASE UNCHANGED vars
  BY <1>4 DEF vars, pool, calls
<1> QED BY <1>1, <1>2, <1>3, <1>4 DEF Next, AtRest

(* A session is left open only by a call cut in its start or stop, or by a service   *)
(* that did not answer one of them; never by a timeout or a failing execution.      *)
THEOREM LeaksExplainedHold == Spec => []LeaksExplained
<1>1. Init => JobsInv /\ LeakInv
  BY DEF Init, JobsInv, NotBoth, CallJobs, ScriptJobs, LeakInv, Explained
<1>2. TypeOK /\ (JobsInv /\ LeakInv) /\ [Next]_vars => (JobsInv /\ LeakInv)'
  BY JobsNext, LeakNext
<1>3. LeakInv => LeaksExplained
  BY DEF LeakInv, Explained, Cause, LeaksExplained, OverWithStop
<1> QED BY <1>1, <1>2, <1>3, ToolTypeCorrect, PTL DEF Spec

-----------------------------------------------------------------------------
(* Files: nothing is registered before the report, and the report decides.         *)
FilesInv ==
    \A c \in Call :
        /\ phase[c] # "done" => served[c] = 0
        /\ phase[c] = "done" /\ outcome[c] = "ok" => served[c] = files[c]
        /\ outcome[c] \in {"timeout", "cancelled"} => served[c] = 0

LEMMA FilesNext == TypeOK /\ FilesInv /\ [Next]_vars => FilesInv'
<1> SUFFICES ASSUME TypeOK, FilesInv, [Next]_vars PROVE FilesInv'
  OBVIOUS
<1> USE DEF TypeOK, FilesInv, Operation
<1>1. ASSUME NEW j \in queued, BeginJob(j) PROVE FilesInv'
  BY <1>1 DEF BeginJob, calls
<1>2. ASSUME NEW c \in Call, CallStep(c) PROVE FilesInv'
  <2> USE DEF GoOn, Report, Dropped, EndJob
  <2>1. CASE RunPython(c)
    BY <2>1 DEF RunPython
  <2>2. CASE Started(c)
    BY <2>2 DEF Started
  <2>3. CASE StartFails(c)
    BY <2>3 DEF StartFails
  <2>4. CASE Executed(c)
    BY <2>4 DEF Executed
  <2>5. CASE ExecTimesOut(c)
    BY <2>5 DEF ExecTimesOut
  <2>6. CASE Downloaded(c)
    BY <2>6 DEF Downloaded
  <2>7. CASE Stopped(c)
    BY <2>7 DEF Stopped, RunReports, RegisterOutputs
  <2>8. CASE Cancel(c)
    BY <2>8 DEF Cancel, CutOff
  <2>9. CASE Expire(c)
    BY <2>9 DEF Expire
  <2> QED BY <1>2, <2>1, <2>2, <2>3, <2>4, <2>5, <2>6, <2>7, <2>8, <2>9
             DEF CallStep
<1>3. ASSUME NEW s \in Script, ScriptStep(s) PROVE FilesInv'
  BY <1>3 DEF ScriptStep, RunOrchestration, ScriptCalls, ToolAnswers,
       CallTimesOut, AnswersLate, ScriptEnds, GiveUp, calls
<1>4. CASE UNCHANGED vars
  BY <1>4 DEF vars, calls
<1> QED BY <1>1, <1>2, <1>3, <1>4 DEF Next, AtRest

(* A run reported as successful has all its files registered; one that timed out or  *)
(* was cancelled has none, whatever its threads bring back later.                  *)
THEOREM FilesFollowOutcomeHolds == Spec => []FilesFollowOutcome
<1>1. Init => FilesInv
  BY DEF Init, FilesInv
<1>2. TypeOK /\ FilesInv /\ [Next]_vars => FilesInv'
  BY FilesNext
<1>3. FilesInv => FilesFollowOutcome
  BY DEF FilesInv, FilesFollowOutcome
<1> QED BY <1>1, <1>2, <1>3, ToolTypeCorrect, PTL DEF Spec
=============================================================================
