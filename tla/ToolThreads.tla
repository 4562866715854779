---------------------------- MODULE ToolThreads -----------------------------
(* The two tools that run code, and the thread pool of the event loop they share.  *)
(*                                                                                *)
(* A Call is one run_python: CodeExecutionService.run starts a remote session,     *)
(* executes, downloads the files produced and stops the session, each by a blocking *)
(* boto3 call in asyncio.to_thread. A Script is one run_orchestration: its code     *)
(* runs in asyncio.to_thread and calls tools back on the event loop.               *)
(*                                                                                *)
(* A job is <<who, what>>. Cancelling a coroutine that awaits a job takes the job   *)
(* back while it is queued; once a thread has begun it, the thread goes on and its  *)
(* answer is dropped. (A cancellation between the end of a job and the next step of *)
(* its coroutine loses the answer in the same way and is not a step of its own.)    *)
(* The pool is a FIFO; which queued job a free thread takes is left open here.      *)
EXTENDS Integers, FiniteSets

CONSTANTS Call, Script,
          Endless,    \* scripts whose code may loop for ever
          Workers,    \* threads of the pool
          MaxFiles,   \* bound: files one execution creates
          MaxCalls,   \* max_calls of the orchestration
          Faults      \* subset of {"cancel", "service"}

ASSUME ConstantsAssumption ==
    /\ Endless \subseteq Script
    /\ Workers \in Nat /\ MaxFiles \in Nat /\ MaxCalls \in Nat
    /\ Faults \subseteq {"cancel", "service"}

VARIABLES
    queued, running,  \* jobs waiting for a thread, and in one
    phase,     \* what each call awaits: idle, an operation, or done
    outcome,   \* what it has to report
    session,   \* its session at the service: none, open, stopped, expired
    pending,   \* files still to download
    files,     \* files downloaded
    served,    \* files put in the file registry
    cutAt,     \* history: operations the call was cancelled in
    failed,    \* history: start and stop calls the service did not answer
    tool,      \* run_orchestration: idle, asked, reported
    count,     \* _CallBudget.count of the script
    blocked,   \* the script's thread waits in fut.result
    inFlight   \* tool coroutines of the script on the event loop

pool    == <<queued, running>>
calls   == <<phase, outcome, session, pending, files, served, cutAt, failed>>
scripts == <<tool, count, blocked, inFlight>>
vars    == <<pool, calls, scripts>>

Operation == {"start", "exec", "download", "stop"}
Job == (Call \X Operation) \cup (Script \X {"script"})

TypeOK ==
    /\ queued \subseteq Job /\ running \subseteq Job
    /\ phase \in [Call -> {"idle", "done"} \cup Operation]
    /\ outcome \in [Call -> {"none", "ok", "error", "timeout", "cancelled"}]
    /\ session \in [Call -> {"none", "open", "stopped", "expired"}]
    /\ pending \in [Call -> 0..MaxFiles]
    /\ files \in [Call -> 0..MaxFiles]
    /\ served \in [Call -> 0..MaxFiles]
    /\ cutAt \in [Call -> SUBSET Operation]
    /\ failed \in [Call -> SUBSET {"start", "stop"}]
    /\ tool \in [Script -> {"idle", "asked", "reported"}]
    /\ count \in [Script -> 0..(MaxCalls + 1)]
    /\ blocked \in [Script -> BOOLEAN]
    /\ inFlight \in [Script -> Nat]

Init ==
    /\ queued = {} /\ running = {}
    /\ phase = [c \in Call |-> "idle"]
    /\ outcome = [c \in Call |-> "none"]
    /\ session = [c \in Call |-> "none"]
    /\ pending = [c \in Call |-> 0]
    /\ files = [c \in Call |-> 0]
    /\ served = [c \in Call |-> 0]
    /\ cutAt = [c \in Call |-> {}]
    /\ failed = [c \in Call |-> {}]
    /\ tool = [s \in Script |-> "idle"]
    /\ count = [s \in Script |-> 0]
    /\ blocked = [s \in Script |-> FALSE]
    /\ inFlight = [s \in Script |-> 0]

-----------------------------------------------------------------------------
(* The pool.                                                                      *)

BeginJob(j) ==
    /\ j \in queued
    /\ Cardinality(running) < Workers
    /\ queued' = queued \ {j}
    /\ running' = running \cup {j}
    /\ UNCHANGED <<calls, scripts>>

(* The coroutine of c goes on to await operation op.                              *)
GoOn(c, op) ==
    /\ phase' = [phase EXCEPT ![c] = op]
    /\ queued' = queued \cup {<<c, op>>}

Report(c, result) ==
    /\ phase' = [phase EXCEPT ![c] = "done"]
    /\ outcome' = [outcome EXCEPT ![c] = result]
    /\ queued' = queued

(* Nobody awaits the job that has ended.                                          *)
Dropped == UNCHANGED <<queued, phase, outcome, pending, files, served>>

EndJob(c, op) ==
    /\ <<c, op>> \in running
    /\ running' = running \ {<<c, op>>}
    /\ UNCHANGED scripts

-----------------------------------------------------------------------------
(* run_python                                                                     *)

RunPython(c) ==
    /\ phase[c] = "idle"
    /\ GoOn(c, "start")
    /\ UNCHANGED <<running, outcome, session, pending, files, served, cutAt,
                   failed, scripts>>

Started(c) ==
    /\ EndJob(c, "start")
    /\ session' = [session EXCEPT ![c] = "open"]
    /\ IF phase[c] = "start"
       THEN GoOn(c, "exec") /\ UNCHANGED <<outcome, pending, files, served>>
       ELSE Dropped
    /\ UNCHANGED <<cutAt, failed>>

(* The start raises; the service may have opened the session all the same.        *)
StartFails(c) ==
    /\ "service" \in Faults
    /\ EndJob(c, "start")
    /\ \E s \in {"none", "open"} : session' = [session EXCEPT ![c] = s]
    /\ failed' = [failed EXCEPT ![c] = @ \cup {"start"}]
    /\ IF phase[c] = "start"
       THEN Report(c, "error") /\ UNCHANGED <<pending, files, served>>
       ELSE Dropped
    /\ UNCHANGED cutAt

(* The execution returns n new files, or an error of the code or of the service.  *)
Executed(c) ==
    /\ EndJob(c, "exec")
    /\ IF phase[c] = "exec"
       THEN \/ /\ GoOn(c, "stop")
               /\ outcome' = [outcome EXCEPT ![c] = "error"]
               /\ UNCHANGED pending
            \/ /\ session[c] = "open"
               /\ outcome' = [outcome EXCEPT ![c] = "ok"]
               /\ \E n \in 0..MaxFiles :
                     /\ GoOn(c, IF n = 0 THEN "stop" ELSE "download")
                     /\ pending' = [pending EXCEPT ![c] = n]
       ELSE UNCHANGED <<queued, phase, outcome, pending>>
    /\ UNCHANGED <<session, files, served, cutAt, failed>>

(* Mutant: the execution is shielded from the timeout.                            *)
ExecTimesOutShielded(c) ==
    /\ phase[c] = "exec"
    /\ GoOn(c, "stop")
    /\ outcome' = [outcome EXCEPT ![c] = "timeout"]
    /\ UNCHANGED <<running, session, pending, files, served, cutAt, failed,
                   scripts>>

(* wait_for gives up: the execution is cancelled and the session is stopped.      *)
ExecTimesOut(c) ==
    /\ phase[c] = "exec"
    /\ phase' = [phase EXCEPT ![c] = "stop"]
    /\ queued' = (queued \ {<<c, "exec">>}) \cup {<<c, "stop">>}
    /\ outcome' = [outcome EXCEPT ![c] = "timeout"]
    /\ UNCHANGED <<running, session, pending, files, served, cutAt, failed,
                   scripts>>

(* One file arrives, or fails and is skipped; then the next, or the stop.         *)
Downloaded(c) ==
    /\ EndJob(c, "download")
    /\ IF phase[c] = "download"
       THEN /\ pending' = [pending EXCEPT ![c] = @ - 1]
            /\ \/ UNCHANGED files
               \/ /\ session[c] = "open"
                  /\ files' = [files EXCEPT ![c] = @ + 1]
            /\ GoOn(c, IF pending[c] = 1 THEN "stop" ELSE "download")
       ELSE UNCHANGED <<queued, phase, pending, files>>
    /\ UNCHANGED <<outcome, session, served, cutAt, failed>>

(* The first n files are registered; only one that cannot be written stops it.      *)
RegisterOutputs(c, n) ==
    /\ n < files[c] => "service" \in Faults
    /\ served' = [served EXCEPT ![c] = n]

(* run returns, and a run that went well registers its files before the tool       *)
(* reports: what cannot be registered turns the report into an error.              *)
RunReports(c) ==
    IF outcome[c] = "ok"
    THEN \E n \in 0..files[c] :
            /\ RegisterOutputs(c, n)
            /\ Report(c, IF n < files[c] THEN "error" ELSE "ok")
    ELSE Report(c, outcome[c]) /\ UNCHANGED served

(* The stop succeeds, or raises, which sandbox.stop only logs.                    *)
Stopped(c) ==
    /\ EndJob(c, "stop")
    /\ \/ /\ session' = [session EXCEPT
                            ![c] = IF @ = "open" THEN "stopped" ELSE @]
          /\ UNCHANGED failed
       \/ /\ "service" \in Faults
          /\ failed' = [failed EXCEPT ![c] = @ \cup {"stop"}]
          /\ UNCHANGED session
    /\ IF phase[c] = "stop"
       THEN RunReports(c) /\ UNCHANGED <<pending, files>>
       ELSE Dropped
    /\ UNCHANGED cutAt

(* Mutant: the stop is not in a finally.                                          *)
CutOffAtOnce(c) ==
    /\ phase' = [phase EXCEPT ![c] = "done"]
    /\ queued' = queued \ {<<c, phase[c]>>}

(* The turn is cancelled. Only the finally around the execution awaits a stop; a    *)
(* cancellation in the start or in the stop itself ends the call.                  *)
CutOff(c) ==
    LET last == phase[c] \in {"start", "stop"} IN
    /\ phase' = [phase EXCEPT ![c] = IF last THEN "done" ELSE "stop"]
    /\ queued' = (queued \ {<<c, phase[c]>>})
                    \cup (IF last THEN {} ELSE {<<c, "stop">>})

(* Mutant: the cancellation is caught and the run reported as it stood.           *)
CancelSwallowed(c) ==
    /\ "cancel" \in Faults
    /\ phase[c] \in Operation
    /\ CutOff(c)
    /\ cutAt' = [cutAt EXCEPT ![c] = @ \cup {phase[c]}]
    /\ UNCHANGED <<running, outcome, session, pending, files, served, failed,
                   scripts>>

Cancel(c) ==
    /\ "cancel" \in Faults
    /\ phase[c] \in Operation
    /\ CutOff(c)
    /\ outcome' = [outcome EXCEPT ![c] = "cancelled"]
    /\ cutAt' = [cutAt EXCEPT ![c] = @ \cup {phase[c]}]
    /\ UNCHANGED <<running, session, pending, files, served, failed, scripts>>

(* The service closes a session that has reached sessionTimeoutSeconds.           *)
Expire(c) ==
    /\ session[c] = "open"
    /\ session' = [session EXCEPT ![c] = "expired"]
    /\ UNCHANGED <<pool, phase, outcome, pending, files, served, cutAt, failed,
                   scripts>>

-----------------------------------------------------------------------------
(* run_orchestration                                                              *)

RunOrchestration(s) ==
    /\ tool[s] = "idle"
    /\ tool' = [tool EXCEPT ![s] = "asked"]
    /\ queued' = queued \cup {<<s, "script">>}
    /\ UNCHANGED <<running, calls, count, blocked, inFlight>>

InCode(s) == <<s, "script">> \in running /\ ~blocked[s]

(* tools.x(): over the budget it raises into the script, which may catch that and   *)
(* go on; else the coroutine starts on the loop and the thread waits for it. The     *)
(* count is not followed beyond the first call refused.                            *)
ScriptCalls(s) ==
    /\ InCode(s)
    /\ count[s] <= MaxCalls
    /\ count' = [count EXCEPT ![s] = @ + 1]
    /\ IF count[s] < MaxCalls
       THEN /\ blocked' = [blocked EXCEPT ![s] = TRUE]
            /\ inFlight' = [inFlight EXCEPT ![s] = @ + 1]
       ELSE UNCHANGED <<blocked, inFlight>>
    /\ UNCHANGED <<pool, calls, tool>>

ToolAnswers(s) ==
    /\ blocked[s]
    /\ blocked' = [blocked EXCEPT ![s] = FALSE]
    /\ inFlight' = [inFlight EXCEPT ![s] = @ - 1]
    /\ UNCHANGED <<pool, calls, tool, count>>

(* Mutant: fut.result without a timeout.                                          *)
CallNeverTimesOut(s) ==
    /\ FALSE
    /\ blocked[s]
    /\ UNCHANGED vars

(* fut.result raises into the script; the coroutine stays on the loop.            *)
CallTimesOut(s) ==
    /\ blocked[s]
    /\ blocked' = [blocked EXCEPT ![s] = FALSE]
    /\ UNCHANGED <<pool, calls, tool, count, inFlight>>

AnswersLate(s) ==
    /\ inFlight[s] > IF blocked[s] THEN 1 ELSE 0
    /\ inFlight' = [inFlight EXCEPT ![s] = @ - 1]
    /\ UNCHANGED <<pool, calls, tool, count, blocked>>

(* The code ends or raises; the tool reports, unless it has given up.             *)
ScriptEnds(s) ==
    /\ InCode(s)
    /\ running' = running \ {<<s, "script">>}
    /\ tool' = [tool EXCEPT ![s] = "reported"]
    /\ UNCHANGED <<queued, calls, count, blocked, inFlight>>

(* The timeout of run_sandboxed, or a cancelled turn: a queued script is taken      *)
(* back, one that a thread has begun goes on.                                      *)
GiveUp(s) ==
    /\ tool[s] = "asked"
    /\ tool' = [tool EXCEPT ![s] = "reported"]
    /\ queued' = queued \ {<<s, "script">>}
    /\ UNCHANGED <<running, calls, count, blocked, inFlight>>

-----------------------------------------------------------------------------
(* Everything has been reported and every thread is free.                         *)
AtRest ==
    /\ pool = <<{}, {}>>
    /\ \A c \in Call : phase[c] = "done" /\ session[c] # "open"
    /\ \A s \in Script : tool[s] = "reported" /\ inFlight[s] = 0
    /\ UNCHANGED vars

CallStep(c) ==
    \/ RunPython(c) \/ Started(c) \/ StartFails(c) \/ Executed(c)
    \/ ExecTimesOut(c) \/ Downloaded(c) \/ Stopped(c) \/ Cancel(c) \/ Expire(c)

ScriptStep(s) ==
    \/ RunOrchestration(s) \/ ScriptCalls(s) \/ ToolAnswers(s)
    \/ CallTimesOut(s) \/ AnswersLate(s) \/ ScriptEnds(s) \/ GiveUp(s)

Next ==
    \/ \E j \in queued : BeginJob(j)
    \/ \E c \in Call : CallStep(c)
    \/ \E s \in Script : ScriptStep(s)
    \/ AtRest

Spec == Init /\ [][Next]_vars

(* Threads take what is queued; boto3 and the service answer or time out; an         *)
(* execution is only sure to end with its session; timeouts strike. Whether a tool   *)
(* called by a script ever answers, and whether a script in Endless ever ends, is    *)
(* left open.                                                                      *)
Fairness ==
    /\ \A j \in Job : WF_vars(BeginJob(j))
    /\ \A c \in Call :
          /\ WF_vars(Started(c) \/ StartFails(c))
          /\ WF_vars(session[c] # "open" /\ Executed(c))
          /\ WF_vars(ExecTimesOut(c))
          /\ WF_vars(Downloaded(c))
          /\ WF_vars(Stopped(c))
          /\ WF_vars(Expire(c))
    /\ \A s \in Script :
          /\ WF_vars(CallTimesOut(s))
          /\ WF_vars(GiveUp(s))
    /\ \A s \in Script \ Endless : WF_vars(ScriptEnds(s))

FairSpec == Spec /\ Fairness

-----------------------------------------------------------------------------
Wanted(j) ==
    IF j[2] = "script" THEN tool[j[1]] = "asked" ELSE phase[j[1]] = j[2]

(* No thread begins a job whose coroutine has stopped waiting for it: no code is     *)
(* executed or file read once its session is being stopped, no session is opened     *)
(* for a cancelled call, and no script runs whose timeout came first.               *)
NoLateStart == [][\A j \in running' \ running : Wanted(j)]_vars

OverWithStop(c) ==
    /\ phase[c] = "done"
    /\ <<c, "start">> \notin running /\ <<c, "stop">> \notin running

(* The only ways to leave a session open behind a call: the call was cancelled       *)
(* while it started or stopped it, or the service did not answer the start or the    *)
(* stop. A timeout, a failing execution or download, and a cancellation in either    *)
(* are always followed by a stop. (code_exec_tool.py:14 says "leak-free by           *)
(* construction"; it is not, see the first two cases.)                               *)
LeaksExplained ==
    \A c \in Call :
        OverWithStop(c) /\ session[c] = "open"
            => (cutAt[c] \cup failed[c]) \cap {"start", "stop"} # {}

(* A run reported as successful has every file it downloaded registered, and one     *)
(* that timed out or was cancelled, late results included, has none.                *)
FilesFollowOutcome ==
    \A c \in Call :
        /\ outcome[c] = "ok" /\ phase[c] = "done" => served[c] = files[c]
        /\ outcome[c] \in {"timeout", "cancelled"} => served[c] = 0

(* As long as scripts that never end leave a thread of the pool free, every          *)
(* run_python returns, stop included.                                              *)
CallsEnd == \A c \in Call : phase[c] = "start" ~> phase[c] = "done"

(* A script's thread comes back, given up or not, whether or not the tools it calls  *)
(* ever answer.                                                                    *)
ThreadsComeBack ==
    \A s \in Script \ Endless :
        <<s, "script">> \in running ~> <<s, "script">> \notin running

(* The pool that both tools share serves them: neither starves the other.            *)
PoolServes == CallsEnd /\ ThreadsComeBack
=============================================================================
