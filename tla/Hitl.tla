-------------------------------- MODULE Hitl --------------------------------
(* One conversation under human approval: the gateway's run_turn and resume_turn  *)
(* (agent/ai_gateway.py), the policy that makes a tool call wait for a human       *)
(* (agent/middleware/hitl_policy.py), and the handlers of the turn and             *)
(* hitl_decisions messages (websocket.py).                                        *)
(*                                                                                *)
(* A turn ENDS when it needs an approval; what it was about to do stays in the     *)
(* checkpoint, and the next hitl_decisions message, which does not say which       *)
(* request it answers, resumes it. Read-only tools need no approval and are left   *)
(* out. The checkpoint and the graph that runs on it are LangGraph's: what they do *)
(* here is what the gateway relies on.                                            *)
EXTENDS Integers, Sequences, SequencesExt

CONSTANTS Client,      \* browser tabs that hold the session's id
          Request,     \* hitl_request events (one interrupt each)
          Width,       \* most actions in one request
          Careful,     \* the clients wait for each message to be dealt with, and
                       \* answer a request once, or dismiss it by a new turn
          Faults,      \* what else may happen: "cut", "evict", "restart"
          MaxFaults,   \* bound: how often
          MaxMessages, \* bound: turn and hitl_decisions messages sent
          None

ASSUME ConstantsAssumption ==
    /\ Width \in Nat \ {0}
    /\ Careful \in BOOLEAN
    /\ Faults \subseteq {"cut", "evict", "restart"}
    /\ MaxFaults \in Nat /\ MaxMessages \in Nat
    /\ None \notin Client \cup Request

Position == 1..Width
Kind     == {"mutation", "ask_user"}
Decision == {"approve", "reject", "respond"}
Replies  == UNION {[1..n -> Decision] : n \in Position}

\* What the model may ask for in one go, by kind of tool.
Proposals == UNION {[1..n -> Kind] : n \in Position}

NoReply == << >>

VARIABLES
    attached,  \* handlers that hold the session's runtime
    cached,    \* the session is in the session cache
    shown,     \* the request each client displays
    graph,     \* gateway._graph_runtime is set
    ckpt,      \* checkpoint of the thread: at rest, asking, or in its tools
    actions,   \* the actions of each request, << >> until it is made
    tasks,     \* tasks on the session's lock, in the order they were created
    run,       \* what the first task is doing: "no" (not started), "model", "tools"
    ran,       \* actions this run has carried out
    approved,  \* <<request, position>> a human has approved
    answered,  \* requests a human has answered
    executed,  \* how often each action has been carried out
    settled,   \* <<request, position>> whose tool call has been recorded as done
    refused,   \* requests whose answer met "No conversation to resume"
    sent, faults

session == <<attached, cached, graph>>
thread  == <<ckpt, actions>>
work    == <<tasks, run, ran>>
human   == <<shown, approved, answered, refused>>
effects == <<executed, settled>>
vars    == <<session, thread, work, human, effects, sent, faults>>

AtRest       == [at |-> "rest", req |-> None, go |-> {}]
Asking(r)    == [at |-> "ask", req |-> r, go |-> {}]
InTools(r, S) == [at |-> "tools", req |-> r, go |-> S]

Checkpoint == [at : {"rest", "ask", "tools"}, req : Request \cup {None},
               go : SUBSET Position]
Task == [by : Client \cup {None}, for : Request \cup {None},
         reply : Replies \cup {NoReply}]

TypeOK ==
    /\ attached \in [Client -> BOOLEAN]
    /\ cached \in BOOLEAN /\ graph \in BOOLEAN
    /\ shown \in [Client -> Request \cup {None}]
    /\ ckpt \in Checkpoint
    /\ actions \in [Request -> Proposals \cup {NoReply}]
    /\ tasks \in Seq(Task)
    /\ run \in {"no", "model", "tools"} /\ ran \subseteq Position
    /\ approved \subseteq Request \X Position
    /\ settled \subseteq Request \X Position
    /\ answered \subseteq Request /\ refused \subseteq Request
    /\ executed \in [Request \X Position -> Nat]
    /\ sent \in Nat /\ faults \in Nat

Init ==
    /\ attached = [c \in Client |-> FALSE]
    /\ cached = FALSE /\ graph = FALSE
    /\ shown = [c \in Client |-> None]
    /\ ckpt = AtRest
    /\ actions = [r \in Request |-> NoReply]
    /\ tasks = << >> /\ run = "no" /\ ran = {}
    /\ approved = {} /\ answered = {} /\ refused = {}
    /\ executed = [a \in Request \X Position |-> 0]
    /\ settled = {}
    /\ sent = 0 /\ faults = 0

-----------------------------------------------------------------------------
(* The approval policy *)

\* allowed_decisions: the human IS the ask_user tool; a mutation is approved or not.
Allowed(k) == IF k = "ask_user" THEN {"respond"} ELSE {"approve", "reject"}

\* Positional: one decision per action, each of an allowed type.
Fits(ds, k) ==
    /\ DOMAIN ds = DOMAIN k
    /\ \A i \in DOMAIN k : ds[i] \in Allowed(k[i])

\* Mutant: whatever is not rejected goes ahead.
NotRejected(ds) == {i \in DOMAIN ds : ds[i] # "reject"}

\* The actions that go ahead: a rejected one is skipped, a response is the result.
GoAhead(ds) == {i \in DOMAIN ds : ds[i] = "approve"}

-----------------------------------------------------------------------------
(* Connections. *)

\* init: to the cached session, or to a new one, on a thread of its own.
Attach(c) ==
    /\ ~attached[c]
    /\ attached' = [attached EXCEPT ![c] = TRUE]
    /\ cached' = TRUE
    /\ IF cached
       THEN UNCHANGED <<graph, ckpt>>
       ELSE /\ \A x \in Client : ~attached[x]
            /\ tasks = << >>
            /\ graph' = FALSE /\ ckpt' = AtRest
    /\ UNCHANGED <<actions, work, human, effects, sent, faults>>

Outstanding(c) == \E i \in DOMAIN tasks : tasks[i].by = c
MaySend(c) ==
    /\ attached[c] /\ sent < MaxMessages
    /\ Careful => ~Outstanding(c)

\* The client sends a message and its handler creates a task for it. A careful
\* client no longer displays a request once it has sent anything.
Send(c, task) ==
    /\ tasks' = Append(tasks, task)
    /\ sent' = sent + 1
    /\ shown' = IF Careful THEN [shown EXCEPT ![c] = None] ELSE shown
    /\ UNCHANGED <<run, ran, refused, session, thread, effects, faults>>

\* turn: refused while the lock is held. A request still pending is not looked at.
TurnMessage(c) ==
    /\ MaySend(c) /\ run = "no"
    /\ Send(c, [by |-> c, for |-> None, reply |-> NoReply])
    /\ UNCHANGED <<approved, answered>>

\* hitl_decisions: the human has decided on the request the client displays.
DecisionsMessage(c) ==
    LET r == shown[c] IN
    /\ MaySend(c) /\ r # None
    /\ \E ds \in Replies :
         /\ Fits(ds, actions[r])
         /\ Send(c, [by |-> c, for |-> r, reply |-> ds])
         /\ approved' = approved \cup {<<r, i>> : i \in {j \in DOMAIN ds : ds[j] = "approve"}}
    /\ answered' = answered \cup {r}

-----------------------------------------------------------------------------
(* The first task holds the lock once it runs. *)

\* The task ends and the lock goes to the next one.
End ==
    /\ tasks' = Tail(tasks)
    /\ run' = "no" /\ ran' = {}

TurnIsNext   == run = "no" /\ tasks # << >> /\ Head(tasks).for = None
ResumeIsNext == run = "no" /\ tasks # << >> /\ Head(tasks).for # None

\* The guardrail refuses the message, or the graph cannot be built.
TurnRefused ==
    /\ TurnIsNext
    /\ End
    /\ UNCHANGED <<session, thread, human, effects, sent, faults>>

\* A new message starts the agent over: whatever was pending is abandoned, on the
\* old graph's checkpointer as on that of a graph built for the occasion.
TurnStarts ==
    /\ TurnIsNext
    /\ graph' = TRUE
    /\ ckpt' = AtRest
    /\ run' = "model"
    /\ UNCHANGED <<attached, cached, actions, tasks, ran>>
    /\ UNCHANGED <<human, effects, sent, faults>>

\* "No conversation to resume": the gateway has no graph.
ResumeRefused ==
    /\ ResumeIsNext /\ ~graph
    /\ refused' = refused \cup {Head(tasks).for}
    /\ End
    /\ UNCHANGED <<shown, approved, answered>>
    /\ UNCHANGED <<session, thread, effects, sent, faults>>

\* The decisions do not fit the pending request: the policy raises and the request
\* stays pending.
ResumeRejected ==
    /\ ResumeIsNext /\ graph /\ ckpt.at = "ask"
    /\ ~Fits(Head(tasks).reply, actions[ckpt.req])
    /\ End
    /\ UNCHANGED <<session, thread, human, effects, sent, faults>>

\* Mutants: one approval lets the whole request go ahead; the approvals are not
\* restored from the checkpoint.
ResumeDecidesAll ==
    /\ ResumeIsNext /\ graph /\ ckpt.at = "ask"
    /\ Fits(Head(tasks).reply, actions[ckpt.req])
    /\ ckpt' = InTools(ckpt.req, DOMAIN actions[ckpt.req])
    /\ run' = "tools"
    /\ UNCHANGED <<session, actions, tasks, ran, human, effects, sent, faults>>
ResumeDecidesNothing ==
    /\ ResumeIsNext /\ graph /\ ckpt.at = "ask"
    /\ Fits(Head(tasks).reply, actions[ckpt.req])
    /\ ckpt' = InTools(ckpt.req, {})
    /\ run' = "tools"
    /\ UNCHANGED <<session, actions, tasks, ran, human, effects, sent, faults>>

\* The decisions fit the pending request, which need not be the one they answer.
ResumeDecides ==
    /\ ResumeIsNext /\ graph /\ ckpt.at = "ask"
    /\ Fits(Head(tasks).reply, actions[ckpt.req])
    /\ ckpt' = InTools(ckpt.req, GoAhead(Head(tasks).reply))
    /\ run' = "tools"
    /\ UNCHANGED <<session, actions, tasks, ran, human, effects, sent, faults>>

\* Mutant: the answer is applied to its request, whatever became of that.
ResumeElsewhereReplay ==
    /\ ResumeIsNext /\ graph
    /\ ckpt.at # "ask"
    /\ ckpt' = InTools(Head(tasks).for, GoAhead(Head(tasks).reply))
    /\ run' = "tools"
    /\ UNCHANGED <<session, actions, tasks, ran, human, effects, sent, faults>>

\* Nothing is pending: the run is over at once. A run that was cut short in its
\* tools goes on with them, and has no use for the decisions.
ResumeElsewhere ==
    /\ ResumeIsNext /\ graph
    /\ \/ ckpt.at = "rest" /\ End
       \/ ckpt.at = "tools" /\ run' = "tools" /\ UNCHANGED <<tasks, ran>>
    /\ UNCHANGED <<session, thread, human, effects, sent, faults>>

-----------------------------------------------------------------------------
(* The graph *)

\* The model proposes tool calls that need an approval: the turn ends, and the
\* request goes to the client whose message started it.
ModelAsks(r) ==
    /\ run = "model" /\ actions[r] = NoReply
    /\ \E k \in Proposals : actions' = [actions EXCEPT ![r] = k]
    /\ ckpt' = Asking(r)
    /\ shown' = [c \in Client |-> IF c = Head(tasks).by THEN r ELSE shown[c]]
    /\ End
    /\ UNCHANGED <<approved, answered, refused, session, effects, sent, faults>>

\* The model answers, or fails.
ModelEnds ==
    /\ run = "model"
    /\ End
    /\ UNCHANGED <<session, thread, human, effects, sent, faults>>

\* A tool call takes effect on the server.
ToolRuns(i) ==
    /\ run = "tools" /\ i \in ckpt.go \ ran
    /\ ran' = ran \cup {i}
    /\ executed' = [executed EXCEPT ![<<ckpt.req, i>>] = @ + 1]
    /\ UNCHANGED <<tasks, run, settled, session, thread, human, sent, faults>>

\* Its result, or its error, enters the checkpoint.
ToolRecorded(i) ==
    /\ run = "tools" /\ i \in ckpt.go
    /\ ckpt' = [ckpt EXCEPT !.go = @ \ {i}]
    /\ settled' = settled \cup {<<ckpt.req, i>>}
    /\ UNCHANGED <<actions, executed, session, work, human, sent, faults>>

\* All results are in: the model goes on.
ToolsDone ==
    /\ run = "tools" /\ ckpt.go = {}
    /\ ckpt' = AtRest
    /\ run' = "model" /\ ran' = {}
    /\ UNCHANGED <<actions, tasks, session, human, effects, sent, faults>>

-----------------------------------------------------------------------------
(* Faults *)

Fault(f) == f \in Faults /\ faults < MaxFaults /\ faults' = faults + 1

IsLast(c, i) ==
    /\ tasks[i].by = c
    /\ \A j \in DOMAIN tasks : tasks[j].by = c => j <= i

Orphaned(c) == [i \in DOMAIN tasks |->
                  [tasks[i] EXCEPT !.by = IF @ = c THEN None ELSE @]]

\* Mutant: a disconnect destroys the gateway of the session.
CutDestroys(c) ==
    /\ Fault("cut") /\ attached[c]
    /\ attached' = [attached EXCEPT ![c] = FALSE]
    /\ graph' = FALSE /\ tasks' = << >> /\ run' = "no" /\ ran' = {}
    /\ UNCHANGED <<cached, thread, human, effects, sent>>

\* The connection is lost: the handler cancels its last task, which may be the one
\* that runs; the events of the others reach nobody.
Cut(c) ==
    /\ Fault("cut") /\ attached[c]
    /\ attached' = [attached EXCEPT ![c] = FALSE]
    /\ \/ ~Outstanding(c) /\ UNCHANGED work
       \/ \E i \in DOMAIN tasks :
            /\ IsLast(c, i)
            /\ tasks' = RemoveAt(Orphaned(c), i)
            /\ IF i = 1
               THEN run' = "no" /\ ran' = {}
               ELSE UNCHANGED <<run, ran>>
    /\ UNCHANGED <<cached, graph, thread, human, effects, sent>>

\* The graph fails in its tools, for instance because a checkpoint is not written.
GraphFails ==
    /\ Fault("cut") /\ run = "tools"
    /\ End
    /\ UNCHANGED <<session, thread, human, effects, sent>>

\* Another init of the same user evicts the session: destroy() drops its graph.
Evict ==
    /\ Fault("evict") /\ cached
    /\ cached' = FALSE /\ graph' = FALSE
    /\ UNCHANGED <<attached, thread, work, human, effects, sent>>

\* The server restarts: sessions, graphs and tasks are gone.
Restart ==
    /\ Fault("restart")
    /\ attached' = [c \in Client |-> FALSE]
    /\ cached' = FALSE /\ graph' = FALSE
    /\ tasks' = << >> /\ run' = "no" /\ ran' = {}
    /\ UNCHANGED <<thread, human, effects, sent>>

-----------------------------------------------------------------------------
TaskStep ==
    \/ TurnRefused \/ TurnStarts
    \/ ResumeRefused \/ ResumeRejected \/ ResumeDecides \/ ResumeElsewhere
    \/ (\E r \in Request : ModelAsks(r)) \/ ModelEnds
    \/ (\E i \in Position : ToolRuns(i) \/ ToolRecorded(i)) \/ ToolsDone

Next ==
    \/ \E c \in Client :
         Attach(c) \/ TurnMessage(c) \/ DecisionsMessage(c) \/ Cut(c)
    \/ TaskStep
    \/ GraphFails \/ Evict \/ Restart
    \/ tasks = << >> /\ UNCHANGED vars

Spec == Init /\ [][Next]_vars

(* The model answers and every tool call returns or times out; people and faults   *)
(* are under no fairness.                                                          *)
FairSpec ==
    /\ Spec
    /\ WF_vars(TurnRefused \/ TurnStarts \/ ResumeRefused \/ ResumeRejected
               \/ ResumeDecides \/ ResumeElsewhere)
    /\ WF_vars(ModelEnds \/ \E r \in Request : ModelAsks(r))
    /\ \A i \in Position : WF_vars(ToolRecorded(i))
    /\ WF_vars(ToolsDone)

-----------------------------------------------------------------------------
(* "Mutations (create_*/update_*/...): require explicit `approve` or `reject`"     *)
(* (hitl_policy.py:6): an action is carried out only if a human approved it.       *)
ApprovedOnly ==
    \A a \in Request \X Position : executed[a] > 0 => a \in approved

(* However often decisions are sent, an action takes effect once, and once more    *)
(* only for each run that was cut short before its result was recorded.            *)
RunsBounded == \A a \in Request \X Position : executed[a] <= 1 + faults

(* "HITL is stateless: the turn ENDS at the interrupt and hitl_decisions resumes it *)
(* from the checkpoint" (websocket.py:20): a lost connection, before or after the   *)
(* request is answered, never makes the gateway refuse an answer for having nothing *)
(* to resume. (An eviction or a restart does: they drop the graph.)                 *)
AnswersResume == Faults \subseteq {"cut"} => refused = {}

(* What a human approves is dealt with: its tool is called and its result recorded, *)
(* unless a fault interferes.                                                      *)
ApprovedSettled ==
    \A a \in Request \X Position : a \in approved ~> a \in settled \/ faults > 0

(* The gate, seen from the human: each request is decided once, as a whole, and    *)
(* what runs was approved.                                                         *)
FateOf(r, i) ==
    IF i \notin DOMAIN actions[r] THEN "unasked"
    ELSE IF executed[<<r, i>>] > 0 THEN "ran"
    ELSE IF <<r, i>> \in approved THEN "approved"
    ELSE IF r \in answered THEN "declined"
    ELSE "asked"

Gate == INSTANCE Approvals WITH
            fate <- [r \in Request |-> [i \in Position |-> FateOf(r, i)]]

ImplementsGate == Gate!Spec
=============================================================================
