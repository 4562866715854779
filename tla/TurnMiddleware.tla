--------------------------- MODULE TurnMiddleware ---------------------------
(* What happens to a message between the client and the model: the input guardrail *)
(* (agent/middleware/input_guardrail.py, guardrail_fallback.py), the memory that is *)
(* read before the agent and written after it (lifecycle_middleware.py, memory.py), *)
(* the context that is added to each model call (dynamic_tools_middleware.py), and  *)
(* the trim and retry after an overflow (context_overflow_middleware.py).           *)
(*                                                                                *)
(* One conversation, whose turns come one after the other (Sessions). A text is the *)
(* features that the guardrail looks for, a message its author, its turn, whether it *)
(* has an address or number that redaction would have taken out, its size as the     *)
(* trim counts it and its size as the model's provider does. LangGraph checkpoints   *)
(* after each node: `pending` is the node that a resume goes on with, and a run that *)
(* is cut or fails leaves it there.                                                *)
EXTENDS Integers, Sequences, SequencesExt

CONSTANTS Config,     \* provider, whether a guardrail and a memory are configured
          Text,       \* what a client may send
          Result,     \* what a tool, or a decision in its place, may answer
          Window,     \* what the model accepts
          Overhead,   \* size of the system prompt and the tool schemas
          Budget,     \* _EMERGENCY_TOKEN_BUDGET
          Steps,      \* model calls in one run (recursion_limit)
          MaxTurns, MaxResumes, MaxCuts \* bounds

ASSUME ConstantsAssumption ==
    /\ Config \subseteq [provider : {"bedrock", "openai"},
                         guardrail : BOOLEAN, memory : BOOLEAN]
    /\ Text \subseteq [pii : BOOLEAN, topic : BOOLEAN, term : BOOLEAN]
    /\ Result \subseteq [size : Nat, real : Nat, raw : BOOLEAN]
    /\ Window \in Nat /\ Overhead \in Nat /\ Budget \in Nat /\ Steps \in Nat
    /\ MaxTurns \in Nat /\ MaxResumes \in Nat /\ MaxCuts \in Nat

Layer   == {"bedrock", "moderation", "redaction", "blocklist"}
Message == [by : {"human", "request", "result", "answer", "context"},
            turn : Nat, size : Nat, real : Nat, raw : BOOLEAN]
Summary == [asked : Nat, answered : Nat, raw : BOOLEAN, run : Nat]
Node    == {"none", "recall", "model", "paused", "tools", "save"}
Stage   == (Node \ {"paused"}) \cup {"guard", "input", "calling", "saving"}

VARIABLES
    config,     \* AppConfig, read once
    turn,       \* number of the latest message of the client
    text,       \* that message, as the gateway hands it on
    task,       \* what the task on the conversation's lock does
    messages,   \* the checkpoint's messages
    recalled,   \* turn whose question memory_context answers, 0 for None
    pending,    \* the checkpoint's next node
    prompt,     \* what the model is called with
    attempt,    \* 1, or 2 after an overflow
    steps,      \* model calls of this run
    saving,     \* summaries whose save_turn runs in a thread
    saved,      \* summaries in the store, in the order they were written
    unredacted, \* turns whose redaction failed
    unchecked,  \* turns in which a result or a decision brought unredacted text
    blocked,    \* turns refused by the guardrail
    dropped,    \* turns with a tool request that nothing will answer
    resumes, cuts

checkpoint == <<messages, recalled, pending>>
call       == <<prompt, attempt, steps>>
memory     == <<saving, saved>>
history    == <<unredacted, unchecked, blocked, dropped>>
vars == <<config, turn, text, task, checkpoint, call, memory, history, resumes, cuts>>

TypeOK ==
    /\ config \in Config /\ turn \in Nat
    /\ text \in [pii : BOOLEAN, topic : BOOLEAN, term : BOOLEAN]
    /\ task \in Stage
    /\ messages \in Seq(Message) /\ recalled \in Nat /\ pending \in Node
    /\ prompt \in Seq(Message) /\ attempt \in 1..2 /\ steps \in Nat
    /\ saving \subseteq Summary /\ saved \in Seq(Summary)
    /\ unredacted \subseteq Nat /\ unchecked \subseteq Nat
    /\ blocked \subseteq Nat /\ dropped \subseteq Nat
    /\ resumes \in Nat /\ cuts \in Nat

NoText == [pii |-> FALSE, topic |-> FALSE, term |-> FALSE]

Init ==
    /\ config \in Config
    /\ turn = 0 /\ text = NoText
    /\ task = "none"
    /\ messages = << >> /\ recalled = 0 /\ pending = "none"
    /\ prompt = << >> /\ attempt = 1 /\ steps = 0
    /\ saving = {} /\ saved = << >>
    /\ unredacted = {} /\ unchecked = {} /\ blocked = {} /\ dropped = {}
    /\ resumes = 0 /\ cuts = 0

-----------------------------------------------------------------------------
(* The guardrail. `down` are the layers that fail or are not installed.           *)

\* ApplyGuardrail intervenes, if it is configured and answers.
BedrockBlocks(t, down) == config.guardrail /\ t.topic /\ "bedrock" \notin down

\* Moderation when the provider is OpenAI, then the blocklist on what redaction
\* left (no term is part of an address or a number).
FallbackBlocks(t, down) ==
    \/ config.provider = "openai" /\ t.topic /\ "moderation" \notin down
    \/ t.term /\ "blocklist" \notin down

Blocks(t, down) ==
    IF config.provider = "bedrock" THEN BedrockBlocks(t, down) ELSE FallbackBlocks(t, down)

\* Mutant: what was redacted is only logged.
RedactNothing(t, down) == t

\* The text that goes on: redacted outside Bedrock, as it came if that fails.
Redact(t, down) ==
    IF config.provider = "bedrock" \/ "redaction" \in down
    THEN t ELSE [t EXCEPT !.pii = FALSE]

-----------------------------------------------------------------------------
(* Messages *)

Human == {"human", "context"}
AI    == {"request", "answer"}

\* trim_messages(token_counter="approximate"): the messages alone, by their characters.
Size(ms) ==
    LET upTo[n \in 0..Len(ms)] == IF n = 0 THEN 0 ELSE upTo[n - 1] + ms[n].size
    IN  upTo[Len(ms)]

\* What the provider counts of them.
RealSize(ms) ==
    LET upTo[n \in 0..Len(ms)] == IF n = 0 THEN 0 ELSE upTo[n - 1] + ms[n].real
    IN  upTo[Len(ms)]

\* The most recent message of one of these kinds.
LastIndex(ms, kinds) ==
    CHOOSE i \in DOMAIN ms :
        /\ ms[i].by \in kinds
        /\ \A j \in DOMAIN ms : ms[j].by \in kinds => j <= i
LastHuman(ms) == ms[LastIndex(ms, {"human"})]
LastAI(ms)    == ms[LastIndex(ms, AI)]

\* A message of a turn of the client's, one unit long.
Text1(by, n, raw) == [by |-> by, turn |-> n, size |-> 1, real |-> 1, raw |-> raw]

Say(by, raw) == Text1(by, LastHuman(messages).turn, raw)
Reply(r) == [by |-> "result", turn |-> LastHuman(messages).turn, size |-> r.size,
             real |-> r.real, raw |-> r.raw]

\* The turn context: memory, if there is any, as a last message that is not kept.
Context == IF recalled = 0 THEN << >>
           ELSE << Text1("context", recalled, FALSE) >>

\* Mutants: only the last message of a human is kept; the trim starts anywhere.
TrimToHuman(ms) == SubSeq(ms, LastIndex(ms, Human), Len(ms))
TrimAnywhere(ms) ==
    LET fits == {i \in DOMAIN ms : Size(SubSeq(ms, i, Len(ms))) <= Budget}
    IN  IF fits = {} THEN << >>
        ELSE SubSeq(ms, CHOOSE i \in fits : \A j \in fits : i <= j, Len(ms))

\* _emergency_trim: the longest end within the budget that starts on a human message,
\* the turn context included; nothing if there is none.
Trim(ms) ==
    LET fits == {i \in DOMAIN ms : /\ ms[i].by \in Human
                                   /\ Size(SubSeq(ms, i, Len(ms))) <= Budget}
    IN  IF fits = {} THEN << >>
        ELSE SubSeq(ms, CHOOSE i \in fits : \A j \in fits : i <= j, Len(ms))
-----------------------------------------------------------------------------
(* A turn begins. *)

\* What a call and a run leave behind when they are over: nothing.
CallOver == prompt' = << >> /\ attempt' = 1
RunOver  == CallOver /\ steps' = 0

\* Redaction fails on what it would have changed; on Bedrock it is not tried.
Unredacted(down) == config.provider # "bedrock" /\ text.pii /\ "redaction" \in down

Idle == task = "none"

TurnMessage(t) ==
    /\ Idle /\ turn < MaxTurns
    /\ turn' = turn + 1 /\ text' = t
    /\ task' = "guard"
    /\ UNCHANGED <<config, checkpoint, call, memory, history, resumes, cuts>>

\* Mutant: a blocked message is answered for and sent on.
GuardedAnyway(down) ==
    /\ task = "guard"
    /\ text' = Redact(text, down)
    /\ unredacted' = IF Unredacted(down) THEN unredacted \cup {turn} ELSE unredacted
    /\ task' = "input"
    /\ blocked' = IF Blocks(text, down) THEN blocked \cup {turn} ELSE blocked
    /\ UNCHANGED <<config, turn, checkpoint, call, memory, unchecked, dropped, resumes, cuts>>

\* apply_input_guardrail, before the graph is built or the thread looked at.
Guarded(down) ==
    /\ task = "guard"
    /\ unredacted' = IF Unredacted(down) THEN unredacted \cup {turn} ELSE unredacted
    /\ IF Blocks(text, down)
       THEN task' = "none" /\ text' = NoText /\ blocked' = blocked \cup {turn}
       ELSE task' = "input" /\ text' = Redact(text, down) /\ UNCHANGED blocked
    /\ UNCHANGED <<config, turn, checkpoint, call, memory, unchecked, dropped, resumes, cuts>>

NoGraph ==
    /\ task = "input"
    /\ task' = "none" /\ text' = NoText
    /\ UNCHANGED <<config, turn, checkpoint, call, memory, history, resumes, cuts>>

\* The run's input: the message is appended, what was pending is abandoned.
GraphInput ==
    /\ task = "input"
    /\ messages' = Append(messages, Text1("human", turn, text.pii))
    /\ dropped' = IF pending \in {"paused", "tools"}
                  THEN dropped \cup {LastAI(messages).turn} ELSE dropped
    /\ pending' = "recall" /\ task' = "recall"
    /\ text' = NoText
    /\ UNCHANGED <<config, turn, recalled, call, memory>>
    /\ UNCHANGED <<unredacted, unchecked, blocked, resumes, cuts>>

\* Mutant: a search that finds nothing, or fails, leaves memory_context alone.
RecalledSome(found) ==
    /\ task = "recall"
    /\ recalled' = IF found THEN LastHuman(messages).turn ELSE recalled
    /\ pending' = "model" /\ task' = "model"
    /\ UNCHANGED <<config, turn, text, messages, call, memory, history, resumes, cuts>>

\* EntryMiddleware: search with the last human message. Without a memory, without
\* hits or after a failure the channel is overwritten with None.
Recalled(found) ==
    /\ task = "recall"
    /\ recalled' = IF found THEN LastHuman(messages).turn ELSE 0
    /\ pending' = "model" /\ task' = "model"
    /\ UNCHANGED <<config, turn, text, messages, call, memory, history, resumes, cuts>>

MayFind == config.memory /\ config.provider = "bedrock"

-----------------------------------------------------------------------------
(* The model *)

CallModel ==
    /\ task = "model" /\ steps < Steps
    /\ prompt' = messages \o Context
    /\ attempt' = 1 /\ steps' = steps + 1
    /\ task' = "calling"
    /\ UNCHANGED <<config, turn, text, checkpoint, memory, history, resumes, cuts>>

TooLarge == Overhead + RealSize(prompt) > Window

\* Mutant: the retry passes the middleware again, with the messages as they were.
OverflowAgain(mistaken) ==
    /\ task = "calling"
    /\ TooLarge \/ mistaken
    /\ prompt' = IF attempt = 1 THEN Trim(prompt) ELSE messages \o Context
    /\ attempt' = 3 - attempt
    /\ UNCHANGED <<config, turn, text, task, checkpoint, steps, memory, history, resumes, cuts>>

\* The call is refused for its size, or by an error that mentions 413: once trimmed
\* it is repeated.
Overflow(mistaken) ==
    /\ task = "calling" /\ attempt = 1
    /\ TooLarge \/ mistaken
    /\ prompt' = Trim(prompt)
    /\ attempt' = 2
    /\ UNCHANGED <<config, turn, text, task, checkpoint, steps, memory, history, resumes, cuts>>

\* The model may repeat what it was shown.
Repeats(raw) == raw => \E m \in Range(prompt) : m.raw

\* The model answers: the agent is done, and MemoryWriteMiddleware follows.
Answer(raw) ==
    /\ task = "calling" /\ ~TooLarge /\ Repeats(raw)
    /\ messages' = Append(messages, Say("answer", raw))
    /\ pending' = "save" /\ task' = "save"
    /\ RunOver
    /\ UNCHANGED <<config, turn, text, recalled, memory, history, resumes, cuts>>

\* It calls tools, which may have to be approved first: then the turn ends.
Request(gated, raw) ==
    /\ task = "calling" /\ ~TooLarge /\ Repeats(raw)
    /\ messages' = Append(messages, Say("request", raw))
    /\ IF gated
       THEN pending' = "paused" /\ task' = "none" /\ RunOver
       ELSE pending' = "tools" /\ task' = "tools" /\ CallOver /\ UNCHANGED steps
    /\ UNCHANGED <<config, turn, text, recalled, memory, history, resumes, cuts>>

\* Tool results, errors and the texts of decisions enter the state without guardrail or
\* redaction; large ones make later calls overflow.
ToolsAnswer(r) ==
    /\ task = "tools"
    /\ messages' = Append(messages, Reply(r))
    /\ unchecked' = IF r.raw THEN unchecked \cup {LastHuman(messages).turn} ELSE unchecked
    /\ pending' = "model" /\ task' = "model"
    /\ UNCHANGED <<config, turn, text, recalled, call, memory>>
    /\ UNCHANGED <<unredacted, blocked, dropped, resumes, cuts>>

\* The run raises: any other error, the second of a call, or the recursion limit.
RunFails ==
    /\ \/ task \in {"calling", "tools"}
       \/ task = "model" /\ steps = Steps
    /\ task' = "none" /\ RunOver
    /\ UNCHANGED <<config, turn, text, checkpoint, memory, history, resumes, cuts>>

-----------------------------------------------------------------------------
(* The turn ends. *)

\* Mutant: the first question of the conversation is summarised.
SummaryOfFirst ==
    [asked |-> messages[1].turn, answered |-> LastAI(messages).turn,
     raw |-> messages[1].raw \/ LastAI(messages).raw, run |-> resumes]

SummaryOfTurn ==
    [asked |-> LastHuman(messages).turn, answered |-> LastAI(messages).turn,
     raw |-> LastHuman(messages).raw \/ LastAI(messages).raw, run |-> resumes]

\* save_turn is handed to a thread, if there is a memory to write to.
Save ==
    /\ task = "save"
    /\ IF config.memory
       THEN task' = "saving" /\ saving' = saving \cup {SummaryOfTurn} /\ UNCHANGED pending
       ELSE task' = "none" /\ pending' = "none" /\ UNCHANGED saving
    /\ UNCHANGED <<config, turn, text, messages, recalled, call, saved, history, resumes, cuts>>

\* Mutant: the hook's node stays pending when it is done.
SavedPending(s, ok) ==
    /\ s \in saving
    /\ saving' = saving \ {s}
    /\ saved' = IF ok THEN Append(saved, s) ELSE saved
    /\ task' = IF task = "saving" /\ s = SummaryOfTurn THEN "none" ELSE task
    /\ UNCHANGED <<config, turn, text, checkpoint, call, history, resumes, cuts>>

\* The thread is done, whatever became of it; a turn that waits for it ends.
Saved(s, ok) ==
    /\ s \in saving
    /\ saving' = saving \ {s}
    /\ saved' = IF ok THEN Append(saved, s) ELSE saved
    /\ IF task = "saving" /\ s = SummaryOfTurn
       THEN task' = "none" /\ pending' = "none"
       ELSE UNCHANGED <<task, pending>>
    /\ UNCHANGED <<config, turn, text, messages, recalled, call, history, resumes, cuts>>

\* hitl_decisions: approved, rejected or answered, the pending request gets its result in the
\* tools, of which the text of a decision may be one; without a request, a run that was cut
\* or has failed goes on where it was.
Resume ==
    /\ Idle /\ pending # "none" /\ resumes < MaxResumes
    /\ resumes' = resumes + 1
    /\ pending' = IF pending = "paused" THEN "tools" ELSE pending
    /\ task' = pending'
    /\ UNCHANGED <<config, turn, text, messages, recalled, call, memory, history, cuts>>

\* The task is cancelled. Its thread, if it has one, is not.
Cut ==
    /\ ~Idle /\ cuts < MaxCuts
    /\ cuts' = cuts + 1
    /\ task' = "none" /\ text' = NoText /\ RunOver
    /\ UNCHANGED <<config, turn, checkpoint, memory, history, resumes>>

-----------------------------------------------------------------------------
TaskStep ==
    \/ \E down \in SUBSET Layer : Guarded(down)
    \/ NoGraph \/ GraphInput
    \/ \E found \in {FALSE, MayFind} : Recalled(found)
    \/ CallModel \/ (\E mistaken \in BOOLEAN : Overflow(mistaken))
    \/ (\E raw \in BOOLEAN : Answer(raw) \/ \E gated \in BOOLEAN : Request(gated, raw))
    \/ (\E r \in Result : ToolsAnswer(r)) \/ RunFails
    \/ Save

Next ==
    \/ \E t \in Text : TurnMessage(t)
    \/ TaskStep
    \/ \E s \in saving, ok \in BOOLEAN : Saved(s, ok)
    \/ Resume \/ Cut
    \/ Idle /\ UNCHANGED vars

Spec == Init /\ [][Next]_vars

(* Every await of a turn ends: the guardrail's call and the store's return or raise, *)
(* the model answers or fails, tools return or time out.                            *)
FairSpec ==
    /\ Spec
    /\ WF_vars(TaskStep)
    /\ WF_vars(\E s \in saving, ok \in BOOLEAN : Saved(s, ok))

-----------------------------------------------------------------------------
(* A message the guardrail refuses leaves no trace: it is in no checkpoint, in no     *)
(* prompt and in no summary, whatever was pending when it came (ai_gateway.py:322).   *)
BlockedStaysOut ==
    /\ \A m \in Range(messages) \cup Range(prompt) : m.turn \notin blocked
    /\ \A s \in saving \cup Range(saved) : s.asked \notin blocked

\* Unredacted text has come in, in this turn or before it.
Explained(n) == \E k \in unredacted \cup unchecked : k <= n

(* "substitute the redacted version so it's what actually enters the graph/model"     *)
(* (ai_gateway.py:330): outside Bedrock a question in the checkpoint is redacted unless  *)
(* the redaction of its turn failed. Nothing redacts what tools answer and what users     *)
(* write into their decisions; without either, in no turn so far, what redaction knows is  *)
(* in no message, in no prompt and in no summary, however the model repeats what it sees. *)
RawExplained ==
    config.provider # "bedrock" =>
        /\ \A m \in Range(messages) : m.by = "human" /\ m.raw => m.turn \in unredacted
        /\ \A m \in Range(messages) \cup Range(prompt) : m.raw => Explained(m.turn)
        /\ \A s \in saving \cup Range(saved) : s.raw => Explained(s.asked)

(* memory_context lives in the checkpoint and outlives its turn                      *)
(* (lifecycle_middleware.py:99). What a model call shows of it was searched with the   *)
(* question of that very run, also after pauses, cuts, failures and blocked messages.  *)
OwnMemory ==
    task = "calling" =>
        \A m \in Range(prompt) : m.by = "context" => m.turn = LastHuman(messages).turn

(* "Keep the most recent messages" (context_overflow_middleware.py:45): a trimmed call  *)
(* still has the question, unless question, tool results and turn context alone exceed  *)
(* the budget, as the trim counts. (Then the model gets the turn context without its question, or nothing.) *)
QuestionSeen ==
    task = "calling" =>
        LET whole == messages \o Context
            asked == LastIndex(messages, {"human"})
        IN  \/ LastHuman(messages) \in Range(prompt)
            \/ Size(SubSeq(whole, asked, Len(whole))) > Budget

(* Providers refuse a tool result without its request and a request without result.    *)
(* A trim never separates the two; a request stays without result only if its turn was *)
(* given up: its approval abandoned by a new message, or its tools cut or failed.      *)
WellFormed ==
    task = "calling" => \A i \in DOMAIN prompt :
        /\ prompt[i].by = "result" => i > 1 /\ prompt[i - 1].by = "request"
        /\ prompt[i].by = "request" /\ prompt[i].turn \notin dropped =>
             i < Len(prompt) /\ prompt[i + 1].by = "result"

(* A summary pairs a question with the answer of the same turn                        *)
(* (lifecycle_middleware.py:118), however many runs the turn took.                     *)
SummaryOwnTurn == \A s \in saving \cup Range(saved) : s.asked = s.answered

(* Without cancellations each turn is summarised at most once and in order, which the  *)
(* one key of the in-memory store ("turn_unknown", memory.py:42) needs to hold the     *)
(* latest. A cancelled save is not undone: its thread may write after a later turn's.  *)
SavedInOrder ==
    cuts = 0 => \A i, j \in DOMAIN saved : i < j => saved[i].asked < saved[j].asked

(* "an emergency trim and retries once" (graph_builder.py:20): the trim counts neither   *)
(* system prompt nor tools, and only estimates the rest, so that its retry may be refused   *)
(* for its size too. It is not trimmed again: each turn ends, blocked, paused, answered,    *)
(* failed or cut.                                                                         *)
OneRetry == ~Idle ~> Idle
=============================================================================
