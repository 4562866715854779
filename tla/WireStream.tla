---------------------------- MODULE WireStream ------------------------------
(* The event stream of one turn (agent/wire.py). A graph run is read through two       *)
(* projections, the messages of the model and the snapshots of the state; two pumps    *)
(* turn them into wire events in one unbounded queue, which stream_wire_events hands   *)
(* to the turn. Inside a message, text and tool calls are again two projections, read  *)
(* by two coroutines.                                                                  *)
(*                                                                                     *)
(* The run itself is the environment: what a projection has to offer may be read late, *)
(* and in any order relative to what the others offer. A message is a number of text   *)
(* chunks followed by tool calls. Of the queue, a FIFO, the model keeps how often each *)
(* thing was put before the sentinel that ends the stream: that is what the turn gets. *)
EXTENDS Integers, FiniteSets

CONSTANTS Call,       \* tool calls of the turn
          NoInput,    \* those whose arguments are empty
          Old,        \* tool results of earlier turns, which the state still holds
          MaxText,    \* bound: text chunks of a message
          MaxMessages,\* bound: messages of the turn
          Faults      \* subset of {"graph", "values", "cancel"}

ASSUME ConstantsAssumption ==
    /\ NoInput \subseteq Call
    /\ MaxText \in Nat /\ MaxMessages \in Nat \ {0}
    /\ Faults \subseteq {"graph", "values", "cancel"}

VARIABLES
    graph,      \* the run: in the model, in the tools, ended, failed
    last,       \* number of messages begun
    said,       \* text chunks of each message
    asked,      \* tool calls of each message
    result,     \* calls with a result in the state
    messages,   \* pump_messages: waiting, reading, ended, failed, cancelled
    cur,        \* the message it reads
    textOpen, callsOpen,   \* pump_text and pump_tool_calls still read it
    heard,      \* chunks of it that were read
    parts,      \* _parts: chunks read and not committed
    committed,  \* _committed: a tool call has been seen
    pending, emitted,      \* of pump_tool_calls
    values,     \* pump_values: reading, ended, failed, cancelled
    seen,       \* results it has shown
    driver,     \* running, cancelling, ended, failed, cancelled
    consumer,   \* reading, ended, failed, cancelled
    closed,     \* _DONE has been put; what follows it is never taken
    deltas,     \* text_delta events of each message
    commits,    \* chunks in the text_commit events of each message
    answer,     \* chunks in its text_commit as an answer
    announced,  \* tool_auto events of each call
    shown       \* activity events of each result

run     == <<graph, last, said, asked, result>>
message == <<cur, textOpen, callsOpen, heard, parts, committed, pending, emitted>>
text    == <<deltas, commits, answer>>
queue   == <<closed, text, announced, shown>>
vars    == <<run, messages, message, values, seen, driver, consumer, queue>>

Message == 1..MaxMessages

TypeOK ==
    /\ graph \in {"model", "tools", "ended", "failed"}
    /\ last \in Message /\ cur \in 0..MaxMessages
    /\ said \in [Message -> 0..MaxText] /\ asked \in [Message -> SUBSET Call]
    /\ result \subseteq Call /\ seen \subseteq Call \cup Old
    /\ messages \in {"waiting", "reading", "ended", "failed", "cancelled"}
    /\ values \in {"reading", "ended", "failed", "cancelled"}
    /\ {textOpen, callsOpen, committed} \subseteq BOOLEAN
    /\ heard \in 0..MaxText /\ parts \in 0..heard
    /\ pending \subseteq Call /\ emitted \subseteq pending
    /\ driver \in {"running", "cancelling", "ended", "failed", "cancelled"}
    /\ consumer \in {"reading", "ended", "failed", "cancelled"}
    /\ closed \in BOOLEAN
    /\ {deltas, commits, answer} \subseteq [Message -> Nat]
    /\ announced \in [Call -> Nat] /\ shown \in [Call \cup Old -> Nat]

Init ==
    /\ graph = "model" /\ last = 1 /\ result = {}
    /\ said = [m \in Message |-> 0] /\ asked = [m \in Message |-> {}]
    /\ messages = "waiting" /\ cur = 0 /\ heard = 0 /\ parts = 0
    /\ textOpen = FALSE /\ callsOpen = FALSE /\ committed = FALSE
    /\ pending = {} /\ emitted = {}
    /\ values = "reading" /\ seen = {}
    /\ driver = "running" /\ consumer = "reading"
    /\ closed = FALSE
    /\ deltas = [m \in Message |-> 0] /\ commits = [m \in Message |-> 0]
    /\ answer = [m \in Message |-> 0]
    /\ announced = [c \in Call |-> 0] /\ shown = [r \in Call \cup Old |-> 0]

-----------------------------------------------------------------------------
(* The run.                                                                            *)

Say ==
    /\ graph = "model" /\ asked[last] = {} /\ said[last] < MaxText
    /\ said' = [said EXCEPT ![last] = @ + 1]
    /\ UNCHANGED <<graph, last, asked, result>>

Ask(c) ==
    /\ graph = "model" /\ last < MaxMessages
    /\ \A m \in Message : c \notin asked[m]
    /\ asked' = [asked EXCEPT ![last] = @ \cup {c}]
    /\ UNCHANGED <<graph, last, said, result>>

(* A message without tool calls ends the run, one with calls goes to the tools.        *)
MessageEnds ==
    /\ graph = "model"
    /\ graph' = IF asked[last] = {} THEN "ended" ELSE "tools"
    /\ UNCHANGED <<last, said, asked, result>>

ToolReturns(c) ==
    /\ graph = "tools" /\ c \in asked[last] \ result
    /\ result' = result \cup {c}
    /\ UNCHANGED <<graph, last, said, asked>>

NextMessage ==
    /\ graph = "tools" /\ asked[last] \subseteq result
    /\ graph' = "model" /\ last' = last + 1
    /\ UNCHANGED <<said, asked, result>>

(* The run stops at an interrupt: the calls wait for an approval.                      *)
Pause ==
    /\ graph = "tools" /\ asked[last] \cap result = {}
    /\ graph' = "ended"
    /\ UNCHANGED <<last, said, asked, result>>

GraphFails ==
    /\ "graph" \in Faults
    /\ graph \in {"model", "tools"}
    /\ graph' = "failed"
    /\ UNCHANGED <<last, said, asked, result>>

Complete(m) == m < last \/ graph \in {"tools", "ended"}
Broken(m) == m = last /\ graph = "failed"

RunStep ==
    /\ \/ Say \/ (\E c \in Call : Ask(c) \/ ToolReturns(c)) \/ MessageEnds
       \/ NextMessage \/ Pause \/ GraphFails
    /\ UNCHANGED <<messages, message, values, seen, driver, consumer, queue>>

-----------------------------------------------------------------------------
(* The message pump.                                                                   *)

(* f with n more at x, as far as it is put before the end of the stream.               *)
Count(f, x, n) == IF closed THEN f ELSE [f EXCEPT ![x] = @ + n]

AnnounceAll(cs) ==
    announced' = IF closed THEN announced
                 ELSE [c \in Call |-> announced[c] + IF c \in cs THEN 1 ELSE 0]

Commit == commits' = Count(commits, cur, parts) /\ parts' = 0

(* Mutant: _parts is shared by the messages of a turn.                                 *)
TakeMessageKeep ==
    /\ messages = "waiting" /\ cur < last
    /\ messages' = "reading" /\ cur' = cur + 1
    /\ textOpen' = TRUE /\ callsOpen' = TRUE
    /\ heard' = 0 /\ parts' = parts /\ committed' = FALSE
    /\ pending' = {} /\ emitted' = {}
    /\ UNCHANGED <<text, announced>>

TakeMessage ==
    /\ messages = "waiting" /\ cur < last
    /\ messages' = "reading" /\ cur' = cur + 1
    /\ textOpen' = TRUE /\ callsOpen' = TRUE
    /\ heard' = 0 /\ parts' = 0 /\ committed' = FALSE
    /\ pending' = {} /\ emitted' = {}
    /\ UNCHANGED <<text, announced>>

PumpText ==
    /\ messages = "reading" /\ textOpen /\ heard < said[cur]
    /\ heard' = heard + 1 /\ parts' = parts + 1
    /\ deltas' = Count(deltas, cur, 1)
    /\ UNCHANGED <<messages, cur, textOpen, callsOpen, committed, pending, emitted,
                   commits, answer, announced>>

(* The text ends with its message, or raises with it, which gather only collects.      *)
TextEnds ==
    /\ messages = "reading" /\ textOpen
    /\ (heard = said[cur] /\ Complete(cur)) \/ Broken(cur)
    /\ textOpen' = FALSE
    /\ UNCHANGED <<text, announced, messages, cur, callsOpen, heard, parts,
                   committed, pending, emitted>>

(* What an update says of the arguments: not readable yet, readable and empty, or      *)
(* readable with something in them.                                                    *)
ArgsRead == {"partial", "none", "full"}

(* One update of a call. The first of a message commits the text before it; one        *)
(* with arguments that parse and are not empty announces the call.                     *)
PumpCall(c, args) ==
    LET announce == args = "full" /\ c \notin emitted IN
    /\ messages = "reading" /\ callsOpen /\ c \in asked[cur]
    /\ args = "full" => c \notin NoInput
    /\ IF committed THEN UNCHANGED <<commits, parts>> ELSE Commit
    /\ committed' = TRUE
    /\ pending' = IF args = "partial" THEN pending ELSE pending \cup {c}
    /\ emitted' = IF announce THEN emitted \cup {c} ELSE emitted
    /\ AnnounceAll(IF announce THEN {c} ELSE {})
    /\ UNCHANGED <<messages, cur, textOpen, callsOpen, heard, deltas, answer>>

Unannounced == pending \ emitted

(* The calls end: those that never had arguments are announced now. If the message     *)
(* breaks they are not.                                                                *)
CallsEnd ==
    /\ messages = "reading" /\ callsOpen
    /\ callsOpen' = FALSE
    /\ \/ /\ Complete(cur) /\ pending = asked[cur]
          /\ asked[cur] \ NoInput \subseteq emitted
          /\ AnnounceAll(Unannounced)
          /\ emitted' = pending
       \/ Broken(cur) /\ UNCHANGED <<announced, emitted>>
    /\ UNCHANGED <<messages, cur, textOpen, heard, parts, committed, pending, text>>

(* Mutant: the answer does not wait for the text.                                      *)
ReadThroughCalls == ~callsOpen

ReadThrough == ~textOpen /\ ~callsOpen

MessageDone ==
    /\ messages = "reading" /\ ReadThrough
    /\ messages' = "waiting"
    /\ IF committed
       THEN UNCHANGED <<commits, answer, parts>>
       ELSE Commit /\ answer' = Count(answer, cur, parts)
    /\ UNCHANGED <<cur, textOpen, callsOpen, heard, committed, pending, emitted,
                   deltas, announced>>

MessagesEnd ==
    /\ messages = "waiting" /\ cur = last
    /\ graph \in {"ended", "failed"}
    /\ messages' = graph
    /\ UNCHANGED <<message, text, announced>>

PumpStep ==
    /\ \/ TakeMessage \/ PumpText \/ TextEnds \/ CallsEnd \/ MessageDone \/ MessagesEnd
       \/ \E c \in Call, args \in ArgsRead : PumpCall(c, args)
    /\ UNCHANGED <<run, values, seen, driver, consumer, closed, shown>>

-----------------------------------------------------------------------------
(* pump_values: a result that was not shown yet, of this turn or of an earlier one.    *)

PumpResult(r) ==
    /\ values = "reading"
    /\ r \in (Old \cup result) \ seen
    /\ seen' = seen \cup {r}
    /\ shown' = Count(shown, r, 1)
    /\ UNCHANGED values

ValuesEnd ==
    /\ values = "reading"
    /\ \/ graph = "ended" /\ Old \cup result = seen /\ values' = "ended"
       \/ graph = "failed" /\ values' = "failed"
       \/ "values" \in Faults /\ values' = "failed"
    /\ UNCHANGED <<seen, shown>>

ValuesStep ==
    /\ ValuesEnd \/ \E r \in Call \cup Old : PumpResult(r)
    /\ UNCHANGED <<run, messages, message, driver, consumer, closed, text, announced>>

-----------------------------------------------------------------------------
(* The driver and the generator.                                                       *)

(* Mutant: the end of the stream is put after the gather, not in a finally.            *)
DriverEndsUnlessFailed ==
    /\ driver = "running"
    /\ \/ messages = "ended" /\ values = "ended" /\ driver' = "ended"
       \/ "failed" \in {messages, values} /\ driver' = "failed"
    /\ closed' = ("failed" \notin {messages, values})
    /\ UNCHANGED <<run, messages, message, values, seen, consumer, text, announced,
                   shown>>

(* Mutant: the first pump that ends ends the stream.                                   *)
DriverEndsFirst ==
    /\ driver = "running"
    /\ \/ "ended" \in {messages, values} /\ driver' = "ended"
       \/ "failed" \in {messages, values} /\ driver' = "failed"
    /\ closed' = TRUE
    /\ UNCHANGED <<run, messages, message, values, seen, consumer, text, announced,
                   shown>>

(* gather returns when both pumps have, or raises with the first that does; the        *)
(* other is then left running.                                                         *)
DriverEnds ==
    /\ driver = "running"
    /\ \/ messages = "ended" /\ values = "ended" /\ driver' = "ended"
       \/ "failed" \in {messages, values} /\ driver' = "failed"
    /\ closed' = TRUE
    /\ UNCHANGED <<run, messages, message, values, seen, consumer, text, announced,
                   shown>>

Abandoned(p) == IF p \in {"waiting", "reading"} THEN "cancelled" ELSE p

DriverCancelled ==
    /\ driver = "cancelling"
    /\ driver' = "cancelled"
    /\ messages' = Abandoned(messages) /\ values' = Abandoned(values)
    /\ closed' = TRUE
    /\ UNCHANGED <<run, message, seen, consumer, text, announced, shown>>

(* The turn has taken every event up to the sentinel; the driver's error, if any, is   *)
(* raised.                                                                             *)
StreamOver ==
    /\ consumer = "reading" /\ closed
    /\ consumer' = driver
    /\ UNCHANGED <<run, messages, message, values, seen, driver, queue>>

Cancel ==
    /\ "cancel" \in Faults
    /\ consumer = "reading"
    /\ consumer' = "cancelled"
    /\ driver' = IF driver = "running" THEN "cancelling" ELSE driver
    /\ UNCHANGED <<run, messages, message, values, seen, queue>>

Stopped(p) == p \in {"ended", "failed", "cancelled"}

(* The turn has what it gets, and the pumps are gone.                                  *)
Over ==
    /\ consumer # "reading"
    /\ Stopped(messages) /\ Stopped(values) /\ graph \in {"ended", "failed"}
    /\ UNCHANGED vars

Next ==
    \/ RunStep \/ PumpStep \/ ValuesStep
    \/ DriverEnds \/ DriverCancelled \/ StreamOver \/ Cancel \/ Over

Spec == Init /\ [][Next]_vars

(* The run goes on to its end, and the event loop schedules every coroutine that can   *)
(* go on. Faults are under no fairness of their own.                                   *)
Fairness ==
    /\ WF_vars(RunStep) /\ WF_vars(PumpStep) /\ WF_vars(ValuesStep)
    /\ WF_vars(DriverEnds) /\ WF_vars(DriverCancelled) /\ WF_vars(StreamOver)

FairSpec == Spec /\ Fairness

-----------------------------------------------------------------------------
(* Each tool call is announced at most once, however often its arguments are           *)
(* updated; each result is shown at most once, however many snapshots hold it; and     *)
(* what is committed of a message has been streamed before and was not committed before. *)
AtMostOnce ==
    /\ \A c \in Call : announced[c] <= 1
    /\ \A r \in Call \cup Old : shown[r] <= 1
    /\ \A m \in Message : commits[m] <= deltas[m]

(* A stream that ends well has handed the turn every chunk of text, the announcement   *)
(* of every call and every result, whichever pump finished last.                       *)
NothingLost ==
    consumer = "ended" =>
        /\ deltas = said
        /\ \A m \in Message : \A c \in asked[m] : announced[c] = 1
        /\ \A r \in result : shown[r] = 1

(* The text committed as the answer is the whole text of a message that calls no tool; *)
(* only a run that fails in mid-message has part of it committed as one.               *)
AnswerWhole ==
    \A m \in Message :
        answer[m] > 0 => Broken(m) \/ (asked[m] = {} /\ answer[m] = said[m])

(* When the turn has stopped reading, by its end, an error or a cancellation, the      *)
(* pumps have ended or are being cancelled; only the pump whose partner failed goes    *)
(* on by itself.                                                                       *)
PumpsEnd ==
    consumer # "reading" =>
        /\ driver # "running"
        /\ \/ driver = "cancelling"
           \/ Stopped(messages) /\ Stopped(values)
           \/ "failed" \in {messages, values}

(* Every stream ends, whichever pump fails, and leaves no pump behind.                 *)
StreamEnds == <>(consumer # "reading") /\ []PumpsEnd
-----------------------------------------------------------------------------
\* The client is told what was put once before the end of the stream.
Told == INSTANCE Transcript WITH
    Earlier   <- Old,
    ended     <- {m \in Message : m <= last /\ Complete(m)},
    broken    <- {m \in Message : Broken(m)},
    streamed  <- deltas,
    settled   <- commits,
    answers   <- {m \in Message : answer[m] > 0},
    announced <- {c \in Call : announced[c] = 1},
    shown     <- {r \in Call \cup Old : shown[r] = 1},
    over      <- IF ~closed THEN "open" ELSE IF driver = "ended" THEN "whole" ELSE "cut"

(* Two pumps, the coroutines of a message and a driver that may fail or be cancelled      *)
(* keep the order and the completeness that Transcript promises the client.             *)
ImplementsTranscript == Told!Spec
=============================================================================
