# A verification project for ai-agent-template

The program under `src/app/ai_agent_template` is a chat server: clients connect by
WebSocket, an LLM agent built on LangGraph answers them, calls tools over MCP, asks a
human before it changes anything, and may run Python in a remote sandbox. This directory
holds TLA+ models of the parts of it that have state worth arguing about, TLC
configurations that check them on small instances, and TLAPS proofs of the results that
hold for every size.

Paths in this file are relative to `src/app/ai_agent_template/` unless they begin with
`src/`.

## 1. Inventory

The server is one asyncio event loop. Coroutines interleave at every `await`, and the
orchestration scripts add threads that call back into the loop. All the state below is in
the memory of one process, except the checkpoints, which may live in AgentCore.

| Component | Source | State | Operations |
|---|---|---|---|
| WebSocket handler | `websocket.py` | the nonlocal `runtime`, `_turn_task` | `init`, `turn`, `hitl_decisions`, `clear`, disconnect; the tasks `_run_turn` and `_resume_turn` |
| Session cache | `session.py` | `_session_cache`, `last_active`, one `asyncio.Lock` per session | resolve, create, evict, touch, drop, `destroy_all_sessions` |
| Agent gateway | `agent/ai_gateway.py` | `_graph_runtime`, `_mcp`, the summary of the turn | `ensure_graph`, `run_turn`, `resume_turn`, `destroy` |
| Approval policy | `agent/middleware/hitl_policy.py` | none (the interrupt lives in the checkpoint) | which tools need an approval, which decisions are allowed |
| MCP client | `mcp/client.py` | `_read_cache`, the connection | connect, `call_tool` (cache, invalidation, retry), `clear_turn_cache`, disconnect |
| Resilient persistence | `agent/resilient_persistence.py` | `_degraded`, the in-memory fallback | the async and sync operations of a checkpointer and of a store |
| Graph builder | `agent/graph_builder.py` | the process-wide queue of degradation notices, written by threads too | build, `_on_persistence_degraded`, `drain_degradation_warnings` |
| Orchestration | `agent/orchestration/` | the call budget, the script's thread | run a script, bridge a call to the loop, time out |
| Code execution | `analysis/code_exec_tool.py`, `code_execution_service.py`, `sandbox.py`, `agentcore_code_client.py` | the remote session | start, execute, download, stop, report |
| Analysis files | `analysis/file_manager.py`, `chart_extraction.py`, `routes.py` | the registry of files, the files on disk | register, look up, clean up, reload after a restart |
| Wire event stream | `agent/wire.py` | a queue fed by two pumps, the text buffer of a message | text, tool calls and results turned into client events |
| Lifecycle and context middleware | `agent/middleware/`, `agent/memory.py` | `memory_context` in the checkpoint, the long-term store | recall before the agent, add the turn context to a model call, trim and retry after a context overflow, summarise after the agent |
| Input guardrail | `agent/middleware/input_guardrail.py`, `guardrail_fallback.py` | none | allow, redact or block a message; fails open |
| Knowledge base | `knowledge_base/kb_client.py` | none of its own; reports to the process-wide notices from a thread | retrieve, retry once, degrade, format the results |
| Configuration and entry points | `config.py`, `main.py` | `AppConfig`, the application's lifespan | load or refuse, start up, shut down |
| Model and prompts | `agent/model.py`, `agent/system_prompt.py` | none | the provider's model, its cache control |
| Observability | `observability/` | the tracer, the meter, `_enabled` | set-up that may fail halfway |

How they interact:

- The handler owns a `runtime` taken from the session cache. Several handlers (tabs) of one
  user may hold the same runtime, and a runtime that was evicted stays in use by its
  handlers.
- A task created by the handler takes the lock of a runtime, then drives a gateway. The
  gateway builds its graph (which opens an MCP client) on demand, streams the graph, and the
  task touches the session when the stream ends.
- The graph's tools go through the gateway's MCP client. The script of an orchestration calls
  the same tools from a thread, one at a time, and possibly after the turn that started it
  gave up.
- Scripts, the blocking AWS calls of code execution and a few others share the default
  thread pool of the event loop: what one of them does not give back, the others miss.
- A tool that needs an approval ends the turn. The pending request stays in the checkpoint,
  and a later `hitl_decisions` message starts a task that resumes it.
- The graph reads and writes its checkpoints through the resilient wrappers. A degradation
  puts a notice in a process-wide queue, which the next turn of any conversation drains. The
  knowledge base and the long-term store report to the same queue, from threads.
- A message passes the guardrail before the graph sees it. Inside the graph, memory is
  recalled before the first model call, and the question and the answer of the turn are
  written to it by a thread after the last.
- `run_python` registers the files it downloads; the route of `routes.py` serves them, also
  in a later process, from the directory that both share.

What is hard, and what has to hold:

| Component | Hard behaviour | What makes it correct |
|---|---|---|
| Handler, cache, gateway | a task reads the handler's `runtime` again after waiting for a lock; the eviction awaits between counting and inserting; a disconnect cancels one task of several | one turn at a time per conversation; locks are never left held; the cap; a dropped session stays dropped; a gateway's MCP client outlives the turn that uses it and is not lost; every accepted turn ends |
| Approval | decisions do not name the request they answer; runs are cut between a tool's effect and its checkpoint; sessions are lost between a request and its answer | only what a human approved is carried out, a bounded number of times, and it is dealt with in the end |
| MCP client | a read under way while a mutation clears the cache; attempts given up that still take effect; calls that outlive their turn | a read shows every mutation reported before it; no read is older than its turn; a mutation takes effect at most once per attempt |
| Persistence | two operations in flight when the credentials expire; one notice for a whole process | no credential error reaches the graph; nothing written to the fallback is lost; a client is told, once |
| Orchestration | a thread cannot be cancelled: the script survives its timeout and the tools it waits for may never answer | the thread comes back; a script that was given up before it began never begins |
| Code execution | cancellation in the middle of a start; a timeout whose thread goes on; a failing stop; a pool without free threads | no session is left open except by what the code cannot see; every call returns; files are reported exactly for what succeeded |
| Analysis files | registry in memory, files on disk, a new process on an old directory | a link that was given out serves the whole file or has a documented reason not to; one that is gone stays gone |
| Guardrail, memory, context | layers that fail in any combination; `memory_context` outlives its turn; runs that pause, fail or are cut between nodes; a trim that has to keep pairs of messages together | what was refused is nowhere, what is unredacted has a known cause; a turn's context and summary are its own; a trim keeps the question and its pairs |
| Notices from threads | check, add and append by several threads beside a drain on the loop, without a lock | one notice per feature; a notice that was queued reaches a client |
| Start-up | settings that contradict each other, parsers with silent defaults, a set-up that fails halfway | no AWS service is asked without a region |
| Wire stream | two pumps race into one queue, two coroutines into one buffer; one pump fails | nothing lost, repeated or committed twice; an answer is whole; the stream ends and its pumps with it |

`PROJECT.json` lists each hazard at its line, with the properties that cover it, or the
reason why none does yet.

## 2. Modules

| Module | What it is |
|---|---|
| `Sessions` | handlers, session cache, locks, tasks and the life of gateways and MCP clients |
| `McpClient` | one MCP client: read cache, invalidation, retries |
| `ResilientPersistence` | the wrappers around AgentCore, their fallback, the degradation notice |
| `Approvals` | abstract specification: the fate of an action that needs a human |
| `Conversations` | abstract specification: whom a conversation is opened for, its turns, and what a message can drop for good; `Sessions` implements it |
| `Hitl` | one conversation under approval, from message to tool effect; implements `Approvals` |
| `ToolThreads` | `run_python` and `run_orchestration` on the thread pool they share |
| `WireStream` | the event stream of one turn; implements `Transcript` |
| `Transcript` | abstract specification: what a client is told of a turn |
| `TurnMiddleware` | a message between the client and the model: guardrail, memory, trim and retry |
| `FileRegistry` | the files for download, in memory and on disk |
| `Knowledge` | retrieval and the degradation notices, as threads see them |
| `Startup` | from the environment to a graph |
| `Server` | `FileRegistry`, `Knowledge` and `Startup` in one process after another |
| `MCSessions`, `MCMcpClient`, `MCResilientPersistence`, `MCHitl`, `MCToolThreads`, `MCWireStream`, `MCTurnMiddleware`, `MCServer` | small instances for TLC |
| `SessionsProofs`, `McpProofs`, `PersistProofs`, `HitlProofs`, `ToolProofs`, `WireProofs`, `TurnProofs`, `ServerProofs` | theorems and proofs |

`Hitl` takes from `Sessions` the queue of tasks on a session's lock and abstracts the rest
of the handler. `McpClient`, `ResilientPersistence`, `ToolThreads`, `WireStream` and
`TurnMiddleware` are what a running turn of either uses; what one of them assumes about
another is said below. `Server` is what outlives conversations. Each
action is what one coroutine or thread does between two suspension points.

Some definitions are preceded by a variant with the same parameters and a comment that
begins with "Mutant". It is the definition with a plausible mistake in it, and
`PROJECT.json` says which property that mistake must break.

### Sessions

`Conn` is one run of `handle_websocket`, `Session` one `SessionRuntime` with its gateway,
`Task` one `_run_turn` or `_resume_turn` task. `holder` and `waiters` are the `asyncio.Lock`
of each session, a FIFO whose next owner is chosen at release. The handler's suspension
points are `pc` = `"clearing"` (in `clear`, awaiting `destroy()`) and `"evicting"` (in
`init` or `clear`, awaiting the eviction's `destroy()`). The task's are the members of
`InTurn`: the guardrail, the MCP connect, the listing of tools, the finished graph, the
stream, and the end of a turn that was blocked or failed.

The point that a test hardly reaches is kept: `StartTask` enters the lock of the runtime
that is current when the task first runs (`lockOf`), and the gateway is read again when
the lock has been granted (`gw`). The two differ when the handler has switched sessions in
between. `SwitchMidTurn` says whether clients do that. With `FALSE` the model is of clients
that send `init` or `clear` only when no turn of theirs is under way, which the server
does not enforce.

`Conversations` has no handlers, locks, caches or clients: a conversation is some user's or
nobody's, and each turn is asked for, begun at most once and over for good. The refinement
takes the cache for the live conversations, every other session that was created for a past one, and
the running tasks of a gateway for the turns of its conversation. An eviction with the creation
behind it is two steps of the abstract specification (`Drop`, then `Open`), since a handler awaits the
`destroy()` in between. That a conversation can be nobody's is the code's: `clear` before
`init` creates a session without a user. So is `Come`: whoever sends the id of a cached session
is attached to it, whoever's it is. `_resolve_session` compares no user (`session.py:107`; the
`user_id` it is given goes into a log line), and `websocket.py:184` adds no check. A session id
is therefore enough to resume, drive and clear the conversation of another user, and
`Conversations` does not promise otherwise.

What it does promise about dropping follows the code too: a message takes away the conversation
its client is in and, when it opens a new one, conversations of the user that one is for, which
is the client's own or that of the conversation it clears.

An MCP client is named by the task that opened it. `destroy()` disconnects the client that it
saw when it began (`closing`), then sets `_mcp` to `None` whatever it holds by then, and only
logs a disconnect that fails (`ai_gateway.py:92`): `CloseClient` closes that client or leaves it
open, and forgets the current one either way. `BuildFails` closes the client of the build, in
the task that opened it; a cancellation passes `except Exception` and leaves it open (`cut`).

### McpClient

The server's data is a version that every applied mutation increases, and a read answers
the version it was served at. A cached entry is the version it shows. Attempts that were
given up stay in `late` and may still take effect. Calls may overlap (the tool node issues
several at a time) and may go on after their turn (a script whose orchestration timed out).
Two history variables remember whether that has happened: `overlapped` and `outlived`. A
property that holds only without it is conditional on them, so that one specification
covers both.

### ResilientPersistence

One wrapper per conversation, one operation shape for `aget_tuple`, `aput`, `aput_writes`
and the store's `abatch`: sent to AgentCore, then answered, failed with a credential error
and either taken over by the memory fallback or raised, or failed otherwise. A store is the
number of the latest checkpoint it holds. `overlapped` is the set of wrappers of which two
operations have been in flight together.

The notice queue is shared by all wrappers. `turn` is where the turn of each conversation is, as
far as the notice goes: `run_turn` drains before and after it streams, a resumed turn never, and
both end with a summary that reads the checkpoint and may degrade the wrapper itself. What was
drained is with the turn (`"telling"`, `"retelling"`) until it is sent. A turn that is cut or
fails there, or whose `send` fails, which the handler swallows (`websocket.py:91`), has lost it:
`lost` keeps that apart from `told`. A turn that fails while it streams has no second drain.

### Approvals and Hitl

`Approvals` is the promise: each action of a request is asked, then approved or declined,
once and together with the whole request, and only an approved action runs. `Hitl` is the
code: the queue of tasks on the session's lock; a checkpoint that is at rest, asking, or in
its tools with the set of actions that still go ahead; decisions that fit the pending
request or make the policy raise. `Gate == INSTANCE Approvals WITH fate <- ...` maps a
state of the conversation to the fates of its actions, and `ImplementsGate` is
`Approvals!Spec` under that mapping.

`Careful` clients wait for each message to be dealt with and answer the request they see
once, or dismiss it by a new message. `Faults` are lost connections and failing graphs
(`"cut"`), eviction of the session and a restart of the server.

### ToolThreads

A job is `<<who, what>>`: an operation of a `run_python` call, or the script of a
`run_orchestration`. `queued` and `running` are the thread pool. `phase` is what the call's
coroutine awaits; it is at `"exec"` with the job still queued, or running, or, after a
timeout or a cancellation, at `"stop"` while the thread of its `"exec"` goes on. That is the
point of the model: cancelling a coroutine takes back a queued job and only drops the answer
of one that a thread has begun. `session` is the truth at the service, which the program
does not see. `Started` after a cancellation opens a session nobody will stop; `StartFails`
may have opened one as well.

For a script, `blocked` is its thread in `fut.result`, and `inFlight` the tool coroutines it
has started on the loop. `CallTimesOut` lets the thread go on and leaves the coroutine
behind, so one script may have several of them although its calls are sequential. Whether a
tool ever answers is left open. `GiveUp` is the timeout of `run_sandboxed` and the
cancellation of the turn: both take back a queued script only. `Endless` scripts loop for
ever without a call, which the restricted language permits.

`RunReports` is what `run_python` does after `run` has returned, without an `await` in
between: registering the files one by one, where the first that fails makes the report an
error and leaves the earlier ones registered.

### WireStream

The graph's run is the environment: text chunks and tool calls of a message, results in the
state, the next message, the end, an interrupt or a failure. Its two projections may be read
at any delay and in any order relative to each other. `TakeMessage`, `PumpText`, `TextEnds`,
`PumpCall`, `CallsEnd`, `MessageDone` are `_MessagePump.run`; `PumpResult` and `ValuesEnd` are
`pump_values`; `DriverEnds`, `DriverCancelled`, `StreamOver` and `Cancel` are the driver and
the generator. An update of a call is `"partial"` (does not parse), `"none"` (parses, empty)
or `"full"`.

The queue is an unbounded FIFO with one reader that takes until the sentinel. What the turn
gets is what was put before the sentinel, so the model keeps how often each thing was put
(`deltas`, `commits`, `announced`, `shown`) and stops counting at `closed`.

`Transcript` says what that amounts to for the client: messages in their order and none before
the earlier ones are told, a commit only of the text streamed so far, an answer only of a whole
message (or of the one in which the run broke), and an end that is `"whole"` or `"cut"`. Pumps,
coroutines, buffers and the driver are hidden.

### TurnMiddleware

One conversation, whose turns follow each other. `task` is what the task on the lock does:
`"guard"` (`apply_input_guardrail`), `"input"` (before the graph is given its input), then
the graph's nodes `"recall"` (`EntryMiddleware`), `"model"` and `"calling"` (the model node
before and during a call, with the middleware around it), `"tools"`, and `"save"` with
`"saving"` (`MemoryWriteMiddleware` before and while its thread runs). `pending` is the
checkpoint's next node. A run that is cut or fails leaves it, and `Resume` goes on there.

`Guarded(down)` runs with any set of layers down, so each layer's own way of failing open is
covered, in every combination. A message is who said it, in which turn, its two sizes, and
whether it is `raw` (holds something that redaction would have removed). Only questions pass the
guardrail: what tools answer, and what a user writes into a decision (`ai_gateway.py:282`), comes
in as it is, by `ToolsAnswer`, and the model may repeat in an answer or a request whatever its
prompt holds.

`size` is what the trim counts (`token_counter="approximate"`), `real` what the provider does, and
nothing relates the two. `Trim` is `_emergency_trim`: the messages alone, by `size`, within `Budget`.
`TooLarge` is the provider's refusal: `Overhead` for system prompt and tools, plus the `real` size
of the messages, against `Window`. A retry can therefore be refused as well, and then ends the
run. An error that mentions 413 is taken for an overflow too (`mistaken`). `RunFails` covers every
error that ends a run.

`dropped`, `unredacted`, `unchecked` and `blocked` remember turns to which something happened that
excuses them from a property. `saving` outlives its turn: cancelling `Save` does not cancel the
thread.

`Hitl` abstracts the resume of a run that was cut in its model step; here it is a step.

### FileRegistry, Knowledge, Startup and Server

`FileRegistry` keeps the content of each entry in memory and on disk, as `"none"`, `"empty"`,
`"part"` or `"whole"`. `Register` may leave a part of a file on disk without an entry, which
the next process then loads as one. `Sweep` is `cleanup_old_files` with any choice of what is
old and of what cannot be deleted. Only tests call it. Its specification `FilesSpec` stands
by itself, and `Server` is proved to implement it.

`Knowledge` splits `_on_persistence_degraded` where a thread may be preempted (`Check`, `Add`,
`AppendNotice`), and `drain_degradation_warnings` likewise (`DrainCopy`, `DrainClear`).
In `ResilientPersistence` the same functions run on the event loop alone and are one step. In both,
what a turn drained is lost if the turn is cut before it has handed it on; that a `send` fails is in
`ResilientPersistence` only.
`Format` is `_format_retrieve_results` on the sizes of the chunks. `raced` and `exposed`
remember the calls that met one of the two windows.

`Startup` goes from `env` through `load_config`, the lifespan and `build_graph`. A token is
what the parsers distinguish. `reached` says how far `setup_cloudwatch_logging` and
`setup_observability` come before they fail. `clients` are the AWS clients that were built, that
of CloudWatch's logs among them, which takes whatever region there is, also none
(`observability/cloudwatch_logging.py:53`).

`Server` composes the three: a process makes calls and registers files only with the tools
its settings gave it, and `Restart` ends it at any point. What a conversation does is
replaced by the calls it may make.

## 3. What TLC checks

Runs that pass:

| Run | Shows | Instance |
|---|---|---|
| `SessionsQuiet` | one turn at a time per conversation; the cap is overshot by less than the number of connections; a running turn of a cached session has its MCP client; a client open for a cached session is its gateway's, unless its build was cancelled; handlers and tasks implement `Conversations` | 2 connections of two users, 3 sessions, 2 tasks, cap 1, `SwitchMidTurn = FALSE`, up to the shutdown (`BeforeShutdown`) |
| `SessionsSwitch` | locks, queues and tasks agree even when clients switch sessions in mid-turn, and every accepted turn ends | 1 connection, 2 sessions, 2 tasks, cap 1, `SwitchMidTurn = TRUE` |
| `McpCalls` | a read shows every mutation reported before it, until calls overlap; no read is older than its turn, until a call outlives its turn; a mutation reported took effect, none more often than it was attempted | 3 calls, 1 key, 2 attempts, 2 turns, 1 change by another client |
| `PersistWrappers` | a credential error is raised only where operations overlapped; the fallback loses nothing; the notice reaches a client, unless the turn that drained it is cut or its send fails | 2 conversations with 2 and 1 operations, any number of turns, 1 expiry |
| `HitlCareful` | only approved actions run; the conversation implements the gate; without faults, what is approved is dealt with | 1 client, 2 requests of up to 2 actions, 2 faults of any kind, 4 messages |
| `HitlHasty` | an action takes effect once, plus once per cut run, whatever the client sends; an answer always finds something to resume | the same with a client that is not careful, and only cuts |
| `ToolThreads` | a session is left open only by a cancelled or unanswered start or stop; files follow the outcome; nothing begins that nobody waits for; every `run_python` returns; every script that ends gives its thread back | 1 call, 2 scripts of which one never ends, 2 threads, 2 files, budget 2, all faults |
| `WireStream` | the pumps implement `Transcript`; nothing is lost by a stream that ends well; an answer is whole; every stream ends, and its pumps with it | 2 messages of up to 2 chunks, 2 calls (one without arguments), 1 old result, all faults |
| `TurnMiddleware` | a refused message leaves no trace; unredacted text comes from a failed redaction, a tool or a decision; a turn's context and its summary are its own; a trimmed call keeps its question and its pairs; summaries are written in order; every turn ends, also when the retry overflows again | 2 turns, 1 resume, 1 cut, 2 model calls in a run, 3 configurations, 3 texts, 2 tool results, window 6, overhead 1, budget 4 |
| `Server` | a link serves its file or stays gone; a feature is reported once and the notice reaches a client, except in the two windows; an answer of the knowledge base keeps its limit; no AWS client but that of the logs is built without a region | 1 file, 2 retrievals and 1 call of the store, 7 environments, restarts at any point |

Runs that TLC refutes, each a disagreement between the code and what it says of itself
(`PROJECT.json`, "findings", quotes the line):

| Run | Disagreement |
|---|---|
| `SessionsTwoTurns` | `clear` or `init` while a turn waits for its lock: it runs the new session's gateway under the old session's lock, beside a turn of the new session |
| `HitlTwoTabs` | an approval meant for an abandoned request is applied to the request of another tab |

Where a documented guarantee fails, the project also states what the code does guarantee and
checks that: `TurnMutex` with clients that do not switch in mid-turn, `SequentialReads`
(until calls overlap), `ErrorsAbsorbed` for wrappers without overlap, `CapOvershoot` for
the cap, `NoStrayClient` for the sessions in the cache, `NoticeDelivered` for turns that are not
cut, `RawExplained` for redaction, `ApprovedOnly` with one tab, `LeaksExplained`
for the sessions of code execution, `OncePerFeature` and `NoticeKept` outside their windows.

No run repeats what is proved for every size and says little on a small one: each module's
type invariant, `StampsOwnSession` of `Sessions` (the runtime a task stamps at its end is the one
it ran), `OneNotice` of `ResilientPersistence`. Nor does one check `NoResurrection` of `Sessions`
and `AtMostOnce` of `WireStream`, which the refinements of `Conversations` and `Transcript` imply;
both are proved.

Other behaviour of the code that differs from what one may expect of it. Each can be read
off the models; none has a run of its own:

- Two concurrent creations for one user overshoot the cap (`CapOvershoot` says by how much).
- A session id is enough to resume, drive and clear another user's conversation
  (`session.py:107`).
- A `hitl_decisions` task replaces `_turn_task`; a disconnect then leaves the earlier turn
  running, although `websocket.py:280` says that it cancels any turn in flight. It still runs alone
  on its conversation, ends and releases its lock (`LockInv`, `EveryTurnEnds`).
- The eviction closes the MCP client of a session whose turn is streaming, and a turn of an
  evicted gateway may open a client again that the shutdown does not know. Three more ways lead to
  a client that nothing closes: a turn cancelled while its build lists the tools, a `destroy()`
  that overlaps a build, and a close that is refused.
- A read that outlived its turn fills the next turn's cache, and one that was under way while
  a mutation cleared the cache stores what it read before it (`mcp/client.py:243`,
  `mcp/client.py:247`): `SequentialReads` is what holds.
- The second of two overlapping operations that fail with expired credentials is raised into
  the turn (`agent/resilient_persistence.py:128`); the fallback starts empty, so the
  conversation is lost within the process; a degraded wrapper never goes back; the notice
  goes to the client of whichever turn drains it, and to nobody if that turn is cut or its send
  fails: the feature is not reported again.
- After a restart or an eviction the answer to a pending request finds no graph, although
  `websocket.py:21` says that a session id can "survive a server restart".
- A script goes on calling tools after its orchestration has timed out.
- `code_exec_tool.py:122` handles expired credentials, but `run` turns every error into an
  outcome, so that branch is reached only by an error of registering files. Files are kept
  "~1h" by line 21 and for ever by `routes.py:36`: nothing calls `cleanup_old_files`.
- A turn that is cancelled while `run_python` starts its session leaves that session open
  until the service ends it (`analysis/code_execution_service.py:71`), against "Leak-free by
  construction" (`analysis/code_exec_tool.py:14`); `LeaksExplained` names all such cases.
- "Fires only once per feature" (`agent/graph_builder.py:74`) has a window between two threads,
  and the drain one between its copy and its clear; notices are drained by a turn that runs
  and not by one that resumes or fails (`agent/ai_gateway.py:290`, `agent/ai_gateway.py:380`).
- The answer of the knowledge base may exceed `max_chars` by one character for each chunk after
  the first (`AnswerFits`). "Knowledge base is disabled" is said by a tool that asks again at
  the next call.
- After a restart, a file that was removed by something else once its entry was loaded is
  downloaded as an empty file and not as a 404. A part that a failed write left on disk is
  an entry of the next process.
- The error about a missing region calls bedrock "(the default)", while the default is openai
  (`config.py:353`). The region it requires is not required for CloudWatch's logs, whose client is
  built with an empty one (`main.py:44`). A tracer that was set up before the meter failed stays
  installed although observability is off (`observability/tracer.py:92`). Telemetry never stops a
  start-up.
- An anonymising intervention of the Bedrock guardrail blocks the message
  (`agent/middleware/input_guardrail.py:100`). The text of decisions and of tool
  results passes neither guardrail nor redaction (`RawExplained`), nor does the session title.
- A cancelled write of a summary may still arrive after a later turn's (`SavedInOrder` is what
  holds without cancellations).
- A trim drops the question when the tool results of its turn alone exceed the budget, and
  sends the turn context without it or nothing at all (`QuestionSeen`). What it keeps may still be
  too large, since it counts neither system prompt nor tools and only estimates the rest; the turn
  then ends with the provider's error.
- Text that follows the first tool call of its message is streamed but never committed
  (`wire.py:134`, `wire.py:177`); results of earlier turns are shown again in each turn,
  since `seen` starts empty; when `pump_values` fails `pump_messages` goes on until the run
  ends; a message that breaks has the part that was read committed as an answer.

### Bounds

- Two connections, or one connection with two or three tasks, are what the races of
  `Sessions` need: two creations that overlap, a task created while another holds or awaits
  the lock, a switch while a task waits. Cap 1 makes every second session evict; three
  sessions let an evicted one stay in use while the next is created. The two connections belong to
  two users, so that a step on another's conversation can be told; they meet in any conversation
  of either, and evict concurrently for the user of one that both are in. That run stops where a
  shutdown begins; `SessionsSwitch` goes through it, with turns that outlive their connection.
- One key and three calls give a read, a mutation and a second read, with two attempts so
  that one can be given up and still take effect. Two turns are the fewest in which a call
  outlives one.
- Two conversations share the notice, two operations of one overlap, and the third belongs
  to the other conversation. One expiry degrades each of them, since a wrapper degrades once.
- Two requests are the fewest in which a decision can meet a request it was not made for,
  two actions the fewest in which a decision can be mixed. Four messages are a turn, its
  answer, and both again. Two faults allow a second fault while the first is recovered.
- Two threads with a script that never ends leave one for the call and the other script to
  compete for; two files are the fewest of which one can fail after another succeeded; a
  budget of two is spent and then exceeded. Calls do not interact except through the pool,
  where the scripts stand for the others.
- Two messages are the fewest with a boundary, the last one being the answer; two calls give
  one announced at once and one at the flush. Two chunks are the fewest of which one can be
  read before a tool call and one not.
- In `TurnMiddleware` two turns are the fewest in which one can see another's context, memory or
  blocked message, one resume and one cut the fewest that leave a node pending and pick it up
  again, with every combination of failing layers of the guardrail. Two model calls allow one round
  of tools. Of the two results one has size 3, so that with its question and request it exceeds the budget of
  4, and holds an address; the other is counted as 1 by the trim
  and as 6 by the provider, so that it is kept and, with an overhead of 1, overflows the window of
  6 again.
- In `Server` two retrievals race for one notice while a call of another feature has its own.
  Files do not interact, so one is enough. With a limit of 9 and a mark of 2, one of the three
  lists given to `Format` repeats a source and ends where the mark has no room, one has sources
  that are unknown, cuts its last chunk at the mark and is over the limit by its two separators,
  one just fits. The seven
  environments are one for each way in which a setting matters: all on, each optional part
  missing, each way to have no region, OpenAI beside AWS settings, a number that is none.
- `clock` in `Sessions` grows only with the end of a task, so the number of tasks bounds it.
  `MaxTurns`, `MaxExternal`, `MaxExpiries`, `MaxFaults`, `MaxMessages`, `MaxFiles` and
  `MaxText` bound what the environment does. `MaxCalls` is the program's own `max_calls`;
  the count is followed to the first call that is refused.

Symmetry is used in `SessionsQuiet` and `McpCalls`, which check no liveness, over
connections with their users, sessions, tasks, calls and keys.

Every model names its quiescent states (`Stopped`, `Idle`, `Ended`, `AtRest`, `Over`, or an
empty queue of tasks) as stuttering steps, so that the deadlock check applies to everything
else. In `ToolThreads` a script that never ends leaves its thread running, which is a state
with a step (`ScriptEnds`) that fairness does not demand.

### Fairness

- `Sessions`: weak fairness of each task's next step and of a handler that awaits
  `destroy()`. The event loop runs every ready callback, connect and tool calls have
  timeouts, and `destroy()` swallows the errors of the disconnect. What clients send is
  under no fairness.
  This takes for granted that tools return. `run_python` waits for starts and stops without a
  timeout of its own, and `PoolServes` shows that it returns only as long as scripts that never
  end leave a thread free.
- `McpClient`: none, no liveness is checked.
- `ResilientPersistence`: weak fairness of the answers to operations and of a turn's next step
  (a send returns, the stream ends), and strong fairness of `BeginTurn`: in each conversation the
  user goes on sending messages, and not only decisions. Without that the notice may stay queued.
- `Hitl`: weak fairness of the task that holds the lock: the model answers, tools return or
  time out. People and faults are under none.
- `ToolThreads`: idle threads take queued jobs; boto3 answers or raises within its own
  timeouts; an execution is only sure to end once its session has; the session ends at its
  timeout; `wait_for` and `fut.result` give up in time. Tools called by a script, and
  `Endless` scripts, are under none. Which queued job a thread takes is open (a superset of
  the FIFO), and each job is taken in the end.
- `WireStream`: the run goes on to its end, and every coroutine that can go on does.
- `TurnMiddleware`: every await of a turn ends (the guardrail's call, the store, the model and
  the tools return, raise or time out), and so does a thread that writes a summary.
- `Server`: none, no liveness is checked. What has to arrive is stated as not being lost.

## 4. What is proved

TLAPS checks these for every value of the constants that the named assumptions allow.

**`SessionsProofs`.** `TypeCorrect` proves `TypeOK` with two strengthenings: what each
handler's `pc` says about `victim`, `newId` and `runtime`, and what each task's `status` says
about its `lockOf`, `gw` and `by`. `LocksCorrect` proves `LockInv` from that: a
task leaves `InTurn` only by the action that releases its lock, and the lock is only granted
when nobody holds it. `NoResurrectionHolds` rests on `NewInv`: an id
under creation is unborn and belongs to one handler. `CapOvershootHolds` counts a user's cached
sessions together with the handlers that evicted one and have yet to create theirs: `Fits` lists
the five ways in which a step may change the two sets, and only a creation that found room
raises the sum, with its own handler not among the waiting ones. It assumes finitely many
connections, since it counts them.

Three more hold under `SwitchMidTurn = FALSE`. `OneTurnPerConversation` proves `TurnMutex`: the
inductive fact is that a task of a handler that has an active task has `gw = lockOf = runtime`,
so that two running tasks on one gateway would hold one lock. `StampsOwnSessionHolds` is the
action property from the same invariant: the runtime a task stamps at its end is the one it
ran. `StreamHasClientHolds` and `NoStrayClientHolds` need `ClientInv`: a gateway's
client was opened by a task that ran on that gateway, so no two gateways share one; a cached
gateway with a graph has an open client; what a handler destroys has left the cache; and a cached
gateway without a graph has an open client only while a task lists its tools or after such a task
was cancelled (`StrayInv`), which is what keeps the next build from overwriting another.

`SessionsImplement`, under the same assumption, maps every step of a handler or task to a step of
`Conversations` or to none. Beside mutual exclusion, which makes `Begin` find nothing running, it
needs that a created task knows its handler (`AskedInv`) and that a handler that waits for a
`destroy()` is about to create a session for its client's user or for that of the conversation it
is in (`ForInv`): the user was chosen before the await, and what is evicted after it is that
user's. Without the assumption it is false, as `SessionsTwoTurns` shows.

**`McpProofs`.** `McpTypeCorrect`, `EffectsBoundedHolds` (applications and late attempts
together never exceed the attempts made), `SequentialReadsHold` and `TurnFreshnessHolds`.
The last two are conditional on a history variable, and so is their invariant:
`~overlapped => OneAtATime` (no cached version is older than the last reported mutation,
because nothing else is under way while the cache is cleared) and `~outlived => InTurn`
(everything cached or under way is at least as new as the turn). Each proof first shows that
the history variable never becomes false again, so that a step from a state where it is true
has nothing to show.

**`PersistProofs`.** `PersistTypeCorrect`; `OneNoticeHolds`, for overlapping operations of
any number of conversations and turns: at any time the notice is in the queue, or with one turn, or
with the client of one, or lost by one (`NoticeInv`); `ErrorsAbsorbedHolds`, whose strengthening `WholeInv` says that
in a conversation without overlap an operation under way finds the wrapper as it was when it
was sent, and that no error has been raised there. `LocalHistoryKeptHolds` uses `LocalInv`:
before the wrapper degrades nothing is put in memory and an operation needs nothing of it, and
what was put there stays.

**`HitlProofs`.** `HitlTypeCorrect`; `OnlyApprovedRuns` and `HitlImplementsGate` for one
careful client and any number of requests, messages and faults. The inductive invariant
says what a careful client's single outstanding message can be: at most one task is
queued and it belongs to the client or to nobody (`OneTask`); a request the client displays
is the pending one, unanswered (`ShownInv`); an answer under way belongs to the pending
request or finds nothing pending (`AnswersInv`); and whatever is in the tools' `go` set was
approved (`ToolsApproved`). `ApprovedOnly` follows. The refinement maps each step of `Hitl`
to `Ask` (the model asks), `Decide` (a `hitl_decisions` message is sent), `Run` (a first
effect) or to no change of any fate.

`RunsBoundedHolds` and `AnswersResumeHolds` need no careful client and no bound on their number.
A tool whose result is not recorded has taken effect at most once for each fault so far, and
once more by the run that is in its tools; a request that is still undecided not at all
(`PendingInv`). As long as only connections are lost, a gateway that has a graph keeps it, and
before it has one no request was shown and no answer is in the queue (`GraphInv`).

**`ToolProofs`.** `ToolTypeCorrect` needs `Counts`: a call at `"download"` has a file to
download, and a blocked script a coroutine on the loop, so neither count falls below zero.
`NoLateStartHolds` rests on `JobsInv`: no job is queued and running at once; a queued job is
one its coroutine waits for; an operation that runs is one its call has reached.
`LeaksExplainedHold` follows the session: `LeakInv` says that an open session left by a
finished call with no stop under way has its cause on record, and so has a start that still
runs for a call that has left it. `FilesFollowOutcomeHolds` needs that nothing is registered
before the report (`FilesInv`).

**`WireProofs`.** One inductive invariant, `WireInv`, in parts: where run and pumps are
(`RunInv`, `PumpInv`), which calls are announced and which results shown (`AnnouncedInv`,
`ShownInv`), that what was read of a message is what was streamed, held back or committed of it
(`TextInv`), and what the driver has still to take (`DriverInv`). From it follow `WireTypes`,
`WireAtMostOnce`, `WireNothingLost`, `WireAnswerWhole` and `WirePumpsEnd`, for any number of
messages, chunks, calls and results and every way in which a stream breaks.

`WireImplementsTranscript` adds no invariant: `EarlierTold` derives from `WireInv` that a message
is read only when the earlier ones have been told, `Committing` that the buffer is what was
streamed and not committed, and one lemma for each kind of step (`ToldRun`, `ToldPump`,
`ToldValues`, `ToldDriver`) names the abstract step it takes.

**`TurnProofs`.** `TurnInv` says of every message in checkpoint and prompt and of every summary
whose it is: there is a question while a run is under way or can be resumed (`HaveInv`), turn
numbers were given out and not refused (`NumberInv`), what is raw is explained (`RawInv`), which
the model may repeat because no message is of a later turn than the last question (`AgeInv`),
`memory_context` is that of the last question from its search to the end of the run
(`MemoryInv`), and a run that saves has answered its question (`PairInv`). It gives `TurnTypes`,
`TurnBlockedStaysOut`, `TurnRawExplained`, `TurnOwnMemory` and `TurnSummaryOwnTurn`. On top of it
`TurnSavedInOrder` needs that a turn's summary is not written before its run has ended
(`OrderInv`), and `TurnWellFormed` that the only open request is the last message while its tools
are pending (`PairedInv`); `AppendPaired` and `TrimPaired` say what a new message and a trim do to
the pairs. None of these depends on a size.

`TurnQuestionSeen` does. `TrimFits` shows that a trim fits the budget and has
every human message from which on everything would fit; `PromptInv` carries it through the call.
The size of a sequence is a recursive function; what is needed of it for every length is proved by the least length at which it would fail
(`Smallest`), since a set of numbers, unlike an operator, can be given to the well-foundedness of
the naturals.

**`ServerProofs`.** `ServerFiles` proves that `ServerSpec` implements `FilesSpec`, the registry by
itself, whatever the rest of the process does: the actions of other parts are stutters, and a
restart empties the registry and keeps the directory. `FilesInv` relates entries, parts on disk
and links handed out; `StartupInv` says that nothing is served while the process is down and that
settings which need a region have one, and no client but that of the logs was built without; `KnowledgeInv` says that two threads past the check of
one feature are on record as racing, and what a drain has copied of the queue. They give `ServerTypes`, `ServerLinksServed`,
`ServerLinksStayGone`, `ServerOncePerFeature`, `ServerNoticeKept` and `ServerRegionKnown`.
`ServerAnswerFits` follows the fold over the results of a retrieval: `TakeWithin` says that one more
result leaves the chunks and their separators within the limit, or ends them one character
above it, `StepsExist` that the fold exists for every sequence, and `FormatWithin` puts the two together along the
positions of the sequence.

The assumptions are those named `ConstantsAssumption`, `KnowledgeAssumption` and `EnvAssumption`
in the modules: sets of model values, natural numbers for the bounds, at least one attempt, a cap
of at least one. No result depends on a bound's value, and only `CapOvershootHolds` on a set
being finite.

What remains with TLC alone is out of the prover's reach. Liveness under fairness:
`EveryTurnEnds`, `NoticeDelivered`, `ApprovedSettled`, `PoolServes`, `StreamEnds` (that its pumps
end with it is proved) and `OneRetry`. Every
safety property and every refinement that a run checks is a theorem.

## 5. Plan

In this order; 11 is left.

1. `Sessions`: the turn, its lock and its session, because everything else runs inside it.
2. `McpClient`: what a turn's tools see.
3. `ResilientPersistence`: what a turn remembers.
4. `Approvals` and `Hitl`: what a turn may do.
5. `ToolThreads`: the tools that run code, and the pool they share.
6. `WireStream`: what the client is told.
7. `TurnMiddleware`: what happens to a message between the client and the model.
8. `FileRegistry`, `Knowledge`, `Startup`: what a process keeps outside its conversations.
9. `Server`: the three together, over restarts.
10. Proofs of every safety property that a run checks, and `Conversations` and `Transcript` with
    the refinements.
11. An abstract specification of `ToolThreads` (what a call of `run_python` leaves behind), with its
    refinement; the cache key of `mcp/client.py` (`_stable_str`) as an operator, against equality
    of arguments; listing in `ResilientPersistence`.

## 6. What is not modelled

- Text and layout: the session title, the wording of prompts, events and errors, logging, the
  names of spans and the counters of metrics, the token counts of the summary.
- The classification of tool names into read-only tools, mutations and `ask_user` is taken
  as given; read-only tools are left out of `Hitl` since they need no approval.
- The decision `edit`, which `src/ARCHITECTURE.md` mentions, is never among the decisions the
  policy allows, so no state of the program applies it.
- The cache key of `mcp/client.py` and the headers of its requests: a key is a model value.
- Listing in `ResilientPersistence`: the wrapper yields what its list yields and keeps nothing.
- The parameters of a model that have no effect on control: timeouts, temperature, the
  arguments of the inference profile. A number in the environment is well-formed or not.
- `TurnMiddleware` keeps its graph: what an eviction or a restart does to a conversation is in
  `Sessions` and `Hitl`.
- LangGraph and the AWS services: modelled as what the code relies on (a checkpoint per step,
  an interrupt consumed by a resume that fits, a new input that replaces what was pending).
- Threads of the pool other than those of the two code tools and of `save_turn`: they are like
  the calls of `run_python`, one blocking request each.
