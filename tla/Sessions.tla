------------------------------ MODULE Sessions ------------------------------
(* The session layer of the server: the WebSocket handler (websocket.py), the     *)
(* process-wide session cache (session.py) and what the two do to a session's     *)
(* gateway (agent/ai_gateway.py): building its graph, opening its MCP client and   *)
(* destroying both.                                                               *)
(*                                                                                *)
(* The server is one asyncio event loop. An action is what one coroutine does     *)
(* between two suspension points; handlers and turn tasks interleave between them. *)
(* A Conn is one run of handle_websocket (a reconnecting client gets another       *)
(* one), a Session one SessionRuntime with its gateway, a Task one _run_turn or    *)
(* _resume_turn task, which also names the MCP client it opens.                    *)
EXTENDS Integers, Sequences, FiniteSets

CONSTANTS Conn, Session, Task, User,
          UserOf,         \* the userId each client sends with init, if any
          Cap,            \* config.server.session_cap
          SwitchMidTurn,  \* may a client send init or clear during its own turn?
          None

ASSUME ConstantsAssumption ==
    /\ UserOf \in [Conn -> User \cup {None}]
    /\ Cap \in Nat \ {0}
    /\ SwitchMidTurn \in BOOLEAN
    /\ None \notin Conn \cup Session \cup Task \cup User

VARIABLES
    cache,       \* _session_cache: the sessions an init can resume
    owner,       \* user_id of each session
    born,        \* sessions created so far (a uuid is never reused)
    lastActive,  \* last_active of each session
    clock,       \* the wall clock behind _now_iso, advanced at each stamp
    mcp,         \* gateway._mcp: the client of the task that set it, or None
    graph,       \* gateway._graph_runtime is set
    open,        \* MCP clients whose connection is established
    holder,      \* the task that holds runtime.lock
    waiters,     \* the lock's FIFO of waiting tasks
    runtime,     \* the handler's nonlocal runtime
    turnTask,    \* the handler's _turn_task
    pc,          \* where the handler is suspended
    victim,      \* the session whose destroy() the handler awaits
    newId,       \* the session the handler is about to create
    newUser,     \* and the user it creates it for
    closing,     \* the client that the destroy() it awaits saw when it began
    cut,         \* history: tasks cancelled while they listed the tools
    status,      \* progress of each task
    kind,        \* "turn" or "resume"
    by,          \* the handler that created the task
    lockOf,      \* the session whose lock the task entered
    gw,          \* the session whose gateway the task runs
    phase,       \* server lifetime: "up", "stopping", "down"
    toDestroy    \* sessions destroy_all_sessions has still to visit

store    == <<cache, owner, born, lastActive, clock>>
gateways == <<mcp, graph, open>>
locks    == <<holder, waiters>>
handlers == <<runtime, turnTask, pc, victim, newId, newUser, closing, cut>>
tasks    == <<status, kind, by, lockOf, gw>>
server   == <<phase, toDestroy>>
vars     == <<store, gateways, locks, handlers, tasks, server>>

HandlerPc == {"ready", "clearing", "evicting", "closed"}
InTurn    == {"guard", "connect", "list", "ensured", "stream", "ending"}
Status    == {"unused", "created", "queued", "done"} \cup InTurn

TypeOK ==
    /\ cache \subseteq born /\ born \subseteq Session
    /\ owner \in [Session -> User \cup {None}]
    /\ lastActive \in [Session -> Nat] /\ clock \in Nat
    /\ mcp \in [Session -> Task \cup {None}]
    /\ graph \in [Session -> BOOLEAN]
    /\ open \subseteq Task
    /\ holder \in [Session -> Task \cup {None}]
    /\ waiters \in [Session -> Seq(Task)]
    /\ runtime \in [Conn -> Session \cup {None}]
    /\ turnTask \in [Conn -> Task \cup {None}]
    /\ pc \in [Conn -> HandlerPc]
    /\ victim \in [Conn -> Session \cup {None}]
    /\ newId \in [Conn -> Session \cup {None}]
    /\ newUser \in [Conn -> User \cup {None}]
    /\ closing \in [Conn -> Task \cup {None}]
    /\ cut \subseteq Task
    /\ status \in [Task -> Status]
    /\ kind \in [Task -> {"turn", "resume"}]
    /\ by \in [Task -> Conn \cup {None}]
    /\ lockOf \in [Task -> Session \cup {None}]
    /\ gw \in [Task -> Session \cup {None}]
    /\ phase \in {"up", "stopping", "down"}
    /\ toDestroy \subseteq Session

Init ==
    /\ cache = {} /\ born = {} /\ clock = 0
    /\ owner = [s \in Session |-> None]
    /\ lastActive = [s \in Session |-> 0]
    /\ mcp = [s \in Session |-> None]
    /\ graph = [s \in Session |-> FALSE]
    /\ open = {}
    /\ holder = [s \in Session |-> None]
    /\ waiters = [s \in Session |-> << >>]
    /\ runtime = [c \in Conn |-> None]
    /\ turnTask = [c \in Conn |-> None]
    /\ pc = [c \in Conn |-> "ready"]
    /\ victim = [c \in Conn |-> None]
    /\ newId = [c \in Conn |-> None]
    /\ newUser = [c \in Conn |-> None]
    /\ closing = [c \in Conn |-> None]
    /\ cut = {}
    /\ status = [t \in Task |-> "unused"]
    /\ kind = [t \in Task |-> "turn"]
    /\ by = [t \in Task |-> None]
    /\ lockOf = [t \in Task |-> None]
    /\ gw = [t \in Task |-> None]
    /\ phase = "up" /\ toDestroy = {}

-----------------------------------------------------------------------------
(* Tasks and locks *)

Active(t)  == status[t] \notin {"unused", "done"}
Running(t) == status[t] \in InTurn

Quiet(c)     == \A t \in Task : by[t] = c => ~Active(t)
MaySwitch(c) == SwitchMidTurn \/ Quiet(c)

\* The lock's waiters without t, which waits at most once.
Without(q, t) ==
    IF \E i \in 1..Len(q) : q[i] = t
    THEN LET at == CHOOSE i \in 1..Len(q) : q[i] = t
         IN  SubSeq(q, 1, at - 1) \o SubSeq(q, at + 1, Len(q))
    ELSE q

-----------------------------------------------------------------------------
(* Creating sessions: the end of _resolve_session and of the clear branch.       *)

\* Mutant: the sessions of all users are counted, and may be evicted, together.
SessionsOfAll(u, cached) == cached

SessionsOf(u, cached) == {s \in cached : owner[s] = u}

HasRoom(mine) == Cardinality(mine) < Cap

Fresh == Session \ (born \cup {newId[c] : c \in Conn})

\* The new SessionRuntime enters the cache and becomes the handler's runtime.
\* `cached` is the cache as the handler left it, `dead` the gateways it has just
\* destroyed without having to wait.
Install(c, u, id, cached, dead) ==
    /\ cache' = cached \cup {id}
    /\ born' = born \cup {id}
    /\ owner' = [owner EXCEPT ![id] = u]
    /\ clock' = clock + 1
    /\ lastActive' = [lastActive EXCEPT ![id] = clock + 1]
    /\ graph' = [s \in Session |-> graph[s] /\ s \notin dead]
    /\ runtime' = [runtime EXCEPT ![c] = id]
    /\ pc' = [pc EXCEPT ![c] = "ready"]
    /\ victim' = [victim EXCEPT ![c] = None]
    /\ newId' = [newId EXCEPT ![c] = None]
    /\ newUser' = [newUser EXCEPT ![c] = None]
    /\ closing' = [closing EXCEPT ![c] = None]
    /\ UNCHANGED <<turnTask, cut>>

\* The handler suspends in `await victim.gateway.destroy()`, which closes the client
\* that the gateway has now.
Await(c, where, s, u, id, cached, dead) ==
    /\ cache' = cached
    /\ graph' = [x \in Session |-> graph[x] /\ x \notin dead]
    /\ pc' = [pc EXCEPT ![c] = where]
    /\ victim' = [victim EXCEPT ![c] = s]
    /\ newId' = [newId EXCEPT ![c] = id]
    /\ newUser' = [newUser EXCEPT ![c] = u]
    /\ closing' = [closing EXCEPT ![c] = mcp[s]]
    /\ UNCHANGED <<born, owner, clock, lastActive, runtime, turnTask, cut>>

\* s is a least recently active session among mine.
Oldest(mine, s) == s \in mine /\ \A x \in mine : lastActive[s] <= lastActive[x]

\* Mutant: a session whose gateway is not open stays in the cache when it is evicted.
EvictUnopenedStays(c, u, id, cached, dead) ==
    LET mine == SessionsOf(u, cached)
    IN  \/ /\ HasRoom(mine)
           /\ Install(c, u, id, cached, dead)
        \/ /\ ~HasRoom(mine)
           /\ \E s \in mine :
                /\ Oldest(mine, s)
                /\ IF mcp[s] = None
                   THEN Install(c, u, id, cached, dead \cup {s})
                   ELSE Await(c, "evicting", s, u, id, cached \ {s}, dead)

\* _evict_lru_for_user and what follows it up to the next suspension: below the
\* cap the session is created at once; otherwise the user's oldest one leaves the
\* cache, and only an open gateway makes the handler wait.
EvictAndCreate(c, u, id, cached, dead) ==
    LET mine == SessionsOf(u, cached)
    IN  \/ /\ HasRoom(mine)
           /\ Install(c, u, id, cached, dead)
        \/ /\ ~HasRoom(mine)
           /\ \E s \in mine :
                /\ Oldest(mine, s)
                /\ IF mcp[s] = None
                   THEN Install(c, u, id, cached \ {s}, dead \cup {s})
                   ELSE Await(c, "evicting", s, u, id, cached \ {s}, dead)

\* gateway.destroy() of s after its await: the client it saw is closed, or stays open
\* (its contexts refuse to be left in a task that did not enter them, which is only
\* logged), and _mcp is forgotten, whatever it is by now.
CloseClient(s, client) ==
    /\ open' \in {open, open \ {client}}
    /\ mcp' = [mcp EXCEPT ![s] = None]

-----------------------------------------------------------------------------
(* Messages a handler receives. Messages it only answers with an error (a turn    *)
(* before init, a turn while the lock is held) change no state.                   *)

Ready(c) == phase = "up" /\ pc[c] = "ready"

\* init with the id of a cached session: the client attaches to it, whoever's it is.
InitResume(c, s) ==
    /\ Ready(c) /\ MaySwitch(c)
    /\ s \in cache
    /\ runtime' = [runtime EXCEPT ![c] = s]
    /\ UNCHANGED <<turnTask, pc, victim, newId, newUser, closing, cut>>
    /\ UNCHANGED <<store, gateways, locks, tasks, server>>

\* init without an id, or with the id of a session no longer cached.
InitNew(c) ==
    /\ Ready(c) /\ MaySwitch(c)
    /\ \E id \in Fresh : EvictAndCreate(c, UserOf[c], id, cache, {})
    /\ UNCHANGED <<mcp, open, locks, tasks, server>>

\* clear: the current session leaves the cache and its gateway is destroyed; a new
\* session for the same user (nobody, before init) takes its place.
Clear(c) ==
    /\ Ready(c) /\ MaySwitch(c)
    /\ \E id \in Fresh :
         LET s == runtime[c] IN
         IF s = None THEN EvictAndCreate(c, None, id, cache, {})
         ELSE IF mcp[s] = None
              THEN EvictAndCreate(c, owner[s], id, cache \ {s}, {s})
              ELSE Await(c, "clearing", s, owner[s], id, cache \ {s}, {})
    /\ UNCHANGED <<mcp, open, locks, tasks, server>>

\* destroy() of the cleared session returns; the handler goes on to evict.
Cleared(c) ==
    /\ pc[c] = "clearing"
    /\ CloseClient(victim[c], closing[c])
    /\ EvictAndCreate(c, newUser[c], newId[c], cache, {victim[c]})
    /\ UNCHANGED <<locks, tasks, server>>

\* destroy() of the evicted session returns; the handler creates the new one.
Evicted(c) ==
    /\ pc[c] = "evicting"
    /\ CloseClient(victim[c], closing[c])
    /\ Install(c, newUser[c], newId[c], cache, {victim[c]})
    /\ UNCHANGED <<locks, tasks, server>>

CreateTask(c, t, k) ==
    /\ status[t] = "unused"
    /\ status' = [status EXCEPT ![t] = "created"]
    /\ kind' = [kind EXCEPT ![t] = k]
    /\ by' = [by EXCEPT ![t] = c]
    /\ turnTask' = [turnTask EXCEPT ![c] = t]
    /\ UNCHANGED <<lockOf, gw, runtime, pc, victim, newId, newUser, closing, cut>>

\* turn: refused while the session's lock is held, otherwise a new task.
TurnMessage(c, t) ==
    /\ Ready(c) /\ runtime[c] # None
    /\ holder[runtime[c]] = None
    /\ CreateTask(c, t, "turn")
    /\ UNCHANGED <<store, gateways, locks, server>>

\* hitl_decisions: a new task, whatever is running.
DecisionsMessage(c, t) ==
    /\ Ready(c) /\ runtime[c] # None
    /\ CreateTask(c, t, "resume")
    /\ UNCHANGED <<store, gateways, locks, server>>

\* Mutant: the lock left is the current runtime's, not the one entered.
LeaveCurrent(t) ==
    /\ status' = [status EXCEPT ![t] = "done"]
    /\ holder' = [holder EXCEPT ![runtime[by[t]]] = None]
    /\ waiters' = [waiters EXCEPT ![runtime[by[t]]] = Without(@, t)]
    /\ UNCHANGED <<kind, by, lockOf, gw>>

\* The task leaves: out of the lock's queue, or releasing the lock it entered.
Leave(t) ==
    /\ status' = [status EXCEPT ![t] = "done"]
    /\ holder' = [s \in Session |-> IF holder[s] = t THEN None ELSE holder[s]]
    /\ waiters' = [s \in Session |-> Without(waiters[s], t)]
    /\ UNCHANGED <<kind, by, lockOf, gw>>

InFlight(c) == turnTask[c] # None /\ Active(turnTask[c])

\* The client goes away: the handler cancels its last task, keeps the session.
Disconnect(c) ==
    /\ Ready(c)
    /\ pc' = [pc EXCEPT ![c] = "closed"]
    /\ IF InFlight(c)
       THEN Leave(turnTask[c]) /\ cut' = cut \cup {t \in {turnTask[c]} : status[t] = "list"}
       ELSE UNCHANGED <<tasks, locks, cut>>
    /\ UNCHANGED <<runtime, turnTask, victim, newId, newUser, closing>>
    /\ UNCHANGED <<store, gateways, server>>

-----------------------------------------------------------------------------
(* A turn task. `runtime` is the handler's variable and is read again each time. *)

\* Inside the lock, the generator starts on the gateway of the CURRENT runtime:
\* run_turn first awaits the guardrail, resume_turn needs a graph to resume.
Enter(t) ==
    LET s == runtime[by[t]] IN
    /\ gw' = [gw EXCEPT ![t] = s]
    /\ status' = [status EXCEPT ![t] = IF kind[t] = "turn" THEN "guard"
                                       ELSE IF graph[s] THEN "stream"
                                       ELSE "ending"]

\* Mutant: a task takes the lock without looking at its holder.
StartTaskAnyway(t) ==
    LET s == runtime[by[t]] IN
    /\ status[t] = "created"
    /\ lockOf' = [lockOf EXCEPT ![t] = s]
    /\ holder' = [holder EXCEPT ![s] = t]
    /\ Enter(t)
    /\ UNCHANGED <<waiters, kind, by>>
    /\ UNCHANGED <<store, gateways, handlers, server>>

\* The task's first step: enter the lock of the current runtime or queue for it.
StartTask(t) ==
    LET s == runtime[by[t]] IN
    /\ status[t] = "created"
    /\ lockOf' = [lockOf EXCEPT ![t] = s]
    /\ IF holder[s] = None /\ waiters[s] = << >>
       THEN /\ holder' = [holder EXCEPT ![s] = t]
            /\ Enter(t)
            /\ UNCHANGED waiters
       ELSE /\ waiters' = [waiters EXCEPT ![s] = Append(@, t)]
            /\ status' = [status EXCEPT ![t] = "queued"]
            /\ UNCHANGED <<holder, gw>>
    /\ UNCHANGED <<kind, by>>
    /\ UNCHANGED <<store, gateways, handlers, server>>

\* The first waiter wakes up once the lock has been released.
Grant(t) ==
    LET s == lockOf[t] IN
    /\ status[t] = "queued"
    /\ holder[s] = None /\ waiters[s] # << >> /\ Head(waiters[s]) = t
    /\ holder' = [holder EXCEPT ![s] = t]
    /\ waiters' = [waiters EXCEPT ![s] = Tail(@)]
    /\ Enter(t)
    /\ UNCHANGED <<kind, by, lockOf>>
    /\ UNCHANGED <<store, gateways, handlers, server>>

Advance(t, from, to) ==
    /\ status[t] = from
    /\ status' = [status EXCEPT ![t] = to]
    /\ UNCHANGED <<kind, by, lockOf, gw>>
    /\ UNCHANGED <<store, locks, handlers, server>>

\* The guardrail refuses the message; run_turn returns.
GuardrailBlocks(t) == Advance(t, "guard", "ending") /\ UNCHANGED gateways

\* _ensure_graph_built: nothing to do, or a new client starts to connect.
EnsureGraph(t) ==
    \/ /\ Advance(t, "guard", "ensured")
       /\ graph[gw[t]]
       /\ UNCHANGED gateways
    \/ /\ Advance(t, "guard", "connect")
       /\ ~graph[gw[t]]
       /\ mcp' = [mcp EXCEPT ![gw[t]] = t]
       /\ UNCHANGED <<graph, open>>

\* connect() succeeds; list_tools() is next, unless destroy() took the client away.
Connected(t) ==
    /\ Advance(t, "connect", IF mcp[gw[t]] = None THEN "ending" ELSE "list")
    /\ open' = open \cup {t}
    /\ UNCHANGED <<mcp, graph>>

\* Mutant: a failed connect is taken for a built graph.
BuildFailsSilently(t) ==
    /\ \E from \in {"connect", "list"} : Advance(t, from, "ensured")
    /\ open' = open \ {mcp[gw[t]]}
    /\ mcp' = [mcp EXCEPT ![gw[t]] = None]
    /\ graph' = [graph EXCEPT ![gw[t]] = TRUE]

\* Mutant: the client of a failed build is forgotten without being closed.
BuildFailsOpen(t) ==
    /\ \E from \in {"connect", "list"} : Advance(t, from, "ending")
    /\ mcp' = [mcp EXCEPT ![gw[t]] = None]
    /\ UNCHANGED <<open, graph>>

\* connect() or list_tools() fails: the gateway's client, if it still has one, is
\* disconnected by the task that opened it.
BuildFails(t) ==
    /\ \E from \in {"connect", "list"} : Advance(t, from, "ending")
    /\ open' = open \ {mcp[gw[t]]}
    /\ mcp' = [mcp EXCEPT ![gw[t]] = None]
    /\ UNCHANGED graph

\* list_tools() answers on the client it was sent to, which a destroy() may have taken
\* from the gateway in the meantime, and the graph is compiled.
GraphBuilt(t) ==
    /\ Advance(t, "list", "ensured")
    /\ t \in open \/ mcp[gw[t]] \in open
    /\ graph' = [graph EXCEPT ![gw[t]] = TRUE]
    /\ UNCHANGED <<mcp, open>>

\* The graph starts to stream, unless destroy() dropped it in the meantime.
StreamBegins(t) ==
    /\ Advance(t, "ensured", IF graph[gw[t]] THEN "stream" ELSE "ending")
    /\ UNCHANGED gateways

\* _touch; the title it also stores once is not modelled.
Touch(s) ==
    /\ clock' = clock + 1
    /\ lastActive' = [lastActive EXCEPT ![s] = clock + 1]
    /\ UNCHANGED <<cache, owner, born>>

\* The generator is exhausted (done, paused for approval, or error): _touch stamps
\* the current runtime, and the lock entered is released.
TurnEnds(t) ==
    /\ status[t] \in {"stream", "ending"}
    /\ Leave(t)
    /\ Touch(runtime[by[t]])
    /\ UNCHANGED <<gateways, handlers, server>>

-----------------------------------------------------------------------------
(* Shutdown: the connections are closed, then destroy_all_sessions runs.         *)

ShutdownBegins ==
    /\ phase = "up" /\ \A c \in Conn : pc[c] = "closed"
    /\ phase' = "stopping" /\ toDestroy' = cache
    /\ UNCHANGED <<store, gateways, locks, handlers, tasks>>

\* The await of destroy() is not split here: what is built during it is not closed,
\* like a client whose close is refused.
DestroyOne(s) ==
    /\ phase = "stopping" /\ s \in toDestroy
    /\ toDestroy' = toDestroy \ {s}
    /\ CloseClient(s, mcp[s])
    /\ graph' = [graph EXCEPT ![s] = FALSE]
    /\ UNCHANGED <<phase, store, locks, handlers, tasks>>

\* The cache is cleared; the event loop ends and with it every remaining task.
ShutdownEnds ==
    /\ phase = "stopping" /\ toDestroy = {}
    /\ phase' = "down" /\ cache' = {}
    /\ status' = [t \in Task |-> IF Active(t) THEN "done" ELSE status[t]]
    /\ holder' = [s \in Session |-> None]
    /\ waiters' = [s \in Session |-> << >>]
    /\ UNCHANGED <<owner, born, lastActive, clock, toDestroy>>
    /\ UNCHANGED <<kind, by, lockOf, gw, gateways, handlers>>

Stopped == phase = "down" /\ UNCHANGED vars

-----------------------------------------------------------------------------
HandlerResumes(c) == Cleared(c) \/ Evicted(c)

TaskStep(t) ==
    \/ StartTask(t) \/ Grant(t) \/ GuardrailBlocks(t) \/ EnsureGraph(t)
    \/ Connected(t) \/ BuildFails(t) \/ GraphBuilt(t) \/ StreamBegins(t)
    \/ TurnEnds(t)

Next ==
    \/ \E c \in Conn :
         \/ \E s \in Session : InitResume(c, s)
         \/ InitNew(c) \/ Clear(c) \/ HandlerResumes(c) \/ Disconnect(c)
         \/ \E t \in Task : TurnMessage(c, t) \/ DecisionsMessage(c, t)
    \/ \E t \in Task : TaskStep(t)
    \/ ShutdownBegins \/ ShutdownEnds \/ Stopped
    \/ \E s \in Session : DestroyOne(s)

Spec == Init /\ [][Next]_vars

(* Every await of a task or of destroy() returns: connect, read and tool calls     *)
(* have timeouts. What clients send is under no fairness.                          *)
FairSpec ==
    /\ Spec
    /\ \A t \in Task : WF_vars(TaskStep(t))
    /\ \A c \in Conn : WF_vars(HandlerResumes(c))

-----------------------------------------------------------------------------
(* The lock and the tasks agree: a held lock is held by a task inside a turn that *)
(* entered that lock, and every task inside a turn holds the lock it entered.     *)
LockInv ==
    /\ \A s \in Session : holder[s] # None =>
            Running(holder[s]) /\ lockOf[holder[s]] = s
    /\ \A t \in Task : Running(t) => lockOf[t] # None /\ holder[lockOf[t]] = t

(* One turn at a time per conversation: two running tasks never drive the same    *)
(* gateway, hence never stream on the same checkpoint thread.                      *)
TurnMutex ==
    \A t1, t2 \in Task :
        Running(t1) /\ Running(t2) /\ gw[t1] = gw[t2] => t1 = t2

(* "Cap = AGENT_SESSION_CAP (default 5, env) sessions per user" (session.py:17).   *)
(* Since the eviction awaits between counting and creating, concurrent creations    *)
(* for one user can overshoot the cap; by less than the number of connections.      *)
Creating(u) == {c \in Conn : pc[c] = "evicting" /\ newUser[c] = u}
CapOvershoot ==
    \A u \in User \cup {None} :
        Cardinality(SessionsOf(u, cache)) + Cardinality(Creating(u))
            <= Cap + Cardinality(Conn) - 1

(* "Kept open for the full session so tool calls during execution work"           *)
(* (ai_gateway.py:80): until the shutdown, a turn that streams on a session still   *)
(* in the cache has an open MCP client. (An eviction may take a busy session out of *)
(* the cache, and then its client too.)                                            *)
StreamHasClient ==
    \A t \in Task :
        status[t] = "stream" /\ gw[t] \in cache /\ phase = "up" => mcp[gw[t]] \in open

(* No client is lost: an MCP client that is open for a session in the cache is the   *)
(* one its gateway knows, and will close. The exception is a turn cancelled between   *)
(* the connect and the end of list_tools (ai_gateway.py:402-444): `except Exception`  *)
(* does not see the cancellation, and the next build overwrites the client it leaves.  *)
(* For a session that left the cache nothing is promised: a destroy() that overlaps a  *)
(* build, a refused close and a turn on an evicted gateway each leave a client open.    *)
NoStrayClient ==
    phase = "up" =>
        \A t \in open : gw[t] \in cache => mcp[gw[t]] = t \/ t \in cut

(* A session that left the cache (cleared, evicted) never comes back to it.       *)
NoResurrection ==
    [][\A s \in born \ cache : s \notin cache']_vars

(* A turn that ends stamps the session whose gateway it ran, and no other: the LRU *)
(* order the eviction uses is the order of the users' own turns.                   *)
StampsOwnSession ==
    [][\A t \in Task : Running(t) /\ status'[t] = "done" =>
          \A s \in Session \ {gw[t]} : lastActive'[s] = lastActive[s]]_vars

(* Every turn accepted ends: whatever clients do (two turns at once, switching    *)
(* sessions, leaving), no queued turn is left behind a lock nobody releases.       *)
EveryTurnEnds == \A t \in Task : status[t] = "created" ~> status[t] = "done"
-----------------------------------------------------------------------------
\* The tasks inside a turn on the gateway of s.
Driving(s) == {t \in Task : Running(t) /\ gw[t] = s}

Promised == INSTANCE Conversations WITH
    Conversation <- Session, Turn <- Task, Client <- Conn, Nobody <- None,
    live    <- cache,
    past    <- born \ cache,
    whose   <- owner,
    at      <- runtime,
    asker   <- by,
    driving <- [s \in Session |-> Driving(s)],
    over    <- {t \in Task : status[t] = "done"}

(* Handlers and tasks, with every await between them, keep what Conversations promises: *)
(* a client's message takes away only the conversation it is in and those of the user   *)
(* it opens one for, one turn runs on a conversation at a time, on the one its client    *)
(* is in, and what was dropped or has ended stays so.                                   *)
ImplementsConversations == Promised!Spec
=============================================================================
