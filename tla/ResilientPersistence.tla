------------------------ MODULE ResilientPersistence ------------------------
(* The wrappers ResilientCheckpointer and ResilientStore                          *)
(* (agent/resilient_persistence.py), which switch to in-memory persistence on a    *)
(* credential error, and the process-wide notice about it that a turn drains       *)
(* (agent/graph_builder.py, agent/ai_gateway.py). Every built graph has a wrapper   *)
(* of its own; here a Wrapper is the one of one conversation, which has one turn    *)
(* at a time.                                                                     *)
(*                                                                                *)
(* An Op is one interface call, a put or a get. The backends are reduced to the    *)
(* number of the latest checkpoint they hold. The awaits are those of the primary; *)
(* MemorySaver and InMemoryStore answer without suspending.                        *)
EXTENDS Integers, FiniteSets

CONSTANTS Wrapper, Op,
          WrapperOf,   \* the wrapper each operation goes to
          MaxExpiries  \* bound: how often the credentials expire

ASSUME ConstantsAssumption ==
    /\ WrapperOf \in [Op -> Wrapper]
    /\ MaxExpiries \in Nat

VARIABLES
    valid,      \* the AWS credentials work
    expiries,   \* times they have expired
    degraded,   \* _degraded of each wrapper
    warned,     \* the feature is in _degradation_warned_features
    queued,     \* its notice is in _degradation_warnings
    turn,       \* where the turn of each conversation is
    told,       \* conversations whose client was sent the notice
    lost,       \* those whose turn had drained it and did not get it to the client
    primary,    \* latest checkpoint in AgentCore
    fallback,   \* latest checkpoint in memory
    clock,      \* numbers the checkpoints
    st,         \* progress of each operation
    kind,       \* "put" or "get"
    val,        \* checkpoint an operation writes or has read
    latestLocal,\* latest checkpoint whose put in memory has returned
    need,       \* for a get: what latestLocal was when it began
    overlapped  \* wrappers of which two operations have overlapped

credentials == <<valid, expiries>>
notice == <<warned, queued, told, lost>>
stores == <<primary, fallback, clock, latestLocal>>
ops    == <<st, kind, val, need, overlapped>>
vars   == <<credentials, degraded, notice, turn, stores, ops>>

\* A turn streams between two drains, and sends what it drained before it goes on; a resumed
\* one drains nothing. Both end with a summary.
Turn == {"idle", "telling", "stream", "retelling", "resumed", "summary"}

TypeOK ==
    /\ valid \in BOOLEAN /\ expiries \in Nat
    /\ degraded \in [Wrapper -> BOOLEAN]
    /\ warned \in BOOLEAN /\ queued \in BOOLEAN
    /\ told \subseteq Wrapper /\ lost \subseteq Wrapper
    /\ turn \in [Wrapper -> Turn]
    /\ primary \in [Wrapper -> Nat] /\ fallback \in [Wrapper -> Nat]
    /\ clock \in Nat
    /\ st \in [Op -> {"unused", "primary", "done", "auth_error", "other_error"}]
    /\ kind \in [Op -> {"put", "get"}]
    /\ val \in [Op -> Nat] /\ need \in [Op -> Nat]
    /\ latestLocal \in [Wrapper -> Nat] /\ overlapped \subseteq Wrapper

Init ==
    /\ valid = TRUE /\ expiries = 0
    /\ degraded = [w \in Wrapper |-> FALSE]
    /\ warned = FALSE /\ queued = FALSE /\ told = {} /\ lost = {}
    /\ turn = [w \in Wrapper |-> "idle"]
    /\ primary = [w \in Wrapper |-> 0] /\ fallback = [w \in Wrapper |-> 0]
    /\ clock = 0
    /\ st = [o \in Op |-> "unused"]
    /\ kind = [o \in Op |-> "get"]
    /\ val = [o \in Op |-> 0] /\ need = [o \in Op |-> 0]
    /\ latestLocal = [w \in Wrapper |-> 0] /\ overlapped = {}

Larger(m, n) == IF m < n THEN n ELSE m

-----------------------------------------------------------------------------
(* Credentials *)

Expire ==
    /\ valid /\ expiries < MaxExpiries
    /\ valid' = FALSE /\ expiries' = expiries + 1
    /\ UNCHANGED <<degraded, notice, turn, stores, ops>>

Refresh ==
    /\ ~valid
    /\ valid' = TRUE
    /\ UNCHANGED <<expiries, degraded, notice, turn, stores, ops>>

-----------------------------------------------------------------------------
(* Operations. `_active` is read when the operation begins.                      *)

Overlaps(o) == \E x \in Op \ {o} : WrapperOf[x] = WrapperOf[o] /\ st[x] = "primary"

\* Mutant: memory is written but read from AgentCore's latest.
LocalResultPrimary(w, k, v) == IF k = "put" THEN v ELSE primary[w]

\* What the fallback returns for a get, or has stored after a put.
LocalResult(w, k, v) == IF k = "put" THEN v ELSE fallback[w]

\* The operation is carried out by the in-memory backend, without suspending.
RunLocally(o, k, v) ==
    LET w == WrapperOf[o] IN
    /\ st' = [st EXCEPT ![o] = "done"]
    /\ val' = [val EXCEPT ![o] = LocalResult(w, k, v)]
    /\ IF k = "put"
       THEN /\ fallback' = [fallback EXCEPT ![w] = Larger(@, v)]
            /\ latestLocal' = [latestLocal EXCEPT ![w] = Larger(@, v)]
       ELSE UNCHANGED <<fallback, latestLocal>>
    /\ UNCHANGED primary

\* The graph calls while it streams; the summary reads the state.
Calls(w, k) ==
    \/ turn[w] \in {"stream", "resumed"}
    \/ turn[w] = "summary" /\ k = "get"

\* aput, aput_writes, aget_tuple, abatch: local once degraded, else sent out.
Begin(o, k) ==
    LET w == WrapperOf[o] IN
    /\ st[o] = "unused" /\ Calls(w, k)
    /\ overlapped' = IF Overlaps(o) THEN overlapped \cup {w} ELSE overlapped
    /\ clock' = IF k = "put" THEN clock + 1 ELSE clock
    /\ kind' = [kind EXCEPT ![o] = k]
    /\ need' = [need EXCEPT ![o] = latestLocal[w]]
    /\ IF degraded[w]
       THEN RunLocally(o, k, clock')
       ELSE /\ st' = [st EXCEPT ![o] = "primary"]
            /\ val' = [val EXCEPT ![o] = clock']
            /\ UNCHANGED <<primary, fallback, latestLocal>>
    /\ UNCHANGED <<credentials, degraded, notice, turn>>

\* The primary answers.
Succeed(o) ==
    LET w == WrapperOf[o] IN
    /\ st[o] = "primary" /\ valid
    /\ st' = [st EXCEPT ![o] = "done"]
    /\ IF kind[o] = "put"
       THEN /\ primary' = [primary EXCEPT ![w] = Larger(@, val[o])]
            /\ UNCHANGED val
       ELSE /\ val' = [val EXCEPT ![o] = primary[w]]
            /\ UNCHANGED primary
    /\ UNCHANGED <<fallback, latestLocal, clock, kind, need, overlapped>>
    /\ UNCHANGED <<credentials, degraded, notice, turn>>

\* _on_persistence_degraded: once per feature and process.
Warn ==
    /\ warned' = TRUE
    /\ queued' = (queued \/ ~warned)

\* Mutant: the operation that meets the error is not repeated in memory.
CredentialErrorRaised(o) ==
    /\ st[o] = "primary" /\ ~valid
    /\ degraded' = [degraded EXCEPT ![WrapperOf[o]] = TRUE]
    /\ Warn
    /\ st' = [st EXCEPT ![o] = "auth_error"]
    /\ UNCHANGED <<primary, fallback, latestLocal, val>>
    /\ UNCHANGED <<clock, kind, need, overlapped, told, lost, turn, credentials>>

\* The primary fails with a credential error: the first one degrades the wrapper
\* and is repeated in memory, one that finds the wrapper degraded is raised.
CredentialError(o) ==
    LET w == WrapperOf[o] IN
    /\ st[o] = "primary" /\ ~valid
    /\ IF ~degraded[w]
       THEN /\ degraded' = [degraded EXCEPT ![w] = TRUE]
            /\ Warn
            /\ RunLocally(o, kind[o], val[o])
       ELSE /\ st' = [st EXCEPT ![o] = "auth_error"]
            /\ UNCHANGED <<primary, fallback, latestLocal, val>>
            /\ UNCHANGED <<degraded, warned, queued>>
    /\ UNCHANGED <<clock, kind, need, overlapped, told, lost, turn, credentials>>

\* Any other failure of the primary is raised.
OtherError(o) ==
    /\ st[o] = "primary"
    /\ st' = [st EXCEPT ![o] = "other_error"]
    /\ UNCHANGED <<kind, val, need, overlapped>>
    /\ UNCHANGED <<credentials, degraded, notice, turn, stores>>

-----------------------------------------------------------------------------
(* The turns, as far as the notice goes. What a turn has drained is its own until it is   *)
(* sent: another turn finds the queue empty, and the feature is never reported again.      *)

Go(w, to) == turn' = [turn EXCEPT ![w] = to]

\* drain_degradation_warnings: the turn of w goes on telling what was queued, or past it.
Drain(w, telling, past) ==
    /\ Go(w, IF queued THEN telling ELSE past)
    /\ queued' = FALSE
    /\ UNCHANGED <<warned, told, lost>>

\* Mutant: what is queued at the start of a turn is dropped as stale.
BeginTurnForgets(w) ==
    /\ turn[w] = "idle"
    /\ Go(w, "stream")
    /\ queued' = FALSE
    /\ UNCHANGED <<warned, told, lost, credentials, degraded, stores, ops>>

\* run_turn, once the message is let through and the graph is there.
BeginTurn(w) ==
    /\ turn[w] = "idle"
    /\ Drain(w, "telling", "stream")
    /\ UNCHANGED <<credentials, degraded, stores, ops>>

\* resume_turn drains nothing.
Resume(w) ==
    /\ turn[w] = "idle"
    /\ Go(w, "resumed")
    /\ UNCHANGED <<credentials, degraded, notice, stores, ops>>

Sent(w) ==
    /\ turn[w] \in {"telling", "retelling"}
    /\ Go(w, IF turn[w] = "telling" THEN "stream" ELSE "summary")
    /\ UNCHANGED <<warned, queued, credentials, degraded, stores, ops>>

Tell(w) == Sent(w) /\ told' = told \cup {w} /\ UNCHANGED lost

\* send() swallows every error, and the turn goes on.
SendFails(w) == Sent(w) /\ lost' = lost \cup {w} /\ UNCHANGED told

Pending(w) == {o \in Op : st[o] = "primary" /\ WrapperOf[o] = w}

\* The graph has finished or paused.
StreamEnds(w) ==
    /\ Pending(w) = {}
    /\ \/ turn[w] = "stream" /\ Drain(w, "retelling", "summary")
       \/ turn[w] = "resumed" /\ Go(w, "summary") /\ UNCHANGED notice
    /\ UNCHANGED <<credentials, degraded, stores, ops>>

SummaryEnds(w) ==
    /\ turn[w] = "summary" /\ Pending(w) = {}
    /\ Go(w, "idle")
    /\ UNCHANGED <<credentials, degraded, notice, stores, ops>>

\* The turn ends without a second drain: the graph raises, or the client is gone and the
\* task is cancelled. The operations that are under way are cancelled with it.
Cut(w) ==
    /\ turn[w] # "idle"
    /\ Go(w, "idle")
    /\ lost' = IF turn[w] \in {"telling", "retelling"} THEN lost \cup {w} ELSE lost
    /\ st' = [o \in Op |-> IF o \in Pending(w) THEN "other_error" ELSE st[o]]
    /\ UNCHANGED <<warned, queued, told, credentials, degraded, stores>>
    /\ UNCHANGED <<kind, val, need, overlapped>>

-----------------------------------------------------------------------------
OpStep(o) == Succeed(o) \/ CredentialError(o) \/ OtherError(o)

TurnEnds(w) == Tell(w) \/ SendFails(w) \/ StreamEnds(w) \/ SummaryEnds(w)

Next ==
    \/ Expire \/ Refresh
    \/ \E o \in Op : OpStep(o) \/ \E k \in {"put", "get"} : Begin(o, k)
    \/ \E w \in Wrapper : BeginTurn(w) \/ Resume(w) \/ TurnEnds(w) \/ Cut(w)

Spec == Init /\ [][Next]_vars

(* The primary answers or fails; a turn ends; and in every conversation the user goes  *)
(* on sending messages, and not only decisions.                                        *)
FairSpec ==
    /\ Spec
    /\ \A o \in Op : WF_vars(OpStep(o))
    /\ \A w \in Wrapper : WF_vars(TurnEnds(w)) /\ SF_vars(BeginTurn(w))

-----------------------------------------------------------------------------
(* "Rather than crashing the entire chat turn, these wrappers catch credential/auth*)
(* errors and fall back" (resilient_persistence.py:4) holds for the first operation*)
(* that fails, not for a second one that was sent before the first had degraded the*)
(* wrapper: an operation whose credential error is raised belongs to a wrapper of   *)
(* which operations have overlapped; one at a time, all are absorbed.              *)
ErrorsAbsorbed ==
    \A o \in Op : st[o] = "auth_error" => WrapperOf[o] \in overlapped

(* A degraded conversation goes on: a get returns every checkpoint that was put in     *)
(* memory before the get began.                                                    *)
LocalHistoryKept ==
    \A o \in Op : st[o] = "done" /\ kind[o] = "get" => val[o] >= need[o]

\* Turns that have drained the notice and are about to send it.
Telling == {w \in Wrapper : turn[w] \in {"telling", "retelling"}}

(* The notice about degraded persistence is not repeated, and is lost in one way only:   *)
(* once any conversation is degraded it is queued, or with one turn that drained it, or    *)
(* that turn's client has it, or that turn was cut or its send failed just then.           *)
OneNotice ==
    /\ (\E w \in Wrapper : degraded[w]) => queued \/ Telling \cup told \cup lost # {}
    /\ queued => Telling \cup told \cup lost = {}
    /\ \A v, w \in Telling \cup told \cup lost : v = w
    /\ Telling \cap (told \cup lost) = {} /\ told \cap lost = {}

(* "so the client can display a degradation notice" (resilient_persistence.py:9): the    *)
(* notice of a degradation does reach a client, also when the degrading call was that of   *)
(* a resumed turn or of a summary, which drain nothing; unless the turn that drained it     *)
(* was cut, or its send failed, before the client had it.                                 *)
NoticeDelivered == \A w \in Wrapper : degraded[w] ~> told \cup lost # {}
=============================================================================
