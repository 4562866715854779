----------------------------- MODULE McpClient ------------------------------
(* One MCP client (mcp/client.py): its turn-scoped cache of read results, the     *)
(* invalidation of that cache by mutations, and the retries of a tool call.        *)
(*                                                                                *)
(* The server's data is reduced to a version that every applied mutation, ours or  *)
(* another client's, increases; a read answers the version it was served at. A     *)
(* Call is one call_tool invocation; the tool node of the graph and an            *)
(* orchestration script issue several at a time, and those of a script whose turn  *)
(* gave up waiting go on into later turns. Two history variables remember whether  *)
(* that has happened.                                                              *)
EXTENDS Integers, FiniteSets

CONSTANTS Call, Key,
          Attempts,     \* stop_after_attempt of the retry policy
          MaxTurns,     \* bound: turns started
          MaxExternal,  \* bound: changes of the data by other clients
          None

ASSUME ConstantsAssumption ==
    /\ Attempts \in Nat \ {0} /\ MaxTurns \in Nat /\ MaxExternal \in Nat
    /\ None \notin Nat

VARIABLES
    version,    \* of the server's data
    external,   \* changes other clients have made
    readCache,  \* _read_cache: the version each cached result shows
    turns,      \* turns started
    turnFloor,  \* version when the current turn started
    ackFloor,   \* version produced by the latest mutation reported as done
    st,         \* progress of each call
    op,         \* "read" (get_*) or "write"
    key,        \* cache key of a read
    tries,      \* attempts made
    seen,       \* version the current attempt's answer shows
    applied,    \* times a mutation has taken effect
    late,       \* attempts given up that may still take effect
    needAck,    \* ackFloor when the call was made
    needTurn,   \* turnFloor when the call was made
    overlapped, \* some call was made while another was under way
    outlived    \* some call was under way when a turn started

server == <<version, external>>
turn   == <<turns, turnFloor, outlived>>
calls  == <<st, op, key, tries, seen, applied, late, needAck, needTurn,
            overlapped>>
vars   == <<server, readCache, turn, ackFloor, calls>>

UnderWay == {"sent", "served"}
Busy(c) == st[c] \in UnderWay
Idle == \A c \in Call : ~Busy(c)

Larger(m, n) == IF m < n THEN n ELSE m

TypeOK ==
    /\ version \in Nat /\ external \in Nat
    /\ readCache \in [Key -> Nat \cup {None}]
    /\ turns \in Nat /\ turnFloor \in Nat /\ ackFloor \in Nat
    /\ st \in [Call -> {"unused", "sent", "served", "done", "failed"}]
    /\ op \in [Call -> {"read", "write"}]
    /\ key \in [Call -> Key \cup {None}]
    /\ tries \in [Call -> Nat]
    /\ seen \in [Call -> Nat]
    /\ applied \in [Call -> Nat] /\ late \in [Call -> Nat]
    /\ needAck \in [Call -> Nat] /\ needTurn \in [Call -> Nat]
    /\ overlapped \in BOOLEAN /\ outlived \in BOOLEAN

Init ==
    /\ version = 0 /\ external = 0
    /\ readCache = [k \in Key |-> None]
    /\ turns = 0 /\ turnFloor = 0 /\ ackFloor = 0
    /\ st = [c \in Call |-> "unused"]
    /\ op = [c \in Call |-> "read"]
    /\ key = [c \in Call |-> None]
    /\ tries = [c \in Call |-> 0]
    /\ seen = [c \in Call |-> 0]
    /\ applied = [c \in Call |-> 0] /\ late = [c \in Call |-> 0]
    /\ needAck = [c \in Call |-> 0] /\ needTurn = [c \in Call |-> 0]
    /\ overlapped = FALSE /\ outlived = FALSE

-----------------------------------------------------------------------------
(* The turn and the data *)

\* Mutant: the cache is kept.
KeepCache == readCache' = readCache

\* clear_turn_cache, called when the graph input of a turn is built. resume_turn,
\* which continues a turn after an approval, does not clear.
ClearCache == readCache' = [k \in Key |-> None]

StartTurn ==
    /\ turns < MaxTurns
    /\ outlived' = (outlived \/ ~Idle)
    /\ turns' = turns + 1
    /\ turnFloor' = version
    /\ ClearCache
    /\ UNCHANGED <<server, ackFloor, calls>>

\* Somebody else changes the data.
ExternalChange ==
    /\ external < MaxExternal
    /\ external' = external + 1
    /\ version' = version + 1
    /\ UNCHANGED <<readCache, turn, ackFloor, calls>>

-----------------------------------------------------------------------------
(* call_tool *)

MayCall(c) == turns > 0 /\ st[c] = "unused"

\* The bookkeeping of a new call: how it starts and what it has to reflect.
Begin(c, kind, k, s, t, v) ==
    /\ st' = [st EXCEPT ![c] = s]
    /\ op' = [op EXCEPT ![c] = kind]
    /\ key' = [key EXCEPT ![c] = k]
    /\ tries' = [tries EXCEPT ![c] = t]
    /\ seen' = [seen EXCEPT ![c] = v]
    /\ needAck' = [needAck EXCEPT ![c] = ackFloor]
    /\ needTurn' = [needTurn EXCEPT ![c] = turnFloor]
    /\ overlapped' = (overlapped \/ ~Idle)
    /\ UNCHANGED <<applied, late>>

\* A read found in the cache is answered from it, any other is sent.
Read(c, k) ==
    /\ MayCall(c)
    /\ IF readCache[k] # None
       THEN Begin(c, "read", k, "done", 0, readCache[k])
       ELSE Begin(c, "read", k, "sent", 1, 0)
    /\ UNCHANGED <<server, readCache, turn, ackFloor>>

\* Mutant: the cache is not cleared.
MutateKeepCache(c) ==
    /\ MayCall(c)
    /\ KeepCache
    /\ Begin(c, "write", None, "sent", 1, 0)
    /\ UNCHANGED <<server, turn, ackFloor>>

\* A mutation clears the cache before it is sent, and never again.
Mutate(c) ==
    /\ MayCall(c)
    /\ ClearCache
    /\ Begin(c, "write", None, "sent", 1, 0)
    /\ UNCHANGED <<server, turn, ackFloor>>

Apply(c) ==
    IF op[c] = "write"
    THEN /\ version' = version + 1
         /\ applied' = [applied EXCEPT ![c] = @ + 1]
    ELSE UNCHANGED <<version, applied>>

\* The server carries out the current attempt.
Serve(c) ==
    /\ st[c] = "sent"
    /\ Apply(c)
    /\ st' = [st EXCEPT ![c] = "served"]
    /\ seen' = [seen EXCEPT ![c] = version']
    /\ UNCHANGED <<external, readCache, turn, ackFloor>>
    /\ UNCHANGED <<op, key, tries, late, needAck, needTurn, overlapped>>

\* The server carries out an attempt the client has given up on.
ServeLate(c) ==
    /\ late[c] > 0
    /\ Apply(c)
    /\ late' = [late EXCEPT ![c] = @ - 1]
    /\ UNCHANGED <<external, readCache, turn, ackFloor>>
    /\ UNCHANGED <<st, op, key, tries, seen, needAck, needTurn, overlapped>>

\* The answer arrives: a read's is cached, whatever happened since it was served.
Answer(c) ==
    /\ st[c] = "served"
    /\ st' = [st EXCEPT ![c] = "done"]
    /\ IF op[c] = "read"
       THEN /\ readCache' = [readCache EXCEPT ![key[c]] = seen[c]]
            /\ UNCHANGED ackFloor
       ELSE /\ ackFloor' = Larger(ackFloor, seen[c])
            /\ UNCHANGED readCache
    /\ UNCHANGED <<server, turn>>
    /\ UNCHANGED <<op, key, tries, seen, applied, late, needAck, needTurn, overlapped>>

\* The server refuses the call: an application error is not retried.
Refused(c) ==
    /\ st[c] = "sent"
    /\ st' = [st EXCEPT ![c] = "failed"]
    /\ UNCHANGED <<server, readCache, turn, ackFloor>>
    /\ UNCHANGED <<op, key, tries, seen, applied, late, needAck, needTurn, overlapped>>

\* Mutant: one attempt too many.
AgainOnceMore(c) == tries[c] <= Attempts

Again(c) == tries[c] < Attempts

\* Timeout, reset or truncated answer: the attempt is abandoned, in the server or
\* on the way to it, and repeated until the policy's limit.
TransportError(c) ==
    /\ Busy(c)
    /\ IF Again(c)
       THEN /\ st' = [st EXCEPT ![c] = "sent"]
            /\ tries' = [tries EXCEPT ![c] = @ + 1]
       ELSE /\ st' = [st EXCEPT ![c] = "failed"]
            /\ UNCHANGED tries
    /\ \/ UNCHANGED late
       \/ /\ st[c] = "sent" /\ op[c] = "write"
          /\ late' = [late EXCEPT ![c] = @ + 1]
    /\ UNCHANGED <<server, readCache, turn, ackFloor>>
    /\ UNCHANGED <<op, key, seen, applied, needAck, needTurn, overlapped>>

Ended == \A c \in Call : st[c] \in {"done", "failed"} /\ late[c] = 0

-----------------------------------------------------------------------------
Next ==
    \/ StartTurn \/ ExternalChange
    \/ \E c \in Call :
         \/ \E k \in Key : Read(c, k)
         \/ Mutate(c) \/ Answer(c) \/ Refused(c) \/ TransportError(c)
         \/ Serve(c) \/ ServeLate(c)
    \/ Ended /\ UNCHANGED vars

Spec == Init /\ [][Next]_vars

-----------------------------------------------------------------------------
(* "Mutation - server data changed, cached reads are now stale" (client.py:246):   *)
(* a read made after a mutation was reported as done shows that mutation.          *)
ReadYourWrites ==
    \A c \in Call : op[c] = "read" /\ st[c] = "done" => seen[c] >= needAck[c]

(* What the client does guarantee: as long as no two calls overlap, whatever is    *)
(* retried or takes effect late, a read shows every mutation reported before it.   *)
SequentialReads == ~overlapped => ReadYourWrites

(* "stale reads from the previous turn must not leak" (ai_gateway.py:115): unless   *)
(* a call outlives its turn, a read shows the data as of the start of its turn, or  *)
(* newer, calls made in parallel included.                                         *)
TurnFreshness ==
    ~outlived => \A c \in Call : op[c] = "read" /\ st[c] = "done"
                                    => seen[c] >= needTurn[c]

(* A mutation reported as done took effect, and no call takes effect more often    *)
(* than the policy allows attempts, counting the attempts still in the network.    *)
(* (Once is not guaranteed: an attempt whose answer is lost is repeated.)          *)
EffectsBounded ==
    \A c \in Call :
        /\ op[c] = "write" /\ st[c] = "done" => applied[c] >= 1
        /\ applied[c] + late[c] <= Attempts
=============================================================================
