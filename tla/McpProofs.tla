----------------------------- MODULE McpProofs ------------------------------
(* Theorems about McpClient for every number of calls, keys, turns and attempts:   *)
(* types, the bound on the effects of a retried mutation, read-your-writes as long *)
(* as no calls overlap and turn freshness as long as no call outlives its turn.    *)
EXTENDS McpClient, TLAPS

CallState == {"unused", "sent", "served", "done", "failed"}

-----------------------------------------------------------------------------
(* What each step does to the calls other than its own is nothing; stated once.   *)
Others(c) ==
    \A x \in Call \ {c} :
        /\ st'[x] = st[x] /\ op'[x] = op[x] /\ key'[x] = key[x]
        /\ tries'[x] = tries[x] /\ seen'[x] = seen[x]
        /\ applied'[x] = applied[x] /\ late'[x] = late[x]
        /\ needAck'[x] = needAck[x] /\ needTurn'[x] = needTurn[x]

LEMMA TypeInit == Init => TypeOK
<1> SUFFICES ASSUME Init PROVE TypeOK
  OBVIOUS
<1>1. overlapped \in BOOLEAN /\ outlived \in BOOLEAN
  BY DEF Init
<1> QED BY <1>1 DEF Init, TypeOK

LEMMA BeginType ==
    ASSUME TypeOK, NEW c \in Call, NEW kind \in {"read", "write"},
           NEW k \in Key \cup {None}, NEW s \in CallState, NEW t \in Nat,
           NEW v \in Nat, Begin(c, kind, k, s, t, v),
           readCache' \in [Key -> Nat \cup {None}],
           UNCHANGED <<server, turn, ackFloor>>
    PROVE  TypeOK'
BY DEF TypeOK, Begin, CallState, server, turn

LEMMA TypeNext == ConstantsAssumption /\ TypeOK /\ [Next]_vars => TypeOK'
<1> SUFFICES ASSUME ConstantsAssumption, TypeOK, [Next]_vars PROVE TypeOK'
  OBVIOUS
<1>1. CASE StartTurn
  BY <1>1 DEF StartTurn, ClearCache, TypeOK, server, calls
<1>2. CASE ExternalChange
  BY <1>2 DEF ExternalChange, TypeOK, turn, calls
<1>3. ASSUME NEW c \in Call, NEW k \in Key, Read(c, k) PROVE TypeOK'
  <2>1. CASE readCache[k] # None
    <3>1. readCache[k] \in Nat /\ Begin(c, "read", k, "done", 0, readCache[k])
      BY <1>3, <2>1 DEF Read, TypeOK
    <3> QED BY <1>3, <3>1, BeginType DEF Read, CallState, TypeOK
  <2>2. CASE readCache[k] = None
    BY <1>3, <2>2, BeginType DEF Read, CallState, TypeOK
  <2> QED BY <2>1, <2>2
<1>4. ASSUME NEW c \in Call, Mutate(c) PROVE TypeOK'
  BY <1>4, BeginType DEF Mutate, ClearCache, CallState
<1>5. ASSUME NEW c \in Call, Serve(c) PROVE TypeOK'
  BY <1>5 DEF Serve, Apply, TypeOK, turn
<1>6. ASSUME NEW c \in Call, ServeLate(c) PROVE TypeOK'
  BY <1>6 DEF ServeLate, Apply, TypeOK, turn
<1>7. ASSUME NEW c \in Call, Answer(c) PROVE TypeOK'
  BY <1>7 DEF Answer, Larger, TypeOK, server, turn
<1>8. ASSUME NEW c \in Call, Refused(c) PROVE TypeOK'
  BY <1>8 DEF Refused, TypeOK, server, turn
<1>9. ASSUME NEW c \in Call, TransportError(c) PROVE TypeOK'
  BY <1>9 DEF TransportError, TypeOK, server, turn
<1>10. CASE UNCHANGED vars
  BY <1>10 DEF TypeOK, vars, server, turn, calls
<1> QED BY <1>1, <1>2, <1>3, <1>4, <1>5, <1>6, <1>7, <1>8, <1>9, <1>10
        DEF Next

(* Every variable keeps its type in every reachable state.                         *)
THEOREM McpTypeCorrect == Spec => []TypeOK
<1>1. Init => TypeOK
  BY TypeInit
<1>2. TypeOK /\ [Next]_vars => TypeOK'
  BY TypeNext, ConstantsAssumption
<1> QED BY <1>1, <1>2, PTL DEF Spec

-----------------------------------------------------------------------------
(* Retries. The attempts of a call are those that took effect, those given up that *)
(* still may, and the one under way; only the client adds one, and only below the  *)
(* limit.                                                                          *)
EffectsInv ==
    \A c \in Call :
        /\ tries[c] <= Attempts
        /\ applied[c] + late[c] + (IF st[c] = "sent" THEN 1 ELSE 0) <= tries[c]
        /\ op[c] = "write" /\ st[c] \in {"served", "done"} => applied[c] >= 1
        /\ st[c] = "unused" => applied[c] = 0 /\ late[c] = 0

LEMMA EffectsInit == Init /\ ConstantsAssumption => EffectsInv
BY DEF Init, EffectsInv, ConstantsAssumption

LEMMA EffectsNext ==
    ASSUME ConstantsAssumption, TypeOK, EffectsInv, [Next]_vars
    PROVE  EffectsInv'
<1> DEFINE Of(c) ==
        /\ tries[c] <= Attempts
        /\ applied[c] + late[c] + (IF st[c] = "sent" THEN 1 ELSE 0) <= tries[c]
        /\ op[c] = "write" /\ st[c] \in {"served", "done"} => applied[c] >= 1
        /\ st[c] = "unused" => applied[c] = 0 /\ late[c] = 0
<1>1. ASSUME UNCHANGED calls PROVE EffectsInv'
  BY <1>1 DEF EffectsInv, calls
<1>2. ASSUME NEW c \in Call, Others(c), Of(c)' PROVE EffectsInv'
  BY <1>2 DEF EffectsInv, Others
<1>3. ASSUME NEW c \in Call, NEW k \in Key, Read(c, k) PROVE EffectsInv'
  <2>1. Others(c)
    BY <1>3 DEF Read, Begin, Others, TypeOK
  <2>2. Of(c)'
    BY <1>3 DEF Read, MayCall, Begin, TypeOK, EffectsInv, ConstantsAssumption
  <2> QED BY <1>2, <2>1, <2>2
<1>4. ASSUME NEW c \in Call, Mutate(c) PROVE EffectsInv'
  <2>1. Others(c)
    BY <1>4 DEF Mutate, Begin, Others, TypeOK
  <2>2. Of(c)'
    BY <1>4 DEF Mutate, MayCall, Begin, TypeOK, EffectsInv, ConstantsAssumption
  <2> QED BY <1>2, <2>1, <2>2
<1>5. ASSUME NEW c \in Call, Serve(c) PROVE EffectsInv'
  <2>1. Others(c)
    BY <1>5 DEF Serve, Apply, Others, TypeOK
  <2>2. Of(c)'
    BY <1>5 DEF Serve, Apply, TypeOK, EffectsInv
  <2> QED BY <1>2, <2>1, <2>2
<1>6. ASSUME NEW c \in Call, ServeLate(c) PROVE EffectsInv'
  <2>1. Others(c)
    BY <1>6 DEF ServeLate, Apply, Others, TypeOK
  <2>2. Of(c)'
    BY <1>6 DEF ServeLate, Apply, TypeOK, EffectsInv
  <2> QED BY <1>2, <2>1, <2>2
<1>7. ASSUME NEW c \in Call, Answer(c) PROVE EffectsInv'
  <2>1. Others(c)
    BY <1>7 DEF Answer, Others, TypeOK
  <2>2. Of(c)'
    BY <1>7 DEF Answer, TypeOK, EffectsInv
  <2> QED BY <1>2, <2>1, <2>2
<1>8. ASSUME NEW c \in Call, Refused(c) PROVE EffectsInv'
  <2>1. Others(c)
    BY <1>8 DEF Refused, Others, TypeOK
  <2>2. Of(c)'
    BY <1>8 DEF Refused, TypeOK, EffectsInv
  <2> QED BY <1>2, <2>1, <2>2
<1>9. ASSUME NEW c \in Call, TransportError(c) PROVE EffectsInv'
  <2>1. Others(c)
    BY <1>9 DEF TransportError, Others, TypeOK
  <2>2. Of(c)'
    BY <1>9 DEF TransportError, Busy, UnderWay, Again, TypeOK, EffectsInv,
                ConstantsAssumption
  <2> QED BY <1>2, <2>1, <2>2
<1>10. CASE StartTurn \/ ExternalChange \/ UNCHANGED vars
  BY <1>1, <1>10 DEF StartTurn, ExternalChange, vars
<1> QED BY <1>3, <1>4, <1>5, <1>6, <1>7, <1>8, <1>9, <1>10 DEF Next

(* A mutation that reports success took effect, and retrying never makes it take   *)
(* effect more than Attempts times.                                                *)
THEOREM EffectsBoundedHolds == Spec => []EffectsBounded
<1>1. Init => TypeOK /\ EffectsInv
  BY TypeInit, EffectsInit, ConstantsAssumption
<1>2. TypeOK /\ EffectsInv /\ [Next]_vars => (TypeOK /\ EffectsInv)'
  BY TypeNext, EffectsNext, ConstantsAssumption
<1>3. TypeOK /\ EffectsInv => EffectsBounded
  <2> SUFFICES ASSUME TypeOK, EffectsInv, NEW c \in Call
               PROVE  /\ op[c] = "write" /\ st[c] = "done" => applied[c] >= 1
                      /\ applied[c] + late[c] <= Attempts
    BY DEF EffectsBounded
  <2>1. /\ applied[c] \in Nat /\ late[c] \in Nat /\ tries[c] \in Nat
        /\ Attempts \in Nat
    BY ConstantsAssumption DEF TypeOK, ConstantsAssumption
  <2>2. tries[c] <= Attempts /\ applied[c] + late[c] <= tries[c]
    BY <2>1 DEF EffectsInv
  <2>3. op[c] = "write" /\ st[c] = "done" => applied[c] >= 1
    BY DEF EffectsInv
  <2> QED BY <2>1, <2>2, <2>3
<1> QED BY <1>1, <1>2, <1>3, PTL DEF Spec

-----------------------------------------------------------------------------
(* Read your writes, as long as no two calls have overlapped. While a mutation is under way    *)
(* the cache stays empty, so nothing older than its effect survives in it.          *)
OneAtATime ==
    /\ ackFloor <= version
    /\ \A c \in Call : needAck[c] <= ackFloor
    /\ \A k \in Key : readCache[k] # None => readCache[k] >= ackFloor
    /\ \A c, d \in Call : Busy(c) /\ Busy(d) => c = d
    /\ \A c \in Call : Busy(c) /\ op[c] = "write" =>
            \A k \in Key : readCache[k] = None
    /\ \A c \in Call : Busy(c) /\ op[c] = "read" => key[c] \in Key
    /\ \A c \in Call : st[c] = "served" => seen[c] <= version /\ seen[c] >= ackFloor
    /\ ReadYourWrites

ReadInv == ~overlapped => OneAtATime

LEMMA ReadInit == Init => ReadInv
BY DEF Init, ReadInv, OneAtATime, ReadYourWrites, Busy, UnderWay

\* Once calls have overlapped they always have; a call made before is made alone.
LEMMA OverlapStays ==
    ASSUME TypeOK, [Next]_vars, ~overlapped'
    PROVE  ~overlapped
BY DEF Next, StartTurn, ExternalChange, Read, Mutate, Begin, Serve, ServeLate,
       Answer, Refused, TransportError, vars, calls, TypeOK

LEMMA ReadNext ==
    ASSUME TypeOK, OneAtATime, [Next]_vars, ~overlapped'
    PROVE  OneAtATime'
<1>1. ASSUME NEW c \in Call, NEW k \in Key, Read(c, k) PROVE OneAtATime'
  <2>0. \E kind, k1, s, t, v : Begin(c, kind, k1, s, t, v)
    BY <1>1 DEF Read
  <2>3. \A d \in Call : ~Busy(d)
    BY <2>0, Zenon DEF Begin, Idle
  <2>1. Others(c) /\ \A d \in Call : ~Busy(d)
    BY <1>1, <2>3 DEF Read, Begin, Others, TypeOK
  <2>2. /\ op'[c] = "read" /\ key'[c] = k /\ needAck'[c] = ackFloor
        /\ UNCHANGED <<version, ackFloor, readCache>>
        /\ \/ st'[c] = "done" /\ readCache[k] # None /\ seen'[c] = readCache[k]
           \/ st'[c] = "sent"
    BY <1>1 DEF Read, Begin, server, TypeOK
  <2> QED BY <2>1, <2>2 DEF OneAtATime, ReadYourWrites, Others, TypeOK, Busy, UnderWay
<1>2. ASSUME NEW c \in Call, Mutate(c) PROVE OneAtATime'
  <2>1. Others(c) /\ \A d \in Call : ~Busy(d)
    BY <1>2 DEF Mutate, Idle, Begin, Others, TypeOK
  <2>2. /\ op'[c] = "write" /\ st'[c] = "sent" /\ needAck'[c] = ackFloor
        /\ UNCHANGED <<version, ackFloor>>
        /\ \A k \in Key : readCache'[k] = None
    BY <1>2 DEF Mutate, Begin, ClearCache, server, TypeOK
  <2> QED BY <2>1, <2>2 DEF OneAtATime, ReadYourWrites, Others, TypeOK, Busy, UnderWay
<1>3. ASSUME NEW c \in Call, Serve(c) PROVE OneAtATime'
  <2>1. Others(c) /\ Busy(c)
    BY <1>3 DEF Serve, Apply, Others, TypeOK, Busy, UnderWay
  <2>2. /\ st'[c] = "served" /\ seen'[c] = version'
        /\ version' \in Nat /\ version' >= version
        /\ UNCHANGED <<op, key, needAck, ackFloor, readCache>>
    BY <1>3 DEF Serve, Apply, TypeOK
  <2> QED BY <2>1, <2>2 DEF OneAtATime, ReadYourWrites, Others, TypeOK, Busy, UnderWay
<1>4. ASSUME NEW c \in Call, ServeLate(c) PROVE OneAtATime'
  <2>1. /\ version' \in Nat /\ version' >= version
        /\ UNCHANGED <<st, op, key, seen, needAck, ackFloor, readCache>>
    BY <1>4 DEF ServeLate, Apply, TypeOK
  <2> QED BY <2>1 DEF OneAtATime, ReadYourWrites, TypeOK, Busy
<1>5. ASSUME NEW c \in Call, Answer(c) PROVE OneAtATime'
  <2>1. /\ Others(c) /\ Busy(c) /\ st'[c] = "done"
        /\ UNCHANGED <<op, key, needAck, seen, version>>
        /\ \A d \in Call \ {c} : ~Busy(d)
    BY <1>5 DEF Answer, Others, TypeOK, Busy, UnderWay, server, OneAtATime
  <2>2. seen[c] \in Nat /\ seen[c] >= ackFloor /\ seen[c] <= version
    BY <1>5 DEF Answer, OneAtATime, TypeOK
  <2>3. CASE op[c] = "read"
    <3>1. key[c] \in Key /\ UNCHANGED ackFloor
          /\ readCache' = [readCache EXCEPT ![key[c]] = seen[c]]
      BY <1>5, <2>1, <2>3 DEF Answer, OneAtATime
    <3>2. \A k \in Key : readCache'[k] # None => readCache'[k] >= ackFloor
      BY <2>2, <3>1 DEF OneAtATime, TypeOK
    <3> QED BY <2>1, <2>2, <2>3, <3>1, <3>2
            DEF OneAtATime, ReadYourWrites, Others, TypeOK, Busy, UnderWay
  <2>4. CASE op[c] # "read"
    <3>1. /\ ackFloor' = seen[c] \/ ackFloor' = ackFloor
          /\ ackFloor' >= ackFloor /\ ackFloor' <= version
          /\ UNCHANGED readCache
      BY <1>5, <2>2, <2>4 DEF Answer, Larger, TypeOK, OneAtATime
    <3>2. \A k \in Key : readCache[k] = None
      BY <2>1, <2>4 DEF OneAtATime, TypeOK
    <3> QED BY <2>1, <2>2, <2>4, <3>1, <3>2
            DEF OneAtATime, ReadYourWrites, Others, TypeOK, Busy, UnderWay
  <2> QED BY <2>3, <2>4
<1>6. ASSUME NEW c \in Call, Refused(c) \/ TransportError(c) PROVE OneAtATime'
  <2>1. Others(c) /\ Busy(c)
    BY <1>6 DEF Refused, TransportError, Others, TypeOK, Busy, UnderWay
  <2>2. /\ st'[c] \in {"sent", "failed"}
        /\ UNCHANGED <<op, key, needAck, seen, version, ackFloor, readCache>>
    BY <1>6 DEF Refused, TransportError, TypeOK, server
  <2> QED BY <2>1, <2>2 DEF OneAtATime, ReadYourWrites, Others, TypeOK, Busy, UnderWay
<1>7. CASE StartTurn
  <2>1. UNCHANGED <<version, ackFloor, calls>> /\ \A k \in Key : readCache'[k] = None
    BY <1>7 DEF StartTurn, ClearCache, server
  <2> QED BY <2>1 DEF OneAtATime, ReadYourWrites, calls, Busy
<1>8. CASE ExternalChange
  <2>1. version' >= version /\ version' \in Nat /\ UNCHANGED <<ackFloor, calls, readCache>>
    BY <1>8 DEF ExternalChange, TypeOK
  <2> QED BY <2>1 DEF OneAtATime, ReadYourWrites, calls, Busy, TypeOK
<1>9. CASE UNCHANGED vars
  BY <1>9 DEF vars, server, calls, OneAtATime, ReadYourWrites, Busy
<1> QED BY <1>1, <1>2, <1>3, <1>4, <1>5, <1>6, <1>7, <1>8, <1>9 DEF Next

(* As long as no two tool calls overlap, a read never shows data older than the     *)
(* last mutation reported as done.                                                  *)
THEOREM SequentialReadsHold == Spec => []SequentialReads
<1>1. Init => TypeOK /\ ReadInv
  BY TypeInit, ReadInit
<1>2. TypeOK /\ ReadInv /\ [Next]_vars => (TypeOK /\ ReadInv)'
  <2> SUFFICES ASSUME TypeOK, ReadInv, [Next]_vars PROVE TypeOK' /\ ReadInv'
    OBVIOUS
  <2>1. TypeOK'
    BY TypeNext, ConstantsAssumption
  <2>2. ASSUME ~overlapped' PROVE OneAtATime'
    <3>1. OneAtATime
      BY <2>2, OverlapStays DEF ReadInv
    <3> QED BY <2>2, <3>1, ReadNext
  <2> QED BY <2>1, <2>2 DEF ReadInv
<1>3. ReadInv => SequentialReads
  BY DEF ReadInv, OneAtATime, SequentialReads
<1> QED BY <1>1, <1>2, <1>3, PTL DEF Spec

-----------------------------------------------------------------------------
(* Turn freshness, as long as calls end before the next turn starts. Every call under *)
(* way belongs to the current turn, so every answer stored is of this turn.         *)
InTurn ==
    /\ turnFloor <= version
    /\ \A k \in Key : readCache[k] # None => readCache[k] >= turnFloor
    /\ \A c \in Call : needTurn[c] <= turnFloor
    /\ \A c \in Call : st[c] = "served" => seen[c] >= turnFloor
    /\ \A c \in Call : Busy(c) /\ op[c] = "read" => key[c] \in Key
    /\ \A c \in Call : op[c] = "read" /\ st[c] = "done" => seen[c] >= needTurn[c]

TurnInv == ~outlived => InTurn

LEMMA TurnInit == Init => TurnInv
BY DEF Init, TurnInv, InTurn, Busy, UnderWay

LEMMA OutlivedStays ==
    ASSUME TypeOK, [Next]_vars, ~outlived'
    PROVE  ~outlived
BY DEF Next, StartTurn, ExternalChange, Read, Mutate, Serve, ServeLate,
       Answer, Refused, TransportError, vars, turn, TypeOK

LEMMA TurnNext ==
    ASSUME TypeOK, InTurn, [Next]_vars, ~outlived'
    PROVE  InTurn'
<1>1. ASSUME NEW c \in Call, NEW k \in Key, Read(c, k) PROVE InTurn'
  <2>1. Others(c)
    BY <1>1 DEF Read, Begin, Others, TypeOK
  <2>2. /\ op'[c] = "read" /\ key'[c] = k /\ needTurn'[c] = turnFloor
        /\ UNCHANGED <<version, turnFloor, readCache>>
        /\ \/ st'[c] = "done" /\ readCache[k] # None /\ seen'[c] = readCache[k]
           \/ st'[c] = "sent"
    BY <1>1 DEF Read, Begin, server, turn, TypeOK
  <2> QED BY <2>1, <2>2 DEF InTurn, Others, TypeOK, Busy, UnderWay
<1>2. ASSUME NEW c \in Call, Mutate(c) PROVE InTurn'
  <2>1. Others(c)
    BY <1>2 DEF Mutate, Begin, Others, TypeOK
  <2>2. /\ op'[c] = "write" /\ st'[c] = "sent" /\ needTurn'[c] = turnFloor
        /\ UNCHANGED <<version, turnFloor>>
        /\ \A k \in Key : readCache'[k] = None
    BY <1>2 DEF Mutate, Begin, ClearCache, server, turn, TypeOK
  <2> QED BY <2>1, <2>2 DEF InTurn, Others, TypeOK, Busy, UnderWay
<1>3. ASSUME NEW c \in Call, Serve(c) PROVE InTurn'
  <2>1. Others(c) /\ Busy(c)
    BY <1>3 DEF Serve, Apply, Others, TypeOK, Busy, UnderWay
  <2>2. /\ st'[c] = "served" /\ seen'[c] = version'
        /\ version' \in Nat /\ version' >= version
        /\ UNCHANGED <<op, key, needTurn, turnFloor, readCache>>
    BY <1>3 DEF Serve, Apply, TypeOK, turn
  <2> QED BY <2>1, <2>2 DEF InTurn, Others, TypeOK, Busy, UnderWay
<1>4. ASSUME NEW c \in Call, ServeLate(c) PROVE InTurn'
  <2>1. /\ version' \in Nat /\ version' >= version
        /\ UNCHANGED <<st, op, key, seen, needTurn, turnFloor, readCache>>
    BY <1>4 DEF ServeLate, Apply, TypeOK, turn
  <2> QED BY <2>1 DEF InTurn, TypeOK, Busy
<1>5. ASSUME NEW c \in Call, Answer(c) PROVE InTurn'
  <2>1. /\ Others(c) /\ Busy(c) /\ st'[c] = "done" /\ st[c] = "served"
        /\ UNCHANGED <<op, key, needTurn, seen, version, turnFloor>>
    BY <1>5 DEF Answer, Others, TypeOK, Busy, UnderWay, server, turn
  <2>2. seen[c] \in Nat /\ seen[c] >= turnFloor
    BY <2>1 DEF InTurn, TypeOK
  <2>3. \A k \in Key : readCache'[k] # None => readCache'[k] >= turnFloor
    <3>1. CASE op[c] = "read"
      <4>1. key[c] \in Key /\ readCache' = [readCache EXCEPT ![key[c]] = seen[c]]
        BY <1>5, <2>1, <3>1 DEF Answer, InTurn
      <4> QED BY <2>2, <4>1 DEF InTurn, TypeOK
    <3>2. CASE op[c] # "read"
      BY <1>5, <3>2 DEF Answer, InTurn
    <3> QED BY <3>1, <3>2
  <2> QED BY <2>1, <2>2, <2>3 DEF InTurn, Others, TypeOK, Busy, UnderWay
<1>6. ASSUME NEW c \in Call, Refused(c) \/ TransportError(c) PROVE InTurn'
  <2>1. Others(c) /\ Busy(c)
    BY <1>6 DEF Refused, TransportError, Others, TypeOK, Busy, UnderWay
  <2>2. /\ st'[c] \in {"sent", "failed"}
        /\ UNCHANGED <<op, key, needTurn, seen, version, turnFloor, readCache>>
    BY <1>6 DEF Refused, TransportError, TypeOK, server, turn
  <2> QED BY <2>1, <2>2 DEF InTurn, Others, TypeOK, Busy, UnderWay
<1>7. CASE StartTurn
  <2>1. /\ UNCHANGED <<version, calls>> /\ turnFloor' = version
        /\ \A k \in Key : readCache'[k] = None
        /\ \A c \in Call : ~Busy(c)
    BY <1>7 DEF StartTurn, ClearCache, Idle, server
  <2> QED BY <2>1 DEF InTurn, calls, Busy, UnderWay, TypeOK
<1>8. CASE ExternalChange
  <2>1. version' >= version /\ version' \in Nat
        /\ UNCHANGED <<turnFloor, calls, readCache>>
    BY <1>8 DEF ExternalChange, TypeOK, turn
  <2> QED BY <2>1 DEF InTurn, calls, Busy, TypeOK
<1>9. CASE UNCHANGED vars
  BY <1>9 DEF vars, server, turn, calls, InTurn, Busy
<1> QED BY <1>1, <1>2, <1>3, <1>4, <1>5, <1>6, <1>7, <1>8, <1>9 DEF Next

(* As long as every call ends before the next turn starts, parallel calls included,  *)
(* no read of a turn shows data older than the turn.                                *)
THEOREM TurnFreshnessHolds == Spec => []TurnFreshness
<1>1. Init => TypeOK /\ TurnInv
  BY TypeInit, TurnInit
<1>2. TypeOK /\ TurnInv /\ [Next]_vars => (TypeOK /\ TurnInv)'
  <2> SUFFICES ASSUME TypeOK, TurnInv, [Next]_vars PROVE TypeOK' /\ TurnInv'
    OBVIOUS
  <2>1. TypeOK'
    BY TypeNext, ConstantsAssumption
  <2>2. ASSUME ~outlived' PROVE InTurn'
    <3>1. InTurn
      BY <2>2, OutlivedStays DEF TurnInv
    <3> QED BY <2>2, <3>1, TurnNext
  <2> QED BY <2>1, <2>2 DEF TurnInv
<1>3. TurnInv => TurnFreshness
  BY DEF TurnInv, InTurn, TurnFreshness
<1> QED BY <1>1, <1>2, <1>3, PTL DEF Spec
=============================================================================
