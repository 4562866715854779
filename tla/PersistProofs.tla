--------------------------- MODULE PersistProofs ---------------------------
(* Theorems about ResilientPersistence for every set of wrappers and operations    *)
(* and every number of expiries.                                                  *)
EXTENDS ResilientPersistence, FiniteSetTheorems, TLAPS

LEMMA LargerType ==
    ASSUME NEW m \in Nat, NEW n \in Nat
    PROVE  Larger(m, n) \in Nat /\ Larger(m, n) >= m /\ Larger(m, n) >= n
  BY DEF Larger

LEMMA RunLocallyType ==
    ASSUME TypeOK, NEW o \in Op, NEW k \in {"put", "get"}, NEW v \in Nat,
           RunLocally(o, k, v)
    PROVE  /\ st' = [st EXCEPT ![o] = "done"]
           /\ val' \in [Op -> Nat]
           /\ primary' \in [Wrapper -> Nat] /\ fallback' \in [Wrapper -> Nat]
           /\ latestLocal' \in [Wrapper -> Nat]
<1>1. WrapperOf[o] \in Wrapper
  BY ConstantsAssumption
<1>2. LocalResult(WrapperOf[o], k, v) \in Nat
  BY <1>1 DEF LocalResult, TypeOK
<1>3. \A f \in [Wrapper -> Nat] :
         [f EXCEPT ![WrapperOf[o]] = Larger(@, v)] \in [Wrapper -> Nat]
  BY <1>1, LargerType
<1> HIDE DEF LocalResult
<1>4. /\ st' = [st EXCEPT ![o] = "done"] /\ primary' = primary
      /\ val' = [val EXCEPT ![o] = LocalResult(WrapperOf[o], k, v)] \/ val' = val
  BY DEF RunLocally
<1> QED BY <1>2, <1>3 DEF RunLocally, TypeOK

LEMMA InitType == ASSUME Init PROVE TypeOK
<1>1. valid \in BOOLEAN /\ warned \in BOOLEAN /\ queued \in BOOLEAN
  BY DEF Init
<1>2. /\ primary \in [Wrapper -> Nat] /\ fallback \in [Wrapper -> Nat]
      /\ latestLocal \in [Wrapper -> Nat]
      /\ degraded \in [Wrapper -> BOOLEAN] /\ turn \in [Wrapper -> Turn]
  BY DEF Init, Turn
<1> QED BY <1>1, <1>2 DEF Init, TypeOK

\* A step of the turn of w, which leaves the wrappers alone and cancels operations only.
TurnStep(w) == BeginTurn(w) \/ Resume(w) \/ TurnEnds(w) \/ Cut(w)

LEMMA TurnType ==
    ASSUME TypeOK, NEW w \in Wrapper, TurnStep(w)
    PROVE  /\ TypeOK'
           /\ UNCHANGED <<credentials, degraded, stores, kind, val, need, overlapped, warned>>
           /\ \A o \in Op : st'[o] = st[o] \/ (st[o] = "primary" /\ st'[o] = "other_error")
<1>1. CASE Cut(w)
  <2>1. /\ turn' = [turn EXCEPT ![w] = "idle"]
        /\ st' = [o \in Op |-> IF o \in Pending(w) THEN "other_error" ELSE st[o]]
        /\ lost' \in {lost, lost \cup {w}}
        /\ UNCHANGED <<warned, queued, told, credentials, degraded, stores>>
        /\ UNCHANGED <<kind, val, need, overlapped>>
    BY <1>1 DEF Cut, Go
  <2>2. ASSUME NEW o \in Op
        PROVE  st'[o] = st[o] \/ (st[o] = "primary" /\ st'[o] = "other_error")
    <3>1. st'[o] = IF o \in Pending(w) THEN "other_error" ELSE st[o]
      BY <2>1
    <3> QED BY <3>1 DEF Pending
  <2>3. turn' \in [Wrapper -> Turn]
    BY <2>1 DEF TypeOK, Turn
  <2>4. st' \in [Op -> {"unused", "primary", "done", "auth_error", "other_error"}]
    BY <2>1 DEF TypeOK
  <2> QED BY <2>1, <2>2, <2>3, <2>4 DEF TypeOK, credentials, stores
<1>2. CASE ~Cut(w)
  <2>1. UNCHANGED <<credentials, degraded, stores, ops, warned>>
    BY <1>2 DEF TurnStep, TurnEnds, BeginTurn, Resume, Tell, SendFails, Sent, StreamEnds,
                SummaryEnds, Drain, notice
  <2>2. \E to \in Turn : turn' = [turn EXCEPT ![w] = to]
    BY <1>2 DEF TurnStep, TurnEnds, BeginTurn, Resume, Tell, SendFails, Sent, StreamEnds,
                SummaryEnds, Drain, Go, Turn
  <2>3. queued' \in BOOLEAN /\ told' \subseteq Wrapper /\ lost' \subseteq Wrapper
    BY <1>2 DEF TurnStep, TurnEnds, BeginTurn, Resume, Tell, SendFails, Sent, StreamEnds,
                SummaryEnds, Drain, notice, TypeOK
  <2>4. turn' \in [Wrapper -> Turn]
    BY <2>2 DEF TypeOK
  <2>5. TypeOK'
    BY <2>1, <2>3, <2>4 DEF TypeOK, credentials, stores, ops
  <2> QED BY <2>1, <2>5 DEF ops
<1> QED BY <1>1, <1>2

LEMMA TypeNext == ASSUME TypeOK, [Next]_vars PROVE TypeOK'
<1>1. CASE Expire
  <2>1. expiries' = expiries + 1 /\ expiries \in Nat
    BY <1>1 DEF Expire, TypeOK
  <2>2. valid' = FALSE /\ UNCHANGED <<degraded, notice, turn, stores, ops>>
    BY <1>1 DEF Expire
  <2>3. expiries' \in Nat
    BY <2>1
  <2> QED BY <2>2, <2>3 DEF TypeOK, notice, stores, ops
<1>2. CASE Refresh
  BY <1>2 DEF Refresh, TypeOK, notice, stores, ops
<1>3. ASSUME NEW o \in Op, NEW k \in {"put", "get"}, Begin(o, k) PROVE TypeOK'
  <2>1. WrapperOf[o] \in Wrapper
    BY ConstantsAssumption
  <2>2. clock' \in Nat /\ UNCHANGED <<credentials, degraded, notice, turn>>
    <3>1. clock \in Nat
      BY DEF TypeOK
    <3> QED BY <1>3, <3>1 DEF Begin
  <2>3. kind' \in [Op -> {"put", "get"}] /\ need' \in [Op -> Nat]
    <3>1. latestLocal[WrapperOf[o]] \in Nat
      BY <2>1 DEF TypeOK
    <3>2. kind' = [kind EXCEPT ![o] = k]
          /\ need' = [need EXCEPT ![o] = latestLocal[WrapperOf[o]]]
      BY <1>3 DEF Begin
    <3> QED BY <3>1, <3>2 DEF TypeOK
  <2>4. overlapped' \subseteq Wrapper
    BY <1>3, <2>1 DEF Begin, TypeOK
  <2>5. CASE degraded[WrapperOf[o]]
    <3>1. RunLocally(o, k, clock')
      BY <1>3, <2>5 DEF Begin
    <3>2. st' = [st EXCEPT ![o] = "done"]
          /\ val' \in [Op -> Nat]
          /\ primary' \in [Wrapper -> Nat] /\ fallback' \in [Wrapper -> Nat]
          /\ latestLocal' \in [Wrapper -> Nat]
      BY <2>2, <3>1, RunLocallyType
    <3> QED BY <2>2, <2>3, <2>4, <3>2 DEF TypeOK, credentials, notice
  <2>6. CASE ~degraded[WrapperOf[o]]
    <3>1. /\ st' = [st EXCEPT ![o] = "primary"]
          /\ val' = [val EXCEPT ![o] = clock']
          /\ UNCHANGED <<primary, fallback, latestLocal>>
      BY <1>3, <2>6 DEF Begin
    <3> QED BY <2>2, <2>3, <2>4, <3>1 DEF TypeOK, credentials, notice
  <2> QED BY <2>5, <2>6
<1>4. ASSUME NEW o \in Op, Succeed(o) PROVE TypeOK'
  <2>1. WrapperOf[o] \in Wrapper /\ val[o] \in Nat
    BY ConstantsAssumption DEF TypeOK
  <2>2. primary' \in [Wrapper -> Nat]
    <3>1. \A f \in [Wrapper -> Nat] :
             [f EXCEPT ![WrapperOf[o]] = Larger(@, val[o])] \in [Wrapper -> Nat]
      BY <2>1, LargerType
    <3>2. CASE kind[o] = "put"
      <4>1. [primary EXCEPT ![WrapperOf[o]] = Larger(@, val[o])] \in [Wrapper -> Nat]
        BY <3>1 DEF TypeOK
      <4> QED BY <1>4, <3>2, <4>1 DEF Succeed
    <3>3. CASE kind[o] # "put"
      BY <1>4, <3>3 DEF Succeed, TypeOK
    <3> QED BY <3>2, <3>3
  <2>3. val' \in [Op -> Nat]
    BY <1>4, <2>1 DEF Succeed, TypeOK
  <2>4. st' \in [Op -> {"unused", "primary", "done", "auth_error", "other_error"}]
    BY <1>4 DEF Succeed, TypeOK
  <2> QED BY <1>4, <2>2, <2>3, <2>4 DEF Succeed, TypeOK, credentials, notice
<1>5. ASSUME NEW o \in Op, CredentialError(o) PROVE TypeOK'
  <2>1. UNCHANGED <<clock, kind, need, overlapped, told, lost, turn, credentials>>
    BY <1>5 DEF CredentialError
  <2>2. CASE ~degraded[WrapperOf[o]]
    <3>1. RunLocally(o, kind[o], val[o])
          /\ degraded' = [degraded EXCEPT ![WrapperOf[o]] = TRUE] /\ Warn
      BY <1>5, <2>2 DEF CredentialError
    <3>2. kind[o] \in {"put", "get"} /\ val[o] \in Nat
      BY DEF TypeOK
    <3>3. st' = [st EXCEPT ![o] = "done"]
          /\ val' \in [Op -> Nat]
          /\ primary' \in [Wrapper -> Nat] /\ fallback' \in [Wrapper -> Nat]
          /\ latestLocal' \in [Wrapper -> Nat]
      BY <3>1, <3>2, RunLocallyType
    <3>4. degraded' \in [Wrapper -> BOOLEAN]
      BY <3>1 DEF TypeOK
    <3>5. warned' \in BOOLEAN /\ queued' \in BOOLEAN
      BY <3>1 DEF TypeOK, Warn
    <3> QED BY <2>1, <3>3, <3>4, <3>5 DEF TypeOK, credentials
  <2>3. CASE degraded[WrapperOf[o]]
    BY <1>5, <2>1, <2>3 DEF CredentialError, TypeOK, credentials
  <2> QED BY <2>2, <2>3
<1>6. ASSUME NEW o \in Op, OtherError(o) PROVE TypeOK'
  BY <1>6 DEF OtherError, TypeOK, credentials, notice, stores
<1>7. ASSUME NEW w \in Wrapper, TurnStep(w) PROVE TypeOK'
  BY <1>7, TurnType
<1>8. CASE UNCHANGED vars
  BY <1>8 DEF TypeOK, vars, credentials, notice, stores, ops
<1> QED
  BY <1>1, <1>2, <1>3, <1>4, <1>5, <1>6, <1>7, <1>8 DEF Next, OpStep, TurnStep

(* Every reachable state of the wrappers and of the notice has its type.           *)
THEOREM PersistTypeCorrect == Spec => []TypeOK
<1>1. Init => TypeOK
  BY InitType
<1>2. TypeOK /\ [Next]_vars => TypeOK'
  BY TypeNext
<1> QED BY <1>1, <1>2, PTL DEF Spec

-----------------------------------------------------------------------------
(* The notice. Before the first degradation there is none; from then on it is queued, or  *)
(* with one turn, or with that turn's client, or lost.                                    *)
Gone == Telling \cup told \cup lost

NoticeInv ==
    /\ (\E w \in Wrapper : degraded[w]) => warned
    /\ warned => queued \/ Gone # {}
    /\ ~warned => ~queued /\ Gone = {}
    /\ queued => Gone = {}
    /\ \A v, w \in Gone : v = w
    /\ Telling \cap (told \cup lost) = {} /\ told \cap lost = {}

\* A turn that drains what is queued is the only one to have it.
LEMMA NoticeDrained ==
    ASSUME TypeOK, NoticeInv, NEW w \in Wrapper, NEW telling \in {"telling", "retelling"},
           NEW past \in {"stream", "summary"}, turn[w] \in {"idle", "stream"},
           Drain(w, telling, past), UNCHANGED degraded
    PROVE  NoticeInv'
<1>1. /\ turn \in [Wrapper -> Turn] /\ queued' = FALSE
      /\ UNCHANGED <<warned, told, lost, degraded>>
  BY DEF Drain, TypeOK
<1>2. CASE queued
  <2>1. Telling' = {w}
    BY <1>1, <1>2 DEF Drain, Go, NoticeInv, Gone, Telling
  <2> QED BY <1>1, <1>2, <2>1 DEF NoticeInv, Gone
<1>3. CASE ~queued
  <2>1. Telling' = Telling
    BY <1>1, <1>3 DEF Drain, Go, Telling
  <2> QED BY <1>1, <1>3, <2>1 DEF NoticeInv, Gone
<1> QED BY <1>2, <1>3

LEMMA NoticeTurn ==
    ASSUME TypeOK, NoticeInv, NEW w \in Wrapper, TurnStep(w)
    PROVE  NoticeInv'
<1>1. turn \in [Wrapper -> Turn] /\ UNCHANGED <<degraded, warned>>
  BY TurnType DEF TypeOK
<1>2. CASE BeginTurn(w)
  BY <1>1, <1>2, NoticeDrained DEF BeginTurn
<1>3. CASE StreamEnds(w) /\ turn[w] = "stream"
  BY <1>1, <1>3, NoticeDrained DEF StreamEnds
<1>4. CASE Resume(w) \/ SummaryEnds(w) \/ (StreamEnds(w) /\ turn[w] # "stream")
  <2>1. /\ UNCHANGED notice /\ turn[w] \notin {"telling", "retelling"}
        /\ \E to \in {"resumed", "idle", "summary"} : turn' = [turn EXCEPT ![w] = to]
    BY <1>4 DEF Resume, SummaryEnds, StreamEnds, Go
  <2>2. Telling' = Telling
    BY <1>1, <2>1 DEF Telling
  <2> QED BY <1>1, <2>1, <2>2 DEF notice, NoticeInv, Gone
<1>5. CASE Tell(w) \/ SendFails(w) \/ (Cut(w) /\ w \in Telling)
  <2>1. /\ w \in Telling /\ UNCHANGED queued
        /\ \E to \in {"stream", "summary", "idle"} : turn' = [turn EXCEPT ![w] = to]
        /\ \/ told' = told \cup {w} /\ lost' = lost
           \/ lost' = lost \cup {w} /\ told' = told
    BY <1>5 DEF Tell, SendFails, Sent, Cut, Go, Telling
  <2>2. Telling' = Telling \ {w}
    BY <1>1, <2>1 DEF Telling
  <2>3. Gone' = Gone
    BY <2>1, <2>2 DEF Gone
  <2>4. Telling \cap (told \cup lost) = {} /\ told \cap lost = {}
    BY DEF NoticeInv
  <2>5. Telling' \cap (told' \cup lost') = {} /\ told' \cap lost' = {}
    BY <2>1, <2>2, <2>4
  <2> QED BY <1>1, <2>1, <2>3, <2>5 DEF NoticeInv
<1>6. CASE Cut(w) /\ w \notin Telling
  <2>1. UNCHANGED notice /\ turn' = [turn EXCEPT ![w] = "idle"]
    BY <1>1, <1>6 DEF Cut, Go, Telling, notice
  <2>2. Telling' = Telling
    BY <1>1, <1>6, <2>1 DEF Telling
  <2> QED BY <1>1, <2>1, <2>2 DEF notice, NoticeInv, Gone
<1> QED BY <1>2, <1>3, <1>4, <1>5, <1>6 DEF TurnStep, TurnEnds

LEMMA NoticeNext == ASSUME TypeOK, NoticeInv, [Next]_vars PROVE NoticeInv'
<1>1. ASSUME NEW o \in Op, CredentialError(o) PROVE NoticeInv'
  <2>0. Telling' = Telling /\ Gone' = Gone /\ UNCHANGED <<told, lost>>
    BY <1>1 DEF CredentialError, Telling, Gone
  <2>1. CASE degraded[WrapperOf[o]]
    BY <1>1, <2>0, <2>1 DEF CredentialError, NoticeInv
  <2>2. CASE ~degraded[WrapperOf[o]]
    <3>1. warned' = TRUE /\ queued' = (queued \/ ~warned)
      BY <1>1, <2>2 DEF CredentialError, Warn
    <3> QED BY <2>0, <3>1 DEF NoticeInv
  <2> QED BY <2>1, <2>2
<1>2. ASSUME NEW w \in Wrapper, TurnStep(w) PROVE NoticeInv'
  BY <1>2, NoticeTurn
<1>3. ASSUME NEW o \in Op,
             Succeed(o) \/ OtherError(o) \/ \E k \in {"put", "get"} : Begin(o, k)
      PROVE  NoticeInv'
  <2>1. UNCHANGED <<degraded, notice, turn>>
    BY <1>3 DEF Succeed, OtherError, Begin
  <2> QED BY <2>1 DEF notice, NoticeInv, Gone, Telling
<1>4. CASE Expire \/ Refresh \/ UNCHANGED vars
  BY <1>4 DEF Expire, Refresh, vars, notice, NoticeInv, Gone, Telling
<1> QED BY <1>1, <1>2, <1>3, <1>4 DEF Next, OpStep, TurnStep

(* However many conversations degrade and however their operations and turns interleave, *)
(* the degradation notice is not repeated, and is lost only by the turn that drained it,   *)
(* when that turn is cut or its send fails before the client has it.                      *)
THEOREM OneNoticeHolds == Spec => []OneNotice
<1>1. Init => TypeOK /\ NoticeInv
  BY InitType DEF Init, NoticeInv, Gone, Telling
<1>2. TypeOK /\ NoticeInv /\ [Next]_vars => (TypeOK /\ NoticeInv)'
  BY TypeNext, NoticeNext
<1>3. NoticeInv => OneNotice
  BY DEF NoticeInv, OneNotice, Gone
<1> QED BY <1>1, <1>2, <1>3, PTL DEF Spec

-----------------------------------------------------------------------------
(* A wrapper none of whose operations have overlapped: one that is under way finds  *)
(* it whole, and no credential error has been raised.                               *)
WholeOf(w) ==
    /\ \A o \in Op : st[o] = "primary" /\ WrapperOf[o] = w => ~degraded[w]
    /\ \A o, x \in Op : st[o] = "primary" /\ st[x] = "primary"
                            /\ WrapperOf[o] = w /\ WrapperOf[x] = w => o = x
    /\ \A o \in Op : st[o] = "auth_error" => WrapperOf[o] # w

WholeInv == \A w \in Wrapper \ overlapped : WholeOf(w)

LEMMA WholeNext ==
    ASSUME TypeOK, WholeInv, [Next]_vars
    PROVE  WholeInv'
<1> SUFFICES ASSUME NEW w \in Wrapper \ overlapped' PROVE WholeOf(w)'
  BY DEF WholeInv
<1>0. w \notin overlapped /\ WholeOf(w)
  <2>1. overlapped \subseteq overlapped'
    BY TurnType DEF Next, OpStep, TurnStep, Expire, Refresh, Begin, Succeed, CredentialError,
                    OtherError, vars, ops
  <2> QED BY <2>1 DEF WholeInv
<1> DEFINE States == {"unused", "primary", "done", "auth_error", "other_error"}
<1>9. /\ WrapperOf \in [Op -> Wrapper] /\ st \in [Op -> States]
      /\ degraded \in [Wrapper -> BOOLEAN] /\ w \in Wrapper
  BY ConstantsAssumption DEF TypeOK, ConstantsAssumption
<1> HIDE DEF States
<1>1. ASSUME NEW o \in Op, NEW k \in {"put", "get"}, Begin(o, k) PROVE WholeOf(w)'
  <2>1. UNCHANGED degraded /\ (WrapperOf[o] = w => ~Overlaps(o))
    BY <1>1 DEF Begin
  <2>2. \/ st' = [st EXCEPT ![o] = "done"]
        \/ st' = [st EXCEPT ![o] = "primary"] /\ ~degraded[WrapperOf[o]]
    BY <1>1 DEF Begin, RunLocally
  <2>3. WrapperOf[o] = w =>
          \A x \in Op \ {o} : WrapperOf[x] = w => st[x] # "primary"
    BY <2>1 DEF Overlaps
  <2>4. \A x \in Op \ {o} : st'[x] = st[x]
    BY <1>9, <2>2
  <2>5. st'[o] = "done" \/ (st'[o] = "primary" /\ ~degraded[WrapperOf[o]])
    BY <1>9, <2>2
  <2> QED BY <1>0, <1>9, <2>1, <2>3, <2>4, <2>5 DEF WholeOf
<1>2. ASSUME NEW o \in Op, Succeed(o) \/ OtherError(o) PROVE WholeOf(w)'
  <2>1. UNCHANGED degraded /\ \E s \in {"done", "other_error"} : st' = [st EXCEPT ![o] = s]
    BY <1>2 DEF Succeed, OtherError
  <2> QED BY <1>0, <1>9, <2>1 DEF WholeOf
<1>3. ASSUME NEW o \in Op, CredentialError(o) PROVE WholeOf(w)'
  <2>1. CASE degraded[WrapperOf[o]]
    <3>1. /\ st[o] = "primary" /\ UNCHANGED degraded
          /\ st' = [st EXCEPT ![o] = "auth_error"]
      BY <1>3, <2>1 DEF CredentialError
    <3> QED BY <1>0, <1>9, <2>1, <3>1 DEF WholeOf
  <2>2. CASE ~degraded[WrapperOf[o]]
    <3>1. /\ st' = [st EXCEPT ![o] = "done"]
          /\ degraded' = [degraded EXCEPT ![WrapperOf[o]] = TRUE]
          /\ st[o] = "primary"
      BY <1>3, <2>2 DEF CredentialError, RunLocally
    <3> QED BY <1>0, <1>9, <3>1 DEF WholeOf
  <2> QED BY <2>1, <2>2
<1>4. ASSUME Expire \/ Refresh \/ UNCHANGED vars PROVE WholeOf(w)'
  BY <1>0, <1>4 DEF Expire, Refresh, vars, ops, WholeOf
<1>5. ASSUME NEW x \in Wrapper, TurnStep(x) PROVE WholeOf(w)'
  <2>1. /\ UNCHANGED degraded
        /\ \A o \in Op : st'[o] = st[o] \/ (st[o] = "primary" /\ st'[o] = "other_error")
    BY <1>5, TurnType
  <2> QED BY <1>0, <2>1 DEF WholeOf
<1> QED BY <1>1, <1>2, <1>3, <1>4, <1>5 DEF Next, OpStep, TurnStep

(* A credential error is raised only by an operation of a wrapper of which          *)
(* operations have overlapped.                                                      *)
THEOREM ErrorsAbsorbedHolds == Spec => []ErrorsAbsorbed
<1>1. Init => TypeOK /\ WholeInv
  BY InitType DEF Init, WholeInv, WholeOf
<1>2. TypeOK /\ WholeInv /\ [Next]_vars => (TypeOK /\ WholeInv)'
  BY TypeNext, WholeNext
<1>3. TypeOK /\ WholeInv => ErrorsAbsorbed
  BY ConstantsAssumption DEF WholeInv, WholeOf, ErrorsAbsorbed, ConstantsAssumption
<1> QED BY <1>1, <1>2, <1>3, PTL DEF Spec
-----------------------------------------------------------------------------
(* What is in memory. Nothing is put there before the wrapper is degraded, so an     *)
(* operation that was sent to the primary needs nothing of it; what was put there   *)
(* stays.                                                                           *)
LocalInv ==
    /\ \A w \in Wrapper : latestLocal[w] <= fallback[w]
    /\ \A w \in Wrapper : ~degraded[w] => latestLocal[w] = 0
    /\ \A o \in Op : st[o] = "primary" => need[o] = 0
    /\ LocalHistoryKept

LEMMA LocalFrame ==
    ASSUME LocalInv, UNCHANGED <<degraded, latestLocal, fallback, need, kind, val>>,
           \A o \in Op : st'[o] = st[o] \/ st'[o] \in {"other_error", "auth_error"}
    PROVE  LocalInv'
  BY DEF LocalInv, LocalHistoryKept

(* An operation carried out in memory finds there all that it needs.                *)
LEMMA LocalRun ==
    ASSUME TypeOK, LocalInv, NEW o \in Op, NEW k \in {"put", "get"}, NEW v \in Nat,
           RunLocally(o, k, v), degraded'[WrapperOf[o]],
           \A w \in Wrapper \ {WrapperOf[o]} : degraded'[w] = degraded[w],
           kind' \in [Op -> {"put", "get"}], kind' = [kind EXCEPT ![o] = k],
           \E n \in Nat : n <= latestLocal[WrapperOf[o]] /\ need' = [need EXCEPT ![o] = n]
    PROVE  LocalInv'
<1> DEFINE u == WrapperOf[o]
<1>1. /\ u \in Wrapper /\ st \in [Op -> {"unused", "primary", "done", "auth_error", "other_error"}]
      /\ need \in [Op -> Nat] /\ val \in [Op -> Nat] /\ kind \in [Op -> {"put", "get"}]
      /\ latestLocal \in [Wrapper -> Nat] /\ fallback \in [Wrapper -> Nat]
  BY ConstantsAssumption DEF TypeOK
<1>2. /\ st' = [st EXCEPT ![o] = "done"]
      /\ val' = [val EXCEPT ![o] = IF k = "put" THEN v ELSE fallback[u]]
  BY DEF RunLocally, LocalResult
<1>3. PICK n \in Nat : n <= latestLocal[u] /\ need' = [need EXCEPT ![o] = n]
  OBVIOUS
<1>4. \A w \in Wrapper : latestLocal'[w] <= fallback'[w]
  <2>1. CASE k = "put"
    <3>1. /\ fallback' = [fallback EXCEPT ![u] = Larger(@, v)]
          /\ latestLocal' = [latestLocal EXCEPT ![u] = Larger(@, v)]
      BY <2>1 DEF RunLocally
    <3>2. Larger(latestLocal[u], v) <= Larger(fallback[u], v)
      <4>1. latestLocal[u] \in Nat /\ fallback[u] \in Nat /\ latestLocal[u] <= fallback[u]
        BY <1>1 DEF LocalInv
      <4> QED BY <4>1 DEF Larger
    <3> QED BY <1>1, <3>1, <3>2 DEF LocalInv
  <2>2. CASE k # "put"
    BY <2>2 DEF RunLocally, LocalInv
  <2> QED BY <2>1, <2>2
<1>5. \A w \in Wrapper : ~degraded'[w] => latestLocal'[w] = 0
  <2>1. \A w \in Wrapper \ {u} : latestLocal'[w] = latestLocal[w]
    BY <1>1 DEF RunLocally
  <2> QED BY <2>1 DEF LocalInv
<1>6. \A x \in Op : st'[x] = "primary" => need'[x] = 0
  BY <1>1, <1>2, <1>3 DEF LocalInv
<1>7. LocalHistoryKept'
  <2> SUFFICES ASSUME NEW x \in Op, st'[x] = "done", kind'[x] = "get" PROVE val'[x] >= need'[x]
    BY DEF LocalHistoryKept
  <2>1. CASE x = o
    <3>1. k = "get"
      BY <1>1, <2>1
    <3>2. val'[o] = fallback[u] /\ need'[o] = n
      BY <1>1, <1>2, <1>3, <3>1
    <3>3. latestLocal[u] \in Nat /\ fallback[u] \in Nat /\ latestLocal[u] <= fallback[u]
      BY <1>1 DEF LocalInv
    <3> QED BY <1>3, <2>1, <3>2, <3>3
  <2>2. CASE x # o
    <3>1. st[x] = "done" /\ kind[x] = "get" /\ val'[x] = val[x] /\ need'[x] = need[x]
      BY <1>1, <1>2, <1>3, <2>2
    <3> QED BY <3>1 DEF LocalInv, LocalHistoryKept
  <2> QED BY <2>1, <2>2
<1> QED BY <1>4, <1>5, <1>6, <1>7 DEF LocalInv

LEMMA LocalNext == ASSUME TypeOK, LocalInv, [Next]_vars PROVE LocalInv'
<1>0. /\ WrapperOf \in [Op -> Wrapper] /\ degraded \in [Wrapper -> BOOLEAN]
      /\ st \in [Op -> {"unused", "primary", "done", "auth_error", "other_error"}]
      /\ need \in [Op -> Nat] /\ val \in [Op -> Nat] /\ kind \in [Op -> {"put", "get"}]
      /\ latestLocal \in [Wrapper -> Nat] /\ primary \in [Wrapper -> Nat] /\ clock \in Nat
  BY ConstantsAssumption DEF TypeOK
<1>1. ASSUME NEW o \in Op, NEW k \in {"put", "get"}, Begin(o, k) PROVE LocalInv'
  <2>1. /\ UNCHANGED degraded /\ WrapperOf[o] \in Wrapper
        /\ kind' = [kind EXCEPT ![o] = k]
        /\ need' = [need EXCEPT ![o] = latestLocal[WrapperOf[o]]]
    BY <1>0, <1>1 DEF Begin
  <2>2. CASE degraded[WrapperOf[o]]
    <3>1. RunLocally(o, k, clock')
      BY <1>1, <2>2 DEF Begin
    <3>2. clock' \in Nat /\ kind' \in [Op -> {"put", "get"}]
      <4>1. clock' \in Nat
        BY <1>0, <1>1 DEF Begin
      <4>2. kind' \in [Op -> {"put", "get"}]
        BY <1>0, <2>1
      <4> QED BY <4>1, <4>2
    <3>3. \E n \in Nat : n <= latestLocal[WrapperOf[o]] /\ need' = [need EXCEPT ![o] = n]
      <4>1. latestLocal[WrapperOf[o]] \in Nat
        BY <1>0, <2>1
      <4>2. latestLocal[WrapperOf[o]] <= latestLocal[WrapperOf[o]]
        BY <4>1
      <4>3. need' = [need EXCEPT ![o] = latestLocal[WrapperOf[o]]]
        BY <2>1
      <4> QED BY <4>1, <4>2, <4>3
    <3>4. /\ degraded'[WrapperOf[o]]
          /\ \A w \in Wrapper \ {WrapperOf[o]} : degraded'[w] = degraded[w]
      BY <2>1, <2>2, Zenon
    <3> QED BY <2>1, <3>1, <3>2, <3>3, <3>4, LocalRun
  <2>3. CASE ~degraded[WrapperOf[o]]
    <3>1. /\ st' = [st EXCEPT ![o] = "primary"]
          /\ val' = [val EXCEPT ![o] = clock']
          /\ UNCHANGED <<fallback, latestLocal>>
      BY <1>1, <2>3 DEF Begin
    <3>2. latestLocal[WrapperOf[o]] = 0
      BY <2>1, <2>3 DEF LocalInv
    <3>3. \A x \in Op \ {o} : /\ st'[x] = st[x] /\ kind'[x] = kind[x]
                              /\ val'[x] = val[x] /\ need'[x] = need[x]
      BY <1>0, <2>1, <3>1
    <3>4. st'[o] = "primary" /\ need'[o] = 0
      BY <1>0, <2>1, <3>1, <3>2
    <3> QED BY <2>1, <3>1, <3>3, <3>4 DEF LocalInv, LocalHistoryKept
  <2> QED BY <2>2, <2>3
<1>2. ASSUME NEW o \in Op, Succeed(o) PROVE LocalInv'
  <2>1. /\ st[o] = "primary" /\ st' = [st EXCEPT ![o] = "done"]
        /\ UNCHANGED <<degraded, latestLocal, fallback, need, kind>>
        /\ val' = val \/ val' = [val EXCEPT ![o] = primary[WrapperOf[o]]]
    BY <1>2 DEF Succeed
  <2>2. need[o] = 0
    BY <2>1 DEF LocalInv
  <2>3. \A x \in Op \ {o} : st'[x] = st[x] /\ val'[x] = val[x]
    BY <1>0, <2>1
  <2>4. val'[o] >= need'[o] /\ st'[o] = "done"
    <3>1. /\ st'[o] = "done" /\ need'[o] = 0 /\ primary[WrapperOf[o]] \in Nat /\ val[o] \in Nat
          /\ val'[o] = val[o] \/ val'[o] = primary[WrapperOf[o]]
      BY <1>0, <2>1, <2>2
    <3> QED BY <3>1
  <2> QED BY <2>1, <2>3, <2>4 DEF LocalInv, LocalHistoryKept
<1>3. ASSUME NEW o \in Op, CredentialError(o) PROVE LocalInv'
  <2>1. st[o] = "primary" /\ UNCHANGED <<kind, need>>
    BY <1>3 DEF CredentialError
  <2>2. CASE degraded[WrapperOf[o]]
    <3>1. /\ st' = [st EXCEPT ![o] = "auth_error"]
          /\ UNCHANGED <<fallback, latestLocal, val, degraded>>
      BY <1>3, <2>2 DEF CredentialError
    <3> QED BY <1>0, <2>1, <3>1, LocalFrame
  <2>3. CASE ~degraded[WrapperOf[o]]
    <3>1. /\ degraded' = [degraded EXCEPT ![WrapperOf[o]] = TRUE]
          /\ RunLocally(o, kind[o], val[o])
      BY <1>3, <2>3 DEF CredentialError
    <3>2. need[o] = 0 /\ kind[o] \in {"put", "get"} /\ val[o] \in Nat
      BY <1>0, <2>1 DEF LocalInv
    <3>3. need' = [need EXCEPT ![o] = 0] /\ kind' = [kind EXCEPT ![o] = kind[o]]
          /\ kind' \in [Op -> {"put", "get"}]
      BY <1>0, <2>1, <3>2
    <3>4. /\ degraded'[WrapperOf[o]]
          /\ \A w \in Wrapper \ {WrapperOf[o]} : degraded'[w] = degraded[w]
      <4>1. WrapperOf[o] \in Wrapper /\ degraded \in [Wrapper -> BOOLEAN]
        BY <1>0
      <4> QED BY <3>1, <4>1, Zenon
    <3>5. \E n \in Nat : n <= latestLocal[WrapperOf[o]] /\ need' = [need EXCEPT ![o] = n]
      <4>1. 0 <= latestLocal[WrapperOf[o]]
        <5>1. latestLocal[WrapperOf[o]] \in Nat
          BY <1>0
        <5> QED BY <5>1
      <4> QED BY <3>3, <4>1
    <3> QED BY <3>1, <3>2, <3>3, <3>4, <3>5, LocalRun
  <2> QED BY <2>2, <2>3
<1>4. ASSUME NEW o \in Op, OtherError(o) PROVE LocalInv'
  <2>1. /\ UNCHANGED <<degraded, latestLocal, fallback, need, kind, val>>
        /\ st' = [st EXCEPT ![o] = "other_error"]
    BY <1>4 DEF OtherError, stores
  <2> QED BY <1>0, <2>1, LocalFrame
<1>5. ASSUME Expire \/ Refresh \/ UNCHANGED vars PROVE LocalInv'
  <2>1. UNCHANGED <<degraded, latestLocal, fallback, need, kind, val, st>>
    BY <1>5 DEF Expire, Refresh, vars, stores, ops
  <2> QED BY <2>1, LocalFrame
<1>6. ASSUME NEW w \in Wrapper, TurnStep(w) PROVE LocalInv'
  <2>1. /\ UNCHANGED <<degraded, latestLocal, fallback, need, kind, val>>
        /\ \A o \in Op : st'[o] = st[o] \/ st'[o] = "other_error"
    BY <1>6, TurnType DEF stores
  <2> QED BY <2>1, LocalFrame
<1> QED BY <1>1, <1>2, <1>3, <1>4, <1>5, <1>6 DEF Next, OpStep, TurnStep

(* A get of a degraded conversation returns every checkpoint that was put in memory *)
(* before it began, whatever is in flight when the credentials expire.              *)
THEOREM LocalHistoryKeptHolds == Spec => []LocalHistoryKept
<1>1. ASSUME Init PROVE TypeOK /\ LocalInv
  <2>1. /\ \A w \in Wrapper : latestLocal[w] = 0 /\ fallback[w] = 0
        /\ \A o \in Op : st[o] = "unused" /\ need[o] = 0
    BY <1>1 DEF Init
  <2> QED BY <1>1, <2>1, InitType DEF LocalInv, LocalHistoryKept
<1>2. TypeOK /\ LocalInv /\ [Next]_vars => (TypeOK /\ LocalInv)'
  BY TypeNext, LocalNext
<1>3. LocalInv => LocalHistoryKept
  BY DEF LocalInv
<1> QED BY <1>1, <1>2, <1>3, PTL DEF Spec
=============================================================================
