----------------------------- MODULE TurnProofs -----------------------------
(* Theorems about TurnMiddleware for every configuration, text, size and bound: what   *)
(* reaches checkpoint, prompt and memory, whose it is and in which order, and how much of  *)
(* it a trim keeps. Most needs the arithmetic of turns only: there a trim keeps some end    *)
(* of what it is given that starts with a human message.                                    *)
EXTENDS TurnMiddleware, WellFoundedInduction, TLAPS

-----------------------------------------------------------------------------
(* Last messages. A non-empty set of positions has a largest and a smallest member.       *)

LEMMA Smallest ==
    ASSUME NEW I, I \subseteq Nat, I # {}
    PROVE  \E i \in I : \A j \in I : i <= j
<1>1. PICK i \in I : \A j \in I : ~(<<j, i>> \in OpToRel(<, Nat))
  BY WFMin, NatLessThanWellFounded
<1>2. \A j \in I : ~(j < i)
  BY <1>1 DEF OpToRel
<1> QED BY <1>2

LEMMA Largest ==
    ASSUME NEW n \in Nat, NEW I, I \subseteq 1..n, I # {}
    PROVE  \E i \in I : \A j \in I : j <= i
<1> DEFINE D == {d \in Nat : \E i \in I : d = n - i}
<1>1. \A i \in I : i \in 1..n /\ n - i \in Nat
  OBVIOUS
<1>2. \A i \in I : n - i \in D
  BY <1>1
<1>3. D \subseteq Nat /\ D # {}
  BY <1>2
<1> HIDE DEF D
<1>4. PICK d \in D : \A e \in D : d <= e
  BY <1>3, Smallest
<1>5. PICK i \in I : d = n - i
  BY <1>4 DEF D
<1>6. \A j \in I : n - i <= n - j
  BY <1>2, <1>4, <1>5
<1> QED BY <1>1, <1>6

Has(ms, kinds) == \E i \in DOMAIN ms : ms[i].by \in kinds

IsLast(ms, kinds, i) ==
    /\ i \in DOMAIN ms /\ ms[i].by \in kinds
    /\ \A j \in DOMAIN ms : ms[j].by \in kinds => j <= i

LEMMA LastExists ==
    ASSUME NEW ms \in Seq(Message), NEW kinds, Has(ms, kinds)
    PROVE  IsLast(ms, kinds, LastIndex(ms, kinds))
<1> DEFINE I == {i \in 1..Len(ms) : ms[i].by \in kinds}
<1>1. I \subseteq 1..Len(ms) /\ I # {} /\ Len(ms) \in Nat
  BY DEF Has
<1>2. \E i \in I : \A j \in I : j <= i
  BY <1>1, Largest
<1>3. \E i \in DOMAIN ms : ms[i].by \in kinds /\ \A j \in DOMAIN ms : ms[j].by \in kinds => j <= i
  BY <1>2
<1> QED BY <1>3 DEF IsLast, LastIndex

LEMMA LastUnique ==
    ASSUME NEW ms \in Seq(Message), NEW kinds, NEW i, IsLast(ms, kinds, i)
    PROVE  LastIndex(ms, kinds) = i
<1>1. Has(ms, kinds)
  BY DEF IsLast, Has
<1>2. IsLast(ms, kinds, LastIndex(ms, kinds))
  BY <1>1, LastExists
<1>3. i \in Int /\ LastIndex(ms, kinds) \in Int
  BY <1>2 DEF IsLast
<1> QED BY <1>2, <1>3 DEF IsLast

\* A message of another kind does not change which is the last of this kind.
LEMMA LastKept ==
    ASSUME NEW ms \in Seq(Message), NEW kinds, Has(ms, kinds),
           NEW m \in Message, m.by \notin kinds
    PROVE  /\ Has(Append(ms, m), kinds)
           /\ Append(ms, m)[LastIndex(Append(ms, m), kinds)] = ms[LastIndex(ms, kinds)]
<1> DEFINE i == LastIndex(ms, kinds)
<1>1. IsLast(ms, kinds, i)
  BY LastExists
<1>2. /\ Append(ms, m) \in Seq(Message) /\ DOMAIN Append(ms, m) = 1..(Len(ms) + 1)
      /\ Append(ms, m)[Len(ms) + 1] = m /\ DOMAIN ms = 1..Len(ms) /\ Len(ms) \in Nat
      /\ \A j \in 1..Len(ms) : Append(ms, m)[j] = ms[j]
  OBVIOUS
<1>3. IsLast(Append(ms, m), kinds, i)
  BY <1>1, <1>2 DEF IsLast
<1>4. LastIndex(Append(ms, m), kinds) = i
  BY <1>2, <1>3, LastUnique
<1> QED BY <1>1, <1>2, <1>3, <1>4 DEF IsLast, Has

\* A message of this kind becomes the last.
LEMMA LastNew ==
    ASSUME NEW ms \in Seq(Message), NEW kinds, NEW m \in Message, m.by \in kinds
    PROVE  /\ Has(Append(ms, m), kinds)
           /\ Append(ms, m)[LastIndex(Append(ms, m), kinds)] = m
<1>1. /\ Append(ms, m) \in Seq(Message) /\ DOMAIN Append(ms, m) = 1..(Len(ms) + 1)
      /\ Append(ms, m)[Len(ms) + 1] = m /\ Len(ms) \in Nat
  OBVIOUS
<1>2. IsLast(Append(ms, m), kinds, Len(ms) + 1)
  BY <1>1 DEF IsLast
<1>3. LastIndex(Append(ms, m), kinds) = Len(ms) + 1
  BY <1>1, <1>2, LastUnique
<1> QED BY <1>1, <1>2, <1>3 DEF IsLast, Has

LEMMA RangeType ==
    ASSUME NEW S, NEW s \in Seq(S)
    PROVE  Range(s) \subseteq S /\ \A i \in DOMAIN s : s[i] \in Range(s)
  BY DEF Range

LEMMA RangeOfAppend ==
    ASSUME NEW S, NEW s \in Seq(S), NEW e \in S
    PROVE  Range(Append(s, e)) = Range(s) \cup {e}
<1>1. \A x : x \in Range(Append(s, e)) <=> \E i \in 1..(Len(s) + 1) : Append(s, e)[i] = x
  BY DEF Range
<1>2. \A x : x \in Range(s) <=> \E i \in 1..Len(s) : s[i] = x
  BY DEF Range
<1>3. \A i \in 1..Len(s) : Append(s, e)[i] = s[i]
  OBVIOUS
<1>4. Append(s, e)[Len(s) + 1] = e /\ Len(s) \in Nat
  OBVIOUS
<1> QED BY <1>1, <1>2, <1>3, <1>4

LEMMA RangeOfConcat ==
    ASSUME NEW S, NEW s \in Seq(S), NEW t \in Seq(S)
    PROVE  Range(s \o t) \subseteq Range(s) \cup Range(t)
<1>1. \A i \in 1..(Len(s) + Len(t)) :
         (s \o t)[i] = IF i <= Len(s) THEN s[i] ELSE t[i - Len(s)]
  OBVIOUS
<1>2. \A i \in 1..(Len(s) + Len(t)) : i <= Len(s) => i \in 1..Len(s)
  OBVIOUS
<1>3. \A i \in 1..(Len(s) + Len(t)) : ~(i <= Len(s)) => i - Len(s) \in 1..Len(t)
  OBVIOUS
<1>4. DOMAIN (s \o t) = 1..(Len(s) + Len(t))
  OBVIOUS
<1> QED BY <1>1, <1>2, <1>3, <1>4 DEF Range

(* A trim keeps an end of what it is given, or nothing.                                   *)
LEMMA TrimKeeps ==
    ASSUME NEW ms \in Seq(Message)
    PROVE  /\ Trim(ms) \in Seq(Message) /\ Range(Trim(ms)) \subseteq Range(ms)
           /\ \/ Trim(ms) = << >>
              \/ \E i \in 1..Len(ms) :
                   ms[i].by \in Human /\ Trim(ms) = SubSeq(ms, i, Len(ms))
<1> DEFINE fits == {i \in DOMAIN ms : /\ ms[i].by \in Human
                                      /\ Size(SubSeq(ms, i, Len(ms))) <= Budget}
<1>1. CASE fits = {}
  BY <1>1 DEF Trim, Range
<1>2. CASE fits # {}
  <2>1. fits \subseteq Nat
    OBVIOUS
  <2> DEFINE i == CHOOSE i \in fits : \A j \in fits : i <= j
  <2>2. i \in fits
    BY <1>2, <2>1, Smallest
  <2>3. Trim(ms) = SubSeq(ms, i, Len(ms))
    BY <1>2 DEF Trim
  <2>4. i \in 1..Len(ms) /\ ms[i].by \in Human
    BY <2>2
  <2> HIDE DEF i, fits
  <2>5. SubSeq(ms, i, Len(ms)) \in Seq(Message)
    BY <2>4
  <2>6. /\ DOMAIN SubSeq(ms, i, Len(ms)) = 1..(Len(ms) - i + 1)
        /\ \A j \in 1..(Len(ms) - i + 1) :
              SubSeq(ms, i, Len(ms))[j] = ms[i + j - 1] /\ i + j - 1 \in DOMAIN ms
    BY <2>4
  <2>7. Range(SubSeq(ms, i, Len(ms))) \subseteq Range(ms)
    BY <2>6 DEF Range
  <2> QED BY <2>3, <2>4, <2>5, <2>7
<1> QED BY <1>1, <1>2

-----------------------------------------------------------------------------
(* Sizes. What holds of 0, and of a number if it holds of the one before, holds up to n.     *)

LEMMA Upwards ==
    ASSUME NEW n \in Nat, NEW S, 0 \in S, \A k \in 1..n : k - 1 \in S => k \in S
    PROVE  0..n \subseteq S
<1> SUFFICES ASSUME (0..n) \ S # {} PROVE FALSE
  OBVIOUS
<1>1. PICK k \in (0..n) \ S : \A j \in (0..n) \ S : k <= j
  <2>1. (0..n) \ S \subseteq Nat
    OBVIOUS
  <2> QED BY <2>1, Smallest
<1>2. k \in 1..n /\ k - 1 \in 0..n /\ ~(k <= k - 1)
  BY <1>1
<1>3. k - 1 \in S
  BY <1>1, <1>2
<1> QED BY <1>1, <1>2, <1>3

\* f adds up the sizes of the first n messages.
AddsUp(f, n, ms) == f = [k \in 0..n |-> IF k = 0 THEN 0 ELSE f[k - 1] + ms[k].size]

LEMMA SomethingAddsUp ==
    ASSUME NEW ms \in Seq(Message)
    PROVE  \E f : AddsUp(f, Len(ms), ms)
<1> DEFINE E == {n \in 0..Len(ms) : \E f \in [0..n -> Nat] : AddsUp(f, n, ms)}
<1>1. 0 \in E
  <2> DEFINE f == [k \in 0..0 |-> 0]
  <2>1. AddsUp(f, 0, ms) /\ f \in [0..0 -> Nat]
    BY DEF AddsUp
  <2> QED BY <2>1
<1>2. ASSUME NEW n \in 1..Len(ms), n - 1 \in E PROVE n \in E
  <2>1. PICK f \in [0..(n - 1) -> Nat] : AddsUp(f, n - 1, ms)
    BY <1>2
  <2>2. ms[n].size \in Nat
    <3>1. ms[n] \in Message
      OBVIOUS
    <3> QED BY <3>1 DEF Message
  <2> DEFINE g == [k \in 0..n |-> IF k = n THEN f[n - 1] + ms[n].size ELSE f[k]]
  <2>3. f[n - 1] \in Nat /\ \A k \in 0..n : k # n => k \in 0..(n - 1)
    BY <2>1
  <2>4. g \in [0..n -> Nat]
    BY <2>1, <2>2, <2>3
  <2>5. ASSUME NEW k \in 0..n PROVE g[k] = IF k = 0 THEN 0 ELSE g[k - 1] + ms[k].size
    <3>1. CASE k = n
      BY <3>1
    <3>2. CASE k # n /\ k # 0
      <4>1. k \in 0..(n - 1) /\ k - 1 \in 0..n /\ k - 1 # n
        BY <3>2
      <4>2. f[k] = f[k - 1] + ms[k].size
        BY <2>1, <3>2, <4>1 DEF AddsUp
      <4> QED BY <3>2, <4>1, <4>2
    <3>3. CASE k # n /\ k = 0
      <4>1. f[0] = 0
        BY <2>1, <2>3, <3>3 DEF AddsUp
      <4> QED BY <3>3, <4>1
    <3> QED BY <3>1, <3>2, <3>3
  <2>6. AddsUp(g, n, ms)
    BY <2>5 DEF AddsUp
  <2> QED BY <2>4, <2>6
<1>3. Len(ms) \in E
  <2>1. \A n \in 1..Len(ms) : n - 1 \in E => n \in E
    BY <1>2
  <2>2. Len(ms) \in Nat /\ Len(ms) \in 0..Len(ms)
    OBVIOUS
  <2> HIDE DEF E
  <2>3. 0..Len(ms) \subseteq E
    BY <1>1, <2>1, <2>2, Upwards
  <2> QED BY <2>2, <2>3
<1> QED BY <1>3

LEMMA SizeIs ==
    ASSUME NEW ms \in Seq(Message)
    PROVE  /\ Size(ms) \in Nat
           /\ ms = << >> => Size(ms) = 0
<1> DEFINE h == CHOOSE f : AddsUp(f, Len(ms), ms)
<1>1. Size(ms) = h[Len(ms)]
  BY DEF Size, AddsUp
<1>2. AddsUp(h, Len(ms), ms)
  BY SomethingAddsUp
<1> HIDE DEF h
<1>3. h[0] = 0 /\ \A k \in 1..Len(ms) : h[k] = h[k - 1] + ms[k].size
  BY <1>2 DEF AddsUp
<1>4. \A k \in 1..Len(ms) : ms[k].size \in Nat
  <2>1. \A k \in 1..Len(ms) : ms[k] \in Message
    OBVIOUS
  <2> QED BY <2>1 DEF Message
<1> DEFINE S == {k \in 0..Len(ms) : h[k] \in Nat}
<1>5. 0 \in S /\ \A k \in 1..Len(ms) : k - 1 \in S => k \in S
  <2>1. 0 \in 0..Len(ms) /\ \A k \in 1..Len(ms) : k \in 0..Len(ms)
    OBVIOUS
  <2>2. ASSUME NEW k \in 1..Len(ms), k - 1 \in S PROVE h[k] \in Nat
    <3>1. h[k - 1] \in Nat /\ ms[k].size \in Nat /\ h[k] = h[k - 1] + ms[k].size
      BY <1>3, <1>4, <2>2
    <3> QED BY <3>1
  <2> QED BY <1>3, <2>1, <2>2
<1>6. h[Len(ms)] \in Nat
  <2>1. Len(ms) \in Nat /\ Len(ms) \in 0..Len(ms)
    OBVIOUS
  <2> HIDE DEF S
  <2>2. 0..Len(ms) \subseteq S
    BY <1>5, <2>1, Upwards
  <2> QED BY <2>1, <2>2 DEF S
<1> QED BY <1>1, <1>3, <1>6

-----------------------------------------------------------------------------
(* The invariant *)

LEMMA LastHumanIs ==
    ASSUME NEW ms \in Seq(Message), Has(ms, {"human"})
    PROVE  LastHuman(ms) \in Message /\ LastHuman(ms) \in Range(ms)
<1>1. LastIndex(ms, {"human"}) \in DOMAIN ms
  BY LastExists DEF IsLast
<1> QED BY <1>1, RangeType DEF LastHuman

LEMMA LastAIIs ==
    ASSUME NEW ms \in Seq(Message), Has(ms, AI)
    PROVE  LastAI(ms) \in Message /\ LastAI(ms) \in Range(ms)
<1>1. LastIndex(ms, AI) \in DOMAIN ms
  BY LastExists DEF IsLast
<1> QED BY <1>1, RangeType DEF LastAI, AI

\* A run is under way, or can be resumed; and where.
Begun      == task \notin {"none", "guard", "input"} \/ pending # "none"
At(t, ps)  == task \in t \/ pending \in ps
Answering  == At({"save", "saving"}, {"save"})
Remembered == At({"model", "calling", "tools"}, {"model", "paused", "tools"})

Summaries == saving \cup Range(saved)
Seen      == Range(messages) \cup Range(prompt)

(* A turn's number has been given out, and is not that of a message under guard or refused. *)
Fine(n) == n <= turn /\ (task = "guard" => n < turn) /\ n \notin blocked

HaveInv ==
    /\ Begun => Has(messages, {"human"})
    /\ At({"tools", "save", "saving"}, {"paused", "tools", "save"}) => Has(messages, AI)

NumberInv ==
    /\ \A m \in Seen : Fine(m.turn)
    /\ Fine(recalled)
    /\ \A s \in Summaries : Fine(s.asked)
    /\ \A n \in blocked : 0 < n /\ n <= turn /\ (task \in {"guard", "input"} => n < turn)
    /\ task = "guard" => 0 < turn

RawInv ==
    config.provider # "bedrock" =>
        /\ task = "input" /\ text.pii => turn \in unredacted
        /\ \A m \in Range(messages) : m.by = "human" /\ m.raw => m.turn \in unredacted
        /\ \A m \in Seen : m.raw => Explained(m.turn)
        /\ \A s \in Summaries : s.raw => Explained(s.asked)

\* Nothing is newer than the last question.
AgeInv == Has(messages, {"human"}) => \A m \in Seen : m.turn <= LastHuman(messages).turn

MemoryInv ==
    /\ \A m \in Range(messages) : m.by # "context"
    /\ Remembered => recalled \in {0, LastHuman(messages).turn}
    /\ OwnMemory

PairInv ==
    /\ Answering => LastAI(messages).turn = LastHuman(messages).turn
    /\ SummaryOwnTurn

TurnInv == TypeOK /\ HaveInv /\ NumberInv /\ RawInv /\ AgeInv /\ MemoryInv /\ PairInv

LEMMA SeenTypes ==
    ASSUME TypeOK
    PROVE  Seen \subseteq Message /\ Summaries \subseteq Summary
<1>1. Range(messages) \subseteq Message /\ Range(prompt) \subseteq Message
  BY RangeType DEF TypeOK
<1>2. Range(saved) \subseteq Summary /\ saving \subseteq Summary
  BY RangeType DEF TypeOK
<1> QED BY <1>1, <1>2 DEF Seen, Summaries

LEMMA NoTextIs == NoText \in [pii : BOOLEAN, topic : BOOLEAN, term : BOOLEAN] /\ ~NoText.pii
  BY DEF NoText

LEMMA NoMessages == Range(<< >>) = {}
  BY DEF Range

LEMMA TurnStart == ASSUME Init PROVE TurnInv
<1>1. TypeOK
  BY ConstantsAssumption DEF Init, TypeOK, NoText, Stage, Node
<1>2. HaveInv /\ NumberInv /\ RawInv /\ AgeInv /\ MemoryInv /\ PairInv
  BY NoMessages DEF Init, HaveInv, Begun, At, NumberInv, Fine, Seen, Summaries, RawInv,
                    AgeInv, Has, MemoryInv, Remembered, OwnMemory, PairInv, Answering, SummaryOwnTurn
<1> QED BY <1>1, <1>2 DEF TurnInv

-----------------------------------------------------------------------------
(* The steps that begin a turn *)

LEMMA TurnMessageInv == ASSUME TurnInv, NEW t \in Text, TurnMessage(t) PROVE TurnInv'
<1> USE DEF TurnInv
<1>1. /\ task = "none" /\ task' = "guard" /\ turn' = turn + 1 /\ text' = t /\ turn \in Nat
      /\ UNCHANGED <<config, messages, recalled, pending, prompt, attempt, steps, saving, saved,
                     unredacted, unchecked, blocked, dropped, resumes, cuts>>
  BY DEF TurnMessage, Idle, checkpoint, call, memory, history, TypeOK
<1>2. TypeOK'
  BY <1>1, ConstantsAssumption DEF TypeOK, Stage, Node
<1>3. HaveInv'
  BY <1>1 DEF HaveInv, Begun, At
<1>4. NumberInv'
  <2>1. /\ \A m \in Seen : m.turn \in Nat
        /\ recalled \in Nat /\ \A s \in Summaries : s.asked \in Nat
    BY SeenTypes DEF TypeOK, Message, Summary
  <2> QED BY <1>1, <2>1 DEF NumberInv, Fine, Seen, Summaries, TypeOK
<1>5. RawInv' /\ AgeInv'
  BY <1>1 DEF RawInv, AgeInv, Explained, Seen, Summaries
<1>6. MemoryInv' /\ PairInv'
  BY <1>1 DEF MemoryInv, Remembered, At, OwnMemory, PairInv, Answering, SummaryOwnTurn
<1> QED BY <1>2, <1>3, <1>4, <1>5, <1>6

LEMMA GuardedInv == ASSUME TurnInv, NEW down \in SUBSET Layer, Guarded(down) PROVE TurnInv'
<1> USE DEF TurnInv
<1>1. /\ task = "guard"
      /\ UNCHANGED <<config, turn, messages, recalled, pending, prompt, attempt, steps, saving,
                     saved, unchecked, dropped, resumes, cuts>>
      /\ unredacted' = IF Unredacted(down) THEN unredacted \cup {turn} ELSE unredacted
  BY DEF Guarded, checkpoint, call, memory
<1>2. \/ task' = "none" /\ text' = NoText /\ blocked' = blocked \cup {turn}
      \/ task' = "input" /\ text' = Redact(text, down) /\ blocked' = blocked
  BY DEF Guarded
<1>3. TypeOK'
  <2>1. Redact(text, down) \in [pii : BOOLEAN, topic : BOOLEAN, term : BOOLEAN]
    BY DEF Redact, TypeOK
  <2>2. text' \in [pii : BOOLEAN, topic : BOOLEAN, term : BOOLEAN]
    BY <1>2, <2>1, NoTextIs
  <2>3. unredacted' \subseteq Nat /\ blocked' \subseteq Nat
    BY <1>1, <1>2 DEF TypeOK
  <2>4. task' \in Stage
    BY <1>2 DEF Stage, Node
  <2> QED BY <1>1, <2>2, <2>3, <2>4 DEF TypeOK
<1>4. HaveInv'
  BY <1>1, <1>2 DEF HaveInv, Begun, At
<1>5. NumberInv'
  <2>1. turn \in Nat /\ 0 < turn /\ recalled < turn
    BY <1>1 DEF NumberInv, Fine, TypeOK
  <2>2. CASE task' = "none" /\ blocked' = blocked \cup {turn}
    <3>1. /\ \A m \in Seen : m.turn # turn
          /\ recalled # turn /\ \A s \in Summaries : s.asked # turn
      BY <1>1, SeenTypes DEF NumberInv, Fine, TypeOK, Message, Summary
    <3>2. \A n \in blocked : 0 < n /\ n <= turn
      BY DEF NumberInv
    <3> QED BY <1>1, <2>1, <2>2, <3>1, <3>2 DEF NumberInv, Fine, Seen, Summaries
  <2>3. CASE task' = "input" /\ blocked' = blocked
    BY <1>1, <2>3 DEF NumberInv, Fine, Seen, Summaries
  <2> QED BY <1>2, <2>2, <2>3
<1>6. RawInv'
  <2>1. config.provider # "bedrock" /\ Redact(text, down).pii => turn \in unredacted'
    BY <1>1 DEF Redact, Unredacted, TypeOK
  <2>2. \A n \in Nat : Explained(n) => Explained(n)'
    BY <1>1 DEF Explained
  <2>3. unredacted \subseteq unredacted'
    BY <1>1
  <2>4. \A m \in Seen : m.turn \in Nat
    BY SeenTypes DEF Message
  <2>5. \A s \in Summaries : s.asked \in Nat
    BY SeenTypes DEF Summary
  <2>6. Seen' = Seen /\ Summaries' = Summaries
    BY <1>1 DEF Seen, Summaries
  <2> QED BY <1>1, <1>2, <2>1, <2>2, <2>3, <2>4, <2>5, <2>6, NoTextIs DEF RawInv
<1>8. AgeInv'
  BY <1>1 DEF AgeInv, Seen
<1>7. MemoryInv' /\ PairInv'
  BY <1>1, <1>2 DEF MemoryInv, Remembered, At, OwnMemory, PairInv, Answering, SummaryOwnTurn
<1> QED BY <1>3, <1>4, <1>5, <1>6, <1>7, <1>8

LEMMA NoGraphInv == ASSUME TurnInv, NoGraph PROVE TurnInv'
<1> USE DEF TurnInv
<1>1. /\ task = "input" /\ task' = "none" /\ text' = NoText
      /\ UNCHANGED <<config, turn, messages, recalled, pending, prompt, attempt, steps, saving,
                     saved, unredacted, unchecked, blocked, dropped, resumes, cuts>>
  BY DEF NoGraph, checkpoint, call, memory, history
<1>2. TypeOK'
  BY <1>1, NoTextIs DEF TypeOK, Stage, Node
<1> QED BY <1>1, <1>2 DEF HaveInv, Begun, At, NumberInv, Fine, Seen, Summaries, RawInv, AgeInv, Explained,
             MemoryInv, Remembered, OwnMemory, PairInv, Answering, SummaryOwnTurn

LEMMA GraphInputInv == ASSUME TurnInv, GraphInput PROVE TurnInv'
<1> DEFINE m == Text1("human", turn, text.pii)
<1> USE DEF TurnInv
<1>1. /\ task = "input" /\ task' = "recall" /\ pending' = "recall" /\ text' = NoText
      /\ messages' = Append(messages, m)
      /\ UNCHANGED <<config, turn, recalled, prompt, attempt, steps, saving, saved,
                     unredacted, unchecked, blocked, resumes, cuts>>
  BY DEF GraphInput, call, memory
<1>2. m \in Message /\ messages \in Seq(Message)
  BY DEF TypeOK, Message, Text1
<1>10. m.by = "human" /\ m.turn = turn /\ m.raw = text.pii
  BY DEF Text1
<1> HIDE DEF m
<1>3. Range(messages') = Range(messages) \cup {m} /\ messages' \in Seq(Message)
  BY <1>1, <1>2, RangeOfAppend
<1>4. dropped' \subseteq Nat
  <2>1. pending \in {"paused", "tools"} => LastAI(messages) \in Message
    BY LastAIIs DEF HaveInv, At, TypeOK
  <2> QED BY <2>1 DEF GraphInput, TypeOK, Message
<1>5. TypeOK'
  BY <1>1, <1>3, <1>4, NoTextIs DEF TypeOK, Stage, Node
<1>11. Has(messages', {"human"}) /\ LastHuman(messages') = m
  <2>1. m.by \in {"human"}
    BY <1>10
  <2> QED BY <1>1, <1>2, <2>1, LastNew DEF LastHuman
<1>6. HaveInv'
  BY <1>1, <1>11 DEF HaveInv, At
<1>7. NumberInv'
  BY <1>1, <1>3, <1>10 DEF NumberInv, Fine, Seen, Summaries, TypeOK
<1>8. RawInv' /\ AgeInv'
  <2>1. Seen' = Seen \cup {m} /\ Summaries' = Summaries
    BY <1>1, <1>3 DEF Seen, Summaries
  <2>2. AgeInv'
    BY <1>10, <1>11, <2>1 DEF AgeInv, NumberInv, Fine, TypeOK
  <2>3. \A n : Explained(n)' <=> Explained(n)
    BY <1>1 DEF Explained
  <2>4. config.provider # "bedrock" /\ m.raw => m.turn \in unredacted /\ Explained(m.turn)
    BY <1>1, <1>10 DEF RawInv, Explained, TypeOK
  <2> QED BY <1>1, <1>3, <2>1, <2>2, <2>3, <2>4 DEF RawInv
<1>9. MemoryInv' /\ PairInv'
  BY <1>1, <1>3, <1>10 DEF MemoryInv, Remembered, At, OwnMemory, PairInv, Answering, SummaryOwnTurn
<1> QED BY <1>5, <1>6, <1>7, <1>8, <1>9

LEMMA RecalledInv == ASSUME TurnInv, NEW found \in BOOLEAN, Recalled(found) PROVE TurnInv'
<1> USE DEF TurnInv
<1>1. /\ task = "recall" /\ task' = "model" /\ pending' = "model"
      /\ recalled' = IF found THEN LastHuman(messages).turn ELSE 0
      /\ UNCHANGED <<config, turn, text, messages, prompt, attempt, steps, saving, saved,
                     unredacted, unchecked, blocked, dropped, resumes, cuts>>
  BY DEF Recalled, call, memory, history
<1>2. LastHuman(messages) \in Message /\ LastHuman(messages) \in Range(messages)
  BY <1>1, LastHumanIs DEF HaveInv, Begun, TypeOK
<1>3. TypeOK'
  BY <1>1, <1>2 DEF TypeOK, Stage, Node, Message
<1>4. HaveInv'
  BY <1>1 DEF HaveInv, Begun, At
<1>5. NumberInv'
  BY <1>1, <1>2 DEF NumberInv, Fine, Seen, Summaries, TypeOK
<1>6. RawInv' /\ AgeInv'
  BY <1>1 DEF RawInv, AgeInv, Explained, Seen, Summaries
<1>7. MemoryInv' /\ PairInv'
  BY <1>1 DEF MemoryInv, Remembered, At, OwnMemory, PairInv, Answering, SummaryOwnTurn
<1> QED BY <1>3, <1>4, <1>5, <1>6, <1>7

-----------------------------------------------------------------------------
(* The model calls *)

LEMMA ContextType == ASSUME TypeOK PROVE Context \in Seq(Message)
<1> DEFINE c == Text1("context", recalled, FALSE)
<1>1. c \in Message
  BY DEF TypeOK, Message, Text1
<1>2. Context = IF recalled = 0 THEN << >> ELSE << c >>
  BY DEF Context
<1> HIDE DEF c
<1> QED BY <1>1, <1>2

LEMMA CallModelInv == ASSUME TurnInv, CallModel PROVE TurnInv'
<1> USE DEF TurnInv
<1>1. /\ task = "model" /\ task' = "calling" /\ prompt' = messages \o Context
      /\ attempt' = 1 /\ steps' = steps + 1
      /\ UNCHANGED <<config, turn, text, messages, recalled, pending, saving, saved,
                     unredacted, unchecked, blocked, dropped, resumes, cuts>>
  BY DEF CallModel, checkpoint, memory, history
<1>2. Context \in Seq(Message) /\ messages \in Seq(Message)
  BY ContextType DEF TypeOK
<1>3. \A m \in Range(Context) : recalled # 0 /\ m.turn = recalled /\ ~m.raw
  BY DEF Context, Range, Text1
<1>4. prompt' \in Seq(Message)
  BY <1>1, <1>2
<1>5. Range(prompt') \subseteq Range(messages) \cup Range(Context)
  BY <1>1, <1>2, RangeOfConcat
<1>6. TypeOK'
  BY <1>1, <1>4 DEF TypeOK, Stage, Node
<1>7. HaveInv'
  BY <1>1 DEF HaveInv, Begun, At
<1>8. NumberInv'
  BY <1>1, <1>3, <1>5 DEF NumberInv, Fine, Seen, Summaries
<1>9. RawInv' /\ AgeInv'
  <2>1. \A n : Explained(n)' <=> Explained(n)
    BY <1>1 DEF Explained
  <2>2. RawInv'
    BY <1>1, <1>3, <1>5, <2>1 DEF RawInv, Seen, Summaries
  <2>3. recalled \in {0, LastHuman(messages).turn}
    BY <1>1 DEF MemoryInv, Remembered, At
  <2>4. LastHuman(messages) \in Message
    BY <1>1, LastHumanIs DEF HaveInv, Begun, TypeOK
  <2>5. LastHuman(messages).turn \in Nat
    BY <2>4 DEF Message
  <2>6. AgeInv'
    BY <1>1, <1>3, <1>5, <2>3, <2>5 DEF AgeInv, Seen
  <2> QED BY <2>2, <2>6
<1>10. MemoryInv' /\ PairInv'
  <2>1. recalled \in {0, LastHuman(messages).turn}
    BY <1>1 DEF MemoryInv, Remembered, At
  <2>2. OwnMemory'
    BY <1>1, <1>3, <1>5, <2>1 DEF OwnMemory, MemoryInv
  <2> QED BY <1>1, <2>1, <2>2 DEF MemoryInv, Remembered, At, PairInv, Answering, SummaryOwnTurn
<1> QED BY <1>6, <1>7, <1>8, <1>9, <1>10

LEMMA OverflowInv ==
    ASSUME TurnInv, NEW mistaken \in BOOLEAN, Overflow(mistaken) PROVE TurnInv'
<1> USE DEF TurnInv
<1>1. /\ task = "calling" /\ prompt' = Trim(prompt) /\ attempt' = 2
      /\ UNCHANGED <<config, turn, text, task, messages, recalled, pending, steps, saving, saved,
                     unredacted, unchecked, blocked, dropped, resumes, cuts>>
  BY DEF Overflow, checkpoint, memory, history
<1>2. prompt' \in Seq(Message) /\ Range(prompt') \subseteq Range(prompt)
  BY <1>1, TrimKeeps DEF TypeOK
<1>3. TypeOK'
  BY <1>1, <1>2 DEF TypeOK
<1>4. HaveInv'
  BY <1>1 DEF HaveInv, Begun, At
<1>5. NumberInv' /\ RawInv' /\ AgeInv'
  BY <1>1, <1>2 DEF NumberInv, Fine, RawInv, AgeInv, Explained, Seen, Summaries
<1>6. MemoryInv' /\ PairInv'
  BY <1>1, <1>2 DEF MemoryInv, Remembered, At, OwnMemory, PairInv, Answering, SummaryOwnTurn
<1> QED BY <1>3, <1>4, <1>5, <1>6

(* What model and tools say belongs to the turn of the question, and is not a question.   *)
LEMMA SayIs ==
    ASSUME TurnInv, Begun, NEW m \in Message, m.by # "human", m.by # "context",
           m.turn = LastHuman(messages).turn
    PROVE  /\ Fine(m.turn)
           /\ messages \in Seq(Message)
           /\ Range(Append(messages, m)) = Range(messages) \cup {m}
           /\ Append(messages, m) \in Seq(Message)
           /\ Has(messages, {"human"}) /\ Has(Append(messages, m), {"human"})
           /\ LastHuman(Append(messages, m)) = LastHuman(messages)
<1> USE DEF TurnInv
<1>1. messages \in Seq(Message) /\ Has(messages, {"human"})
  BY DEF TypeOK, HaveInv
<1>2. LastHuman(messages) \in Message /\ LastHuman(messages) \in Range(messages)
  BY <1>1, LastHumanIs
<1>3. Fine(m.turn)
  BY <1>2 DEF NumberInv, Seen
<1>4. /\ Has(Append(messages, m), {"human"})
      /\ LastHuman(Append(messages, m)) = LastHuman(messages)
  <2>1. m.by \notin {"human"}
    OBVIOUS
  <2> HIDE DEF TurnInv
  <2> QED BY <1>1, <2>1, LastKept DEF LastHuman
<1>5. Range(Append(messages, m)) = Range(messages) \cup {m}
  BY <1>1, RangeOfAppend
<1> QED BY <1>1, <1>3, <1>4, <1>5

LEMMA SayType ==
    ASSUME TurnInv, Begun, NEW by \in {"request", "answer"}, NEW raw \in BOOLEAN
    PROVE  /\ Say(by, raw) \in Message /\ Say(by, raw).by = by /\ Say(by, raw).raw = raw
           /\ Say(by, raw).turn = LastHuman(messages).turn
<1>1. LastHuman(messages) \in Message
  BY LastHumanIs DEF TurnInv, TypeOK, HaveInv
<1> QED BY <1>1 DEF Say, Text1, Message

LEMMA ReplyType ==
    ASSUME TurnInv, Begun, NEW r \in Result
    PROVE  /\ Reply(r) \in Message /\ Reply(r).by = "result" /\ Reply(r).raw = r.raw
           /\ Reply(r).turn = LastHuman(messages).turn
<1>1. LastHuman(messages) \in Message
  BY LastHumanIs DEF TurnInv, TypeOK, HaveInv
<1>2. r.size \in Nat /\ r.real \in Nat /\ r.raw \in BOOLEAN
  BY ConstantsAssumption
<1> QED BY <1>1, <1>2 DEF Reply, Message

(* What the model repeats of a prompt has come in no later than the last question.         *)
LEMMA RepeatExplained ==
    ASSUME TurnInv, Begun, config.provider # "bedrock",
           NEW m \in Seen, m.raw
    PROVE  Explained(LastHuman(messages).turn)
<1>1. Explained(m.turn)
  BY DEF TurnInv, RawInv
<1>2. PICK k \in unredacted \cup unchecked : k <= m.turn
  BY <1>1 DEF Explained
<1>3. m.turn <= LastHuman(messages).turn
  BY DEF TurnInv, AgeInv, HaveInv
<1>4. m \in Message /\ LastHuman(messages) \in Message /\ k \in Nat
  BY SeenTypes, LastHumanIs DEF TurnInv, TypeOK, HaveInv
<1>5. k <= LastHuman(messages).turn
  BY <1>2, <1>3, <1>4 DEF Message
<1> QED BY <1>2, <1>5 DEF Explained

(* A message said, and explained if it is raw, keeps the invariants about numbers.         *)
LEMMA SaidInv ==
    ASSUME TurnInv, Begun, NEW m \in Message, m.by # "human", m.by # "context",
           m.turn = LastHuman(messages).turn,
           messages' = Append(messages, m), prompt' \in {prompt, << >>},
           task \notin {"guard", "input"}, task' \notin {"guard", "input"},
           UNCHANGED <<config, turn, recalled, saving, saved, unredacted, blocked>>,
           unchecked \subseteq unchecked',
           config.provider # "bedrock" /\ m.raw => Explained(m.turn)'
    PROVE  NumberInv' /\ RawInv' /\ AgeInv'
<1> USE DEF TurnInv
<1>1. /\ Fine(m.turn) /\ Range(messages') = Range(messages) \cup {m}
      /\ Has(messages', {"human"}) /\ LastHuman(messages') = LastHuman(messages)
      /\ Has(messages, {"human"})
  BY SayIs
<1>2. Seen' \subseteq Seen \cup {m} /\ Summaries' = Summaries
  BY <1>1, NoMessages DEF Seen, Summaries
<1>3. NumberInv'
  BY <1>1, <1>2 DEF NumberInv, Fine
<1>4. m.turn \in Nat
  BY DEF Message
<1>5. AgeInv'
  BY <1>1, <1>2, <1>4 DEF AgeInv
<1>6. \A n : Explained(n) => Explained(n)'
  BY DEF Explained
<1>7. RawInv'
  BY <1>1, <1>2, <1>6 DEF RawInv
<1> QED BY <1>3, <1>5, <1>7

LEMMA AnswerInv == ASSUME TurnInv, NEW raw \in BOOLEAN, Answer(raw) PROVE TurnInv'
<1> USE DEF TurnInv
<1>0. task = "calling"
  BY DEF Answer
<1>2. PICK m \in Message : /\ m = Say("answer", raw)
                           /\ m.by = "answer" /\ m.raw = raw /\ m.turn = LastHuman(messages).turn
  BY <1>0, SayType DEF Begun
<1>1. /\ task = "calling" /\ task' = "save" /\ pending' = "save" /\ Repeats(raw)
      /\ messages' = Append(messages, m) /\ prompt' = << >> /\ attempt' = 1 /\ steps' = 0
      /\ UNCHANGED <<config, turn, text, recalled, saving, saved,
                     unredacted, unchecked, blocked, dropped, resumes, cuts>>
  BY <1>2 DEF Answer, RunOver, CallOver, memory, history
<1>3. /\ messages \in Seq(Message) /\ messages' \in Seq(Message)
      /\ Range(messages') = Range(messages) \cup {m}
      /\ Has(messages', {"human"}) /\ LastHuman(messages') = LastHuman(messages)
  BY <1>1, <1>2, SayIs DEF Begun
<1>4. Has(messages', AI) /\ LastAI(messages') = m
  <2>1. m.by \in AI
    BY <1>2 DEF AI
  <2>2. /\ Has(Append(messages, m), AI)
        /\ Append(messages, m)[LastIndex(Append(messages, m), AI)] = m
    BY <1>3, <2>1, LastNew
  <2> QED BY <1>1, <2>2 DEF LastAI
<1>5. TypeOK'
  BY <1>1, <1>3 DEF TypeOK, Stage, Node
<1>6. HaveInv'
  BY <1>3, <1>4 DEF HaveInv
<1>7. NumberInv' /\ RawInv' /\ AgeInv'
  <2>1. config.provider # "bedrock" /\ m.raw => Explained(m.turn)
    BY <1>1, <1>2, RepeatExplained DEF Repeats, Seen, Begun
  <2>2. config.provider # "bedrock" /\ m.raw => Explained(m.turn)'
    BY <1>1, <2>1 DEF Explained
  <2> QED BY <1>1, <1>2, <2>2, SaidInv DEF Begun
<1>8. MemoryInv' /\ PairInv'
  BY <1>1, <1>2, <1>3, <1>4 DEF MemoryInv, Remembered, At, OwnMemory, PairInv, SummaryOwnTurn
<1> QED BY <1>5, <1>6, <1>7, <1>8

LEMMA RequestInv ==
    ASSUME TurnInv, NEW gated \in BOOLEAN, NEW raw \in BOOLEAN, Request(gated, raw)
    PROVE  TurnInv'
<1> USE DEF TurnInv
<1>0. task = "calling"
  BY DEF Request
<1>3. PICK m \in Message : /\ m = Say("request", raw)
                           /\ m.by = "request" /\ m.raw = raw /\ m.turn = LastHuman(messages).turn
  BY <1>0, SayType DEF Begun
<1>1. /\ task = "calling" /\ messages' = Append(messages, m) /\ Repeats(raw)
      /\ prompt' = << >> /\ attempt' = 1 /\ steps' \in {0, steps}
      /\ UNCHANGED <<config, turn, text, recalled, saving, saved,
                     unredacted, unchecked, blocked, dropped, resumes, cuts>>
  BY <1>3 DEF Request, RunOver, CallOver, memory, history
<1>2. \/ pending' = "paused" /\ task' = "none"
      \/ pending' = "tools" /\ task' = "tools"
  BY DEF Request
<1>4. /\ messages \in Seq(Message) /\ messages' \in Seq(Message)
      /\ Range(messages') = Range(messages) \cup {m}
      /\ Has(messages', {"human"}) /\ LastHuman(messages') = LastHuman(messages)
  BY <1>1, <1>3, SayIs DEF Begun
<1>5. Has(messages', AI)
  <2>1. m.by \in AI
    BY <1>3 DEF AI
  <2> QED BY <1>1, <1>3, <1>4, <2>1, LastNew
<1>6. TypeOK'
  BY <1>1, <1>2, <1>4 DEF TypeOK, Stage, Node
<1>7. HaveInv'
  BY <1>4, <1>5 DEF HaveInv
<1>8. NumberInv' /\ RawInv' /\ AgeInv'
  <2>1. config.provider # "bedrock" /\ m.raw => Explained(m.turn)
    BY <1>1, <1>3, RepeatExplained DEF Repeats, Seen, Begun
  <2>2. config.provider # "bedrock" /\ m.raw => Explained(m.turn)'
    BY <1>1, <2>1 DEF Explained
  <2> QED BY <1>1, <1>2, <1>3, <2>2, SaidInv DEF Begun
<1>9. MemoryInv' /\ PairInv'
  BY <1>1, <1>2, <1>3, <1>4 DEF MemoryInv, Remembered, At, OwnMemory, PairInv, Answering,
                          SummaryOwnTurn
<1> QED BY <1>6, <1>7, <1>8, <1>9

LEMMA ToolsAnswerInv ==
    ASSUME TurnInv, NEW r \in Result, ToolsAnswer(r) PROVE TurnInv'
<1> USE DEF TurnInv
<1>0. task = "tools"
  BY DEF ToolsAnswer
<1>2. PICK m \in Message : /\ m = Reply(r)
                           /\ m.by = "result" /\ m.raw = r.raw /\ m.turn = LastHuman(messages).turn
  BY <1>0, ReplyType DEF Begun
<1>1. /\ task = "tools" /\ task' = "model" /\ pending' = "model"
      /\ messages' = Append(messages, m)
      /\ unchecked' = IF r.raw THEN unchecked \cup {LastHuman(messages).turn} ELSE unchecked
      /\ UNCHANGED <<config, turn, text, recalled, prompt, attempt, steps, saving, saved,
                     unredacted, blocked, dropped, resumes, cuts>>
  BY <1>2 DEF ToolsAnswer, call, memory
<1>3. /\ messages \in Seq(Message) /\ messages' \in Seq(Message)
      /\ Range(messages') = Range(messages) \cup {m}
      /\ Has(messages', {"human"}) /\ LastHuman(messages') = LastHuman(messages)
  BY <1>1, <1>2, SayIs DEF Begun
<1>4. m.turn \in Nat
  BY <1>2 DEF Message
<1>5. TypeOK'
  BY <1>1, <1>2, <1>3, <1>4 DEF TypeOK, Stage, Node
<1>6. HaveInv'
  BY <1>1, <1>3 DEF HaveInv, At
<1>7. NumberInv' /\ RawInv' /\ AgeInv'
  <2>1. ASSUME m.raw PROVE Explained(m.turn)'
    <3>1. m.turn \in unchecked'
      BY <1>1, <1>2, <2>1
    <3>2. m.turn <= m.turn
      BY <1>4
    <3> QED BY <3>1, <3>2 DEF Explained
  <2> QED BY <1>1, <1>2, <2>1, SaidInv DEF Begun
<1>8. MemoryInv' /\ PairInv'
  BY <1>1, <1>2, <1>3 DEF MemoryInv, Remembered, At, OwnMemory, PairInv, Answering, SummaryOwnTurn
<1> QED BY <1>5, <1>6, <1>7, <1>8

LEMMA RunFailsInv == ASSUME TurnInv, RunFails PROVE TurnInv'
<1> USE DEF TurnInv
<1>1. /\ task \in {"calling", "tools", "model"} /\ task' = "none"
      /\ prompt' = << >> /\ attempt' = 1 /\ steps' = 0
      /\ UNCHANGED <<config, turn, text, messages, recalled, pending, saving, saved,
                     unredacted, unchecked, blocked, dropped, resumes, cuts>>
  BY DEF RunFails, RunOver, CallOver, checkpoint, memory, history
<1>2. TypeOK'
  BY <1>1 DEF TypeOK, Stage, Node
<1>3. HaveInv'
  BY <1>1 DEF HaveInv, Begun, At
<1>4. NumberInv' /\ RawInv' /\ AgeInv'
  BY <1>1, NoMessages DEF NumberInv, Fine, RawInv, AgeInv, Explained, Seen, Summaries
<1>5. MemoryInv' /\ PairInv'
  BY <1>1 DEF MemoryInv, Remembered, At, OwnMemory, PairInv, Answering, SummaryOwnTurn
<1> QED BY <1>2, <1>3, <1>4, <1>5

-----------------------------------------------------------------------------
(* The steps that end a turn *)

LEMMA SummaryIs ==
    ASSUME TurnInv, task = "save" \/ task = "saving"
    PROVE  /\ SummaryOfTurn \in Summary
           /\ Fine(SummaryOfTurn.asked)
           /\ config.provider # "bedrock" /\ SummaryOfTurn.raw
                => Explained(SummaryOfTurn.asked)
           /\ SummaryOfTurn.asked = SummaryOfTurn.answered
<1> USE DEF TurnInv
<1>1. messages \in Seq(Message) /\ Has(messages, {"human"}) /\ Has(messages, AI)
  BY DEF HaveInv, Begun, At, TypeOK
<1>2. LastHuman(messages) \in Message /\ LastHuman(messages) \in Range(messages)
  BY <1>1, LastHumanIs
<1>3. LastAI(messages) \in Message /\ LastAI(messages) \in Range(messages)
  BY <1>1, LastAIIs
<1>4. LastAI(messages).turn = LastHuman(messages).turn
  BY DEF PairInv, Answering, At
<1>5. /\ Fine(LastHuman(messages).turn)
      /\ config.provider # "bedrock" /\ (LastHuman(messages).raw \/ LastAI(messages).raw)
           => Explained(LastHuman(messages).turn)
  BY <1>2, <1>3, <1>4 DEF NumberInv, RawInv, Seen
<1>6. resumes \in Nat
  BY DEF TypeOK
<1> QED BY <1>2, <1>3, <1>4, <1>5, <1>6 DEF SummaryOfTurn, Summary, Message

LEMMA SaveInv == ASSUME TurnInv, Save PROVE TurnInv'
<1> USE DEF TurnInv
<1>1. /\ task = "save"
      /\ UNCHANGED <<config, turn, text, messages, recalled, prompt, attempt, steps, saved,
                     unredacted, unchecked, blocked, dropped, resumes, cuts>>
      /\ \/ task' = "saving" /\ saving' = saving \cup {SummaryOfTurn} /\ pending' = pending
         \/ task' = "none" /\ pending' = "none" /\ saving' = saving
  BY DEF Save, call, history
<1>2. /\ SummaryOfTurn \in Summary /\ Fine(SummaryOfTurn.asked)
      /\ config.provider # "bedrock" /\ SummaryOfTurn.raw
           => Explained(SummaryOfTurn.asked)
      /\ SummaryOfTurn.asked = SummaryOfTurn.answered
  BY <1>1, SummaryIs
<1>3. saving' \subseteq saving \cup {SummaryOfTurn}
  BY <1>1
<1>4. TypeOK'
  BY <1>1, <1>2 DEF TypeOK, Stage, Node
<1>5. HaveInv'
  BY <1>1 DEF HaveInv, Begun, At
<1>6. NumberInv' /\ RawInv' /\ AgeInv'
  <2>1. Seen' = Seen /\ Summaries' \subseteq Summaries \cup {SummaryOfTurn}
    BY <1>1, <1>3 DEF Seen, Summaries
  <2>2. \A n : Explained(n)' <=> Explained(n)
    BY <1>1 DEF Explained
  <2> QED BY <1>1, <1>2, <2>1, <2>2 DEF NumberInv, Fine, RawInv, AgeInv
<1>7. MemoryInv' /\ PairInv'
  BY <1>1, <1>2, <1>3 DEF MemoryInv, Remembered, At, OwnMemory, PairInv, Answering,
                          SummaryOwnTurn
<1> QED BY <1>4, <1>5, <1>6, <1>7

LEMMA SavedInv ==
    ASSUME TurnInv, NEW s \in saving, NEW ok \in BOOLEAN, Saved(s, ok) PROVE TurnInv'
<1> USE DEF TurnInv
<1>1. /\ saving' = saving \ {s} /\ saved' \in {saved, Append(saved, s)}
      /\ UNCHANGED <<config, turn, text, messages, recalled, prompt, attempt, steps,
                     unredacted, unchecked, blocked, dropped, resumes, cuts>>
      /\ \/ task = "saving" /\ task' = "none" /\ pending' = "none"
         \/ task' = task /\ pending' = pending
  BY DEF Saved, call, history
<1>2. saved \in Seq(Summary) /\ s \in Summary
  BY DEF TypeOK
<1>3. saved' \in Seq(Summary) /\ Range(saved') \subseteq Range(saved) \cup {s}
  <2>1. Append(saved, s) \in Seq(Summary) /\ Range(Append(saved, s)) = Range(saved) \cup {s}
    BY <1>2, RangeOfAppend
  <2> QED BY <1>1, <1>2, <2>1
<1>4. Summaries' \subseteq Summaries
  BY <1>1, <1>3 DEF Summaries
<1>5. TypeOK'
  BY <1>1, <1>3 DEF TypeOK, Stage, Node
<1>6. HaveInv'
  BY <1>1 DEF HaveInv, Begun, At
<1>7. NumberInv' /\ RawInv' /\ AgeInv'
  BY <1>1, <1>4 DEF NumberInv, Fine, RawInv, AgeInv, Explained, Seen
<1>8. MemoryInv' /\ PairInv'
  <2>1. SummaryOwnTurn'
    BY <1>4 DEF PairInv, SummaryOwnTurn, Summaries
  <2> QED BY <1>1, <2>1 DEF MemoryInv, Remembered, At, OwnMemory, PairInv, Answering
<1> QED BY <1>5, <1>6, <1>7, <1>8

LEMMA ResumeInv == ASSUME TurnInv, Resume PROVE TurnInv'
<1> USE DEF TurnInv
<1>1. /\ task = "none" /\ pending # "none" /\ resumes' = resumes + 1
      /\ pending' = (IF pending = "paused" THEN "tools" ELSE pending) /\ task' = pending'
      /\ UNCHANGED <<config, turn, text, messages, recalled, prompt, attempt, steps, saving,
                     saved, unredacted, unchecked, blocked, dropped, cuts>>
  BY DEF Resume, Idle, call, memory, history
<1>2. pending \in Node /\ pending' \in Node \ {"none", "paused"}
  BY <1>1 DEF TypeOK, Node
<1>3. TypeOK'
  BY <1>1, <1>2 DEF TypeOK, Stage, Node
<1>4. HaveInv'
  BY <1>1, <1>2 DEF HaveInv, Begun, At, Node
<1>5. NumberInv' /\ RawInv' /\ AgeInv'
  BY <1>1, <1>2 DEF NumberInv, Fine, RawInv, AgeInv, Explained, Seen, Summaries, Node
<1>6. MemoryInv' /\ PairInv'
  BY <1>1, <1>2 DEF MemoryInv, Remembered, At, OwnMemory, PairInv, Answering, SummaryOwnTurn, Node
<1> QED BY <1>3, <1>4, <1>5, <1>6

LEMMA CutInv == ASSUME TurnInv, Cut PROVE TurnInv'
<1> USE DEF TurnInv
<1>1. /\ task # "none" /\ task' = "none" /\ text' = NoText /\ cuts' = cuts + 1
      /\ prompt' = << >> /\ attempt' = 1 /\ steps' = 0
      /\ UNCHANGED <<config, turn, messages, recalled, pending, saving, saved,
                     unredacted, unchecked, blocked, dropped, resumes>>
  BY DEF Cut, Idle, RunOver, CallOver, checkpoint, memory, history
<1>2. TypeOK'
  BY <1>1, NoTextIs DEF TypeOK, Stage, Node
<1>3. HaveInv'
  BY <1>1 DEF HaveInv, Begun, At
<1>4. NumberInv' /\ RawInv' /\ AgeInv'
  BY <1>1, NoMessages DEF NumberInv, Fine, RawInv, AgeInv, Explained, Seen, Summaries
<1>5. MemoryInv' /\ PairInv'
  BY <1>1 DEF MemoryInv, Remembered, At, OwnMemory, PairInv, Answering, SummaryOwnTurn
<1> QED BY <1>2, <1>3, <1>4, <1>5

LEMMA TurnSkip == ASSUME TurnInv, UNCHANGED vars PROVE TurnInv'
<1>1. UNCHANGED <<config, turn, text, task, messages, recalled, pending, prompt, attempt, steps,
                  saving, saved, unredacted, unchecked, blocked, dropped, resumes, cuts>>
  BY DEF vars, checkpoint, call, memory, history
<1> QED BY <1>1 DEF TurnInv, TypeOK, HaveInv, Begun, At, NumberInv, Fine, Seen, Summaries, RawInv,
             AgeInv, Explained, MemoryInv, Remembered, OwnMemory, PairInv, Answering, SummaryOwnTurn

LEMMA TurnNextInv == ASSUME TurnInv, [Next]_vars PROVE TurnInv'
<1>1. MayFind \in BOOLEAN
  <2>1. config.memory \in BOOLEAN
    BY ConstantsAssumption DEF TurnInv, TypeOK
  <2> QED BY <2>1 DEF MayFind
<1>2. ASSUME TaskStep PROVE TurnInv'
  BY <1>1, <1>2, GuardedInv, NoGraphInv, GraphInputInv, RecalledInv, CallModelInv, OverflowInv,
     AnswerInv, RequestInv, ToolsAnswerInv, RunFailsInv, SaveInv DEF TaskStep
<1> QED BY <1>2, TurnMessageInv, SavedInv, ResumeInv, CutInv, TurnSkip DEF Next

LEMMA TurnAlways == Spec => []TurnInv
  BY TurnStart, TurnNextInv, PTL DEF Spec

-----------------------------------------------------------------------------
(* Order. Without cancellations a summary is written before its turn ends, and what is     *)
(* written is older than a turn that has not been summarised.                              *)
OrderInv ==
    cuts = 0 =>
        /\ saving # {} => task = "saving" /\ saving = {SummaryOfTurn}
        /\ \A s \in Range(saved) :
             /\ task \in {"guard", "input"} => s.asked < turn
             /\ Begun => s.asked < LastHuman(messages).turn
        /\ \A i, j \in DOMAIN saved : i < j => saved[i].asked < saved[j].asked

LEMMA OrderNext == ASSUME TurnInv, TurnInv', OrderInv, [Next]_vars PROVE OrderInv'
<1>0. /\ cuts \in Nat /\ turn \in Nat /\ saving \subseteq Summary /\ saved \in Seq(Summary)
      /\ messages \in Seq(Message) /\ pending \in Node /\ task \in Stage
      /\ \A s \in Range(saved) : s.asked \in Nat /\ s.asked <= turn
      /\ Begun => Has(messages, {"human"})
  <2>1. Range(saved) \subseteq Summaries /\ Summaries \subseteq Summary
    BY SeenTypes DEF Summaries, TurnInv
  <2> QED BY <2>1 DEF TurnInv, TypeOK, NumberInv, Fine, Summary, HaveInv
<1>1. SUFFICES ASSUME cuts' = 0 PROVE OrderInv'
  BY DEF OrderInv
<1>2. cuts = 0
  <2>1. cuts' = cuts \/ cuts' = cuts + 1
    BY DEF Next, TaskStep, TurnMessage, Guarded, NoGraph, GraphInput, Recalled, CallModel,
       Overflow, Answer, Request, ToolsAnswer, RunFails, Save, Saved, Resume, Cut, vars
  <2> QED BY <1>0, <1>1, <2>1
<1>3. /\ saving # {} => task = "saving" /\ saving = {SummaryOfTurn}
      /\ \A s \in Range(saved) :
           /\ task \in {"guard", "input"} => s.asked < turn
           /\ Begun => s.asked < LastHuman(messages).turn
      /\ \A i, j \in DOMAIN saved : i < j => saved[i].asked < saved[j].asked
  BY <1>2 DEF OrderInv
\* The run goes on, or ends, and nothing is written.
<1>4. ASSUME UNCHANGED <<saving, saved>>, task # "saving", Begun,
             LastHuman(messages)' = LastHuman(messages), task' \notin {"guard", "input"}
      PROVE  OrderInv'
  BY <1>3, <1>4 DEF OrderInv
<1>5. ASSUME NEW t \in Text, TurnMessage(t) PROVE OrderInv'
  <2>1. /\ task = "none" /\ task' = "guard" /\ turn' = turn + 1
        /\ UNCHANGED <<messages, pending, saving, saved, resumes>>
    BY <1>5 DEF TurnMessage, Idle, checkpoint, memory
  <2>2. Begun' => Begun
    BY <2>1 DEF Begun
  <2> QED BY <1>0, <1>3, <2>1, <2>2 DEF OrderInv
<1>6. ASSUME NEW down \in SUBSET Layer, Guarded(down) PROVE OrderInv'
  <2>1. /\ task = "guard" /\ task' \in {"none", "input"}
        /\ UNCHANGED <<turn, messages, pending, saving, saved>>
    BY <1>6 DEF Guarded, checkpoint, memory
  <2>2. Begun' => Begun
    BY <2>1 DEF Begun
  <2> QED BY <1>3, <2>1, <2>2 DEF OrderInv
<1>7. CASE NoGraph
  <2>1. /\ task = "input" /\ task' = "none"
        /\ UNCHANGED <<messages, pending, saving, saved>>
    BY <1>7 DEF NoGraph, checkpoint, memory
  <2>2. Begun' => Begun
    BY <2>1 DEF Begun
  <2> QED BY <1>3, <2>1, <2>2 DEF OrderInv
<1>8. CASE GraphInput
  <2> DEFINE m == Text1("human", turn, text.pii)
  <2>1. /\ task = "input" /\ task' = "recall" /\ messages' = Append(messages, m)
        /\ UNCHANGED <<saving, saved>>
    BY <1>8 DEF GraphInput, memory
  <2>2. m \in Message /\ m.by = "human" /\ m.turn = turn
    BY DEF TurnInv, TypeOK, Message, Text1
  <2>3. LastHuman(messages').turn = turn
    <3> HIDE DEF m
    <3>1. m.by \in {"human"}
      BY <2>2
    <3> QED BY <1>0, <2>1, <2>2, <3>1, LastNew DEF LastHuman
  <2> QED BY <1>3, <2>1, <2>3 DEF OrderInv
<1>9. ASSUME NEW found \in BOOLEAN, Recalled(found) PROVE OrderInv'
  <2>1. /\ task = "recall" /\ task' = "model" /\ UNCHANGED <<messages, saving, saved>>
    BY <1>9 DEF Recalled, memory
  <2> QED BY <1>4, <2>1 DEF Begun
<1>10. ASSUME \/ CallModel \/ RunFails \/ \E mistaken \in BOOLEAN : Overflow(mistaken)
       PROVE  OrderInv'
  <2>1. /\ task \in {"model", "calling", "tools"} /\ task' \in {"calling", "none"}
        /\ UNCHANGED <<messages, saving, saved>>
    BY <1>10 DEF CallModel, RunFails, Overflow, checkpoint, memory
  <2> QED BY <1>4, <2>1 DEF Begun
<1>11. ASSUME \/ \E raw \in BOOLEAN : Answer(raw) \/ \E gated \in BOOLEAN : Request(gated, raw)
              \/ \E r \in Result : ToolsAnswer(r)
       PROVE  OrderInv'
  <2>1. /\ task \in {"calling", "tools"} /\ task' \in {"save", "none", "tools", "model"}
        /\ UNCHANGED <<saving, saved>>
    BY <1>11 DEF Answer, Request, ToolsAnswer, memory
  <2>2. \/ \E by \in {"request", "answer"}, raw \in BOOLEAN :
             messages' = Append(messages, Say(by, raw))
        \/ \E r \in Result : messages' = Append(messages, Reply(r))
    BY <1>11 DEF Answer, Request, ToolsAnswer
  <2>3. \E m \in Message : /\ m.by # "human" /\ m.by # "context"
                           /\ m.turn = LastHuman(messages).turn
                           /\ messages' = Append(messages, m)
    BY <2>1, <2>2, SayType, ReplyType DEF Begun
  <2>4. LastHuman(messages') = LastHuman(messages)
    BY <2>1, <2>3, SayIs DEF Begun
  <2> QED BY <1>4, <2>1, <2>4 DEF Begun
<1>12. CASE Save
  <2>1. /\ task = "save" /\ UNCHANGED <<messages, saved, resumes>>
        /\ \/ task' = "saving" /\ saving' = saving \cup {SummaryOfTurn}
           \/ task' = "none" /\ pending' = "none" /\ saving' = saving
    BY <1>12 DEF Save
  <2>2. saving = {}
    BY <1>3, <2>1
  <2>3. SummaryOfTurn' = SummaryOfTurn
    BY <2>1 DEF SummaryOfTurn
  <2> QED BY <1>3, <2>1, <2>2, <2>3 DEF OrderInv, Begun
<1>13. ASSUME NEW s \in saving, NEW ok \in BOOLEAN, Saved(s, ok) PROVE OrderInv'
  <2>1. task = "saving" /\ saving = {SummaryOfTurn} /\ s = SummaryOfTurn
    BY <1>3
  <2>2. /\ saving' = {} /\ saved' \in {saved, Append(saved, s)}
        /\ task' = "none" /\ pending' = "none" /\ UNCHANGED <<turn, messages>>
    BY <1>13, <2>1 DEF Saved
  <2>3. s.asked = LastHuman(messages).turn /\ s \in Summary
    BY <1>0, <2>1 DEF SummaryOfTurn
  <2>4. \A i \in DOMAIN saved : saved[i].asked < s.asked
    BY <1>0, <1>3, <2>1, <2>3, RangeType DEF Begun
  <2>5. \A i, j \in DOMAIN saved' : i < j => saved'[i].asked < saved'[j].asked
    <3>1. CASE saved' = saved
      BY <1>3, <3>1
    <3>2. CASE saved' = Append(saved, s)
      <4>1. /\ DOMAIN saved = 1..Len(saved) /\ Len(saved) \in Nat
            /\ DOMAIN saved' = 1..(Len(saved) + 1) /\ saved'[Len(saved) + 1] = s
            /\ \A i \in DOMAIN saved : saved'[i] = saved[i]
        BY <1>0, <2>3, <3>2
      <4> QED BY <1>3, <2>4, <4>1
    <3> QED BY <2>2, <3>1, <3>2
  <2> QED BY <2>2, <2>5 DEF OrderInv, Begun
<1>14. CASE Resume
  <2>1. /\ task = "none" /\ pending # "none" /\ task' = pending'
        /\ pending' = (IF pending = "paused" THEN "tools" ELSE pending)
        /\ UNCHANGED <<messages, saving, saved>>
    BY <1>14 DEF Resume, Idle, memory
  <2> QED BY <1>0, <1>4, <2>1 DEF Begun, Node
<1>15. CASE Cut
  BY <1>0, <1>1, <1>15 DEF Cut
<1>16. CASE UNCHANGED vars
  BY <1>3, <1>16 DEF vars, checkpoint, memory, OrderInv, SummaryOfTurn, LastHuman, LastAI, Begun
<1> QED
  <2>1. MayFind \in BOOLEAN
    BY ConstantsAssumption DEF MayFind, TurnInv, TypeOK
  <2> QED BY <1>5, <1>6, <1>7, <1>8, <1>9, <1>10, <1>11, <1>12, <1>13, <1>14, <1>15, <1>16, <2>1
          DEF Next, TaskStep

-----------------------------------------------------------------------------
(* Pairs. A result follows its request, and a request is followed by its result, unless    *)
(* its turn is in `gone` or it comes last and is still `open`.                             *)
Paired(ms, open, gone) ==
    \A i \in DOMAIN ms :
        /\ ms[i].by = "result" => i > 1 /\ ms[i - 1].by = "request"
        /\ ms[i].by = "request" /\ ms[i].turn \notin gone =>
             \/ i = Len(ms) /\ open
             \/ i < Len(ms) /\ ms[i + 1].by = "result"

LEMMA AppendPaired ==
    ASSUME NEW ms \in Seq(Message), NEW m \in Message,
           NEW open \in BOOLEAN, NEW open2 \in BOOLEAN, NEW gone, NEW gone2, gone \subseteq gone2,
           Paired(ms, open, gone),
           m.by = "result" => Len(ms) > 0 /\ ms[Len(ms)].by = "request",
           m.by = "request" => open2,
           open /\ Len(ms) > 0 => m.by = "result" \/ ms[Len(ms)].turn \in gone2
    PROVE  Paired(Append(ms, m), open2, gone2)
<1>1. /\ Len(ms) \in Nat /\ DOMAIN ms = 1..Len(ms)
      /\ DOMAIN Append(ms, m) = 1..(Len(ms) + 1) /\ Len(Append(ms, m)) = Len(ms) + 1
      /\ Append(ms, m)[Len(ms) + 1] = m
      /\ \A i \in 1..Len(ms) : Append(ms, m)[i] = ms[i]
  OBVIOUS
<1> DEFINE q == Append(ms, m)
<1>2. /\ Len(ms) \in Nat /\ DOMAIN ms = 1..Len(ms) /\ q[Len(ms) + 1] = m
      /\ \A i \in 1..Len(ms) : q[i] = ms[i]
  BY <1>1
<1> HIDE DEF q
<1>3. ASSUME NEW i \in 1..(Len(ms) + 1), q[i].by = "result"
      PROVE  i > 1 /\ q[i - 1].by = "request"
  <2>1. CASE i = Len(ms) + 1
    BY <1>3, <1>2, <2>1
  <2>2. CASE i \in 1..Len(ms)
    <3>1. i > 1 /\ ms[i - 1].by = "request"
      BY <1>3, <1>2, <2>2 DEF Paired
    <3>2. i - 1 \in 1..Len(ms)
      BY <1>2, <2>2, <3>1
    <3> QED BY <1>2, <3>1, <3>2
  <2> QED BY <1>2, <2>1, <2>2
<1>4. ASSUME NEW i \in 1..(Len(ms) + 1), q[i].by = "request", q[i].turn \notin gone2
      PROVE  \/ i = Len(ms) + 1 /\ open2
             \/ i < Len(ms) + 1 /\ q[i + 1].by = "result"
  <2>1. CASE i = Len(ms) + 1
    BY <1>2, <1>4, <2>1
  <2>2. CASE i = Len(ms)
    <3>1. ms[i].by = "request" /\ ms[i].turn \notin gone2 /\ ms[i].turn \notin gone
      BY <1>4, <1>2, <2>2
    <3>2. open /\ Len(ms) > 0
      BY <1>2, <2>2, <3>1 DEF Paired
    <3>3. m.by = "result"
      BY <2>2, <3>1, <3>2
    <3>4. i < Len(ms) + 1 /\ q[i + 1].by = "result"
      BY <1>2, <2>2, <3>3
    <3> QED BY <3>4
  <2>3. CASE i < Len(ms)
    <3>1. i \in 1..Len(ms) /\ i + 1 \in 1..Len(ms)
      BY <1>2, <2>3
    <3>2. ms[i].by = "request" /\ ms[i].turn \notin gone
      BY <1>4, <1>2, <3>1
    <3>3. ms[i + 1].by = "result"
      BY <1>2, <2>3, <3>1, <3>2 DEF Paired
    <3> QED BY <1>2, <3>1, <3>3
  <2>4. i = Len(ms) + 1 \/ i = Len(ms) \/ i < Len(ms)
    <3>1. Len(ms) \in Nat
      BY <1>2
    <3> QED BY <3>1
  <2> QED BY <2>1, <2>2, <2>3, <2>4, Zenon
<1> QED BY <1>1, <1>3, <1>4 DEF Paired, q

LEMMA TrimPaired ==
    ASSUME NEW ms \in Seq(Message), NEW gone, Paired(ms, FALSE, gone)
    PROVE  Paired(Trim(ms), FALSE, gone)
<1>1. CASE Trim(ms) = << >>
  BY <1>1 DEF Paired
<1>2. ASSUME NEW i \in 1..Len(ms), ms[i].by \in Human, Trim(ms) = SubSeq(ms, i, Len(ms))
      PROVE  Paired(Trim(ms), FALSE, gone)
  <2> DEFINE q == SubSeq(ms, i, Len(ms))
  <2>1. /\ Len(ms) \in Nat /\ DOMAIN ms = 1..Len(ms) /\ Len(q) = Len(ms) - i + 1 /\ DOMAIN q = 1..(Len(ms) - i + 1)
        /\ \A j \in 1..(Len(ms) - i + 1) : q[j] = ms[i + j - 1]
    OBVIOUS
  <2> HIDE DEF q
  <2>2. ASSUME NEW j \in DOMAIN q, q[j].by = "result"
        PROVE  j > 1 /\ q[j - 1].by = "request"
    <3>1. PICK k \in DOMAIN ms : k = i + j - 1
      BY <2>1
    <3>2. ms[k].by = "result"
      BY <2>1, <2>2, <3>1
    <3>3. ms[k - 1].by = "request"
      BY <3>2 DEF Paired
    <3>4. j \in Nat /\ j # 1
      BY <1>2, <2>1, <3>1, <3>2 DEF Human
    <3>5. j - 1 \in 1..(Len(ms) - i + 1) /\ i + (j - 1) - 1 = k - 1
      BY <2>1, <3>1, <3>4
    <3>6. q[j - 1] = ms[k - 1]
      BY <2>1, <3>5
    <3>7. j > 1
      BY <2>1, <3>4
    <3> QED BY <3>3, <3>6, <3>7
  <2>3. ASSUME NEW j \in DOMAIN q, q[j].by = "request", q[j].turn \notin gone
        PROVE  j < Len(q) /\ q[j + 1].by = "result"
    <3>1. PICK k \in DOMAIN ms : k = i + j - 1
      BY <2>1
    <3>2. ms[k].by = "request" /\ ms[k].turn \notin gone
      BY <2>1, <2>3, <3>1
    <3>3. k < Len(ms) /\ ms[k + 1].by = "result"
      BY <3>2 DEF Paired
    <3>4. j + 1 \in 1..(Len(ms) - i + 1) /\ i + (j + 1) - 1 = k + 1
      BY <2>1, <3>1, <3>3
    <3>5. q[j + 1] = ms[k + 1]
      BY <2>1, <3>4
    <3>6. j < Len(q)
      BY <2>1, <3>1, <3>3
    <3> QED BY <3>3, <3>5, <3>6
  <2> QED BY <1>2, <2>2, <2>3 DEF Paired, q
<1> QED BY <1>1, <1>2, TrimKeeps

(* The last request of the checkpoint is open while its tools are pending.                 *)
Open == pending \in {"paused", "tools"}

PairedInv ==
    /\ task \in {"recall", "model", "tools", "save"} => pending = task
    /\ task = "calling" => pending = "model"
    /\ task = "saving" => pending = "save"
    /\ ~Open => Paired(messages, FALSE, dropped)
    /\ Open => /\ Paired(messages, TRUE, dropped)
               /\ Len(messages) > 0 /\ messages[Len(messages)].by = "request"
    /\ task = "calling" => Paired(prompt, FALSE, dropped)

LEMMA PairedNext == ASSUME TurnInv, PairedInv, [Next]_vars PROVE PairedInv'
<1>0. /\ messages \in Seq(Message) /\ prompt \in Seq(Message) /\ pending \in Node
      /\ task \in Stage /\ Open \in BOOLEAN
  BY DEF TurnInv, TypeOK, Open
\* Checkpoint and prompt stay as they are.
<1>1. ASSUME UNCHANGED <<messages, pending, dropped>>, task' \in {"none", "guard", "input"}
      PROVE  PairedInv'
  BY <1>1 DEF PairedInv, Open
<1>2. ASSUME NEW t \in Text, TurnMessage(t) PROVE PairedInv'
  BY <1>1, <1>2 DEF TurnMessage, checkpoint, history
<1>3. ASSUME NEW down \in SUBSET Layer, Guarded(down) PROVE PairedInv'
  BY <1>1, <1>3 DEF Guarded, checkpoint
<1>4. CASE NoGraph \/ RunFails \/ Cut
  BY <1>1, <1>4 DEF NoGraph, RunFails, Cut, checkpoint, history
<1>5. CASE GraphInput
  <2> DEFINE m == Text1("human", turn, text.pii)
  <2>1. /\ task' = "recall" /\ pending' = "recall" /\ messages' = Append(messages, m)
        /\ dropped' = IF Open THEN dropped \cup {LastAI(messages).turn} ELSE dropped
    BY <1>5 DEF GraphInput, Open
  <2>2. m \in Message /\ m.by = "human"
    BY DEF TurnInv, TypeOK, Message, Text1
  <2>3. Open => LastAI(messages) = messages[Len(messages)]
    <3>1. Open => IsLast(messages, {"request", "answer"}, Len(messages))
      BY <1>0 DEF PairedInv, IsLast
    <3> QED BY <1>0, <3>1, LastUnique DEF LastAI, AI
  <2> HIDE DEF m
  <2>4. Paired(messages', FALSE, dropped')
    BY <1>0, <2>1, <2>2, <2>3, AppendPaired DEF PairedInv
  <2> QED BY <2>1, <2>4 DEF PairedInv, Open
<1>6. ASSUME NEW found \in BOOLEAN, Recalled(found) PROVE PairedInv'
  <2>1. /\ task = "recall" /\ task' = "model" /\ pending' = "model"
        /\ UNCHANGED <<messages, dropped>>
    BY <1>6 DEF Recalled, history
  <2> QED BY <2>1 DEF PairedInv, Open
<1>7. CASE CallModel
  <2>1. /\ task = "model" /\ task' = "calling" /\ prompt' = messages \o Context
        /\ UNCHANGED <<messages, pending, dropped>>
    BY <1>7 DEF CallModel, checkpoint, history
  <2>2. Paired(messages, FALSE, dropped)
    BY <2>1 DEF PairedInv, Open
  <2>3. CASE recalled = 0
    <3>1. prompt' = messages
      BY <1>0, <2>1, <2>3 DEF Context
    <3> QED BY <2>1, <2>2, <3>1 DEF PairedInv, Open
  <2>4. CASE recalled # 0
    <3> DEFINE m == Text1("context", recalled, FALSE)
    <3>1. m \in Message /\ m.by = "context"
      BY DEF TurnInv, TypeOK, Message, Text1
    <3>2. prompt' = messages \o << m >>
      BY <2>1, <2>4 DEF Context
    <3> HIDE DEF m
    <3>3. messages \o << m >> = Append(messages, m)
      BY <1>0, <3>1
    <3>4. Paired(prompt', FALSE, dropped)
      BY <1>0, <2>2, <3>1, <3>2, <3>3, AppendPaired
    <3> QED BY <2>1, <3>4 DEF PairedInv, Open
  <2> QED BY <2>3, <2>4
<1>8. ASSUME NEW mistaken \in BOOLEAN, Overflow(mistaken) PROVE PairedInv'
  <2>1. /\ task = "calling" /\ prompt' = Trim(prompt)
        /\ UNCHANGED <<task, messages, pending, dropped>>
    BY <1>8 DEF Overflow, checkpoint, history
  <2>2. Paired(Trim(prompt), FALSE, dropped)
    BY <1>0, <2>1, TrimPaired DEF PairedInv
  <2> QED BY <2>1, <2>2 DEF PairedInv, Open
<1>9. ASSUME NEW raw \in BOOLEAN, Answer(raw) PROVE PairedInv'
  <2>1. /\ task = "calling" /\ messages' = Append(messages, Say("answer", raw))
        /\ task' = "save" /\ pending' = "save" /\ UNCHANGED dropped
    BY <1>9 DEF Answer, history
  <2>2. Say("answer", raw) \in Message /\ Say("answer", raw).by = "answer"
    BY <2>1, SayType DEF Begun
  <2>3. Paired(messages, FALSE, dropped)
    BY <2>1 DEF PairedInv, Open
  <2>4. Paired(messages', FALSE, dropped)
    BY <1>0, <2>1, <2>2, <2>3, AppendPaired
  <2> QED BY <2>1, <2>4 DEF PairedInv, Open
<1>10. ASSUME NEW gated \in BOOLEAN, NEW raw \in BOOLEAN, Request(gated, raw) PROVE PairedInv'
  <2>1. /\ task = "calling" /\ messages' = Append(messages, Say("request", raw)) /\ UNCHANGED dropped
        /\ \/ task' = "none" /\ pending' = "paused"
           \/ task' = "tools" /\ pending' = "tools"
    BY <1>10 DEF Request, history
  <2>2. Say("request", raw) \in Message /\ Say("request", raw).by = "request"
    BY <2>1, SayType DEF Begun
  <2>3. Paired(messages, FALSE, dropped)
    BY <2>1 DEF PairedInv, Open
  <2>4. Paired(messages', TRUE, dropped)
    BY <1>0, <2>1, <2>2, <2>3, AppendPaired
  <2>5. Len(messages') > 0 /\ messages'[Len(messages')].by = "request"
    BY <1>0, <2>1, <2>2
  <2> QED BY <2>1, <2>4, <2>5 DEF PairedInv, Open
<1>11. ASSUME NEW r \in Result, ToolsAnswer(r) PROVE PairedInv'
  <2>1. /\ task = "tools" /\ messages' = Append(messages, Reply(r)) /\ UNCHANGED dropped
        /\ task' = "model" /\ pending' = "model"
    BY <1>11 DEF ToolsAnswer
  <2>2. Reply(r) \in Message /\ Reply(r).by = "result"
    BY <2>1, ReplyType DEF Begun
  <2>3. /\ Paired(messages, TRUE, dropped)
        /\ Len(messages) > 0 /\ messages[Len(messages)].by = "request"
    BY <2>1 DEF PairedInv, Open
  <2>4. Paired(messages', FALSE, dropped)
    BY <1>0, <2>1, <2>2, <2>3, AppendPaired
  <2> QED BY <2>1, <2>4 DEF PairedInv, Open
<1>12. CASE Save
  <2>1. /\ task = "save" /\ UNCHANGED <<messages, dropped>>
        /\ \/ task' = "saving" /\ pending' = pending
           \/ task' = "none" /\ pending' = "none"
    BY <1>12 DEF Save, history
  <2> QED BY <2>1 DEF PairedInv, Open
<1>13. ASSUME NEW s \in saving, NEW ok \in BOOLEAN, Saved(s, ok) PROVE PairedInv'
  <2>1. /\ UNCHANGED <<messages, dropped, prompt>>
        /\ \/ task = "saving" /\ task' = "none" /\ pending' = "none"
           \/ UNCHANGED <<task, pending>>
    BY <1>13 DEF Saved, call, history
  <2> QED BY <2>1 DEF PairedInv, Open
<1>14. CASE Resume
  <2>1. /\ task = "none" /\ task' = pending' /\ pending # "none"
        /\ pending' = (IF pending = "paused" THEN "tools" ELSE pending)
        /\ UNCHANGED <<messages, dropped>>
    BY <1>14 DEF Resume, Idle, history
  <2>2. Open' = Open /\ task' \notin {"calling", "saving"}
    BY <1>0, <2>1 DEF Open, Node
  <2> QED BY <2>1, <2>2 DEF PairedInv
<1>15. CASE UNCHANGED vars
  BY <1>15 DEF vars, checkpoint, call, history, PairedInv, Open
<1> QED
  <2>1. MayFind \in BOOLEAN
    BY ConstantsAssumption DEF MayFind, TurnInv, TypeOK
  <2> QED BY <1>2, <1>3, <1>4, <1>5, <1>6, <1>7, <1>8, <1>9, <1>10, <1>11, <1>12, <1>13, <1>14,
             <1>15, <2>1
          DEF Next, TaskStep

-----------------------------------------------------------------------------
(* Fitting. A trim starts no later than at a human message whose own end of the            *)
(* conversation would fit.                                                                *)

LEMMA BudgetIs == Budget \in Nat
  BY ConstantsAssumption

LEMMA TrimFits ==
    ASSUME NEW ms \in Seq(Message)
    PROVE  \A k \in DOMAIN ms : ms[k].by \in Human =>
              \/ ms[k] \in Range(Trim(ms))
              \/ Size(SubSeq(ms, k, Len(ms))) > Budget
<1> DEFINE fits == {i \in DOMAIN ms : /\ ms[i].by \in Human
                                      /\ Size(SubSeq(ms, i, Len(ms))) <= Budget}
<1>1. ASSUME NEW k \in DOMAIN ms, ms[k].by \in Human, k \notin fits
      PROVE  Size(SubSeq(ms, k, Len(ms))) > Budget
  <2>1. SubSeq(ms, k, Len(ms)) \in Seq(Message)
    OBVIOUS
  <2>2. Size(SubSeq(ms, k, Len(ms))) \in Nat /\ Budget \in Nat
    BY <2>1, SizeIs, BudgetIs
  <2>3. ~(Size(SubSeq(ms, k, Len(ms))) <= Budget)
    BY <1>1
  <2> QED BY <2>2, <2>3
<1>2. CASE fits = {}
  BY <1>1, <1>2
<1>3. CASE fits # {}
  <2>1. fits \subseteq Nat
    OBVIOUS
  <2> DEFINE i == CHOOSE i \in fits : \A j \in fits : i <= j
  <2>2. i \in fits /\ \A j \in fits : i <= j
    BY <1>3, <2>1, Smallest
  <2>3. Trim(ms) = SubSeq(ms, i, Len(ms))
    BY <1>3 DEF Trim
  <2>4. i \in 1..Len(ms)
    BY <2>2
  <2> HIDE DEF i
  <2>5. ASSUME NEW k \in fits PROVE ms[k] \in Range(Trim(ms))
    <3>1. k \in 1..Len(ms) /\ i <= k
      BY <2>2
    <3>2. k - i + 1 \in DOMAIN Trim(ms) /\ Trim(ms)[k - i + 1] = ms[k]
      BY <2>3, <2>4, <3>1
    <3> QED BY <3>2 DEF Range
  <2> QED BY <1>1, <2>5
<1> QED BY <1>2, <1>3

\* The question stays where it is when the turn context is added.
LEMMA WholeAsks ==
    ASSUME NEW ms \in Seq(Message), Has(ms, {"human"}), NEW extra \in Seq(Message)
    PROVE  LET whole == ms \o extra
               asked == LastIndex(ms, {"human"})
           IN  /\ whole \in Seq(Message) /\ asked \in DOMAIN whole
               /\ whole[asked] = LastHuman(ms) /\ whole[asked].by \in Human
<1> DEFINE asked == LastIndex(ms, {"human"})
<1>1. asked \in 1..Len(ms) /\ ms[asked].by = "human"
  BY LastExists DEF IsLast
<1>2. LastHuman(ms) = ms[asked]
  BY DEF LastHuman
<1> HIDE DEF asked
<1>3. /\ ms \o extra \in Seq(Message) /\ asked \in DOMAIN (ms \o extra)
      /\ (ms \o extra)[asked] = ms[asked]
  BY <1>1
<1> QED BY <1>1, <1>2, <1>3 DEF asked, Human

LEMMA AskedIs ==
    ASSUME TurnInv
    PROVE  /\ messages \in Seq(Message) /\ Context \in Seq(Message)
           /\ task \in {"model", "calling"} => Has(messages, {"human"})
  BY ContextType DEF TurnInv, TypeOK, HaveInv, Begun

PromptInv ==
    /\ task = "calling" /\ attempt = 1 => prompt = messages \o Context
    /\ QuestionSeen

LEMMA PromptNext == ASSUME TurnInv, TurnInv', PromptInv, [Next]_vars PROVE PromptInv'
<1>1. ASSUME task' # "calling" PROVE PromptInv'
  BY <1>1 DEF PromptInv, QuestionSeen
<1>2. ASSUME UNCHANGED <<task, messages, recalled, prompt, attempt>> PROVE PromptInv'
  <2>1. LastHuman(messages)' = LastHuman(messages) /\ Context' = Context
    BY <1>2 DEF LastHuman, Context
  <2> QED BY <1>2, <2>1 DEF PromptInv, QuestionSeen
<1>3. CASE CallModel
  <2>1. /\ task = "model" /\ task' = "calling" /\ attempt' = 1 /\ prompt' = messages \o Context
        /\ UNCHANGED <<messages, recalled>>
    BY <1>3 DEF CallModel, checkpoint
  <2>2. LastHuman(messages)' = LastHuman(messages) /\ Context' = Context
    BY <2>1 DEF LastHuman, Context
  <2>3. LastHuman(messages) \in Range(messages \o Context)
    BY <2>1, AskedIs, WholeAsks DEF Range
  <2> QED BY <2>1, <2>2, <2>3 DEF PromptInv, QuestionSeen
<1>4. ASSUME NEW mistaken \in BOOLEAN, Overflow(mistaken) PROVE PromptInv'
  <2> DEFINE whole == messages \o Context
             asked == LastIndex(messages, {"human"})
  <2>1. /\ task = "calling" /\ attempt = 1 /\ prompt' = Trim(prompt) /\ attempt' = 2
        /\ UNCHANGED <<task, messages, recalled>>
    BY <1>4 DEF Overflow, checkpoint
  <2>2. prompt = whole
    BY <2>1 DEF PromptInv
  <2>3. /\ whole \in Seq(Message) /\ asked \in DOMAIN whole
        /\ whole[asked] = LastHuman(messages) /\ whole[asked].by \in Human
    BY <2>1, AskedIs, WholeAsks
  <2> HIDE DEF whole, asked
  <2>4. \/ LastHuman(messages) \in Range(Trim(whole))
        \/ Size(SubSeq(whole, asked, Len(whole))) > Budget
    BY <2>3, TrimFits
  <2>5. /\ LastHuman(messages)' = LastHuman(messages) /\ Context' = Context
        /\ LastIndex(messages, {"human"})' = LastIndex(messages, {"human"})
    BY <2>1 DEF LastHuman, Context
  <2>6. whole' = whole /\ asked' = asked
    BY <2>1, <2>5 DEF whole, asked
  <2>7. QuestionSeen'
    BY <2>1, <2>2, <2>4, <2>5, <2>6 DEF QuestionSeen, whole, asked
  <2> QED BY <2>1, <2>2, <2>4, <2>7 DEF PromptInv
<1>5. ASSUME NEW t \in Text, TurnMessage(t) PROVE PromptInv'
  BY <1>1, <1>5 DEF TurnMessage
<1>6. ASSUME NEW down \in SUBSET Layer, Guarded(down) PROVE PromptInv'
  BY <1>1, <1>6 DEF Guarded
<1>7. CASE NoGraph \/ GraphInput \/ RunFails \/ Save \/ Cut
  BY <1>1, <1>7 DEF NoGraph, GraphInput, RunFails, Save, Cut
<1>8. ASSUME NEW found \in BOOLEAN, Recalled(found) PROVE PromptInv'
  BY <1>1, <1>8 DEF Recalled
<1>9. ASSUME NEW raw \in BOOLEAN,
             Answer(raw) \/ \E gated \in BOOLEAN : Request(gated, raw) PROVE PromptInv'
  BY <1>1, <1>9 DEF Answer, Request
<1>10. ASSUME NEW r \in Result, ToolsAnswer(r) PROVE PromptInv'
  BY <1>1, <1>10 DEF ToolsAnswer
<1>11. ASSUME NEW s \in saving, NEW ok \in BOOLEAN, Saved(s, ok) PROVE PromptInv'
  <2>1. task' = "none" \/ UNCHANGED <<task, messages, recalled, prompt, attempt>>
    BY <1>11 DEF Saved, call
  <2> QED BY <1>1, <1>2, <2>1
<1>12. CASE Resume
  <2>1. task' # "calling"
    BY <1>12 DEF Resume, TurnInv, TypeOK, Node
  <2> QED BY <1>1, <2>1
<1>13. CASE UNCHANGED vars
  BY <1>2, <1>13 DEF vars, checkpoint, call
<1> QED
  <2>1. MayFind \in BOOLEAN
    BY ConstantsAssumption DEF MayFind, TurnInv, TypeOK
  <2> QED BY <1>3, <1>4, <1>5, <1>6, <1>7, <1>8, <1>9, <1>10, <1>11, <1>12, <1>13, <2>1
          DEF Next, TaskStep

-----------------------------------------------------------------------------
(* Every variable has its type, for every configuration and every bound.                  *)
THEOREM TurnTypes == Spec => []TypeOK
<1>1. TurnInv => TypeOK
  BY DEF TurnInv
<1> QED BY <1>1, TurnAlways, PTL

(* A message that the guardrail refuses (ai_gateway.py:322) reaches no checkpoint, no      *)
(* prompt and no summary, however many turns, resumes and cancellations there are.         *)
THEOREM TurnBlockedStaysOut == Spec => []BlockedStaysOut
<1>1. TurnInv => BlockedStaysOut
  BY DEF TurnInv, NumberInv, Fine, Seen, Summaries, BlockedStaysOut
<1> QED BY <1>1, TurnAlways, PTL

(* Outside Bedrock a question in the checkpoint is redacted unless its redaction failed      *)
(* (guardrail_fallback.py:90); other text that redaction would have changed is in a message, *)
(* prompt or summary only after that, or after a tool's answer or a user's decision brought  *)
(* some in (ai_gateway.py:256), in that turn or before it.                                  *)
THEOREM TurnRawExplained == Spec => []RawExplained
<1>1. TurnInv => RawExplained
  BY DEF TurnInv, RawInv, Seen, Summaries, RawExplained
<1> QED BY <1>1, TurnAlways, PTL

(* What a model call shows of the memory was searched with that run's own question         *)
(* (lifecycle_middleware.py:59-99), although the channel outlives the run.                 *)
THEOREM TurnOwnMemory == Spec => []OwnMemory
<1>1. TurnInv => OwnMemory
  BY DEF TurnInv, MemoryInv
<1> QED BY <1>1, TurnAlways, PTL

(* A summary pairs a question with the answer of the same turn                             *)
(* (lifecycle_middleware.py:118).                                                          *)
THEOREM TurnSummaryOwnTurn == Spec => []SummaryOwnTurn
<1>1. TurnInv => SummaryOwnTurn
  BY DEF TurnInv, PairInv
<1> QED BY <1>1, TurnAlways, PTL
(* Without cancellations the summaries are written in the order of their turns, one of a   *)
(* turn at most (memory.py:42).                                                            *)
THEOREM TurnSavedInOrder == Spec => []SavedInOrder
<1>1. Init => OrderInv
  BY NoMessages DEF Init, OrderInv
<1>2. TurnInv /\ TurnInv' /\ OrderInv /\ [Next]_vars => OrderInv'
  BY OrderNext
<1>3. OrderInv => SavedInOrder
  BY DEF OrderInv, SavedInOrder
<1> QED BY <1>1, <1>2, <1>3, TurnAlways, PTL DEF Spec

(* A trim separates no tool result from its request (context_overflow_middleware.py:45),   *)
(* and only an abandoned turn leaves a request without its result.                         *)
THEOREM TurnWellFormed == Spec => []WellFormed
<1>1. Init => PairedInv
  BY DEF Init, PairedInv, Open, Paired
<1>2. TurnInv /\ PairedInv /\ [Next]_vars => PairedInv'
  BY PairedNext
<1>3. PairedInv => WellFormed
  BY DEF PairedInv, Paired, WellFormed
<1> QED BY <1>1, <1>2, <1>3, TurnAlways, PTL DEF Spec

LEMMA PromptAlways == Spec => []PromptInv
<1>1. Init => PromptInv
  BY DEF Init, PromptInv, QuestionSeen
<1>2. TurnInv /\ TurnInv' /\ PromptInv /\ [Next]_vars => PromptInv'
  BY PromptNext
<1> QED BY <1>1, <1>2, TurnAlways, PTL DEF Spec

(* A trimmed call still has the question unless what follows it exceeds the budget alone    *)
(* (context_overflow_middleware.py:45), for every sequence of messages and all their sizes. *)
THEOREM TurnQuestionSeen == Spec => []QuestionSeen
<1>1. PromptInv => QuestionSeen
  BY DEF PromptInv
<1> QED BY <1>1, PromptAlways, PTL
=============================================================================
