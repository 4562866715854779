----------------------------- MODULE WireProofs ------------------------------
(* What a turn gets from its event stream, for any number of messages, calls,          *)
(* results and chunks of text, and that it implements Transcript.                      *)
EXTENDS WireStream, TLAPS

-----------------------------------------------------------------------------
(* The invariant *)

(* The run: messages that have not begun are empty, the last possible one calls no     *)
(* tool, and a call belongs to one message.                                            *)
RunInv ==
    /\ \A m \in Message : m > last => said[m] = 0 /\ asked[m] = {}
    /\ \A m \in Message : asked[m] # {} => m < MaxMessages
    /\ graph = "tools" => asked[last] # {}
    /\ \A m, n \in Message : asked[m] \cap asked[n] # {} => m = n

(* The message pump: what it knows of the message it reads, and what it knows when a   *)
(* projection of it has ended.                                                         *)
ReadingInv ==
    /\ cur >= 1 /\ pending \subseteq asked[cur] /\ heard <= said[cur]
    /\ ~committed => parts = heard /\ pending = {}
    /\ ~textOpen => Broken(cur) \/ (Complete(cur) /\ heard = said[cur])
    /\ ~callsOpen => Broken(cur) \/ (Complete(cur) /\ pending = asked[cur]
                                                   /\ emitted = pending)

PumpInv ==
    /\ cur <= last
    /\ messages = "reading" => ReadingInv
    /\ messages = "ended" => graph = "ended" /\ cur = last

(* m has been read to its end.                                                         *)
Read(m) == m < cur \/ (m = cur /\ messages \in {"waiting", "ended"})

(* Announcements: a call that was announced is of a message that was read, and of the  *)
(* current one only if the pump has put it down.                                       *)
AnnouncedInv ==
    /\ \A c \in Call : announced[c] <= 1
    /\ \A c \in Call : announced[c] = 1 =>
         \E m \in Message : m <= cur /\ c \in asked[m] /\ (m = cur => c \in emitted)
    /\ ~closed =>
         /\ \A c \in emitted : announced[c] = 1
         /\ \A m \in Message : Read(m) =>
              Broken(m) \/ (Complete(m) /\ \A c \in asked[m] : announced[c] = 1)

(* Text: what has not been committed is still in _parts.                               *)
TextInv ==
    /\ \A m \in Message : commits[m] <= deltas[m]
    /\ \A m \in Message : m > cur => commits[m] = 0 /\ deltas[m] = 0 /\ answer[m] = 0
    /\ ~closed =>
         /\ cur >= 1 => commits[cur] + parts <= deltas[cur]
         /\ messages = "reading" => deltas[cur] = heard /\ answer[cur] = 0
         /\ \A m \in Message : Read(m) =>
              Broken(m) \/ (Complete(m) /\ deltas[m] = said[m])
    /\ \A m \in Message : answer[m] > 0 =>
         Broken(m) \/ (Complete(m) /\ asked[m] = {} /\ answer[m] = said[m])

ShownInv ==
    /\ \A r \in Call \cup Old : shown[r] <= 1
    /\ \A r \in Call \cup Old : shown[r] = 1 => r \in seen
    /\ ~closed => \A r \in seen : shown[r] = 1
    /\ values = "ended" => graph = "ended" /\ Old \cup result \subseteq seen

Delivered ==
    /\ \A m \in Message : deltas[m] = said[m]
    /\ \A m \in Message : \A c \in asked[m] : announced[c] = 1
    /\ \A r \in result : shown[r] = 1

DriverInv ==
    /\ closed <=> driver \notin {"running", "cancelling"}
    /\ consumer # "reading" => driver # "running"
    /\ consumer = "ended" => driver = "ended"
    /\ driver = "ended" =>
         messages = "ended" /\ values = "ended" /\ graph = "ended" /\ Delivered
    /\ driver = "failed" => "failed" \in {messages, values}
    /\ driver = "cancelled" => Stopped(messages) /\ Stopped(values)

WireInv ==
    TypeOK /\ RunInv /\ PumpInv /\ AnnouncedInv /\ TextInv /\ ShownInv /\ DriverInv

LEMMA WireInit == Init => WireInv
<1> SUFFICES ASSUME Init PROVE WireInv
  OBVIOUS
<1> USE ConstantsAssumption DEF Init, Message
<1>1. TypeOK
  <2>1. /\ said \in [Message -> 0..MaxText] /\ {deltas, commits, answer} \subseteq [Message -> Nat]
        /\ asked \in [Message -> SUBSET Call]
    BY SMTT(30)
  <2>2. announced \in [Call -> Nat] /\ shown \in [Call \cup Old -> Nat]
    BY SMTT(30)
  <2>3. {textOpen, callsOpen, committed} \subseteq BOOLEAN /\ closed \in BOOLEAN
    OBVIOUS
  <2>4. last \in 1..MaxMessages /\ cur \in 0..MaxMessages /\ heard \in 0..MaxText /\ parts \in 0..heard
    OBVIOUS
  <2> QED BY <2>1, <2>2, <2>3, <2>4 DEF TypeOK
<1>2. RunInv /\ PumpInv /\ ShownInv /\ DriverInv
  BY DEF RunInv, PumpInv, ReadingInv, ShownInv, DriverInv
<1>3. AnnouncedInv /\ TextInv
  BY DEF AnnouncedInv, TextInv, Read
<1> QED BY <1>1, <1>2, <1>3 DEF WireInv

-----------------------------------------------------------------------------
(* The run goes on *)

(* What a step of the run leaves as it was: all of a message that is over, and the     *)
(* whole run once it has ended.                                                        *)
Grown ==
    /\ graph' \in {"model", "tools", "ended", "failed"} /\ last' \in Message
    /\ said' \in [Message -> 0..MaxText] /\ asked' \in [Message -> SUBSET Call]
    /\ result' \subseteq Call
    /\ last <= last' /\ result \subseteq result'
    /\ graph \notin {"ended", "failed"}
    /\ \A m \in Message : said[m] <= said'[m] /\ asked[m] \subseteq asked'[m]
    /\ \A m \in Message : ~Broken(m)
    /\ \A m \in Message : m <= last /\ Complete(m) =>
         /\ Complete(m)' \/ Broken(m)'
         /\ said'[m] = said[m] /\ asked'[m] = asked[m]

LEMMA RunGrows ==
  ASSUME TypeOK, RunInv, RunStep
  PROVE  Grown /\ RunInv'
<1> USE DEF Complete, Broken
<1>0. /\ graph \in {"model", "tools", "ended", "failed"} /\ last \in Message
      /\ said \in [Message -> 0..MaxText] /\ asked \in [Message -> SUBSET Call]
      /\ result \subseteq Call
      /\ MaxText \in Nat /\ MaxMessages \in Nat \ {0} /\ Message \subseteq Int
  BY ConstantsAssumption DEF TypeOK, Message
<1>1. CASE Say
  <2>1. /\ \A m \in Message : said'[m] = IF m = last THEN said[m] + 1 ELSE said[m]
        /\ said' \in [Message -> 0..MaxText]
        /\ UNCHANGED <<graph, last, asked, result>> /\ graph = "model"
    BY <1>0, <1>1 DEF Say
  <2>2. Grown
    BY <1>0, <2>1 DEF Grown
  <2>3. RunInv'
    BY <1>0, <2>1 DEF RunInv
  <2> QED BY <2>2, <2>3
<1>2. ASSUME NEW c \in Call, Ask(c) PROVE Grown /\ RunInv'
  <2>1. /\ asked' \in [Message -> SUBSET Call] /\ UNCHANGED <<graph, last, said, result>>
        /\ graph = "model" /\ last < MaxMessages
        /\ \A m \in Message : c \notin asked[m]
        /\ \A m \in Message : asked'[m] = IF m = last THEN asked[m] \cup {c} ELSE asked[m]
    BY <1>0, <1>2 DEF Ask
  <2>2. Grown
    BY <1>0, <2>1 DEF Grown
  <2>3. ASSUME NEW m \in Message, NEW n \in Message, asked'[m] \cap asked'[n] # {}
        PROVE  m = n
    <3>1. PICK d \in Call : d \in asked'[m] /\ d \in asked'[n]
      BY <2>1, <2>3
    <3>2. CASE d = c
      BY <2>1, <3>1, <3>2
    <3>3. CASE d # c
      <4>1. d \in asked[m] /\ d \in asked[n]
        BY <2>1, <3>1, <3>3
      <4> QED BY <4>1 DEF RunInv
    <3> QED BY <3>2, <3>3
  <2>4. RunInv'
    BY <1>0, <2>1, <2>3 DEF RunInv
  <2> QED BY <2>2, <2>4
<1>3. CASE MessageEnds
  <2>1. Grown
    BY <1>0, <1>3 DEF MessageEnds, Grown
  <2>2. RunInv'
    BY <1>0, <1>3 DEF MessageEnds, RunInv
  <2> QED BY <2>1, <2>2
<1>4. ASSUME NEW c \in Call, ToolReturns(c) PROVE Grown /\ RunInv'
  <2>1. Grown
    BY <1>0, <1>4 DEF ToolReturns, Grown
  <2>2. RunInv'
    BY <1>0, <1>4 DEF ToolReturns, RunInv
  <2> QED BY <2>1, <2>2
<1>5. CASE NextMessage
  <2>1. last < MaxMessages
    BY <1>0, <1>5 DEF NextMessage, RunInv
  <2>2. last' \in Message
    BY <1>0, <1>5, <2>1 DEF NextMessage, Message
  <2>3. Grown
    BY <1>0, <1>5, <2>2 DEF NextMessage, Grown
  <2>4. RunInv'
    BY <1>0, <1>5 DEF NextMessage, RunInv
  <2> QED BY <2>3, <2>4
<1>6. CASE Pause
  <2>1. Grown
    BY <1>0, <1>6 DEF Pause, Grown
  <2>2. RunInv'
    BY <1>0, <1>6 DEF Pause, RunInv
  <2> QED BY <2>1, <2>2
<1>7. CASE GraphFails
  <2>1. Grown
    BY <1>0, <1>7 DEF GraphFails, Grown
  <2>2. RunInv'
    BY <1>0, <1>7 DEF GraphFails, RunInv
  <2> QED BY <2>1, <2>2
<1> QED BY <1>1, <1>2, <1>3, <1>4, <1>5, <1>6, <1>7 DEF RunStep

LEMMA WireRunStep == WireInv /\ RunStep => WireInv'
<1> SUFFICES ASSUME WireInv, RunStep PROVE WireInv'
  OBVIOUS
<1>0. TypeOK /\ RunInv /\ PumpInv /\ AnnouncedInv /\ TextInv /\ ShownInv /\ DriverInv
  BY DEF WireInv
<1>1. UNCHANGED <<messages, message, values, seen, driver, consumer, queue>>
  BY DEF RunStep
<1> USE DEF message, queue, text
<1>3. Grown /\ RunInv'
  BY <1>0, RunGrows
<1>2. TypeOK'
  BY <1>0, <1>1, <1>3 DEF TypeOK, Grown
<1>4. cur \in 0..MaxMessages /\ last \in Message /\ last' \in Message /\ cur <= last
  BY <1>0, <1>2 DEF TypeOK, PumpInv
<1>5. PumpInv'
  <2>1. cur' <= last'
    BY <1>0, <1>1, <1>4, <1>3 DEF Grown, Message
  <2>2. ASSUME messages' = "reading" PROVE ReadingInv'
    <3>1. messages = "reading" /\ cur \in Message
      BY <1>0, <1>1, <1>4, <2>2 DEF PumpInv, ReadingInv, Message
    <3>2. said[cur] <= said'[cur] /\ said[cur] \in Int /\ said'[cur] \in Int /\ heard \in Int
      BY <3>1, <1>0, <1>3 DEF Grown, TypeOK
    <3> QED BY <3>1, <3>2, <1>0, <1>1, <1>3 DEF Grown, PumpInv, ReadingInv
  <2>3. messages' # "ended"
    BY <1>0, <1>1, <1>3 DEF Grown, PumpInv
  <2> QED BY <2>1, <2>2, <2>3 DEF PumpInv
<1>r. \A m \in Message : Read(m) => m <= last
  BY <1>4 DEF Read, Message
<1>s. \A m \in Message : Read(m)' <=> Read(m)
  BY <1>1 DEF Read
<1>6. AnnouncedInv'
  <2>1. \A c \in Call : announced'[c] = 1 =>
          \E m \in Message : m <= cur' /\ c \in asked'[m] /\ (m = cur' => c \in emitted')
    <3> SUFFICES ASSUME NEW c \in Call, announced'[c] = 1
                 PROVE  \E m \in Message : m <= cur' /\ c \in asked'[m]
                                             /\ (m = cur' => c \in emitted')
      OBVIOUS
    <3>1. PICK m \in Message : m <= cur /\ c \in asked[m] /\ (m = cur => c \in emitted)
      BY <1>0, <1>1 DEF AnnouncedInv
    <3>2. c \in asked'[m]
      BY <3>1, <1>3 DEF Grown
    <3> QED BY <3>1, <3>2, <1>1
  <2>2. ASSUME ~closed, NEW m \in Message, Read(m)
        PROVE  Broken(m)' \/ (Complete(m)' /\ \A c \in asked'[m] : announced'[c] = 1)
    <3>1. Complete(m) /\ \A c \in asked[m] : announced[c] = 1
      BY <1>0, <1>3, <2>2 DEF AnnouncedInv, Grown
    <3> QED BY <3>1, <2>2, <1>1, <1>3, <1>r DEF Grown
  <2> QED BY <2>1, <2>2, <1>s, <1>0, <1>1 DEF AnnouncedInv
<1>7. TextInv'
  <2>1. ASSUME ~closed, NEW m \in Message, Read(m)
        PROVE  Broken(m)' \/ (Complete(m)' /\ deltas'[m] = said'[m])
    <3>1. Complete(m) /\ deltas[m] = said[m]
      BY <1>0, <1>3, <2>1 DEF TextInv, Grown
    <3> QED BY <3>1, <2>1, <1>1, <1>3, <1>r DEF Grown
  <2>2. ASSUME NEW m \in Message, answer[m] > 0
        PROVE  Broken(m)' \/ (Complete(m)' /\ asked'[m] = {} /\ answer'[m] = said'[m])
    <3>1. Complete(m) /\ asked[m] = {} /\ answer[m] = said[m]
      BY <1>0, <1>3, <2>2 DEF TextInv, Grown
    <3>2. m <= last
      BY <1>0, <1>4, <2>2 DEF TextInv, Message
    <3> QED BY <3>1, <3>2, <1>1, <1>3 DEF Grown
  <2> QED BY <2>1, <2>2, <1>s, <1>0, <1>1 DEF TextInv
<1>8. ShownInv'
  BY <1>0, <1>1, <1>3 DEF Grown, ShownInv
<1>9. DriverInv'
  BY <1>0, <1>1, <1>3 DEF Grown, DriverInv, Stopped
<1> QED BY <1>2, <1>3, <1>5, <1>6, <1>7, <1>8, <1>9 DEF WireInv

-----------------------------------------------------------------------------
(* The message pump *)

(* What no step of the pump touches; and a pump that is at work keeps the driver busy,  *)
(* unless the other one has failed.                                                    *)
Else == <<run, values, seen, driver, consumer, closed, shown>>

LEMMA PumpFrame ==
  ASSUME WireInv, UNCHANGED Else, messages \in {"waiting", "reading"}
  PROVE  RunInv' /\ ShownInv' /\ DriverInv' /\ driver # "ended"
BY DEF WireInv, Else, run, RunInv, ShownInv, DriverInv, Stopped

(* Steps inside one message do not change which messages have been read.               *)
LEMMA InMessage ==
  ASSUME WireInv, messages = "reading"
  PROVE  /\ cur \in Message /\ cur <= last /\ cur \in Int /\ cur >= 1
         /\ ReadingInv /\ \A m \in Message : Read(m) <=> m < cur
         /\ heard \in 0..MaxText /\ parts \in 0..heard /\ said[cur] \in 0..MaxText
         /\ pending \subseteq Call /\ emitted \subseteq pending
         /\ deltas \in [Message -> Nat] /\ commits \in [Message -> Nat]
         /\ answer \in [Message -> Nat] /\ MaxText \in Nat
<1>1. MaxText \in Nat /\ MaxMessages \in Nat
  BY ConstantsAssumption
<1>2. ReadingInv /\ cur <= last /\ last \in Message
  BY DEF WireInv, PumpInv, TypeOK
<1>3. /\ heard \in 0..MaxText /\ parts \in 0..heard
      /\ pending \subseteq Call /\ emitted \subseteq pending
      /\ deltas \in [Message -> Nat] /\ commits \in [Message -> Nat]
      /\ answer \in [Message -> Nat] /\ said \in [Message -> 0..MaxText]
  BY DEF WireInv, TypeOK
<1>4. cur \in Message /\ cur >= 1 /\ cur \in Int
  <2>1. cur \in 0..MaxMessages /\ cur >= 1
    BY <1>2 DEF WireInv, TypeOK, ReadingInv
  <2> QED BY <1>1, <2>1 DEF Message
<1>5. \A m \in Message : Read(m) <=> m < cur
  BY <1>4 DEF Read, Message
<1> QED BY <1>1, <1>2, <1>3, <1>4, <1>5

LEMMA WirePumpText ==
  ASSUME WireInv, PumpText, UNCHANGED Else
  PROVE  WireInv'
<1>0. TypeOK /\ RunInv /\ PumpInv /\ AnnouncedInv /\ TextInv /\ ShownInv /\ DriverInv
  BY DEF WireInv
<1>1. /\ messages = "reading" /\ textOpen /\ heard < said[cur]
      /\ heard' = heard + 1 /\ parts' = parts + 1 /\ deltas' = Count(deltas, cur, 1)
      /\ UNCHANGED <<messages, cur, textOpen, callsOpen, committed, pending, emitted,
                     commits, answer, announced>>
      /\ UNCHANGED <<graph, last, said, asked, result, values, seen, driver, consumer,
                     closed, shown>>
  BY DEF PumpText, Else, run
<1>2. /\ cur \in Message /\ cur <= last /\ cur \in Int /\ cur >= 1 /\ ReadingInv
      /\ heard \in 0..MaxText /\ parts \in 0..heard /\ said[cur] \in 0..MaxText
      /\ deltas \in [Message -> Nat] /\ commits \in [Message -> Nat] /\ MaxText \in Nat
  BY <1>1, InMessage
<1>3. /\ deltas' \in [Message -> Nat]
      /\ \A m \in Message : deltas'[m] = IF ~closed /\ m = cur THEN deltas[m] + 1 ELSE deltas[m]
  BY <1>1, <1>2 DEF Count
<1>4. TypeOK'
  BY <1>0, <1>1, <1>2, <1>3 DEF TypeOK, Message
<1>5. PumpInv'
  BY <1>0, <1>1, <1>2 DEF PumpInv, ReadingInv, Broken, Complete
<1>6. \A m \in Message : Read(m)' <=> Read(m)
  BY <1>1 DEF Read
<1>7. AnnouncedInv'
  BY <1>0, <1>1, <1>6 DEF AnnouncedInv, Broken, Complete
<1>8. TextInv'
  <2>1. \A m \in Message : Read(m) => m # cur
    BY <1>1, <1>2 DEF Read
  <2>2. \A m \in Message : m > cur => m # cur
    BY <1>2
  <2>3. \A m \in Message : commits'[m] <= deltas'[m]
    BY <1>0, <1>1, <1>2, <1>3 DEF TextInv
  <2> QED BY <1>0, <1>1, <1>2, <1>3, <1>6, <2>1, <2>2, <2>3 DEF TextInv, Broken, Complete
<1>9. RunInv' /\ ShownInv' /\ DriverInv'
  BY <1>1, PumpFrame
<1> QED BY <1>4, <1>5, <1>7, <1>8, <1>9 DEF WireInv

LEMMA WireTakeMessage ==
  ASSUME WireInv, TakeMessage, UNCHANGED Else
  PROVE  WireInv'
<1>0. TypeOK /\ RunInv /\ PumpInv /\ AnnouncedInv /\ TextInv /\ ShownInv /\ DriverInv
  BY DEF WireInv
<1>1. /\ messages = "waiting" /\ cur < last
      /\ messages' = "reading" /\ cur' = cur + 1
      /\ textOpen' = TRUE /\ callsOpen' = TRUE
      /\ heard' = 0 /\ parts' = 0 /\ committed' = FALSE
      /\ pending' = {} /\ emitted' = {}
      /\ UNCHANGED <<deltas, commits, answer, announced>>
      /\ UNCHANGED <<graph, last, said, asked, result, values, seen, driver, consumer,
                     closed, shown>>
  BY DEF TakeMessage, text, Else, run
<1>2. /\ cur \in Int /\ last \in Int /\ cur >= 0 /\ cur' \in Message /\ Message \subseteq Int
      /\ said \in [Message -> 0..MaxText] /\ MaxText \in Nat
      /\ deltas \in [Message -> Nat] /\ commits \in [Message -> Nat]
      /\ answer \in [Message -> Nat]
  BY <1>0, <1>1, ConstantsAssumption DEF TypeOK, Message
<1>3. cur' \in 0..MaxMessages /\ heard' \in 0..MaxText /\ parts' \in 0..heard'
  BY <1>1, <1>2 DEF Message
<1>4. TypeOK'
  <2>1. {textOpen, callsOpen, committed}' \subseteq BOOLEAN /\ emitted' \subseteq pending'
    BY <1>1
  <2> QED BY <1>0, <1>1, <1>3, <2>1 DEF TypeOK
<1>5. PumpInv'
  BY <1>0, <1>1, <1>2 DEF PumpInv, ReadingInv
<1>6. \A m \in Message : Read(m)' <=> Read(m)
  BY <1>1, <1>2 DEF Read
<1>7. AnnouncedInv'
  <2>1. ASSUME NEW c \in Call, announced[c] = 1
        PROVE  \E m \in Message : m < cur' /\ c \in asked[m]
    BY <1>0, <1>2, <1>1, <2>1 DEF AnnouncedInv
  <2>2. \A c \in Call : announced'[c] = 1 =>
          \E m \in Message : m <= cur' /\ c \in asked'[m] /\ (m = cur' => c \in emitted')
    BY <2>1, <1>1, <1>2
  <2> QED BY <2>2, <1>0, <1>1, <1>6 DEF AnnouncedInv, Broken, Complete
<1>8. TextInv'
  <2>1. deltas[cur'] = 0 /\ commits[cur'] = 0 /\ answer[cur'] = 0
    BY <1>0, <1>1, <1>2 DEF TextInv
  <2>2. \A m \in Message : m > cur' => m > cur
    BY <1>1, <1>2
  <2>3. \A m \in Message : m > cur' => commits'[m] = 0 /\ deltas'[m] = 0 /\ answer'[m] = 0
    BY <1>0, <1>1, <2>2 DEF TextInv
  <2>4. ~closed' => /\ commits'[cur'] + parts' <= deltas'[cur']
                    /\ deltas'[cur'] = heard' /\ answer'[cur'] = 0
    BY <1>1, <2>1
  <2>5. ~closed' => \A m \in Message : Read(m)' =>
          Broken(m)' \/ (Complete(m)' /\ deltas'[m] = said'[m])
    BY <1>0, <1>1, <1>6 DEF TextInv, Broken, Complete
  <2>6. \A m \in Message : answer'[m] > 0 =>
          Broken(m)' \/ (Complete(m)' /\ asked'[m] = {} /\ answer'[m] = said'[m])
    BY <1>0, <1>1 DEF TextInv, Broken, Complete
  <2> QED BY <1>0, <1>1, <2>3, <2>4, <2>5, <2>6 DEF TextInv
<1>9. RunInv' /\ ShownInv' /\ DriverInv'
  BY <1>1, PumpFrame
<1> QED BY <1>4, <1>5, <1>7, <1>8, <1>9 DEF WireInv

LEMMA WireTextEnds ==
  ASSUME WireInv, TextEnds, UNCHANGED Else
  PROVE  WireInv'
<1>0. TypeOK /\ RunInv /\ PumpInv /\ AnnouncedInv /\ TextInv /\ ShownInv /\ DriverInv
  BY DEF WireInv
<1>1. /\ messages = "reading" /\ textOpen' = FALSE
      /\ (heard = said[cur] /\ Complete(cur)) \/ Broken(cur)
      /\ UNCHANGED <<messages, cur, callsOpen, heard, parts, committed, pending, emitted,
                     deltas, commits, answer, announced>>
      /\ UNCHANGED <<graph, last, said, asked, result, values, seen, driver, consumer,
                     closed, shown>>
  BY DEF TextEnds, text, Else, run
<1>4. TypeOK'
  BY <1>0, <1>1 DEF TypeOK
<1>5. PumpInv'
  BY <1>0, <1>1 DEF PumpInv, ReadingInv, Broken, Complete
<1>6. AnnouncedInv' /\ TextInv'
  BY <1>0, <1>1 DEF AnnouncedInv, TextInv, Read, Broken, Complete
<1>9. RunInv' /\ ShownInv' /\ DriverInv'
  BY <1>1, PumpFrame
<1> QED BY <1>4, <1>5, <1>6, <1>9 DEF WireInv

LEMMA WireMessagesEnd ==
  ASSUME WireInv, MessagesEnd, UNCHANGED Else
  PROVE  WireInv'
<1>0. TypeOK /\ RunInv /\ PumpInv /\ AnnouncedInv /\ TextInv /\ ShownInv /\ DriverInv
  BY DEF WireInv
<1>1. /\ messages = "waiting" /\ cur = last /\ graph \in {"ended", "failed"}
      /\ messages' = graph
      /\ UNCHANGED <<cur, textOpen, callsOpen, heard, parts, committed, pending, emitted,
                     deltas, commits, answer, announced>>
      /\ UNCHANGED <<graph, last, said, asked, result, values, seen, driver, consumer,
                     closed, shown>>
  BY DEF MessagesEnd, message, text, Else, run
<1>4. TypeOK'
  BY <1>0, <1>1 DEF TypeOK
<1>5. PumpInv'
  BY <1>0, <1>1 DEF PumpInv
<1>6. AnnouncedInv' /\ TextInv'
  BY <1>0, <1>1 DEF AnnouncedInv, TextInv, Read, Broken, Complete
<1>9. RunInv' /\ ShownInv' /\ DriverInv'
  BY <1>1, PumpFrame
<1> QED BY <1>4, <1>5, <1>6, <1>9 DEF WireInv

(* A call of the current message that the pump has not put down is not announced.      *)
LEMMA NotYetAnnounced ==
  ASSUME WireInv, messages = "reading", NEW c \in Call, c \in asked[cur], c \notin emitted
  PROVE  announced[c] = 0
<1>1. announced[c] \in Nat /\ announced[c] <= 1 /\ cur \in Message
  BY InMessage DEF WireInv, TypeOK, AnnouncedInv
<1>2. announced[c] # 1
  <2> SUFFICES ASSUME announced[c] = 1 PROVE FALSE
    OBVIOUS
  <2>1. PICK m \in Message : m <= cur /\ c \in asked[m] /\ (m = cur => c \in emitted)
    BY DEF WireInv, AnnouncedInv
  <2>2. m = cur
    BY <1>1, <2>1 DEF WireInv, RunInv
  <2> QED BY <2>1, <2>2
<1> QED BY <1>1, <1>2

(* The calls cs of the current message, none of them put down before, are announced.   *)
LEMMA Announcing ==
  ASSUME WireInv, messages = "reading", NEW cs \in SUBSET (asked[cur] \ emitted),
         AnnounceAll(cs), UNCHANGED <<Else, messages, cur>>, emitted' = emitted \cup cs
  PROVE  announced' \in [Call -> Nat] /\ AnnouncedInv'
<1>0. TypeOK /\ RunInv /\ AnnouncedInv
  BY DEF WireInv
<1>1. UNCHANGED <<graph, last, said, asked, closed>>
  BY DEF Else, run
<1>2. /\ cur \in Message /\ cur \in Int /\ cs \subseteq Call /\ emitted \subseteq Call
      /\ announced \in [Call -> Nat] /\ asked \in [Message -> SUBSET Call]
      /\ \A m \in Message : Read(m) <=> m < cur
  BY <1>0, InMessage DEF TypeOK
<1>3. announced' \in [Call -> Nat]
  BY <1>2 DEF AnnounceAll
<1>4. \A d \in Call : announced'[d] = IF ~closed /\ d \in cs THEN 1 ELSE announced[d]
  BY <1>2, NotYetAnnounced DEF AnnounceAll
<1>5. \A d \in Call : announced'[d] <= 1
  BY <1>0, <1>4 DEF AnnouncedInv
<1>6. ASSUME NEW d \in Call, announced'[d] = 1
      PROVE  \E m \in Message : m <= cur' /\ d \in asked'[m] /\ (m = cur' => d \in emitted')
  <2>1. CASE d \in cs
    BY <1>1, <1>2, <2>1
  <2>2. CASE d \notin cs
    <3>1. announced[d] = 1
      BY <1>4, <1>6, <2>2
    <3> QED BY <3>1, <1>0, <1>1 DEF AnnouncedInv
  <2> QED BY <2>1, <2>2
<1>7. ASSUME ~closed, NEW d \in emitted' PROVE announced'[d] = 1
  BY <1>0, <1>2, <1>4, <1>7 DEF AnnouncedInv
<1>8. ASSUME ~closed, NEW m \in Message, m < cur
      PROVE  Broken(m)' \/ (Complete(m)' /\ \A d \in asked'[m] : announced'[d] = 1)
  <2>1. Broken(m) \/ (Complete(m) /\ \A d \in asked[m] : announced[d] = 1)
    BY <1>0, <1>2, <1>8 DEF AnnouncedInv
  <2>2. asked[m] \subseteq Call
    BY <1>2
  <2> QED BY <2>1, <2>2, <1>1, <1>4 DEF Broken, Complete
<1>9. \A m \in Message : Read(m)' <=> m < cur
  BY <1>2 DEF Read
<1> QED BY <1>1, <1>3, <1>5, <1>6, <1>7, <1>8, <1>9 DEF AnnouncedInv

LEMMA WirePumpCall ==
  ASSUME WireInv, NEW c \in Call, NEW args \in ArgsRead, PumpCall(c, args), UNCHANGED Else
  PROVE  WireInv'
<1> DEFINE announce == args = "full" /\ c \notin emitted
           cs == IF announce THEN {c} ELSE {}
<1>0. TypeOK /\ RunInv /\ PumpInv /\ AnnouncedInv /\ TextInv /\ ShownInv /\ DriverInv
  BY DEF WireInv
<1>1. /\ messages = "reading" /\ callsOpen /\ c \in asked[cur] /\ committed' = TRUE
      /\ IF committed THEN UNCHANGED <<commits, parts>> ELSE Commit
      /\ pending' = IF args = "partial" THEN pending ELSE pending \cup {c}
      /\ emitted' = emitted \cup cs /\ AnnounceAll(cs)
      /\ UNCHANGED <<messages, cur, textOpen, callsOpen, heard, deltas, answer>>
      /\ UNCHANGED <<graph, last, said, asked, result, values, seen, driver, consumer,
                     closed, shown>>
  BY DEF PumpCall, Else, run
<1>2. /\ cur \in Message /\ cur <= last /\ cur \in Int /\ cur >= 1 /\ ReadingInv
      /\ heard \in 0..MaxText /\ parts \in 0..heard /\ said[cur] \in 0..MaxText
      /\ pending \subseteq Call /\ emitted \subseteq pending
      /\ deltas \in [Message -> Nat] /\ commits \in [Message -> Nat] /\ MaxText \in Nat
      /\ \A m \in Message : Read(m) <=> m < cur
  BY <1>1, InMessage
<1>3. announced' \in [Call -> Nat] /\ AnnouncedInv'
  BY <1>1, Announcing
<1>4. /\ commits' \in [Message -> Nat] /\ parts' \in 0..heard
      /\ \A m \in Message : commits'[m] =
            IF ~committed /\ ~closed /\ m = cur THEN commits[m] + parts ELSE commits[m]
      /\ parts' = IF committed THEN parts ELSE 0
  BY <1>1, <1>2 DEF Commit, Count
<1>5. pending' \subseteq Call /\ emitted' \subseteq pending' /\ pending' \subseteq asked[cur]
  BY <1>1, <1>2 DEF ReadingInv
<1>6. TypeOK'
  BY <1>0, <1>1, <1>3, <1>4, <1>5 DEF TypeOK
<1>7. PumpInv'
  BY <1>0, <1>1, <1>2, <1>5 DEF PumpInv, ReadingInv, Broken, Complete
<1>8. TextInv'
  <2>1. \A m \in Message : commits'[m] <= deltas'[m]
    BY <1>0, <1>1, <1>2, <1>4 DEF TextInv
  <2>2. \A m \in Message : Read(m)' <=> m < cur
    BY <1>1, <1>2 DEF Read
  <2>3. \A m \in Message : m > cur => m # cur
    BY <1>2
  <2> QED BY <1>0, <1>1, <1>2, <1>4, <2>1, <2>2, <2>3 DEF TextInv, Broken, Complete
<1>9. RunInv' /\ ShownInv' /\ DriverInv'
  BY <1>1, PumpFrame
<1> QED BY <1>3, <1>6, <1>7, <1>8, <1>9 DEF WireInv

LEMMA WireCallsEnd ==
  ASSUME WireInv, CallsEnd, UNCHANGED Else
  PROVE  WireInv'
<1>0. TypeOK /\ RunInv /\ PumpInv /\ AnnouncedInv /\ TextInv /\ ShownInv /\ DriverInv
  BY DEF WireInv
<1>1. /\ messages = "reading" /\ callsOpen' = FALSE
      /\ \/ /\ Complete(cur) /\ pending = asked[cur]
            /\ AnnounceAll(pending \ emitted) /\ emitted' = pending
         \/ Broken(cur) /\ UNCHANGED <<announced, emitted>>
      /\ UNCHANGED <<messages, cur, textOpen, heard, parts, committed, pending,
                     deltas, commits, answer>>
      /\ UNCHANGED <<graph, last, said, asked, result, values, seen, driver, consumer,
                     closed, shown>>
  BY DEF CallsEnd, Unannounced, text, Else, run
<1>2. cur \in Message /\ ReadingInv /\ pending \subseteq Call /\ emitted \subseteq pending
  BY <1>1, InMessage
<1>3. announced' \in [Call -> Nat] /\ AnnouncedInv'
  <2>1. CASE Broken(cur) /\ UNCHANGED <<announced, emitted>>
    BY <1>0, <1>1, <2>1 DEF TypeOK, AnnouncedInv, Read, Broken, Complete
  <2>2. CASE /\ pending = asked[cur] /\ AnnounceAll(pending \ emitted) /\ emitted' = pending
    <3>1. emitted' = emitted \cup (pending \ emitted)
      BY <1>2, <2>2
    <3> QED BY <1>1, <1>2, <2>2, <3>1, Announcing
  <2> QED BY <1>1, <2>1, <2>2
<1>4. TypeOK'
  <2>1. emitted' = emitted \/ emitted' = pending
    BY <1>1
  <2>2. emitted' \subseteq pending /\ announced' \in [Call -> Nat]
    BY <1>2, <1>3, <2>1
  <2>3. {textOpen, callsOpen, committed}' \subseteq BOOLEAN
    BY <1>0, <1>1 DEF TypeOK
  <2> QED BY <1>0, <1>1, <2>2, <2>3 DEF TypeOK
<1>5. PumpInv'
  BY <1>0, <1>1, <1>2 DEF PumpInv, ReadingInv, Broken, Complete
<1>6. TextInv'
  BY <1>0, <1>1 DEF TextInv, Read, Broken, Complete
<1>9. RunInv' /\ ShownInv' /\ DriverInv'
  BY <1>1, PumpFrame
<1> QED BY <1>3, <1>4, <1>5, <1>6, <1>9 DEF WireInv

LEMMA WireMessageDone ==
  ASSUME WireInv, MessageDone, UNCHANGED Else
  PROVE  WireInv'
<1>0. TypeOK /\ RunInv /\ PumpInv /\ AnnouncedInv /\ TextInv /\ ShownInv /\ DriverInv
  BY DEF WireInv
<1>1. /\ messages = "reading" /\ ~textOpen /\ ~callsOpen /\ messages' = "waiting"
      /\ IF committed
         THEN UNCHANGED <<commits, answer, parts>>
         ELSE Commit /\ answer' = Count(answer, cur, parts)
      /\ UNCHANGED <<cur, textOpen, callsOpen, heard, committed, pending, emitted, deltas,
                     announced>>
      /\ UNCHANGED <<graph, last, said, asked, result, values, seen, driver, consumer,
                     closed, shown>>
  BY DEF MessageDone, ReadThrough, Else, run
<1>2. /\ cur \in Message /\ cur <= last /\ cur \in Int /\ cur >= 1 /\ ReadingInv
      /\ heard \in 0..MaxText /\ parts \in 0..heard /\ said[cur] \in 0..MaxText
      /\ deltas \in [Message -> Nat] /\ commits \in [Message -> Nat]
      /\ answer \in [Message -> Nat] /\ MaxText \in Nat
      /\ \A m \in Message : Read(m) <=> m < cur
  BY <1>1, InMessage
<1>4. /\ commits' \in [Message -> Nat] /\ answer' \in [Message -> Nat] /\ parts' \in 0..heard
      /\ \A m \in Message : commits'[m] =
            IF ~committed /\ ~closed /\ m = cur THEN commits[m] + parts ELSE commits[m]
      /\ \A m \in Message : answer'[m] =
            IF ~committed /\ ~closed /\ m = cur THEN answer[m] + parts ELSE answer[m]
      /\ parts' = IF committed THEN parts ELSE 0
  BY <1>1, <1>2 DEF Commit, Count
<1>5. TypeOK'
  BY <1>0, <1>1, <1>4 DEF TypeOK
<1>6. PumpInv'
  BY <1>0, <1>1 DEF PumpInv
<1>r. \A m \in Message : Read(m)' <=> m <= cur
  BY <1>1, <1>2 DEF Read, Message
<1>c. \A m \in Message : m <= cur => m < cur \/ m = cur
  BY <1>2 DEF Message
<1>b. /\ \A m \in Message : Broken(m)' <=> Broken(m)
      /\ \A m \in Message : Complete(m)' <=> Complete(m)
  BY <1>1 DEF Broken, Complete
<1>7. AnnouncedInv'
  <2>1. ~closed => Broken(cur) \/ (Complete(cur) /\ \A c \in asked[cur] : announced[c] = 1)
    BY <1>0, <1>1, <1>2 DEF AnnouncedInv, ReadingInv
  <2>2. ~closed => \A m \in Message : Read(m)' =>
          Broken(m)' \/ (Complete(m)' /\ \A c \in asked'[m] : announced'[c] = 1)
    BY <2>1, <1>0, <1>1, <1>2, <1>r, <1>c, <1>b DEF AnnouncedInv
  <2> QED BY <2>2, <1>0, <1>1 DEF AnnouncedInv
<1>8. TextInv'
  <2>1. \A m \in Message : commits'[m] <= deltas'[m]
    BY <1>0, <1>1, <1>2, <1>4 DEF TextInv
  <2>2. ~closed => \A m \in Message : Read(m)' =>
          Broken(m)' \/ (Complete(m)' /\ deltas'[m] = said'[m])
    BY <1>0, <1>1, <1>2, <1>r, <1>c, <1>b DEF TextInv, ReadingInv
  <2>3. ASSUME NEW m \in Message, answer'[m] > 0
        PROVE  Broken(m)' \/ (Complete(m)' /\ asked'[m] = {} /\ answer'[m] = said'[m])
    <3>1. CASE answer'[m] = answer[m]
      BY <3>1, <2>3, <1>0, <1>1, <1>b DEF TextInv
    <3>2. CASE ~committed /\ ~closed /\ m = cur
      <4>1. answer'[m] = heard /\ pending = {}
        BY <3>2, <1>0, <1>1, <1>2, <1>4 DEF TextInv, ReadingInv
      <4> QED BY <4>1, <3>2, <1>1, <1>2, <1>b DEF ReadingInv
    <3> QED BY <3>1, <3>2, <1>4
  <2>4. \A m \in Message : m > cur => m # cur
    BY <1>2
  <2> QED BY <1>0, <1>1, <1>2, <1>4, <2>1, <2>2, <2>3, <2>4 DEF TextInv
<1>9. RunInv' /\ ShownInv' /\ DriverInv'
  BY <1>1, PumpFrame
<1> QED BY <1>5, <1>6, <1>7, <1>8, <1>9 DEF WireInv

LEMMA WirePumpStep == WireInv /\ PumpStep => WireInv'
<1> SUFFICES ASSUME WireInv, PumpStep PROVE WireInv'
  OBVIOUS
<1>1. UNCHANGED Else
  BY DEF PumpStep, Else
<1> QED BY <1>1, WireTakeMessage, WirePumpText, WireTextEnds, WireCallsEnd, WireMessageDone,
           WireMessagesEnd, WirePumpCall DEF PumpStep

-----------------------------------------------------------------------------
(* The other pump, the driver and the generator *)

LEMMA WireValuesStep == WireInv /\ ValuesStep => WireInv'
<1> SUFFICES ASSUME WireInv, ValuesStep PROVE WireInv'
  OBVIOUS
<1>0. TypeOK /\ RunInv /\ PumpInv /\ AnnouncedInv /\ TextInv /\ ShownInv /\ DriverInv
  BY DEF WireInv
<1>1. /\ UNCHANGED <<graph, last, said, asked, result, messages, driver, consumer, closed>>
      /\ UNCHANGED <<cur, textOpen, callsOpen, heard, parts, committed, pending, emitted>>
      /\ UNCHANGED <<deltas, commits, answer, announced>>
      /\ values = "reading"
  BY DEF ValuesStep, run, message, text, ValuesEnd, PumpResult
<1>2. RunInv' /\ PumpInv' /\ AnnouncedInv' /\ TextInv'
  BY <1>0, <1>1 DEF RunInv, PumpInv, ReadingInv, AnnouncedInv, TextInv, Read, Broken, Complete
<1>3. ASSUME NEW r \in Call \cup Old, PumpResult(r)
      PROVE  TypeOK' /\ ShownInv'
  <2>1. /\ r \notin seen /\ seen' = seen \cup {r} /\ values' = values
        /\ shown' = Count(shown, r, 1)
    BY <1>3 DEF PumpResult
  <2>2. /\ shown \in [Call \cup Old -> Nat] /\ seen \subseteq Call \cup Old
        /\ shown[r] \in Nat /\ shown[r] <= 1 /\ shown[r] # 1
    BY <1>0, <2>1 DEF TypeOK, ShownInv
  <2>3. /\ shown' \in [Call \cup Old -> Nat]
        /\ \A q \in Call \cup Old : shown'[q] = IF ~closed /\ q = r THEN 1 ELSE shown[q]
    BY <2>1, <2>2 DEF Count
  <2>4. TypeOK'
    BY <1>0, <1>1, <2>1, <2>2, <2>3 DEF TypeOK
  <2>5. ShownInv'
    BY <1>0, <1>1, <2>1, <2>2, <2>3 DEF ShownInv
  <2> QED BY <2>4, <2>5
<1>4. ASSUME ValuesEnd PROVE TypeOK' /\ ShownInv'
  <2>1. TypeOK'
    BY <1>0, <1>1, <1>4 DEF TypeOK, ValuesEnd
  <2>2. ShownInv'
    BY <1>0, <1>1, <1>4 DEF ShownInv, ValuesEnd
  <2> QED BY <2>1, <2>2
<1>5. TypeOK' /\ ShownInv'
  BY <1>3, <1>4 DEF ValuesStep
<1>6. DriverInv'
  BY <1>0, <1>1 DEF DriverInv, Stopped
<1> QED BY <1>2, <1>5, <1>6 DEF WireInv

(* What the driver and the generator do leaves the pumps' knowledge alone.             *)
LEMMA DriverFrame ==
  ASSUME WireInv, UNCHANGED <<run, message, seen, text, announced, shown>>, closed => closed',
         messages' \in {messages, "cancelled"}, values' \in {values, "cancelled"}
  PROVE  RunInv' /\ PumpInv' /\ AnnouncedInv' /\ TextInv' /\ ShownInv'
<1>0. TypeOK /\ RunInv /\ PumpInv /\ AnnouncedInv /\ TextInv /\ ShownInv
  BY DEF WireInv
<1>1. /\ UNCHANGED <<graph, last, said, asked, result, seen, shown, announced>>
      /\ UNCHANGED <<cur, textOpen, callsOpen, heard, parts, committed, pending, emitted>>
      /\ UNCHANGED <<deltas, commits, answer>>
  BY DEF run, message, text
<1>2. RunInv' /\ ShownInv'
  BY <1>0, <1>1 DEF RunInv, ShownInv
<1>3. PumpInv'
  BY <1>0, <1>1 DEF PumpInv, ReadingInv, Broken, Complete
<1>4. \A m \in Message : Read(m)' => Read(m)
  BY <1>1 DEF Read
<1>5. AnnouncedInv'
  BY <1>0, <1>1, <1>4 DEF AnnouncedInv, Broken, Complete
<1>6. TextInv'
  BY <1>0, <1>1, <1>4 DEF TextInv, Broken, Complete
<1> QED BY <1>2, <1>3, <1>5, <1>6

(* When both pumps have ended, the turn has been handed everything.                    *)
LEMMA AllDelivered ==
  ASSUME WireInv, ~closed, messages = "ended", values = "ended"
  PROVE  graph = "ended" /\ Delivered
<1>0. TypeOK /\ RunInv /\ PumpInv /\ AnnouncedInv /\ TextInv /\ ShownInv
  BY DEF WireInv
<1>1. graph = "ended" /\ cur = last /\ cur \in Int
  BY <1>0 DEF PumpInv, TypeOK
<1>2. ASSUME NEW m \in Message
      PROVE  deltas[m] = said[m] /\ \A c \in asked[m] : announced[c] = 1
  <2>1. CASE m <= cur
    BY <1>0, <1>1, <2>1 DEF Read, TextInv, AnnouncedInv, Broken, Message
  <2>2. CASE m > cur
    BY <1>0, <1>1, <2>2 DEF TextInv, RunInv
  <2> QED BY <1>1, <2>1, <2>2 DEF Message
<1>3. \A r \in result : shown[r] = 1
  BY <1>0 DEF ShownInv, TypeOK
<1> QED BY <1>1, <1>2, <1>3 DEF Delivered

LEMMA WireDriver ==
  WireInv /\ (DriverEnds \/ DriverCancelled \/ StreamOver \/ Cancel) => WireInv'
<1> SUFFICES ASSUME WireInv, DriverEnds \/ DriverCancelled \/ StreamOver \/ Cancel
             PROVE  WireInv'
  OBVIOUS
<1>0. TypeOK /\ DriverInv
  BY DEF WireInv
<1>1. /\ UNCHANGED <<run, message, seen, text, announced, shown>>
      /\ closed => closed'
      /\ messages' \in {messages, "cancelled"} /\ values' \in {values, "cancelled"}
  BY <1>0 DEF DriverEnds, DriverCancelled, StreamOver, Cancel, queue, Abandoned
<1>2. RunInv' /\ PumpInv' /\ AnnouncedInv' /\ TextInv' /\ ShownInv'
  BY <1>1, DriverFrame
<1>3. /\ UNCHANGED <<graph, last, said, asked, result, seen, shown, announced>>
      /\ UNCHANGED <<cur, textOpen, callsOpen, heard, parts, committed, pending, emitted>>
      /\ UNCHANGED <<deltas, commits, answer>>
  BY <1>1 DEF run, message, text
<1>4. CASE DriverEnds
  <2>1. TypeOK'
    BY <1>0, <1>3, <1>4 DEF TypeOK, DriverEnds
  <2>2. ~closed
    BY <1>0, <1>4 DEF DriverInv, DriverEnds
  <2>3. DriverInv'
    BY <1>0, <1>3, <1>4, <2>2, AllDelivered DEF DriverInv, DriverEnds, Delivered
  <2> QED BY <1>2, <2>1, <2>3 DEF WireInv
<1>5. CASE DriverCancelled
  <2>1. TypeOK'
    BY <1>0, <1>3, <1>5 DEF TypeOK, DriverCancelled, Abandoned
  <2>2. DriverInv'
    BY <1>0, <1>3, <1>5 DEF TypeOK, DriverInv, DriverCancelled, Abandoned, Stopped
  <2> QED BY <1>2, <2>1, <2>2 DEF WireInv
<1>6. CASE StreamOver
  <2>1. TypeOK'
    BY <1>0, <1>3, <1>6 DEF TypeOK, StreamOver, DriverInv, queue
  <2>2. DriverInv'
    BY <1>0, <1>3, <1>6 DEF DriverInv, StreamOver, queue, Delivered, Stopped
  <2> QED BY <1>2, <2>1, <2>2 DEF WireInv
<1>7. CASE Cancel
  <2>1. TypeOK'
    BY <1>0, <1>3, <1>7 DEF TypeOK, Cancel, queue
  <2>2. DriverInv'
    BY <1>0, <1>3, <1>7 DEF DriverInv, Cancel, queue, Delivered, Stopped
  <2> QED BY <1>2, <2>1, <2>2 DEF WireInv
<1> QED BY <1>4, <1>5, <1>6, <1>7

-----------------------------------------------------------------------------
(* The results *)

LEMMA WireStutter == WireInv /\ UNCHANGED vars => WireInv'
<1> SUFFICES ASSUME WireInv, UNCHANGED vars PROVE WireInv'
  OBVIOUS
<1>0. TypeOK /\ DriverInv
  BY DEF WireInv
<1>1. RunInv' /\ PumpInv' /\ AnnouncedInv' /\ TextInv' /\ ShownInv'
  BY DriverFrame DEF vars, queue
<1>2. TypeOK'
  BY <1>0 DEF TypeOK, vars, run, message, queue, text
<1>3. DriverInv'
  BY <1>0 DEF DriverInv, Delivered, Stopped, vars, run, message, queue, text
<1> QED BY <1>1, <1>2, <1>3 DEF WireInv

LEMMA WireAlways == Spec => []WireInv
<1>1. WireInv /\ [Next]_vars => WireInv'
  <2> SUFFICES ASSUME WireInv, [Next]_vars PROVE WireInv'
    OBVIOUS
  <2> QED BY WireRunStep, WirePumpStep, WireValuesStep, WireDriver, WireStutter DEF Next, Over
<1> QED BY <1>1, WireInit, PTL DEF Spec

(* Type correctness of the event stream.                                               *)
THEOREM WireTypes == Spec => []TypeOK
<1>1. WireInv => TypeOK
  BY DEF WireInv
<1> QED BY <1>1, WireAlways, PTL

(* Nothing is announced, shown or committed twice (wire.py:103-158, wire.py:228-250),  *)
(* for any number of messages, chunks, calls and results.                              *)
THEOREM WireAtMostOnce == Spec => []AtMostOnce
<1>1. WireInv => AtMostOnce
  BY DEF WireInv, AnnouncedInv, ShownInv, TextInv, AtMostOnce
<1> QED BY <1>1, WireAlways, PTL

(* A stream that ends well has lost nothing, whichever pump finished last              *)
(* (wire.py:252-256).                                                                  *)
THEOREM WireNothingLost == Spec => []NothingLost
<1>1. WireInv => NothingLost
  <2> SUFFICES ASSUME WireInv, consumer = "ended" PROVE NothingLost
    BY DEF NothingLost
  <2>1. Delivered /\ TypeOK
    BY DEF WireInv, DriverInv
  <2>2. deltas = said
    BY <2>1 DEF Delivered, TypeOK
  <2> QED BY <2>1, <2>2 DEF NothingLost, Delivered
<1> QED BY <1>1, WireAlways, PTL

(* An answer is the whole text of a message without tool calls, unless the run failed  *)
(* in its middle (wire.py:168-177).                                                    *)
THEOREM WireAnswerWhole == Spec => []AnswerWhole
<1>1. WireInv => AnswerWhole
  BY DEF WireInv, TextInv, AnswerWhole
<1> QED BY <1>1, WireAlways, PTL

(* A turn that has stopped reading leaves no pump behind, but for one whose partner    *)
(* failed (wire.py:254).                                                               *)
THEOREM WirePumpsEnd == Spec => []PumpsEnd
<1>1. WireInv => PumpsEnd
  <2> SUFFICES ASSUME WireInv, consumer # "reading" PROVE PumpsEnd
    BY DEF PumpsEnd
  <2>1. TypeOK /\ DriverInv
    BY DEF WireInv
  <2> QED BY <2>1 DEF TypeOK, DriverInv, PumpsEnd, Stopped
<1> QED BY <1>1, WireAlways, PTL

-----------------------------------------------------------------------------
(* The transcript. What a step does to the events before the sentinel is a step of      *)
(* Transcript, or nothing it sees; after the sentinel nothing is.                        *)
transcript ==
    <<<<said, asked, result, {m \in Message : m <= last /\ Complete(m)},
        {m \in Message : Broken(m)}>>,
      <<deltas, commits, {m \in Message : answer[m] > 0}, {c \in Call : announced[c] = 1},
        {r \in Call \cup Old : shown[r] = 1}>>,
      IF ~closed THEN "open" ELSE IF driver = "ended" THEN "whole" ELSE "cut">>

LEMMA ToldSame ==
  ASSUME UNCHANGED <<run, text, announced, shown, closed>>, closed => UNCHANGED driver
  PROVE  UNCHANGED transcript
BY DEF run, text, transcript, Complete, Broken

LEMMA ToldInit == Init => Told!Init
<1> SUFFICES ASSUME Init PROVE Told!Init
  OBVIOUS
<1>1. /\ {m \in Message : m <= last /\ Complete(m)} = {} /\ {m \in Message : Broken(m)} = {}
      /\ {m \in Message : answer[m] > 0} = {}
  BY DEF Init, Complete, Broken, Message
<1>2. {c \in Call : announced[c] = 1} = {} /\ {r \in Call \cup Old : shown[r] = 1} = {}
  BY DEF Init
<1> QED BY <1>1, <1>2 DEF Init, Told!Init

LEMMA ToldRun == WireInv /\ RunStep => Told!Next
<1> SUFFICES ASSUME WireInv, RunStep PROVE Told!Next
  OBVIOUS
<1>1. Grown /\ TypeOK /\ DriverInv
  BY RunGrows DEF WireInv
<1>2. UNCHANGED <<closed, driver, deltas, commits, answer, announced, shown>>
  BY DEF RunStep, queue, text
<1>3. ~(closed /\ driver = "ended")
  BY <1>1 DEF Grown, DriverInv
<1>4. /\ {m \in Message : Broken(m)} = {}
      /\ {m \in Message : m <= last /\ Complete(m)} \subseteq
            {m \in Message : m <= last /\ Complete(m)}' \cup {m \in Message : Broken(m)}'
  BY <1>1 DEF Grown, TypeOK, Message
<1>5. \A m \in Message :
         /\ said[m] <= said'[m] /\ asked[m] \subseteq asked'[m]
         /\ m \in {k \in Message : k <= last /\ Complete(k)} \cup {k \in Message : Broken(k)} =>
              said'[m] = said[m] /\ asked'[m] = asked[m]
  BY <1>1, <1>4 DEF Grown
<1>6. UNCHANGED <<{m \in Message : answer[m] > 0}, {c \in Call : announced[c] = 1},
                  {r \in Call \cup Old : shown[r] = 1}>>
  BY <1>2
<1>7. Told!Grow
  BY <1>1, <1>2, <1>3, <1>4, <1>5, <1>6 DEF Told!Grow, Told!told, Grown
<1> QED BY <1>7 DEF Told!Next

(* While a message is read every earlier one has been told.                            *)
LEMMA EarlierTold ==
  ASSUME WireInv, messages = "reading", ~closed
  PROVE  Told!Reached(cur) /\ cur \notin {m \in Message : answer[m] > 0}
<1>0. TypeOK /\ AnnouncedInv /\ TextInv
  BY DEF WireInv
<1>1. cur \in Message /\ cur <= last /\ \A m \in Message : Read(m) <=> m < cur
  BY InMessage
<1>2. ASSUME NEW k \in Message, k < cur PROVE Told!Whole(k)
  <2>1. k <= last /\ ~Broken(k)
    BY <1>0, <1>1, <1>2 DEF Broken, TypeOK, Message
  <2>2. /\ Complete(k) /\ deltas[k] = said[k]
        /\ asked[k] \subseteq Call /\ \A c \in asked[k] : announced[c] = 1
    BY <1>0, <1>1, <1>2, <2>1 DEF AnnouncedInv, TextInv, TypeOK
  <2> QED BY <2>1, <2>2 DEF Told!Whole, Told!AllTold
<1>3. answer[cur] = 0
  BY <1>0 DEF TextInv
<1> QED BY <1>1, <1>2, <1>3 DEF Told!Reached

(* What is committed is what has been streamed of the message so far.                  *)
LEMMA Committing ==
  ASSUME WireInv, messages = "reading", ~closed, ~committed
  PROVE  commits[cur] = 0 /\ parts = deltas[cur]
         /\ (Commit => Told!Settle(cur))
<1>0. TypeOK /\ TextInv
  BY DEF WireInv
<1>1. /\ cur \in Message /\ cur \in Int /\ cur >= 1 /\ parts \in 0..heard /\ heard \in 0..MaxText
      /\ ReadingInv /\ commits \in [Message -> Nat] /\ MaxText \in Nat
  BY InMessage
<1>2. parts = deltas[cur] /\ commits[cur] + parts <= deltas[cur]
  BY <1>0, <1>1 DEF TextInv, ReadingInv
<1>3. commits[cur] = 0
  BY <1>1, <1>2
<1>4. parts \in Int /\ commits[cur] + parts = deltas[cur]
  BY <1>1, <1>2, <1>3
<1>5. Commit => commits' = [commits EXCEPT ![cur] = commits[cur] + parts]
  BY DEF Commit, Count
<1> QED BY <1>2, <1>3, <1>4, <1>5 DEF Told!Settle

LEMMA ToldPumpText ==
  ASSUME WireInv, PumpText, UNCHANGED Else
  PROVE  [Told!Next]_transcript
<1>1. /\ messages = "reading" /\ heard < said[cur] /\ deltas' = Count(deltas, cur, 1)
      /\ UNCHANGED <<commits, answer, announced>>
      /\ UNCHANGED <<graph, last, said, asked, result, driver, closed, shown>>
  BY DEF PumpText, Else, run
<1>2. CASE closed
  BY <1>1, <1>2, ToldSame DEF Count, run, text
<1>3. CASE ~closed
  <2>1. cur \in Message /\ deltas[cur] = heard
    BY <1>1, <1>3, InMessage DEF WireInv, TextInv
  <2>2. UNCHANGED <<{m \in Message : m <= last /\ Complete(m)}, {m \in Message : Broken(m)},
                    {m \in Message : answer[m] > 0}, {c \in Call : announced[c] = 1},
                    {r \in Call \cup Old : shown[r] = 1},
                    IF ~closed THEN "open" ELSE IF driver = "ended" THEN "whole" ELSE "cut">>
    BY <1>1 DEF Complete, Broken
  <2>3. Told!Reached(cur) /\ cur \notin {m \in Message : answer[m] > 0}
    BY <1>1, <1>3, EarlierTold
  <2>4. deltas' = [deltas EXCEPT ![cur] = @ + 1]
    BY <1>1, <1>3 DEF Count
  <2>5. Told!Stream(cur)
    BY <1>1, <2>1, <2>2, <2>3, <2>4 DEF Told!Stream, Told!run
  <2> QED BY <2>1, <2>5 DEF Told!Next
<1> QED BY <1>2, <1>3

(* Calls of the message are announced, with or without the text before them.           *)
LEMMA ToldAnnounce ==
  ASSUME WireInv, messages = "reading", NEW cs \in SUBSET (asked[cur] \ emitted),
         AnnounceAll(cs), UNCHANGED <<Else, deltas, answer>>,
         UNCHANGED commits \/ (~committed /\ Commit)
  PROVE  [Told!Next]_transcript
<1>0. TypeOK
  BY DEF WireInv
<1>1. UNCHANGED <<graph, last, said, asked, result, driver, closed, shown>>
  BY DEF Else, run
<1>2. CASE closed
  <2>1. UNCHANGED <<commits, announced>>
    BY <1>2 DEF AnnounceAll, Commit, Count
  <2> QED BY <1>1, <2>1, ToldSame DEF run, text
<1>3. CASE ~closed
  <2>1. /\ cur \in Message /\ cs \subseteq Call /\ announced \in [Call -> Nat]
        /\ \A c \in cs : announced[c] = 0
    BY <1>0, InMessage, NotYetAnnounced DEF TypeOK
  <2>2. UNCHANGED <<{m \in Message : m <= last /\ Complete(m)}, {m \in Message : Broken(m)},
                    {m \in Message : answer[m] > 0},
                    {r \in Call \cup Old : shown[r] = 1},
                    IF ~closed THEN "open" ELSE IF driver = "ended" THEN "whole" ELSE "cut">>
    BY <1>1 DEF Complete, Broken
  <2>3. Told!Reached(cur) /\ cur \notin {m \in Message : answer[m] > 0}
    BY <1>3, EarlierTold
  <2>4. {c \in Call : announced[c] = 1}' = {c \in Call : announced[c] = 1} \cup cs
    <3>1. announced' = [c \in Call |-> announced[c] + IF c \in cs THEN 1 ELSE 0]
      BY <1>3 DEF AnnounceAll
    <3>2. \A c \in Call : announced'[c] = IF c \in cs THEN 1 ELSE announced[c]
      BY <2>1, <3>1
    <3> QED BY <2>1, <3>2
  <2>5. cs \subseteq asked[cur] \ {c \in Call : announced[c] = 1}
    BY <2>1
  <2>6. Told!Settle(cur) \/ UNCHANGED commits
    BY <1>3, Committing
  <2>7. Told!Announce(cur, cs)
    BY <1>1, <2>2, <2>3, <2>4, <2>5, <2>6 DEF Told!Announce, Told!run
  <2>8. cs \in SUBSET asked[cur]
    OBVIOUS
  <2> QED BY <2>1, <2>7, <2>8 DEF Told!Next
<1> QED BY <1>2, <1>3

LEMMA ToldCalls ==
  ASSUME WireInv, UNCHANGED Else,
         CallsEnd \/ \E c \in Call, args \in ArgsRead : PumpCall(c, args)
  PROVE  [Told!Next]_transcript
<1>1. ASSUME NEW c \in Call, NEW args \in ArgsRead, PumpCall(c, args)
      PROVE  [Told!Next]_transcript
  <2> DEFINE cs == IF args = "full" /\ c \notin emitted THEN {c} ELSE {}
  <2>1. /\ messages = "reading" /\ c \in asked[cur] /\ AnnounceAll(cs)
        /\ UNCHANGED commits \/ (~committed /\ Commit)
        /\ UNCHANGED <<deltas, answer>>
    BY <1>1 DEF PumpCall
  <2>2. cs \in SUBSET (asked[cur] \ emitted)
    BY <2>1
  <2> HIDE DEF cs
  <2> QED BY <2>1, <2>2, ToldAnnounce
<1>2. CASE CallsEnd
  <2>1. messages = "reading" /\ UNCHANGED text
    BY <1>2 DEF CallsEnd
  <2>2. CASE pending = asked[cur] /\ AnnounceAll(Unannounced)
    <3>1. Unannounced \in SUBSET (asked[cur] \ emitted)
      BY <2>2 DEF Unannounced
    <3> QED BY <2>1, <2>2, <3>1, ToldAnnounce DEF text
  <2>3. CASE UNCHANGED announced
    BY <2>1, <2>3, ToldSame DEF Else
  <2> QED BY <1>2, <2>2, <2>3 DEF CallsEnd
<1> QED BY <1>1, <1>2

LEMMA ToldMessageDone ==
  ASSUME WireInv, MessageDone, UNCHANGED Else
  PROVE  [Told!Next]_transcript
<1>0. TypeOK /\ TextInv
  BY DEF WireInv
<1>1. /\ messages = "reading" /\ ~textOpen /\ ~callsOpen
      /\ IF committed
         THEN UNCHANGED <<commits, answer, parts>>
         ELSE Commit /\ answer' = Count(answer, cur, parts)
      /\ UNCHANGED <<deltas, announced>>
      /\ UNCHANGED <<graph, last, said, asked, result, driver, closed, shown>>
  BY DEF MessageDone, ReadThrough, Else, run
<1>2. /\ cur \in Message /\ cur <= last /\ ReadingInv /\ parts \in 0..heard /\ heard \in 0..MaxText
      /\ answer \in [Message -> Nat] /\ commits \in [Message -> Nat] /\ MaxText \in Nat
  BY <1>1, InMessage
<1>3. CASE committed \/ closed
  <2>1. UNCHANGED <<commits, answer>>
    BY <1>1, <1>3 DEF Commit, Count
  <2> QED BY <1>1, <2>1, ToldSame DEF run, text
<1>4. CASE ~committed /\ ~closed /\ parts = 0
  <2>1. /\ commits' = [commits EXCEPT ![cur] = commits[cur] + 0]
        /\ answer' = [answer EXCEPT ![cur] = answer[cur] + 0]
    BY <1>1, <1>4 DEF Commit, Count
  <2>2. commits[cur] + 0 = commits[cur] /\ answer[cur] + 0 = answer[cur]
    BY <1>2
  <2>3. UNCHANGED <<commits, answer>>
    BY <1>2, <2>1, <2>2
  <2> QED BY <1>1, <2>3, ToldSame DEF run, text
<1>5. CASE ~committed /\ ~closed /\ parts # 0
  <2>1. Told!Reached(cur) /\ Told!Settle(cur) /\ parts = deltas[cur]
    BY <1>1, <1>5, EarlierTold, Committing
  <2>2. \/ Broken(cur)
        \/ Complete(cur) /\ asked[cur] = {} /\ deltas[cur] = said[cur]
    BY <1>0, <1>1, <1>2, <1>5 DEF ReadingInv, TextInv
  <2>3. \/ cur \in {m \in Message : Broken(m)}
        \/ Told!Whole(cur) /\ asked[cur] = {}
    BY <1>2, <2>2 DEF Told!Whole, Told!AllTold
  <2>4. {m \in Message : answer[m] > 0}' = {m \in Message : answer[m] > 0} \cup {cur}
    <3>1. answer' = [answer EXCEPT ![cur] = answer[cur] + parts] /\ answer[cur] \in Nat
      BY <1>1, <1>2, <1>5 DEF Count
    <3> QED BY <1>2, <1>5, <3>1
  <2>5. UNCHANGED <<{m \in Message : m <= last /\ Complete(m)}, {m \in Message : Broken(m)},
                    {c \in Call : announced[c] = 1}, {r \in Call \cup Old : shown[r] = 1},
                    IF ~closed THEN "open" ELSE IF driver = "ended" THEN "whole" ELSE "cut">>
    BY <1>1 DEF Complete, Broken
  <2>6. PICK m \in Message : m = cur
    BY <1>2
  <2>7. Told!Answer(m)
    BY <1>1, <2>1, <2>3, <2>4, <2>5, <2>6 DEF Told!Answer, Told!run
  <2> QED BY <2>7 DEF Told!Next
<1> QED BY <1>2, <1>3, <1>4, <1>5

LEMMA ToldPump == WireInv /\ PumpStep => [Told!Next]_transcript
<1> SUFFICES ASSUME WireInv, PumpStep PROVE [Told!Next]_transcript
  OBVIOUS
<1>1. UNCHANGED Else
  BY DEF PumpStep, Else
<1>2. CASE TakeMessage \/ TextEnds \/ MessagesEnd
  BY <1>1, <1>2, ToldSame DEF TakeMessage, TextEnds, MessagesEnd, Else
<1> QED BY <1>1, <1>2, ToldPumpText, ToldCalls, ToldMessageDone DEF PumpStep

LEMMA ToldValues == WireInv /\ ValuesStep => [Told!Next]_transcript
<1> SUFFICES ASSUME WireInv, ValuesStep PROVE [Told!Next]_transcript
  OBVIOUS
<1>0. TypeOK /\ ShownInv
  BY DEF WireInv
<1>1. /\ UNCHANGED <<graph, last, said, asked, result, driver, closed>>
      /\ UNCHANGED <<deltas, commits, answer, announced>>
  BY DEF ValuesStep, run, text
<1>2. CASE UNCHANGED shown
  BY <1>1, <1>2, ToldSame DEF run, text
<1>3. ASSUME NEW r \in Call \cup Old, PumpResult(r), ~closed PROVE Told!Show(r)
  <2>1. r \in (Old \cup result) \ seen /\ shown' = [shown EXCEPT ![r] = @ + 1]
    BY <1>3 DEF PumpResult, Count
  <2>2. shown \in [Call \cup Old -> Nat] /\ shown[r] = 0
    BY <1>0, <2>1 DEF TypeOK, ShownInv
  <2>3. {q \in Call \cup Old : shown[q] = 1}' = {q \in Call \cup Old : shown[q] = 1} \cup {r}
    BY <2>1, <2>2
  <2>4. UNCHANGED <<{m \in Message : m <= last /\ Complete(m)}, {m \in Message : Broken(m)},
                    {m \in Message : answer[m] > 0}, {c \in Call : announced[c] = 1},
                    IF ~closed THEN "open" ELSE IF driver = "ended" THEN "whole" ELSE "cut">>
    BY <1>1 DEF Complete, Broken
  <2> QED BY <1>1, <1>3, <2>1, <2>2, <2>3, <2>4 DEF Told!Show, Told!run
<1>4. ASSUME NEW r \in Call \cup Old, PumpResult(r), closed PROVE UNCHANGED shown
  BY <1>4 DEF PumpResult, Count
<1>5. CASE ValuesEnd
  BY <1>2, <1>5 DEF ValuesEnd
<1> QED BY <1>2, <1>3, <1>4, <1>5 DEF ValuesStep, Told!Next

LEMMA ToldDriver ==
  WireInv /\ (DriverEnds \/ DriverCancelled \/ StreamOver \/ Cancel) => [Told!Next]_transcript
<1> SUFFICES ASSUME WireInv, DriverEnds \/ DriverCancelled \/ StreamOver \/ Cancel
             PROVE  [Told!Next]_transcript
  OBVIOUS
<1>0. TypeOK /\ DriverInv /\ WireInv'
  BY WireDriver DEF WireInv
<1>1. /\ UNCHANGED <<graph, last, said, asked, result>>
      /\ UNCHANGED <<deltas, commits, answer, announced, shown>>
  BY DEF DriverEnds, DriverCancelled, StreamOver, Cancel, run, queue, text
<1>2. CASE DriverEnds \/ DriverCancelled
  <2>1. ~closed /\ closed'
    BY <1>0, <1>2 DEF DriverInv, DriverEnds, DriverCancelled
  <2>2. UNCHANGED <<{m \in Message : m <= last /\ Complete(m)}, {m \in Message : Broken(m)},
                    {m \in Message : answer[m] > 0}, {c \in Call : announced[c] = 1},
                    {r \in Call \cup Old : shown[r] = 1}>>
    BY <1>1 DEF Complete, Broken
  <2>3. ASSUME driver' = "ended"
        PROVE  /\ \A m \in Message : Told!AllTold(m)
               /\ result \subseteq {r \in Call \cup Old : shown[r] = 1}
    <3>1. Delivered /\ result \subseteq Call /\ \A m \in Message : asked[m] \subseteq Call
      BY <1>0, <1>1, <2>3 DEF WireInv, DriverInv, Delivered, TypeOK
    <3> QED BY <3>1 DEF Delivered, Told!AllTold
  <2>4. Told!Close
    BY <1>1, <2>1, <2>2, <2>3 DEF Told!Close, Told!run, Told!told
  <2> QED BY <2>4 DEF Told!Next
<1>3. CASE StreamOver \/ Cancel
  <2>1. UNCHANGED closed /\ (closed => UNCHANGED driver)
    BY <1>0, <1>3 DEF StreamOver, Cancel, queue, DriverInv
  <2> QED BY <1>1, <2>1, ToldSame DEF run, text
<1> QED BY <1>2, <1>3

(* The stream implements Transcript: for any number of messages, calls and results, and  *)
(* any interleaving, fault or cancellation, the client is told message after message,    *)
(* everything once, and all of it if the stream ends well (wire.py:86-302).               *)
THEOREM WireImplementsTranscript == Spec => ImplementsTranscript
<1>1. WireInv /\ [Next]_vars => [Told!Next]_transcript
  <2> SUFFICES ASSUME WireInv, [Next]_vars PROVE [Told!Next]_transcript
    OBVIOUS
  <2>1. CASE UNCHANGED vars
    BY <2>1, ToldSame DEF vars, queue
  <2> QED BY <2>1, ToldRun, ToldPump, ToldValues, ToldDriver DEF Next, Over
<1> QED BY <1>1, ToldInit, WireAlways, PTL
        DEF Spec, ImplementsTranscript, Told!Spec, Told!run, Told!told, transcript
=============================================================================
