----------------------------- MODULE Transcript -----------------------------
(* What the event stream of a turn (agent/wire.py) promises the client that shows it:   *)
(* message after message, each chunk of text and each tool call once and none of a      *)
(* message before all of the earlier ones; the text committed of a message, at most     *)
(* once, is the text streamed so far; an answer is a whole message; and a stream that   *)
(* ends well has told everything, while nothing follows the end of any.                 *)
EXTENDS Naturals

CONSTANTS Message, Call,
          Earlier    \* tool results of earlier turns

VARIABLES
    said, asked, result,  \* the run: chunks and tool calls of each message, results
    ended, broken,        \* messages that are over, and the one the run failed in
    streamed, settled,    \* chunks streamed and committed of each message
    answers,              \* messages committed as an answer
    announced, shown,     \* tool calls and results told
    over                  \* "open", then "whole" or "cut"

told == <<streamed, settled, answers, announced, shown>>
run  == <<said, asked, result, ended, broken>>

Init ==
    /\ said = [m \in Message |-> 0] /\ asked = [m \in Message |-> {}]
    /\ streamed = said /\ settled = said
    /\ result = {} /\ ended = {} /\ broken = {}
    /\ answers = {} /\ announced = {} /\ shown = {}
    /\ over = "open"

\* The run goes on by itself, also when nobody is told; a message that is over stays as it is.
Grow ==
    /\ over # "whole"
    /\ \A m \in Message :
         /\ said[m] <= said'[m] /\ asked[m] \subseteq asked'[m]
         /\ m \in ended \cup broken => said'[m] = said[m] /\ asked'[m] = asked[m]
    /\ result \subseteq result'
    /\ ended \subseteq ended' \cup broken' /\ broken \subseteq broken'
    /\ UNCHANGED <<told, over>>

AllTold(m) == streamed[m] = said[m] /\ asked[m] \subseteq announced
Whole(m)   == m \in ended /\ AllTold(m)
Reached(m) == over = "open" /\ \A k \in Message : k < m => Whole(k)

Settle(m) == settled[m] = 0 /\ settled' = [settled EXCEPT ![m] = streamed[m]]

Stream(m) ==
    /\ Reached(m) /\ m \notin answers
    /\ streamed[m] < said[m]
    /\ streamed' = [streamed EXCEPT ![m] = @ + 1]
    /\ UNCHANGED <<run, settled, answers, announced, shown, over>>

\* The first that is heard of a message's tool calls commits the text before them.
Announce(m, calls) ==
    /\ Reached(m) /\ m \notin answers
    /\ calls \subseteq asked[m] \ announced
    /\ announced' = announced \cup calls
    /\ Settle(m) \/ UNCHANGED settled
    /\ UNCHANGED <<run, streamed, answers, shown, over>>

Answer(m) ==
    /\ Reached(m) /\ Settle(m)
    /\ m \in broken \/ (Whole(m) /\ asked[m] = {})
    /\ answers' = answers \cup {m}
    /\ UNCHANGED <<run, streamed, announced, shown, over>>

Show(r) ==
    /\ over = "open" /\ r \in (Earlier \cup result) \ shown
    /\ shown' = shown \cup {r}
    /\ UNCHANGED <<run, streamed, settled, answers, announced, over>>

Close ==
    /\ over = "open"
    /\ \/ over' = "cut"
       \/ over' = "whole" /\ (\A m \in Message : AllTold(m)) /\ result \subseteq shown
    /\ UNCHANGED <<run, told>>

Next ==
    \/ Grow \/ Close
    \/ \E m \in Message :
         Stream(m) \/ Answer(m) \/ \E calls \in SUBSET asked[m] : Announce(m, calls)
    \/ \E r \in Call \cup Earlier : Show(r)

Spec == Init /\ [][Next]_<<run, told, over>>
=============================================================================
