---------------------------- MODULE Conversations ----------------------------
(* What the session layer (websocket.py, session.py) promises the rest of the agent.  *)
(* A conversation is opened for the user of a message, or for the user of the          *)
(* conversation that the message clears, and stays that user's. A message takes away    *)
(* the conversation its client is in, and conversations of the user it opens one for,   *)
(* never those of a third; what was taken away is not returned to. The turns of a       *)
(* conversation run one at a time, each begun once at most, by a client that is in it,  *)
(* and ended for good.                                                                 *)
(* That a client comes only to its own user's conversations is NOT promised: the layer  *)
(* lets a client into any live one that it can name (Come).                            *)
(* TurnMiddleware, WireStream and Hitl begin where this leaves off, with one turn.    *)

CONSTANTS Conversation, Turn, Client, User, UserOf, Nobody

VARIABLES
    live,    \* conversations that a client can come to
    past,    \* those taken away; a turn may still run on one
    whose,   \* the user of each
    at,      \* the conversation each client is in
    asker,   \* the client that asked for each turn
    driving, \* the turns that run on each conversation
    over     \* turns that have ended

conversations == <<live, past, whose, at>>
turns         == <<asker, driving, over>>

Init ==
    /\ live = {} /\ past = {}
    /\ whose = [s \in Conversation |-> Nobody]
    /\ at = [c \in Client |-> Nobody]
    /\ asker = [t \in Turn |-> Nobody]
    /\ driving = [s \in Conversation |-> {}]
    /\ over = {}

\* The users that a message of c can open a conversation for.
For(c) == {UserOf[c], IF at[c] = Nobody THEN Nobody ELSE whose[at[c]]}

\* What a message of c that opens a conversation for a user can take away.
Takes(c, user) == {s \in live : s = at[c] \/ whose[s] = user}

Waits(t) == asker[t] # Nobody /\ t \notin over /\ \A s \in Conversation : t \notin driving[s]

Come(c, s) ==
    /\ s \in live
    /\ at' = [at EXCEPT ![c] = s]
    /\ UNCHANGED <<live, past, whose, turns>>

Drop(c, dropped) ==
    /\ \E user \in For(c) : dropped \subseteq Takes(c, user)
    /\ live' = live \ dropped /\ past' = past \cup dropped
    /\ UNCHANGED <<whose, at, turns>>

Open(c, s, dropped) ==
    /\ s \notin live \cup past
    /\ \E user \in For(c) :
         /\ dropped \subseteq Takes(c, user)
         /\ whose' = [whose EXCEPT ![s] = user]
    /\ live' = (live \ dropped) \cup {s} /\ past' = past \cup dropped
    /\ at' = [at EXCEPT ![c] = s]
    /\ UNCHANGED turns

Submit(c, t) ==
    /\ asker[t] = Nobody /\ at[c] # Nobody
    /\ asker' = [asker EXCEPT ![t] = c]
    /\ UNCHANGED <<conversations, driving, over>>

Begin(t, s) ==
    /\ Waits(t)
    /\ s = at[asker[t]] /\ driving[s] = {}
    /\ driving' = [driving EXCEPT ![s] = {t}]
    /\ UNCHANGED <<conversations, asker, over>>

End(t) ==
    /\ \/ Waits(t) /\ UNCHANGED driving
       \/ \E s \in Conversation :
            driving[s] = {t} /\ driving' = [driving EXCEPT ![s] = {}]
    /\ over' = over \cup {t}
    /\ UNCHANGED <<conversations, asker>>

\* The server stops, and with it every turn.
Stop ==
    /\ live' = {} /\ past' = past \cup live
    /\ driving' = [s \in Conversation |-> {}]
    /\ over' = {t \in Turn : asker[t] # Nobody}
    /\ UNCHANGED <<whose, at, asker>>

Next ==
    \/ \E c \in Client :
         \/ \E s \in Conversation : Come(c, s)
         \/ \E dropped \in SUBSET live :
              Drop(c, dropped) \/ \E s \in Conversation : Open(c, s, dropped)
         \/ \E t \in Turn : Submit(c, t)
    \/ \E t \in Turn : End(t) \/ \E s \in Conversation : Begin(t, s)
    \/ Stop

Spec == Init /\ [][Next]_<<conversations, turns>>
=============================================================================
