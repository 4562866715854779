----------------------------- MODULE Knowledge -----------------------------
(* Knowledge-base retrieval (knowledge_base/kb_client.py), and the queue of          *)
(* degradation notices as threads see it (agent/graph_builder.py): kb_retrieve is a    *)
(* sync tool that runs in the thread pool, and so do the calls of the memory store,     *)
(* which fail the same way. Their callback runs in the thread that failed, while        *)
(* the event loop drains the queue; there is no lock. A step here is what a thread does  *)
(* between two points at which another thread may get in.                               *)
(* ResilientPersistence has the checkpointer's calls, which stay on the loop.             *)
EXTENDS Integers, FiniteSets, Sequences, SequencesExt

CONSTANTS Call,      \* calls made in threads; each reports at most once
          Feature,   \* what they belong to: "knowledge_base", "long_term_memory"
          FeatureOf,
          Results,   \* what Retrieve may return
          MaxChars,  \* AGENT_KB_MAX_CHARS
          SuffixSize \* length of the truncation mark

ASSUME KnowledgeAssumption ==
    /\ FeatureOf \in [Call -> Feature] /\ "nothing" \notin Call
    /\ Results \subseteq Seq([uri : STRING, size : Nat])
    /\ MaxChars \in Nat /\ SuffixSize \in Nat

VARIABLES
    stage,   \* where each call is
    expired, \* the AWS credentials are refused
    warned,  \* _degradation_warned_features
    queue,   \* _degradation_warnings, each notice named by the call that reported it
    copied,  \* the copy that a drain has made and not cleared yet, or Nothing
    telling, \* notices in the hands of turns
    told,    \* notices that a client was sent
    answer,  \* what a retrieval that succeeded is about to return
    raced,   \* calls that found no warning while another was about to set it
    exposed  \* calls whose notice came in the middle of a drain, or was with a turn that was cut

calls    == <<stage, expired>>
notices  == <<warned, queue, copied, telling, told>>
knowledgeHistory == <<raced, exposed>>
knowledgeVars == <<calls, notices, answer, knowledgeHistory>>

Nothing == <<"nothing">>
Stage == {"idle", "first", "second", "found", "check", "add", "append", "done", "raised"}

-----------------------------------------------------------------------------
(* _format_retrieve_results: a result is its source ("none" if unknown) and the size  *)
(* of its chunk, 0 without text; the answer is the sizes of the chunks it joins.        *)

\* Mutant: the separator is not counted.
TakeUnseparated(acc, r) ==
    IF \/ acc.full \/ r.size = 0
       \/ r.uri # "none" /\ r.uri \in acc.seen THEN acc
    ELSE IF acc.total + r.size <= MaxChars
    THEN [chunks |-> Append(acc.chunks, r.size), total |-> acc.total + r.size,
          seen |-> acc.seen \cup {r.uri}, full |-> FALSE]
    ELSE [acc EXCEPT !.full = TRUE,
                     !.chunks = IF MaxChars - acc.total > SuffixSize
                                THEN Append(@, MaxChars - acc.total) ELSE @]

Take(acc, r) ==
    IF \/ acc.full \/ r.size = 0
       \/ r.uri # "none" /\ r.uri \in acc.seen THEN acc
    ELSE IF acc.total + r.size <= MaxChars
    THEN [chunks |-> Append(acc.chunks, r.size), total |-> acc.total + r.size + 1,
          seen |-> acc.seen \cup {r.uri}, full |-> FALSE]
    ELSE [acc EXCEPT !.full = TRUE,
                     !.chunks = IF MaxChars - acc.total > SuffixSize
                                THEN Append(@, MaxChars - acc.total) ELSE @]

NoChunks == [chunks |-> << >>, total |-> 0, seen |-> {}, full |-> FALSE]

Format(results) ==
    LET taken[n \in 0..Len(results)] ==
            IF n = 0 THEN NoChunks ELSE Take(taken[n - 1], results[n])
    IN  taken[Len(results)].chunks

-----------------------------------------------------------------------------
KnowledgeTypeOK ==
    /\ stage \in [Call -> Stage] /\ expired \in BOOLEAN
    /\ warned \subseteq Feature
    /\ queue \in Seq(Call) /\ (copied = Nothing \/ copied \in Seq(Call))
    /\ telling \subseteq Call /\ told \subseteq Call
    /\ raced \subseteq Call /\ exposed \subseteq Call
    /\ answer \in [Call -> {Format(results) : results \in Results} \cup {<< >>}]

KnowledgeInit ==
    /\ stage = [c \in Call |-> "idle"] /\ expired = FALSE
    /\ warned = {} /\ queue = << >> /\ copied = Nothing
    /\ telling = {} /\ told = {}
    /\ answer = [c \in Call |-> << >>] /\ raced = {} /\ exposed = {}

-----------------------------------------------------------------------------
(* The calls *)

IsRetrieval(c) == FeatureOf[c] = "knowledge_base"

Go(c, s) == stage' = [stage EXCEPT ![c] = s]

StartCall(c) ==
    /\ stage[c] = "idle"
    /\ Go(c, "first")
    /\ UNCHANGED <<expired, notices, answer, knowledgeHistory>>

\* The AWS session and client are made outside of the try: the tool raises.
SessionFails(c) ==
    /\ stage[c] = "first" /\ IsRetrieval(c)
    /\ Go(c, "raised")
    /\ UNCHANGED <<expired, notices, answer, knowledgeHistory>>

CallSucceeds(c) ==
    /\ stage[c] \in {"first", "second"} /\ ~expired
    /\ Go(c, IF IsRetrieval(c) THEN "found" ELSE "done")
    /\ IF IsRetrieval(c)
       THEN \E results \in Results : answer' = [answer EXCEPT ![c] = Format(results)]
       ELSE UNCHANGED answer
    /\ UNCHANGED <<expired, notices, knowledgeHistory>>

ReturnAnswer(c) ==
    /\ stage[c] = "found"
    /\ Go(c, "done")
    /\ answer' = [answer EXCEPT ![c] = << >>]
    /\ UNCHANGED <<expired, notices, knowledgeHistory>>

\* Another error: one retry, for retrievals only; then "temporarily unavailable".
CallFails(c) ==
    /\ stage[c] \in {"first", "second"}
    /\ Go(c, IF IsRetrieval(c) /\ stage[c] = "first" THEN "second" ELSE "done")
    /\ UNCHANGED <<expired, notices, answer, knowledgeHistory>>

\* A credential error is not retried but reported.
CallRefused(c) ==
    /\ stage[c] \in {"first", "second"} /\ expired
    /\ Go(c, "check")
    /\ UNCHANGED <<expired, notices, answer, knowledgeHistory>>

(* _on_persistence_degraded, by the thread of c *)

\* c itself, if another thread has looked at the set and not added to it yet.
Racing(c) ==
    {d \in {c} : \E e \in Call \ {c} : stage[e] = "add" /\ FeatureOf[e] = FeatureOf[c]}

\* Mutant: the set of warned features is never looked at.
CheckNothing(c) ==
    /\ stage[c] = "check"
    /\ Go(c, "add")
    /\ raced' = raced \cup Racing(c)
    /\ UNCHANGED <<expired, notices, answer, exposed>>

Check(c) ==
    /\ stage[c] = "check"
    /\ IF FeatureOf[c] \in warned
       THEN Go(c, "done") /\ UNCHANGED raced
       ELSE Go(c, "add") /\ raced' = raced \cup Racing(c)
    /\ UNCHANGED <<expired, notices, answer, exposed>>

Add(c) ==
    /\ stage[c] = "add"
    /\ Go(c, "append")
    /\ warned' = warned \cup {FeatureOf[c]}
    /\ UNCHANGED <<expired, queue, copied, telling, told, answer, knowledgeHistory>>

AppendNotice(c) ==
    /\ stage[c] = "append"
    /\ Go(c, "done")
    /\ queue' = Append(queue, c)
    /\ exposed' = IF copied = Nothing THEN exposed ELSE exposed \cup {c}
    /\ UNCHANGED <<expired, warned, copied, telling, told, answer, raced>>

-----------------------------------------------------------------------------
(* drain_degradation_warnings, on the loop, and the turn that passes them on *)

DrainCopy ==
    /\ copied = Nothing /\ queue # << >>
    /\ copied' = queue
    /\ UNCHANGED <<calls, warned, queue, telling, told, answer, knowledgeHistory>>

\* Mutant: the queue is cleared before it is copied.
DrainClearFirst ==
    /\ copied # Nothing
    /\ queue' = << >> /\ copied' = Nothing
    /\ UNCHANGED <<calls, warned, telling, told, answer, knowledgeHistory>>

\* What was appended since the copy goes with the rest.
DrainClear ==
    /\ copied # Nothing
    /\ queue' = << >> /\ copied' = Nothing
    /\ telling' = telling \cup Range(copied)
    /\ UNCHANGED <<calls, warned, told, answer, knowledgeHistory>>

Tell(c) ==
    /\ c \in telling /\ copied = Nothing
    /\ telling' = telling \ {c} /\ told' = told \cup {c}
    /\ UNCHANGED <<calls, warned, queue, copied, answer, knowledgeHistory>>

\* The turn that holds these notices is cut between two of them.
TurnCut(held) ==
    /\ held # {} /\ held \subseteq telling /\ copied = Nothing
    /\ telling' = telling \ held /\ exposed' = exposed \cup held
    /\ UNCHANGED <<calls, warned, queue, copied, told, answer, raced>>

Expire ==
    /\ expired' = ~expired
    /\ UNCHANGED <<stage, notices, answer, knowledgeHistory>>

\* A new process.
KnowledgeLost ==
    /\ stage' = [c \in Call |-> "idle"] /\ UNCHANGED expired
    /\ warned' = {} /\ queue' = << >> /\ copied' = Nothing
    /\ telling' = {} /\ told' = {}
    /\ answer' = [c \in Call |-> << >>] /\ raced' = {} /\ exposed' = {}

ThreadStep(c) ==
    \/ SessionFails(c) \/ CallSucceeds(c) \/ ReturnAnswer(c) \/ CallFails(c) \/ CallRefused(c)
    \/ Check(c) \/ Add(c) \/ AppendNotice(c)

LoopStep ==
    \/ DrainCopy \/ DrainClear
    \/ (\E c \in telling : Tell(c))
    \/ (\E held \in SUBSET telling : TurnCut(held))

-----------------------------------------------------------------------------
\* Reports of f that are on their way or told, and all that were made.
Kept(f) ==
    {c \in Call : FeatureOf[c] = f /\ (stage[c] = "append" \/ c \in Range(queue) \cup telling \cup told)}
Reported(f) == Kept(f) \cup {c \in exposed : FeatureOf[c] = f}

(* "Fires only once per feature" (graph_builder.py:74), so that "the client can show   *)
(* one notice instead of a warning per call": a second notice of a feature comes only    *)
(* from a thread that looked at the set while another was between looking and adding.      *)
OncePerFeature == \A f \in Feature : Cardinality(Reported(f) \ raced) <= 1

(* A feature that was put down as warned about is never reported again, so its notice    *)
(* must reach a client: it is on its way or told, unless it was appended between the copy   *)
(* and the clear of a drain (graph_builder.py:69) or was held by a turn that was cut.        *)
NoticeKept == \A f \in warned : Kept(f) # {} \/ \E c \in exposed : FeatureOf[c] = f

\* The characters of the chunks, without what joins them.
Characters(chunks) ==
    LET upTo[n \in 0..Len(chunks)] == IF n = 0 THEN 0 ELSE upTo[n - 1] + chunks[n]
    IN  upTo[Len(chunks)]

(* "truncates the total to max_chars" (kb_client.py:58): the chunks are joined by two     *)
(* characters and counted with one, so the answer exceeds the limit, but by at most one    *)
(* character for each chunk after the first.                                              *)
AnswerFits ==
    \A c \in Call : answer[c] # << >> =>
        Characters(answer[c]) + 2 * (Len(answer[c]) - 1) <= MaxChars + Len(answer[c]) - 1
=============================================================================
