------------------------------ MODULE MCServer ------------------------------
(* A small instance of Server for TLC.                                             *)
EXTENDS Server

CONSTANTS kb1, kb2, store1

FeatureOfCalls == [c \in Call |->
                     IF c = store1 THEN "long_term_memory" ELSE "knowledge_base"]

\* Sizes for a limit of 9 and a mark of 2. A source twice, and then no room for the mark; a
\* chunk cut at the mark, which with two separators is over the limit; one that just fits.
FewResults ==
    LET r(uri, size) == [uri |-> uri, size |-> size]
    IN  {<<r("a", 2), r("a", 4), r("b", 3), r("c", 5)>>,
         <<r("none", 3), r("none", 1), r("b", 9)>>,
         <<r("a", 4), r("b", 4), r("c", 1)>>}

EverySetting ==
    [provider |-> "bedrock", region |-> TRUE, kb |-> TRUE, interpreter |-> TRUE,
     memory |-> TRUE, checkpointer |-> "true", caching |-> "true",
     observability |-> "true", orchestration |-> "true", logGroup |-> TRUE, numbers |-> TRUE]

\* Bedrock with what is called from threads, and with everything but that; a knowledge base
\* and files beside OpenAI; Bedrock, and a knowledge base beside a misspelt provider, without
\* the region; OpenAI and AWS settings that do not apply to it; a number that is none.
FewEnvs ==
    {[EverySetting EXCEPT !.checkpointer = "odd", !.observability = "blank",
                          !.interpreter = FALSE, !.logGroup = FALSE],
     [EverySetting EXCEPT !.kb = FALSE, !.interpreter = FALSE],
     [EverySetting EXCEPT !.provider = "absent", !.memory = FALSE, !.logGroup = FALSE,
                          !.observability = "absent", !.orchestration = "false"],
     [EverySetting EXCEPT !.region = FALSE],
     [EverySetting EXCEPT !.provider = "odd", !.region = FALSE, !.interpreter = FALSE],
     [EverySetting EXCEPT !.provider = "openai", !.region = FALSE, !.kb = FALSE,
                          !.interpreter = FALSE],
     [EverySetting EXCEPT !.numbers = FALSE]}
=============================================================================
