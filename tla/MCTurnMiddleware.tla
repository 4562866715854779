-------------------------- MODULE MCTurnMiddleware --------------------------
(* Small instances of TurnMiddleware for TLC.                                      *)
EXTENDS TurnMiddleware

\* Bedrock with everything, OpenAI with and without a memory.
ThreeConfigs ==
    {[provider |-> "bedrock", guardrail |-> TRUE, memory |-> TRUE],
     [provider |-> "openai", guardrail |-> FALSE, memory |-> TRUE],
     [provider |-> "openai", guardrail |-> FALSE, memory |-> FALSE]}

\* An ordinary question, one with an address, one that a topic filter or a term meets.
ThreeTexts ==
    {[pii |-> FALSE, topic |-> FALSE, term |-> FALSE],
     [pii |-> TRUE, topic |-> FALSE, term |-> FALSE],
     [pii |-> TRUE, topic |-> TRUE, term |-> TRUE]}

\* A long result with an address, and one that the trim takes for short.
TwoResults ==
    {[size |-> 3, real |-> 3, raw |-> TRUE],
     [size |-> 1, real |-> 6, raw |-> FALSE]}
=============================================================================
