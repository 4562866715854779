------------------------------ MODULE Startup ------------------------------
(* What a process builds from its environment: config.py, the lifespan of main.py    *)
(* with observability/, the parts of a graph (agent/graph_builder.py, agent/model.py)    *)
(* and the tools that come with the settings (ai_gateway.py:404-439).                     *)
(*                                                                                *)
(* Env is the environment variables as the parsers see them. A token is "absent",         *)
(* "blank" (which includes a comment alone), a value the parser knows, whatever its case,   *)
(* spaces and trailing comment, or "odd". `numbers` is whether every number is one.            *)
CONSTANT Env

Token == {"absent", "blank", "odd", "true", "false"}

ASSUME EnvAssumption ==
    Env \subseteq [provider : {"absent", "blank", "odd", "bedrock", "openai"},
                   region : BOOLEAN, kb : BOOLEAN, interpreter : BOOLEAN, memory : BOOLEAN,
                   checkpointer : Token, caching : Token, observability : Token,
                   orchestration : Token, logGroup : BOOLEAN, numbers : BOOLEAN]

Config == [provider : {"bedrock", "openai"}, region : BOOLEAN, kb : BOOLEAN,
           interpreter : BOOLEAN, memory : BOOLEAN, checkpointer : BOOLEAN,
           caching : BOOLEAN, observability : BOOLEAN, orchestration : BOOLEAN,
           logGroup : BOOLEAN]

AwsClient == {"logs", "model", "checkpointer", "store", "knowledge", "interpreter"}

\* A graph: its model, where cache control is set, and what its state is kept in.
Graph == [model : {"bedrock", "openai"}, cacheControl : SUBSET {"bound", "middleware"},
          saver : {"agentcore", "memory"}, store : {"agentcore", "memory"},
          tools : SUBSET {"knowledge", "interpreter", "orchestration"}]

NoGraph == [model |-> "none"]

VARIABLES
    env,      \* os.environ, with .env
    config,   \* AppConfig
    up,       \* how far the process is
    tracer, meter, enabled, \* the globals of tracer.py
    shipping, \* CloudWatch's handler is attached
    graph,    \* what the latest build made
    clients   \* AWS clients that were built

telemetry   == <<tracer, meter, enabled, shipping>>
startupVars == <<env, config, up, telemetry, graph, clients>>

Off == [provider |-> "openai", region |-> FALSE, kb |-> FALSE, interpreter |-> FALSE,
        memory |-> FALSE, checkpointer |-> FALSE, caching |-> FALSE,
        observability |-> FALSE, orchestration |-> FALSE, logGroup |-> FALSE]

StartupTypeOK ==
    /\ env \in Env /\ config \in Config
    /\ up \in {"down", "refused", "loaded", "logging", "serving"}
    /\ tracer \in BOOLEAN /\ meter \in BOOLEAN /\ enabled \in BOOLEAN /\ shipping \in BOOLEAN
    /\ graph \in Graph \cup {NoGraph}
    /\ clients \subseteq AwsClient

Down ==
    /\ config = Off /\ up = "down"
    /\ tracer = FALSE /\ meter = FALSE /\ enabled = FALSE /\ shipping = FALSE
    /\ graph = NoGraph /\ clients = {}

StartupInit == env \in Env /\ Down

-----------------------------------------------------------------------------
(* config.py *)

\* _parse_bool of a flag that is off by default, as all of these are.
Flag(token) == token = "true"

\* _parse_provider
Provider(token) == IF token \in {"bedrock", "openai"} THEN token ELSE "openai"

\* Mutant: only the provider is looked at.
RegionRequiredByProvider(e) == Provider(e.provider) = "bedrock"

RegionRequired(e) == Provider(e.provider) = "bedrock" \/ e.kb \/ e.interpreter

Parsed(e) ==
    [provider |-> Provider(e.provider), region |-> e.region, kb |-> e.kb,
     interpreter |-> e.interpreter, memory |-> e.memory,
     checkpointer |-> Flag(e.checkpointer), caching |-> Flag(e.caching),
     observability |-> Flag(e.observability), orchestration |-> Flag(e.orchestration),
     logGroup |-> e.logGroup]

\* load_config, when main is imported: it raises, or there is a configuration. (A number
\* that is none makes int or float raise.)
LoadConfig ==
    /\ up = "down"
    /\ IF (RegionRequired(env) /\ ~env.region) \/ ~env.numbers
       THEN up' = "refused" /\ UNCHANGED config
       ELSE up' = "loaded" /\ config' = Parsed(env)
    /\ UNCHANGED <<env, telemetry, graph, clients>>

-----------------------------------------------------------------------------
(* lifespan *)

\* setup_cloudwatch_logging: a package may be missing, or the client or the handler fail.
\* Its region is the configuration's, be there one or not.
SetupLogging(reached) ==
    /\ up = "loaded"
    /\ up' = "logging"
    /\ clients' = IF config.logGroup /\ reached # "nothing" THEN clients \cup {"logs"} ELSE clients
    /\ shipping' = (config.logGroup /\ reached = "handler")
    /\ UNCHANGED <<env, config, tracer, meter, enabled, graph>>

\* setup_observability: packages may be missing, or one of the two halves may fail.
SetupObservability(reached) ==
    /\ up = "logging"
    /\ up' = "serving"
    /\ tracer' = (config.observability /\ reached # "nothing")
    /\ meter' = (config.observability /\ reached = "everything")
    /\ enabled' = meter'
    /\ UNCHANGED <<env, config, shipping, graph, clients>>

-----------------------------------------------------------------------------
(* build_graph. `ok` are the AgentCore clients whose package and set-up are fine.       *)

\* get_checkpointer, get_memory_store: what is tried
UsesSaver == config.provider = "bedrock" /\ config.memory /\ config.checkpointer
UsesStore == config.provider = "bedrock" /\ config.memory

Backend(uses, ok) == IF uses /\ ok THEN "agentcore" ELSE "memory"

\* create_model binds the cache control to a Bedrock model.
Bound == IF config.provider = "bedrock" /\ config.caching THEN {"bound"} ELSE {}

\* _unwrap_model_cache_binding takes it off, PromptCacheMiddleware puts it on.
CacheControl ==
    (Bound \ {"bound"})
        \cup (IF config.provider = "bedrock" /\ config.caching THEN {"middleware"} ELSE {})

Tools == {t \in {"knowledge", "interpreter", "orchestration"} :
            CASE t = "knowledge"     -> config.kb
              [] t = "interpreter"   -> config.interpreter
              [] t = "orchestration" -> config.orchestration}

Clients(ok) ==
    {c \in AwsClient \ {"logs"} :
        CASE c = "model"        -> config.provider = "bedrock"
          [] c = "checkpointer" -> UsesSaver /\ "checkpointer" \in ok
          [] c = "store"        -> UsesStore /\ "store" \in ok
          [] c = "knowledge"    -> config.kb
          [] c = "interpreter"  -> config.interpreter}

BuildGraph(ok) ==
    /\ up = "serving"
    /\ graph' = [model |-> config.provider, cacheControl |-> CacheControl,
                 saver |-> Backend(UsesSaver, "checkpointer" \in ok),
                 store |-> Backend(UsesStore, "store" \in ok), tools |-> Tools]
    /\ clients' = clients \cup Clients(ok)
    /\ UNCHANGED <<env, config, up, telemetry>>

StartupStep ==
    \/ LoadConfig
    \/ \E reached \in {"nothing", "client", "handler"} : SetupLogging(reached)
    \/ \E reached \in {"nothing", "tracer", "everything"} : SetupObservability(reached)

Build == \E ok \in SUBSET {"checkpointer", "store"} : BuildGraph(ok)

-----------------------------------------------------------------------------
(* "No default, so a region never silently leaks from this template into your            *)
(* deployment" (config.py:354): which settings require a region is decided in one place,      *)
(* what is built with it in others, and none of them builds a client of an AWS service in a    *)
(* process that was given no region: but that for CloudWatch's logs, which is asked for by its *)
(* own setting beside any provider (main.py:41).                                             *)
RegionKnown == clients \ {"logs"} # {} => config.region
=============================================================================
