------------------------------- MODULE Server -------------------------------
(* One process after another: what it builds from its environment (Startup), the     *)
(* calls and notices that live in its memory (Knowledge), and the files it shares with    *)
(* the processes before and after it (FileRegistry). What a conversation does is in the    *)
(* other modules; here it makes calls, runs Python and drains notices.                      *)
EXTENDS FileRegistry, Knowledge, Startup

serverVars == <<filesVars, knowledgeVars, startupVars>>

ServerTypeOK == FilesTypeOK /\ KnowledgeTypeOK /\ StartupTypeOK

ServerInit == FilesInit /\ KnowledgeInit /\ StartupInit

Serving == up = "serving"

StartServer == StartupStep /\ UNCHANGED <<filesVars, knowledgeVars>>
BuildOne    == Build /\ UNCHANGED <<filesVars, knowledgeVars>>

\* run_python is a tool only with an interpreter; the route is always there.
UseFiles ==
    /\ Serving
    /\ \/ /\ "interpreter" \in clients
          /\ \E f \in File, written \in {"none", "part", "whole"} : Register(f, written)
       \/ \E f \in File : Download(f)
       \/ \E old \in SUBSET File : \E stuck \in SUBSET old : Sweep(old, stuck)
    /\ UNCHANGED <<knowledgeVars, startupVars>>

RemoveOne == (\E f \in File : RemoveFile(f)) /\ UNCHANGED <<knowledgeVars, startupVars>>

\* kb_retrieve is a tool only with a knowledge base; a call to the store can be refused
\* only if it is AgentCore's.
StartOne(c) ==
    /\ Serving
    /\ (IF IsRetrieval(c) THEN "knowledge" ELSE "store") \in clients
    /\ StartCall(c)
    /\ UNCHANGED <<filesVars, startupVars>>

CallStep(c) == ThreadStep(c) /\ UNCHANGED <<filesVars, startupVars>>

TurnStep == LoopStep /\ UNCHANGED <<filesVars, startupVars>>

ExpireOne == Expire /\ UNCHANGED <<filesVars, startupVars>>

\* The process ends, however it does, and another begins.
Restart ==
    /\ up # "down"
    /\ FilesLost /\ KnowledgeLost
    /\ UNCHANGED env
    /\ config' = Off /\ up' = "down"
    /\ tracer' = FALSE /\ meter' = FALSE /\ enabled' = FALSE /\ shipping' = FALSE
    /\ graph' = NoGraph /\ clients' = {}

ServerNext ==
    \/ StartServer \/ BuildOne
    \/ UseFiles \/ RemoveOne
    \/ (\E c \in Call : StartOne(c) \/ CallStep(c))
    \/ TurnStep \/ ExpireOne
    \/ Restart

ServerSpec == ServerInit /\ [][ServerNext]_serverVars
=============================================================================
