---------------------------- MODULE ServerProofs ----------------------------
(* Theorems about Server for every set of files, calls, features, retrieval results     *)
(* and environments: what its files and its notices promise, how long an answer of the     *)
(* knowledge base can be, and what a process builds.                                       *)
EXTENDS Server, TLAPS, FiniteSetTheorems, WellFoundedInduction

-----------------------------------------------------------------------------
(* Files *)

(* What keeps links whole: an untouched file is on disk with an entry, one of this        *)
(* process is in memory, and a linked file without an entry is not on disk either, so       *)
(* that no restart brings it back.                                                          *)
FilesInv ==
    /\ FilesTypeOK
    /\ \A f \in File \ used : disk[f] = "none" /\ files[f] = "none"
    /\ \A f \in linked :
        /\ disk[f] # "part"
        /\ Entries[f] = "none" => disk[f] = "none"
        /\ f \notin cleaned \cup removed => disk[f] = "whole" /\ Entries[f] # "none"
        /\ f \notin cleaned \cup reborn => made /\ files[f] = "whole"

LEMMA EntriesType == ASSUME FilesTypeOK PROVE Entries \in [File -> Content \cup {"none"}]
  BY DEF FilesTypeOK, Entries, Loaded, Content

\* What the memory, or else the directory, says of f.
LEMMA EntryOf ==
    ASSUME NEW f \in File
    PROVE  /\ Entries[f] = IF made THEN files[f] ELSE IF disk[f] = "none" THEN "none" ELSE "empty"
           /\ Entries'[f] = IF made' THEN files'[f]
                            ELSE IF disk'[f] = "none" THEN "none" ELSE "empty"
  BY DEF Entries, Loaded

LEMMA FilesInitInv == ASSUME FilesInit PROVE FilesInv
  BY DEF FilesInit, FilesInv, FilesTypeOK, NoFiles, Content

LEMMA FilesNextInv == ASSUME FilesInv, [FilesNext]_filesVars PROVE FilesInv'
<1> USE DEF FilesInv, FilesTypeOK, Content
<1>0. Entries \in [File -> Content \cup {"none"}]
  BY EntriesType
<1>1. ASSUME NEW f \in File, NEW written \in {"none", "part", "whole"}, Register(f, written)
      PROVE  FilesInv'
  <2>1. \A g \in File \ {f} : Entries'[g] = Entries[g] /\ disk'[g] = disk[g]
    BY <1>1, <1>0, EntryOf DEF Register
  <2>2. f \notin linked /\ used' = used \cup {f} /\ \A g \in File \ used : Entries[g] = "none"
    BY <1>1, EntryOf DEF Register
  <2>3. FilesTypeOK'
    BY <1>1, <1>0 DEF Register
  <2>4. ASSUME NEW g \in linked PROVE files'[g] = Entries[g] /\ g # f
    BY <1>1, <1>0, <2>2 DEF Register
  <2>5. f \in linked' => disk'[f] = "whole" /\ files'[f] = "whole" /\ Entries'[f] = "whole"
    <3>1. ASSUME f \in linked'
          PROVE  written = "whole" /\ files' = [Entries EXCEPT ![f] = "whole"]
      BY <1>1, <2>2, <3>1 DEF Register
    <3>2. disk' = [disk EXCEPT ![f] = written] /\ made'
      BY <1>1 DEF Register
    <3>3. Entries'[f] = files'[f]
      BY <3>2, EntryOf
    <3> QED BY <1>0, <3>1, <3>2, <3>3
  <2>6. made' /\ linked' \subseteq linked \cup {f}
        /\ UNCHANGED <<reborn, removed, cleaned>>
    BY <1>1 DEF Register
  <2>7. \A g \in linked : made /\ files[g] = "whole" => Entries[g] = "whole"
    BY EntryOf
  <2>8. \A g \in File \ used' : disk'[g] = "none" /\ files'[g] = "none"
    <3>1. \A g \in File \ used' : g # f /\ g \notin used
      BY <2>2
    <3>2. files' \in {Entries, [Entries EXCEPT ![f] = "whole"]}
      BY <1>1 DEF Register
    <3>3. \A g \in File \ {f} : files'[g] = Entries[g]
      BY <3>2, <1>0
    <3> QED BY <3>1, <3>3, <2>1, <2>2
  <2> QED BY <2>1, <2>3, <2>4, <2>5, <2>6, <2>7, <2>8
<1>2. ASSUME NEW f \in File, Download(f) PROVE FilesInv'
  <2>1. Answer(f) \in Content \cup {"none"}
    BY <1>0 DEF Answer
  <2>2. Answer(f) = "none" <=> Entries[f] = "none"
    BY <1>0 DEF Answer
  <2> QED BY <1>2, <1>0, <2>1, <2>2 DEF Download, Answer, Entries, Loaded, fileHistory
<1>3. ASSUME NEW old \in SUBSET File, NEW stuck \in SUBSET old, Sweep(old, stuck)
      PROVE  FilesInv'
  <2>0. \A g \in File \ used : Entries[g] = "none"
    BY EntryOf
  <2>1. FilesTypeOK'
    BY <1>3, <1>0, <2>0 DEF Sweep
  <2>2. made' /\ UNCHANGED <<linked, removed, reborn>>
        /\ cleaned' = cleaned \cup (old \ stuck)
    BY <1>3 DEF Sweep
  <2>3. \A g \in File : IF g \in old \ stuck
                        THEN disk'[g] = "none" /\ files'[g] = "none"
                        ELSE disk'[g] = disk[g] /\ files'[g] = Entries[g]
    BY <1>3, <1>0 DEF Sweep
  <2>4. \A g \in File : Entries'[g] = files'[g] /\ (made => Entries[g] = files[g])
    BY <2>2, EntryOf
  <2>5. \A g \in File \ used' : disk'[g] = "none" /\ files'[g] = "none"
    BY <1>3, <2>0, <2>3 DEF Sweep
  <2>6. ASSUME NEW g \in linked'
        PROVE  /\ disk'[g] # "part"
               /\ Entries'[g] = "none" => disk'[g] = "none"
               /\ g \notin cleaned' \cup removed' => disk'[g] = "whole" /\ Entries'[g] # "none"
               /\ g \notin cleaned' \cup reborn' => made' /\ files'[g] = "whole"
    <3>1. g \in linked /\ g \in File
      BY <2>2
    <3>2. CASE g \in old \ stuck
      BY <3>1, <3>2, <2>2, <2>3, <2>4
    <3>3. CASE g \notin old \ stuck
      BY <3>1, <3>3, <2>2, <2>3, <2>4
    <3> QED BY <3>2, <3>3
  <2> QED BY <2>1, <2>5, <2>6
<1>4. ASSUME NEW f \in File, RemoveFile(f) PROVE FilesInv'
  <2>1. FilesTypeOK' /\ UNCHANGED <<made, files, used, linked, reborn, cleaned>>
        /\ removed' = removed \cup {f}
    BY <1>4 DEF RemoveFile
  <2>2. \A g \in File : disk'[g] = IF g = f THEN "none" ELSE disk[g]
    BY <1>4 DEF RemoveFile
  <2>3. \A g \in linked : Entries'[g] = "none" => disk'[g] = "none"
    BY <2>1, <2>2, EntryOf
  <2>4. \A g \in linked : g # f => Entries'[g] = Entries[g]
    BY <2>1, <2>2, EntryOf
  <2> QED BY <2>1, <2>2, <2>3, <2>4
<1>5. CASE FilesLost
  BY <1>5 DEF FilesLost, Entries, Loaded, NoFiles
<1>6. CASE UNCHANGED filesVars
  BY <1>6 DEF filesVars, storage, fileHistory, Entries, Loaded
<1> QED BY <1>1, <1>2, <1>3, <1>4, <1>5, <1>6 DEF FilesNext, FilesStep

LEMMA FilesAlways == FilesSpec => []FilesInv
<1>1. FilesInit => FilesInv
  BY FilesInitInv
<1>2. FilesInv /\ [FilesNext]_filesVars => FilesInv'
  BY FilesNextInv
<1> QED BY <1>1, <1>2, PTL DEF FilesSpec

LEMMA FilesInvServes == ASSUME FilesInv PROVE LinkServed
  BY EntriesType DEF FilesInv, FilesTypeOK, LinkServed, Answer, Entries, Loaded, Content

LEMMA FilesInvGone ==
    ASSUME FilesInv, [FilesNext]_filesVars, NEW f \in linked, Answer(f) = "none"
    PROVE  Answer(f)' = "none"
<1> USE DEF FilesInv, FilesTypeOK, Content
<1>1. f \in File /\ Entries[f] = "none" /\ disk[f] = "none" /\ f \in used
  BY EntriesType DEF Answer
<1>2. Entries'[f] = "none" => Answer(f)' = "none"
  BY DEF Answer
<1>3. ASSUME NEW g \in File, NEW written \in {"none", "part", "whole"}, Register(g, written)
      PROVE  Entries'[f] = "none"
  BY <1>1, <1>3, EntriesType DEF Register, Entries
<1>4. ASSUME NEW g \in File, Download(g) PROVE Entries'[f] = "none"
  <2>1. Answer(f) = "none"
    OBVIOUS
  <2> QED BY <1>1, <1>4, <2>1, EntriesType DEF Download, Entries
<1>5. ASSUME NEW old \in SUBSET File, NEW stuck \in SUBSET old, Sweep(old, stuck)
      PROVE  Entries'[f] = "none"
  BY <1>1, <1>5, EntriesType DEF Sweep, Entries
<1>6. ASSUME NEW g \in File, RemoveFile(g) PROVE Entries'[f] = "none"
  BY <1>1, <1>6 DEF RemoveFile, Entries, Loaded
<1>7. CASE FilesLost
  BY <1>1, <1>2, <1>7, EntryOf DEF FilesLost
<1>8. CASE UNCHANGED filesVars
  BY <1>1, <1>2, <1>8, EntryOf DEF filesVars, storage, fileHistory
<1> QED BY <1>2, <1>3, <1>4, <1>5, <1>6, <1>7, <1>8 DEF FilesNext, FilesStep

(* A link that was given out serves the whole file, across restarts.                     *)
THEOREM FilesServe == FilesSpec => []LinkServed
<1>1. FilesInv => LinkServed
  BY FilesInvServes
<1> QED BY <1>1, FilesAlways, PTL

(* A link that is gone stays gone, across restarts and failing deletions.                *)
THEOREM FilesStayGone == FilesSpec => GoneStaysGone
<1>1. FilesInv /\ [FilesNext]_filesVars
        => [\A f \in linked : Answer(f) = "none" => Answer(f)' = "none"]_filesVars
  BY FilesInvGone
<1> QED BY <1>1, FilesAlways, PTL DEF FilesSpec, GoneStaysGone

-----------------------------------------------------------------------------
(* A server's files are files: every step of a server is a step of the registry or none.  *)
THEOREM ServerFiles == ServerSpec => FilesSpec
<1>1. ServerInit => FilesInit
  BY DEF ServerInit
<1>2. [ServerNext]_serverVars => [FilesNext]_filesVars
  <2>1. StartServer \/ BuildOne \/ (\E c \in Call : StartOne(c) \/ CallStep(c))
          \/ TurnStep \/ ExpireOne => UNCHANGED filesVars
    BY DEF StartServer, BuildOne, StartOne, CallStep, TurnStep, ExpireOne
  <2>2. UseFiles => FilesNext
    BY DEF UseFiles, FilesNext, FilesStep
  <2>3. RemoveOne \/ Restart => FilesNext
    BY DEF RemoveOne, Restart, FilesNext
  <2>4. UNCHANGED serverVars => UNCHANGED filesVars
    BY DEF serverVars
  <2> QED BY <2>1, <2>2, <2>3, <2>4 DEF ServerNext
<1> QED BY <1>1, <1>2, PTL DEF ServerSpec, FilesSpec

(* Links are whole in every server, whatever else it does and however often it restarts.   *)
THEOREM ServerLinksServed == ServerSpec => []LinkServed
  BY ServerFiles, FilesServe, PTL

(* A 404 of a link is final in every server.                                              *)
THEOREM ServerLinksStayGone == ServerSpec => GoneStaysGone
  BY ServerFiles, FilesStayGone, PTL

-----------------------------------------------------------------------------
(* What is built *)

StartupNext == StartupStep \/ Build \/ (up # "down" /\ env' = env /\ Down')

(* A configuration that needs a region has one, and nothing is built before there is one. *)
StartupInv ==
    /\ StartupTypeOK
    /\ up = "down" => clients = {} /\ graph = NoGraph
    /\ config.provider = "bedrock" \/ config.kb \/ config.interpreter => config.region
    /\ RegionKnown

LEMMA StartupDown == ASSUME env \in Env, Down PROVE StartupInv
  BY DEF Down, StartupInv, StartupTypeOK, Off, Config, RegionKnown

LEMMA LoadConfigInv == ASSUME StartupInv, LoadConfig PROVE StartupInv'
<1> USE DEF StartupInv, StartupTypeOK
<1>1. UNCHANGED <<env, telemetry, graph, clients>> /\ clients = {} /\ graph = NoGraph
  BY DEF LoadConfig
<1>2. RegionKnown'
  BY <1>1 DEF RegionKnown
<1>3. CASE (RegionRequired(env) /\ ~env.region) \/ ~env.numbers
  BY <1>1, <1>2, <1>3 DEF LoadConfig, telemetry
<1>4. CASE ~((RegionRequired(env) /\ ~env.region) \/ ~env.numbers)
  <2>1. up' = "loaded" /\ config' = Parsed(env)
    BY <1>4 DEF LoadConfig
  <2>2. Parsed(env) \in Config
    BY EnvAssumption DEF Parsed, Config, Provider, Flag
  <2>3. config'.provider = "bedrock" \/ config'.kb \/ config'.interpreter => config'.region
    BY <1>4, <2>1 DEF Parsed, RegionRequired
  <2> QED BY <1>1, <1>2, <2>1, <2>2, <2>3 DEF telemetry
<1> QED BY <1>3, <1>4

LEMMA BuildGraphInv ==
    ASSUME StartupInv, NEW ok \in SUBSET {"checkpointer", "store"}, BuildGraph(ok)
    PROVE  StartupInv'
<1> USE DEF StartupInv, StartupTypeOK
<1>1. up = "serving" /\ UNCHANGED <<env, config, up, telemetry>>
  BY DEF BuildGraph
<1>2. Clients(ok) \subseteq AwsClient \ {"logs"} /\ (Clients(ok) # {} => config.region)
  BY DEF Clients, AwsClient, UsesSaver, UsesStore
<1>3. clients' \subseteq AwsClient /\ RegionKnown'
  BY <1>1, <1>2 DEF BuildGraph, RegionKnown
<1>4. CacheControl = IF config.provider = "bedrock" /\ config.caching THEN {"middleware"} ELSE {}
  BY DEF CacheControl, Bound
<1>5. graph' \in Graph
  BY <1>4 DEF BuildGraph, Graph, Backend, Tools, Config
<1> QED BY <1>1, <1>3, <1>5 DEF telemetry

LEMMA StartupNextInv == ASSUME StartupInv, [StartupNext]_startupVars PROVE StartupInv'
<1> USE DEF StartupInv, StartupTypeOK
<1>1. CASE LoadConfig
  BY <1>1, LoadConfigInv
<1>2. ASSUME NEW reached \in {"nothing", "client", "handler"}, SetupLogging(reached)
      PROVE  StartupInv'
  BY <1>2 DEF SetupLogging, RegionKnown, Config, AwsClient
<1>3. ASSUME NEW reached \in {"nothing", "tracer", "everything"}, SetupObservability(reached)
      PROVE  StartupInv'
  BY <1>3 DEF SetupObservability, RegionKnown, Config
<1>4. ASSUME NEW ok \in SUBSET {"checkpointer", "store"}, BuildGraph(ok) PROVE StartupInv'
  BY <1>4, BuildGraphInv
<1>5. CASE env' = env /\ Down'
  BY <1>5 DEF Down, Off, Config, RegionKnown
<1>6. CASE UNCHANGED startupVars
  BY <1>6 DEF startupVars, telemetry, RegionKnown
<1> QED BY <1>1, <1>2, <1>3, <1>4, <1>5, <1>6 DEF StartupNext, StartupStep, Build

LEMMA ServerStartupAlways == ServerSpec => []StartupInv
<1>1. ServerInit => StartupInv
  BY StartupDown DEF ServerInit, StartupInit
<1>2. [ServerNext]_serverVars => [StartupNext]_startupVars
  <2>1. UseFiles \/ RemoveOne \/ (\E c \in Call : StartOne(c) \/ CallStep(c))
          \/ TurnStep \/ ExpireOne => UNCHANGED startupVars
    BY DEF UseFiles, RemoveOne, StartOne, CallStep, TurnStep, ExpireOne
  <2>2. StartServer \/ BuildOne => StartupNext
    BY DEF StartServer, BuildOne, StartupNext
  <2>3. Restart => StartupNext
    BY DEF Restart, StartupNext, Down
  <2>4. UNCHANGED serverVars => UNCHANGED startupVars
    BY DEF serverVars
  <2> QED BY <2>1, <2>2, <2>3, <2>4 DEF ServerNext
<1>3. StartupInv /\ [StartupNext]_startupVars => StartupInv'
  BY StartupNextInv
<1> QED BY <1>1, <1>2, <1>3, PTL DEF ServerSpec

(* No AWS client but that of the logs without a region, for every environment: load_config   *)
(* (config.py:349) requires one wherever a graph or its tools use one.                       *)
THEOREM ServerRegionKnown == ServerSpec => []RegionKnown
<1>1. StartupInv => RegionKnown
  BY DEF StartupInv
<1> QED BY <1>1, ServerStartupAlways, PTL

-----------------------------------------------------------------------------
(* Notices *)

KnowledgeNext ==
    \/ \E c \in Call : StartCall(c) \/ ThreadStep(c)
    \/ LoopStep \/ Expire \/ KnowledgeLost

\* Calls whose report is made, or can no longer be prevented.
Past(c) == stage[c] \in {"add", "append"} \/ c \in Range(queue) \cup telling \cup told \cup exposed
Made(c) == stage[c] = "append" \/ c \in Range(queue) \cup telling \cup told \cup exposed

(* What was reported is in the set of warned features; what a drain has not copied came    *)
(* during it; of two reports of a feature one was made by a call that raced.                *)
KnowledgeInv ==
    /\ KnowledgeTypeOK
    /\ \A c \in Call : Made(c) => FeatureOf[c] \in warned
    /\ copied # Nothing => /\ Range(copied) \subseteq Range(queue)
                          /\ \A c \in Range(queue) : c \in Range(copied) \/ c \in exposed
    /\ \A c, d \in Call :
          c # d /\ FeatureOf[c] = FeatureOf[d] /\ Past(c) /\ Past(d) => c \in raced \/ d \in raced
    /\ NoticeKept

LEMMA RangeAppend ==
    ASSUME NEW S, NEW s \in Seq(S), NEW e \in S
    PROVE  Range(Append(s, e)) = Range(s) \cup {e}
<1>1. \A x : x \in Range(Append(s, e)) <=> \E i \in 1..(Len(s) + 1) : Append(s, e)[i] = x
  BY DEF Range
<1>2. \A x : x \in Range(s) <=> \E i \in 1..Len(s) : s[i] = x
  BY DEF Range
<1>3. \A i \in 1..Len(s) : Append(s, e)[i] = s[i]
  OBVIOUS
<1>4. Append(s, e)[Len(s) + 1] = e /\ Len(s) \in Nat
  OBVIOUS
<1> QED BY <1>1, <1>2, <1>3, <1>4

LEMMA RangeOf == ASSUME NEW S, NEW s \in Seq(S) PROVE Range(s) \subseteq S
  BY DEF Range

LEMMA RangeEmpty == Range(<< >>) = {}
  BY DEF Range

LEMMA KnowledgeStart == ASSUME KnowledgeInit PROVE KnowledgeInv
<1>1. KnowledgeTypeOK
  <2>1. answer \in [Call -> {Format(results) : results \in Results} \cup {<< >>}]
    BY DEF KnowledgeInit
  <2>2. stage \in [Call -> Stage]
    BY DEF KnowledgeInit, Stage
  <2>3. warned \subseteq Feature /\ telling \subseteq Call /\ told \subseteq Call
        /\ raced \subseteq Call /\ exposed \subseteq Call /\ expired \in BOOLEAN
    BY DEF KnowledgeInit
  <2>4. queue \in Seq(Call) /\ copied = Nothing
    BY DEF KnowledgeInit
  <2> QED BY <2>1, <2>2, <2>3, <2>4 DEF KnowledgeTypeOK
<1> QED BY <1>1, RangeEmpty DEF KnowledgeInit, KnowledgeInv, Made, Past, NoticeKept

\* A call that moves outside the reporting steps changes nothing that matters to it.
LEMMA QuietStep ==
    ASSUME KnowledgeInv, NEW c \in Call, NEW s \in Stage \ {"add", "append"},
           stage[c] \notin {"add", "append"}, Go(c, s),
           UNCHANGED <<expired, notices, knowledgeHistory>>,
           answer' \in [Call -> {Format(results) : results \in Results} \cup {<< >>}]
    PROVE  KnowledgeInv'
<1> USE DEF KnowledgeInv
<1>1. KnowledgeTypeOK'
  BY DEF KnowledgeTypeOK, Go, notices, knowledgeHistory
<1>2. \A d \in Call : stage'[d] = IF d = c THEN s ELSE stage[d]
  BY DEF KnowledgeTypeOK, Go
<1>3. UNCHANGED <<warned, queue, copied, telling, told, raced, exposed>>
  BY DEF notices, knowledgeHistory
<1>4. \A d \in Call : (Made(d)' <=> Made(d)) /\ (Past(d)' <=> Past(d))
  BY <1>2, <1>3 DEF Made, Past
<1>5. NoticeKept'
  BY <1>2, <1>3 DEF NoticeKept, Kept
<1> QED BY <1>1, <1>3, <1>4, <1>5

LEMMA CallInv ==
    ASSUME KnowledgeInv, NEW c \in Call,
           StartCall(c) \/ SessionFails(c) \/ CallSucceeds(c) \/ ReturnAnswer(c)
             \/ CallFails(c) \/ CallRefused(c)
    PROVE  KnowledgeInv'
<1>1. stage[c] \in {"idle", "first", "second", "found"} /\ UNCHANGED <<expired, notices, knowledgeHistory>>
  BY DEF StartCall, SessionFails, CallSucceeds, ReturnAnswer, CallFails, CallRefused
<1>2. \E s \in Stage \ {"add", "append"} : Go(c, s)
  BY DEF StartCall, SessionFails, CallSucceeds, ReturnAnswer, CallFails, CallRefused, Stage
<1>3. answer' \in [Call -> {Format(results) : results \in Results} \cup {<< >>}]
  <2>1. answer \in [Call -> {Format(results) : results \in Results} \cup {<< >>}]
    BY DEF KnowledgeInv, KnowledgeTypeOK
  <2> QED BY <2>1 DEF StartCall, SessionFails, CallSucceeds, ReturnAnswer, CallFails, CallRefused
<1> QED BY <1>1, <1>2, <1>3, QuietStep

LEMMA CheckInv == ASSUME KnowledgeInv, NEW c \in Call, Check(c) PROVE KnowledgeInv'
<1> USE DEF KnowledgeInv
<1>1. CASE FeatureOf[c] \in warned
  BY <1>1, QuietStep DEF Check, Stage, KnowledgeTypeOK, knowledgeHistory
<1>2. CASE FeatureOf[c] \notin warned
  <2>1. KnowledgeTypeOK'
    BY <1>2 DEF Check, KnowledgeTypeOK, Go, Stage, notices, Racing
  <2>2. /\ \A d \in Call : stage'[d] = IF d = c THEN "add" ELSE stage[d]
        /\ UNCHANGED <<warned, queue, copied, telling, told, exposed>>
        /\ stage[c] = "check" /\ raced' = raced \cup Racing(c)
    BY <1>2 DEF Check, KnowledgeTypeOK, Go, notices
  <2>3. \A d \in Call : Made(d)' <=> Made(d)
    BY <2>2 DEF Made
  <2>4. \A d \in Call \ {c} : FeatureOf[d] = FeatureOf[c] /\ Past(d) => stage[d] = "add"
    BY <1>2 DEF Made, Past
  <2>5. \A d \in Call \ {c} : FeatureOf[d] = FeatureOf[c] /\ Past(d) => c \in raced'
    BY <2>2, <2>4 DEF Racing
  <2>6. \A d \in Call \ {c} : Past(d)' <=> Past(d)
    BY <2>2 DEF Past
  <2>7. NoticeKept'
    BY <2>2 DEF NoticeKept, Kept
  <2> QED BY <2>1, <2>2, <2>3, <2>5, <2>6, <2>7
<1> QED BY <1>1, <1>2

LEMMA AddInv == ASSUME KnowledgeInv, NEW c \in Call, Add(c) PROVE KnowledgeInv'
<1> USE DEF KnowledgeInv
<1>1. KnowledgeTypeOK'
  BY KnowledgeAssumption DEF Add, KnowledgeTypeOK, Go, Stage, knowledgeHistory
<1>2. /\ \A d \in Call : stage'[d] = IF d = c THEN "append" ELSE stage[d]
      /\ UNCHANGED <<queue, copied, telling, told, raced, exposed>>
      /\ stage[c] = "add" /\ warned' = warned \cup {FeatureOf[c]}
  BY DEF Add, KnowledgeTypeOK, Go, knowledgeHistory
<1>3. \A d \in Call : Past(d)' <=> Past(d)
  BY <1>2 DEF Past
<1>4. \A d \in Call \ {c} : Made(d)' <=> Made(d)
  BY <1>2 DEF Made
<1>5. c \in Kept(FeatureOf[c])' /\ \A f : Kept(f) \subseteq Kept(f)'
  BY <1>2 DEF Kept
<1>6. NoticeKept'
  BY <1>2, <1>5 DEF NoticeKept
<1> QED BY <1>1, <1>2, <1>3, <1>4, <1>6

LEMMA AppendInv == ASSUME KnowledgeInv, NEW c \in Call, AppendNotice(c) PROVE KnowledgeInv'
<1> USE DEF KnowledgeInv
<1>1. KnowledgeTypeOK'
  BY DEF AppendNotice, KnowledgeTypeOK, Go, Stage
<1>2. Range(queue') = Range(queue) \cup {c}
  BY RangeAppend DEF AppendNotice, KnowledgeTypeOK
<1>3. /\ \A d \in Call : stage'[d] = IF d = c THEN "done" ELSE stage[d]
      /\ UNCHANGED <<warned, copied, telling, told, raced>>
      /\ stage[c] = "append"
      /\ exposed' = IF copied = Nothing THEN exposed ELSE exposed \cup {c}
  BY DEF AppendNotice, KnowledgeTypeOK, Go
<1>4. \A d \in Call : (Past(d)' <=> Past(d)) /\ (Made(d)' <=> Made(d))
  BY <1>2, <1>3 DEF Past, Made
<1>5. \A f : Kept(f)' = Kept(f)
  BY <1>2, <1>3 DEF Kept
<1>6. NoticeKept'
  BY <1>3, <1>5 DEF NoticeKept
<1> QED BY <1>1, <1>2, <1>3, <1>4, <1>6

LEMMA LoopInv == ASSUME KnowledgeInv, LoopStep PROVE KnowledgeInv'
<1> USE DEF KnowledgeInv
<1>1. CASE DrainCopy
  <2>1. KnowledgeTypeOK'
    BY <1>1 DEF DrainCopy, KnowledgeTypeOK, calls, knowledgeHistory
  <2>2. copied' = queue /\ UNCHANGED <<stage, warned, queue, telling, told, raced, exposed>>
    BY <1>1 DEF DrainCopy, calls, knowledgeHistory
  <2> QED BY <2>1, <2>2 DEF Past, Made, NoticeKept, Kept
<1>2. CASE DrainClear
  <2>1. /\ copied # Nothing /\ queue' = << >> /\ copied' = Nothing
        /\ telling' = telling \cup Range(copied)
        /\ UNCHANGED <<stage, expired, warned, told, answer, raced, exposed>>
    BY <1>2 DEF DrainClear, calls, knowledgeHistory
  <2>2. copied \in Seq(Call) /\ Range(copied) \subseteq Call
    BY <2>1, RangeOf DEF KnowledgeTypeOK
  <2>3. KnowledgeTypeOK'
    BY <2>1, <2>2 DEF KnowledgeTypeOK
  <2>4. Range(queue') = {}
    BY <2>1, RangeEmpty
  <2>5. \A c \in Call : (Made(c)' => Made(c) \/ c \in Range(copied))
                     /\ (Past(c)' => Past(c) \/ c \in Range(copied))
    BY <2>1, <2>4 DEF Past, Made
  <2>6. Range(copied) \subseteq Range(queue)
    BY <2>1
  <2>7. \A c \in Call : c \in Range(copied) => Made(c) /\ Past(c)
    BY <2>6 DEF Past, Made
  <2>8. \A f \in warned : \A c \in Kept(f) : c \in Kept(f)' \/ c \in exposed
    BY <2>1 DEF Kept
  <2>9. NoticeKept'
    BY <2>1, <2>8 DEF NoticeKept, Kept
  <2> QED BY <2>1, <2>3, <2>4, <2>5, <2>7, <2>9
<1>3. ASSUME NEW c \in telling, Tell(c) PROVE KnowledgeInv'
  <2>1. /\ telling' = telling \ {c} /\ told' = told \cup {c}
        /\ UNCHANGED <<stage, expired, warned, queue, copied, answer, raced, exposed>>
    BY <1>3 DEF Tell, calls, knowledgeHistory
  <2>2. KnowledgeTypeOK'
    BY <2>1 DEF KnowledgeTypeOK
  <2> QED BY <2>1, <2>2 DEF Past, Made, NoticeKept, Kept
<1>4. ASSUME NEW held \in SUBSET telling, TurnCut(held) PROVE KnowledgeInv'
  <2>1. /\ telling' = telling \ held /\ exposed' = exposed \cup held
        /\ UNCHANGED <<stage, expired, warned, queue, copied, told, answer, raced>>
    BY <1>4 DEF TurnCut, calls
  <2>2. KnowledgeTypeOK'
    BY <2>1 DEF KnowledgeTypeOK
  <2> QED BY <2>1, <2>2 DEF Past, Made, NoticeKept, Kept
<1> QED BY <1>1, <1>2, <1>3, <1>4 DEF LoopStep

LEMMA KnowledgeNextInv == ASSUME KnowledgeInv, [KnowledgeNext]_knowledgeVars PROVE KnowledgeInv'
<1>1. ASSUME NEW c \in Call, StartCall(c) \/ ThreadStep(c) PROVE KnowledgeInv'
  BY <1>1, CallInv, CheckInv, AddInv, AppendInv DEF ThreadStep
<1>2. CASE LoopStep
  BY <1>2, LoopInv
<1>3. CASE Expire
  BY <1>3 DEF Expire, KnowledgeInv, KnowledgeTypeOK, notices, knowledgeHistory, Past, Made,
              NoticeKept, Kept
<1>4. CASE KnowledgeLost
  <2>1. KnowledgeTypeOK'
    BY <1>4 DEF KnowledgeLost, KnowledgeInv, KnowledgeTypeOK, Stage
  <2> QED BY <1>4, <2>1, RangeEmpty DEF KnowledgeLost, KnowledgeInv, Past, Made, NoticeKept
<1>5. CASE UNCHANGED knowledgeVars
  BY <1>5 DEF knowledgeVars, calls, notices, knowledgeHistory, KnowledgeInv, KnowledgeTypeOK,
              Past, Made, NoticeKept, Kept
<1> QED BY <1>1, <1>2, <1>3, <1>4, <1>5 DEF KnowledgeNext

LEMMA ServerKnowledgeAlways == ServerSpec => []KnowledgeInv
<1>1. ServerInit => KnowledgeInv
  BY KnowledgeStart DEF ServerInit
<1>2. [ServerNext]_serverVars => [KnowledgeNext]_knowledgeVars
  <2>1. StartServer \/ BuildOne \/ UseFiles \/ RemoveOne => UNCHANGED knowledgeVars
    BY DEF StartServer, BuildOne, UseFiles, RemoveOne
  <2>2. (\E c \in Call : StartOne(c) \/ CallStep(c)) \/ TurnStep \/ ExpireOne \/ Restart
          => KnowledgeNext
    BY DEF StartOne, CallStep, TurnStep, ExpireOne, Restart, KnowledgeNext
  <2>3. UNCHANGED serverVars => UNCHANGED knowledgeVars
    BY DEF serverVars
  <2> QED BY <2>1, <2>2, <2>3 DEF ServerNext
<1>3. KnowledgeInv /\ [KnowledgeNext]_knowledgeVars => KnowledgeInv'
  BY KnowledgeNextInv
<1> QED BY <1>1, <1>2, <1>3, PTL DEF ServerSpec

LEMMA PairsOnce == ASSUME KnowledgeInv PROVE OncePerFeature
<1>1. SUFFICES ASSUME NEW f \in Feature PROVE Cardinality(Reported(f) \ raced) <= 1
  BY DEF OncePerFeature
<1>2. \A c, d \in Reported(f) \ raced : c = d
  BY DEF KnowledgeInv, Reported, Kept, Past, KnowledgeTypeOK
<1>3. Reported(f) \ raced = {} \/ \E c : Reported(f) \ raced = {c}
  BY <1>2
<1>4. Cardinality({}) = 0
  BY FS_EmptySet
<1>5. \A c : Cardinality({c}) = 1
  BY FS_Singleton
<1>6. CASE Reported(f) \ raced = {}
  <2>1. Cardinality(Reported(f) \ raced) = 0
    BY <1>4, <1>6
  <2> QED BY <2>1
<1>7. ASSUME NEW c, Reported(f) \ raced = {c} PROVE Cardinality(Reported(f) \ raced) <= 1
  <2>1. Cardinality(Reported(f) \ raced) = 1
    BY <1>5, <1>7
  <2> QED BY <2>1
<1> QED BY <1>3, <1>6, <1>7

(* A notice that a feature is off is on its way to a client or told, unless it came in     *)
(* the middle of a drain or its turn was cut: for any number of threads and features.        *)
THEOREM ServerNoticeKept == ServerSpec => []NoticeKept
<1>1. KnowledgeInv => NoticeKept
  BY DEF KnowledgeInv
<1> QED BY <1>1, ServerKnowledgeAlways, PTL

(* Calls that do not race report a feature once.                                           *)
THEOREM ServerOncePerFeature == ServerSpec => []OncePerFeature
<1>1. KnowledgeInv => OncePerFeature
  BY PairsOnce
<1> QED BY <1>1, ServerKnowledgeAlways, PTL

(* Type correctness of the whole server.                                                  *)
THEOREM ServerTypes == ServerSpec => []ServerTypeOK
<1>1. FilesInv /\ KnowledgeInv /\ StartupInv => ServerTypeOK
  BY DEF FilesInv, KnowledgeInv, StartupInv, ServerTypeOK
<1> QED BY <1>1, ServerFiles, FilesAlways, ServerKnowledgeAlways, ServerStartupAlways, PTL
-----------------------------------------------------------------------------
(* Answers of the knowledge base, for every list of results. What holds of 0, and of a      *)
(* number if it holds of the one before, holds up to n; hence a function that is given at 0  *)
(* and from each number to the next exists.                                                *)

LEMMA Smallest ==
    ASSUME NEW I, I \subseteq Nat, I # {}
    PROVE  \E i \in I : \A j \in I : i <= j
<1>1. PICK i \in I : \A j \in I : ~(<<j, i>> \in OpToRel(<, Nat))
  BY WFMin, NatLessThanWellFounded
<1>2. \A j \in I : ~(j < i)
  BY <1>1 DEF OpToRel
<1> QED BY <1>2

LEMMA Upwards ==
    ASSUME NEW n \in Nat, NEW S, 0 \in S, \A k \in 1..n : k - 1 \in S => k \in S
    PROVE  0..n \subseteq S
<1> SUFFICES ASSUME (0..n) \ S # {} PROVE FALSE
  OBVIOUS
<1>1. PICK k \in (0..n) \ S : \A j \in (0..n) \ S : k <= j
  <2>1. (0..n) \ S \subseteq Nat
    OBVIOUS
  <2> QED BY <2>1, Smallest
<1>2. k \in 1..n /\ k - 1 \in 0..n /\ ~(k <= k - 1)
  BY <1>1
<1>3. k - 1 \in S
  BY <1>1, <1>2
<1> QED BY <1>1, <1>2, <1>3

Follows(f, n, base, step) == f[0] = base /\ \A k \in 1..n : f[k] = step[k][f[k - 1]]

LEMMA StepsExist ==
    ASSUME NEW S, NEW base \in S, NEW n \in Nat, NEW step \in [1..n -> [S -> S]]
    PROVE  \E f \in [0..n -> S] : Follows(f, n, base, step)
<1> DEFINE E == {m \in 0..n : \E f \in [0..m -> S] : Follows(f, m, base, step)}
<1>1. 0 \in E
  <2>1. [k \in 0..0 |-> base] \in [0..0 -> S] /\ Follows([k \in 0..0 |-> base], 0, base, step)
    BY DEF Follows
  <2> QED BY <2>1
<1>2. ASSUME NEW m \in 1..n, m - 1 \in E PROVE m \in E
  <2>1. PICK f \in [0..(m - 1) -> S] : Follows(f, m - 1, base, step)
    BY <1>2
  <2> DEFINE g == [k \in 0..m |-> IF k = m THEN step[m][f[m - 1]] ELSE f[k]]
  <2>2. f[m - 1] \in S /\ step[m][f[m - 1]] \in S
    BY <2>1
  <2>3. \A k \in 0..m : k # m => k \in 0..(m - 1) /\ g[k] = f[k]
    BY <2>1
  <2>4. g \in [0..m -> S]
    BY <2>1, <2>2, <2>3
  <2>5. g[m] = step[m][f[m - 1]] /\ g[m - 1] = f[m - 1] /\ g[0] = base
    BY <2>1 DEF Follows
  <2>6. ASSUME NEW k \in 1..m, k # m PROVE g[k] = step[k][g[k - 1]]
    <3>1. k \in 1..(m - 1) /\ k \in 0..m /\ k - 1 \in 0..m /\ k - 1 # m
      BY <2>6
    <3>2. f[k] = step[k][f[k - 1]]
      BY <2>1, <3>1 DEF Follows
    <3> QED BY <2>3, <2>6, <3>1, <3>2
  <2> HIDE DEF g
  <2>7. Follows(g, m, base, step)
    BY <2>5, <2>6 DEF Follows
  <2>8. m \in 0..n
    OBVIOUS
  <2> QED BY <2>4, <2>7, <2>8
<1>3. n \in E
  <2>1. \A m \in 1..n : m - 1 \in E => m \in E
    BY <1>2
  <2> HIDE DEF E
  <2>2. 0..n \subseteq E
    BY <1>1, <2>1, Upwards
  <2> QED BY <2>2
<1> QED BY <1>3

\* The characters of a list of chunks: none of the empty list, one chunk more each time.
LEMMA CharactersStep ==
    ASSUME NEW chunks \in Seq(Nat)
    PROVE  \E h : /\ Characters(chunks) = h[Len(chunks)]
                 /\ h[0] = 0
                 /\ \A k \in 1..Len(chunks) : h[k] = h[k - 1] + chunks[k]
<1> DEFINE n == Len(chunks)
           Sums(f) == f = [k \in 0..n |-> IF k = 0 THEN 0 ELSE f[k - 1] + chunks[k]]
           step == [k \in 1..n |-> [x \in Nat |-> x + chunks[k]]]
           h == CHOOSE f : Sums(f)
<1>1. n \in Nat /\ \A k \in 1..n : chunks[k] \in Nat
  OBVIOUS
<1>2. step \in [1..n -> [Nat -> Nat]]
  BY <1>1
<1>3. \A k \in 1..n, x \in Nat : step[k][x] = x + chunks[k]
  OBVIOUS
<1> HIDE DEF step
<1>4. PICK f \in [0..n -> Nat] : Follows(f, n, 0, step)
  <2>1. 0 \in Nat
    OBVIOUS
  <2> HIDE DEF n
  <2> QED BY <1>1, <1>2, <2>1, StepsExist
<1>5. \A k \in 1..n : f[k] = f[k - 1] + chunks[k]
  <2>0. \A k \in 1..n : k - 1 \in 0..n
    BY <1>1
  <2>1. \A k \in 1..n : f[k - 1] \in Nat
    BY <1>4, <2>0
  <2> QED BY <1>3, <1>4, <2>1 DEF Follows
<1>6. \A k \in 0..n : f[k] = IF k = 0 THEN 0 ELSE f[k - 1] + chunks[k]
  BY <1>1, <1>4, <1>5 DEF Follows
<1>7. Sums(f)
  BY <1>6
<1>8. Sums(h)
  BY <1>7
<1>9. Characters(chunks) = h[n]
  BY DEF Characters
<1> HIDE DEF h
<1>10. h[0] = 0 /\ \A k \in 1..n : h[k] = h[k - 1] + chunks[k]
  <2>1. \A k \in 0..n : h[k] = IF k = 0 THEN 0 ELSE h[k - 1] + chunks[k]
    BY <1>8, Zenon
  <2>2. 0 \in 0..n /\ \A k \in 1..n : k \in 0..n /\ k # 0
    BY <1>1
  <2> QED BY <2>1, <2>2, Zenon
<1> QED BY <1>9, <1>10

LEMMA CharactersIs ==
    ASSUME NEW chunks \in Seq(Nat)
    PROVE  /\ Characters(chunks) \in Nat
           /\ chunks = << >> => Characters(chunks) = 0
<1>1. PICK h : /\ Characters(chunks) = h[Len(chunks)] /\ h[0] = 0
               /\ \A k \in 1..Len(chunks) : h[k] = h[k - 1] + chunks[k]
  BY CharactersStep
<1> DEFINE S == {k \in 0..Len(chunks) : h[k] \in Nat}
<1>2. ASSUME NEW k \in 1..Len(chunks), k - 1 \in S PROVE k \in S
  <2>1. h[k - 1] \in Nat /\ chunks[k] \in Nat /\ k \in 0..Len(chunks)
    BY <1>2
  <2>2. h[k] \in Nat
    BY <1>1, <2>1
  <2> QED BY <2>1, <2>2
<1>3. h[Len(chunks)] \in Nat
  <2>1. Len(chunks) \in Nat /\ Len(chunks) \in 0..Len(chunks)
    OBVIOUS
  <2>2. 0 \in S /\ \A k \in 1..Len(chunks) : k - 1 \in S => k \in S
    BY <1>1, <1>2, <2>1
  <2> HIDE DEF S
  <2>3. 0..Len(chunks) \subseteq S
    BY <2>1, <2>2, Upwards
  <2> QED BY <2>1, <2>3 DEF S
<1> QED BY <1>1, <1>3

LEMMA CharactersAppend ==
    ASSUME NEW chunks \in Seq(Nat), NEW size \in Nat
    PROVE  Characters(Append(chunks, size)) = Characters(chunks) + size
<1> DEFINE more == Append(chunks, size)
<1>1. /\ more \in Seq(Nat) /\ Len(more) = Len(chunks) + 1 /\ Len(chunks) \in Nat
      /\ more[Len(chunks) + 1] = size /\ \A k \in 1..Len(chunks) : more[k] = chunks[k]
  OBVIOUS
<1> HIDE DEF more
<1>2. PICK h : /\ Characters(chunks) = h[Len(chunks)] /\ h[0] = 0
               /\ \A k \in 1..Len(chunks) : h[k] = h[k - 1] + chunks[k]
  BY CharactersStep
<1>3. PICK g : /\ Characters(more) = g[Len(more)] /\ g[0] = 0
               /\ \A k \in 1..Len(more) : g[k] = g[k - 1] + more[k]
  BY <1>1, CharactersStep
<1> DEFINE S == {k \in 0..Len(chunks) : h[k] = g[k]}
<1>4. 0 \in S
  BY <1>1, <1>2, <1>3
<1>5. ASSUME NEW k \in 1..Len(chunks), k - 1 \in S PROVE k \in S
  <2>1. h[k - 1] = g[k - 1] /\ k \in 0..Len(chunks) /\ k \in 1..Len(more)
    BY <1>1, <1>5
  <2> QED BY <1>1, <1>2, <1>3, <2>1
<1>6. h[Len(chunks)] = g[Len(chunks)]
  <2>1. \A k \in 1..Len(chunks) : k - 1 \in S => k \in S
    BY <1>5
  <2> HIDE DEF S
  <2>2. 0..Len(chunks) \subseteq S
    BY <1>1, <1>4, <2>1, Upwards
  <2>3. Len(chunks) \in 0..Len(chunks)
    BY <1>1
  <2> QED BY <2>2, <2>3 DEF S
<1>7. g[Len(chunks) + 1] = g[Len(chunks)] + size
  BY <1>1, <1>3
<1> QED BY <1>1, <1>2, <1>3, <1>6, <1>7 DEF more
Taken == [chunks : Seq(Nat), total : Nat, seen : SUBSET STRING, full : BOOLEAN]

(* Each chunk is counted with one separator until the answer is full, and however it is     *)
(* cut the count passes the limit by the last separator only.                              *)
Within(acc) ==
    /\ ~acc.full => Characters(acc.chunks) + Len(acc.chunks) = acc.total
    /\ acc.chunks # << >> => Characters(acc.chunks) + Len(acc.chunks) <= MaxChars + 1

LEMMA TakeWithin ==
    ASSUME NEW acc \in Taken, NEW r \in [uri : STRING, size : Nat]
    PROVE  /\ Take(acc, r) \in Taken
           /\ Within(acc) => Within(Take(acc, r))
<1>0. /\ MaxChars \in Nat /\ SuffixSize \in Nat
      /\ acc.chunks \in Seq(Nat) /\ acc.total \in Nat /\ acc.full \in BOOLEAN
      /\ acc.seen \subseteq STRING /\ r.size \in Nat /\ r.uri \in STRING
  BY KnowledgeAssumption DEF Taken
<1> DEFINE skip == acc.full \/ r.size = 0 \/ (r.uri # "none" /\ r.uri \in acc.seen)
<1>1. CASE skip
  BY <1>1 DEF Take
<1>2. CASE ~skip /\ acc.total + r.size <= MaxChars
  <2> DEFINE next == [chunks |-> Append(acc.chunks, r.size), total |-> acc.total + r.size + 1,
                      seen |-> acc.seen \cup {r.uri}, full |-> FALSE]
  <2>1. Take(acc, r) = next
    BY <1>2 DEF Take
  <2>2. next \in Taken
    BY <1>0 DEF Taken
  <2>3. Len(next.chunks) = Len(acc.chunks) + 1 /\ Len(acc.chunks) \in Nat
    BY <1>0
  <2>4. Characters(next.chunks) = Characters(acc.chunks) + r.size
    BY <1>0, CharactersAppend
  <2>5. Characters(acc.chunks) \in Nat
    BY <1>0, CharactersIs
  <2>6. next.total = acc.total + r.size + 1 /\ ~next.full
    OBVIOUS
  <2>7. ASSUME Within(acc) PROVE Within(next)
    <3>1. Characters(acc.chunks) + Len(acc.chunks) = acc.total
      BY <1>2, <2>7 DEF Within
    <3> HIDE DEF next
    <3>2. Characters(next.chunks) + Len(next.chunks) = next.total
      BY <1>0, <2>3, <2>4, <2>5, <2>6, <3>1
    <3>3. next.total <= MaxChars + 1
      BY <1>0, <1>2, <2>6
    <3> QED BY <2>6, <3>2, <3>3 DEF Within
  <2> QED BY <2>1, <2>2, <2>7
<1>3. CASE ~skip /\ ~(acc.total + r.size <= MaxChars)
  <2> DEFINE room == MaxChars - acc.total
             next == [acc EXCEPT !.full = TRUE,
                                 !.chunks = IF room > SuffixSize THEN Append(@, room) ELSE @]
  <2>1. Take(acc, r) = next
    BY <1>3 DEF Take
  <2>2. CASE ~(room > SuffixSize)
    <3>1. next \in Taken /\ next.full /\ next.chunks = acc.chunks
      BY <1>0, <2>2 DEF Taken
    <3> QED BY <2>1, <3>1 DEF Within
  <2>3. CASE room > SuffixSize
    <3>1. room \in Nat
      BY <1>0, <2>3
    <3> DEFINE longer == Append(acc.chunks, room)
    <3>2. next \in Taken /\ next.full /\ next.chunks = longer
      <4>1. longer \in Seq(Nat)
        BY <1>0, <3>1
      <4> HIDE DEF longer
      <4>2. next = [acc EXCEPT !.full = TRUE, !.chunks = longer]
        BY <2>3 DEF longer
      <4> QED BY <1>0, <4>1, <4>2 DEF Taken
    <3>3. Len(next.chunks) = Len(acc.chunks) + 1 /\ Len(acc.chunks) \in Nat
      BY <1>0, <3>1, <3>2
    <3>4. Characters(next.chunks) = Characters(acc.chunks) + room
      BY <1>0, <3>1, <3>2, CharactersAppend
    <3>5. Characters(acc.chunks) \in Nat
      BY <1>0, CharactersIs
    <3>6. ASSUME Within(acc) PROVE Within(next)
      <4>1. Characters(acc.chunks) + Len(acc.chunks) = acc.total
        BY <1>3, <3>6 DEF Within
      <4> DEFINE c == Characters(acc.chunks)
                 l == Len(acc.chunks)
                 t == acc.total
      <4>2. room = MaxChars - t
        OBVIOUS
      <4> HIDE DEF room, next
      <4>3. c \in Int /\ l \in Int /\ t \in Int /\ MaxChars \in Int /\ c + l = t
        BY <1>0, <3>3, <3>5, <4>1
      <4>4. Characters(next.chunks) = c + room /\ Len(next.chunks) = l + 1
        BY <3>3, <3>4
      <4> HIDE DEF c, l, t
      <4>5. Characters(next.chunks) + Len(next.chunks) = MaxChars + 1
        <5>1. (c + (MaxChars - t)) + (l + 1) = MaxChars + 1
          BY <4>3
        <5> QED BY <4>2, <4>4, <5>1, Zenon
      <4> QED BY <1>0, <3>2, <4>5 DEF Within
    <3> QED BY <2>1, <3>2, <3>6
  <2> QED BY <2>1, <2>2, <2>3
<1> QED BY <1>1, <1>2, <1>3

LEMMA FormatWithin ==
    ASSUME NEW results \in Seq([uri : STRING, size : Nat])
    PROVE  /\ Format(results) \in Seq(Nat)
           /\ Format(results) # << >> =>
                Characters(Format(results)) + Len(Format(results)) <= MaxChars + 1
<1> DEFINE n == Len(results)
           Result == [uri : STRING, size : Nat]
           step == [k \in 1..n |-> [acc \in Taken |-> Take(acc, results[k])]]
           Takes(f) == f = [k \in 0..n |-> IF k = 0 THEN NoChunks ELSE Take(f[k - 1], results[k])]
           h == CHOOSE f : Takes(f)
<1>1. n \in Nat /\ \A k \in 1..n : results[k] \in Result
  <2>1. results \in Seq(Result)
    OBVIOUS
  <2> HIDE DEF Result
  <2> QED BY <2>1
<1>2. NoChunks \in Taken /\ Within(NoChunks)
  <2>1. << >> \in Seq(Nat) /\ Len(<< >>) = 0
    OBVIOUS
  <2>2. Characters(<< >>) = 0
    BY <2>1, CharactersIs
  <2> QED BY <2>1, <2>2 DEF NoChunks, Taken, Within
<1>3. \A k \in 1..n : \A acc \in Taken : step[k][acc] = Take(acc, results[k])
  BY Zenon
<1>4. step \in [1..n -> [Taken -> Taken]]
  BY <1>1, TakeWithin
<1>5. Format(results) = h[n].chunks
  BY DEF Format
<1> HIDE DEF step, n
<1>6. PICK f \in [0..n -> Taken] : Follows(f, n, NoChunks, step)
  BY <1>1, <1>2, <1>4, StepsExist
<1>7. \A k \in 1..n : f[k] = Take(f[k - 1], results[k])
  <2>1. \A k \in 1..n : f[k - 1] \in Taken
    BY <1>1, <1>6
  <2> QED BY <1>3, <1>6, <2>1 DEF Follows
<1>8. \A k \in 0..n : f[k] = IF k = 0 THEN NoChunks ELSE Take(f[k - 1], results[k])
  BY <1>1, <1>6, <1>7 DEF Follows
<1>9. Takes(f)
  BY <1>8
<1>10. Takes(h)
  BY <1>9
<1> HIDE DEF h
<1>11. h[0] = NoChunks /\ \A k \in 1..n : h[k] = Take(h[k - 1], results[k])
  BY <1>1, <1>10
<1> DEFINE S == {k \in 0..n : h[k] \in Taken /\ Within(h[k])}
<1>12. 0 \in S
  BY <1>1, <1>2, <1>11
<1>13. ASSUME NEW k \in 1..n, k - 1 \in S PROVE k \in S
  <2>1. h[k - 1] \in Taken /\ Within(h[k - 1]) /\ k \in 0..n
    BY <1>1, <1>13
  <2>2. results[k] \in Result /\ h[k] = Take(h[k - 1], results[k])
    BY <1>1, <1>11
  <2>3. h[k] \in Taken /\ Within(h[k])
    BY <2>1, <2>2, TakeWithin
  <2> QED BY <2>1, <2>3
<1>14. n \in S
  <2>1. \A k \in 1..n : k - 1 \in S => k \in S
    BY <1>13
  <2> HIDE DEF S
  <2>2. 0..n \subseteq S
    BY <1>1, <1>12, <2>1, Upwards
  <2> QED BY <1>1, <2>2
<1> QED BY <1>5, <1>14 DEF Taken, Within

(* What kb_retrieve returns keeps to AGENT_KB_MAX_CHARS but for the second character of each *)
(* separator (kb_client.py:84), whatever is retrieved.                                      *)
THEOREM ServerAnswerFits == ServerSpec => []AnswerFits
<1>1. KnowledgeInv => AnswerFits
  <2> SUFFICES ASSUME KnowledgeInv, NEW c \in Call, answer[c] # << >>
               PROVE  Characters(answer[c]) + 2 * (Len(answer[c]) - 1) <= MaxChars + Len(answer[c]) - 1
    BY DEF AnswerFits
  <2>1. PICK results \in Results : answer[c] = Format(results)
    BY DEF KnowledgeInv, KnowledgeTypeOK
  <2>2. /\ answer[c] \in Seq(Nat)
        /\ Characters(answer[c]) + Len(answer[c]) <= MaxChars + 1
    BY <2>1, FormatWithin, KnowledgeAssumption
  <2>3. Characters(answer[c]) \in Nat /\ Len(answer[c]) \in Nat /\ MaxChars \in Nat
    BY <2>2, CharactersIs, KnowledgeAssumption
  <2> QED BY <2>2, <2>3
<1> QED BY <1>1, ServerKnowledgeAlways, PTL
=============================================================================
