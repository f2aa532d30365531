----------------------------- MODULE MCSession -----------------------------
(***************************************************************************)
(* Small instances of Session; the bounds are in the configurations.       *)
(***************************************************************************)
EXTENDS Session, TLC

-----------------------------------------------------------------------------
(* What a start comes to, by the code of Startup.                           *)

Start == INSTANCE Startup

SettingNames == {"theme", "provider"}
Layers(names, values) == UNION {[d -> values] : d \in SUBSET names}
SettingFiles ==
    {<<>>, <<[malformed |-> "x"]>>} \cup {<<f>> : f \in Layers(SettingNames, {"", "invalid", "gemini"})}
Environs == Layers(SettingNames, {"", "gemini", "invalid"})

\* A setting comes from the shell, the .env file or the settings file, in this order,
\* and no variable mends a settings file that is amiss.
ASSUME SettingsAreLayered ==
    \A file \in SettingFiles, dotenv, shell \in Environs :
        /\ Start!LayersRank(file, dotenv, shell, SettingNames)
        /\ Start!FileStands(file, dotenv, shell, SettingNames)

KeyedFiles ==
    {<<>>} \cup {<<Start!Overlay(f, g)>> : f \in Layers({"provider"}, {"ollama", "gemini"}),
                                           g \in Layers({"api_key"}, {"file's"})}
KeyedEnvirons(common) ==
    {Start!Overlay(f, Start!Overlay(g, c)) : f \in Layers({"provider"}, {"", "ollama", "gemini"}),
        g \in Layers({"gemini_key"}, {"", "own"}), c \in Layers(common, {"common"})}

\* The key of one provider is not sent to another.
ASSUME KeysGoToTheirProvider ==
    \A file \in KeyedFiles, dotenv \in KeyedEnvirons({}), shell \in KeyedEnvirons({"common_key"}) :
        Start!KeyFits(file, dotenv, shell, SettingNames)

Memories == [backend : {"grep", "fts5", "hybrid"}, reranker : BOOLEAN,
             embeddings : {"none", "tei", "ollama", "gemini"}]
Services == [reranker : {"ok", "error"}, tei : {"ok", "error"}, models : {"ok", "warn", "error"},
             key : {"ok", "error"}, opens : SUBSET {"fts5", "hybrid"}, syncs : BOOLEAN]
Llms == [provider : {"ollama", "gemini"}, key : BOOLEAN, known : BOOLEAN, reasons : BOOLEAN,
         probed : 0..3, fixed : 0..3, ceiling : 1..3]

\* The store in use has had its services answer, and falling short is told.
ASSUME StoresAreAnswered ==
    \A memory \in Memories, services \in Services : Start!StoreIsAnswered(memory, services)

\* The context counted on is one that the model has.
ASSUME ContextsFit == \A llm \in Llms : Start!ContextFits(llm)

ToolServers == [tools : SUBSET {"n", "t"}, connects : BOOLEAN, lists : BOOLEAN, asks : BOOLEAN]
OtherServers == [tools : {{"u"}}, connects : BOOLEAN, lists : BOOLEAN, asks : BOOLEAN]

\* No server takes the name of a native tool, and one that is short is told of.
ASSUME ToolsAreTold ==
    \A s \in ToolServers, t \in OtherServers : Start!ServersAreTold({s, t}, {"n"})

\* A process that comes up has what it was configured with, or says so.
ASSUME StartsAreWhole ==
    \A llm \in {l \in Llms : l.ceiling = 2 /\ l.fixed = 2}, memory \in Memories, services \in Services,
       s \in {r \in ToolServers : r.tools = {"t"} /\ r.asks} :
        Start!StartIsWhole(llm, memory, services, {s}, {"n"})

CanonRows ==
    {S \in SUBSET [dir : {"finch", "other"}, name : {"x", "y"}, hash : 1..2] :
        \A r, s \in S : r.dir = s.dir /\ r.name = s.name => r = s}
CanonFiles ==
    {S \in SUBSET [name : {"x", "y"}, hash : 1..2, works : BOOLEAN] :
        \A f, g \in S : f.name = g.name => f = g}

\* Scenes of the personality follow their files; those of another stay behind.
ASSUME CanonsAreSynced ==
    \A rows \in CanonRows, scenes \in CanonFiles : Start!CanonIsSynced(rows, "finch", scenes, {"other"})

ProbedServers == [connects : BOOLEAN, url : BOOLEAN, installed : BOOLEAN]
ProbedModels == [provider : {"ollama", "gemini"}, key : BOOLEAN, reachable : BOOLEAN, installed : BOOLEAN]
Checked(llm, places, vault, key, store, answers, count, server) ==
    (<<"provider">> :> Start!CheckAgentLlm(llm)) @@ (<<"google">> :> Start!CheckGoogle(places))
        @@ (<<"obsidian">> :> Start!CheckObsidian(vault)) @@ (<<"brave">> :> Start!CheckBrave(key))
        @@ (<<"knowledge">> :> Start!CheckMemoryStore(store, answers))
        @@ (<<"skills">> :> Start!CheckSkills(count)) @@ (<<"mcp", "s">> :> Start!CheckMcpServer(server))

\* The lists of the self-check agree, but for what calls itself not configured.
ASSUME ChecksAgree ==
    \A llm \in ProbedModels, places \in SUBSET {"file", "token"}, vault \in {Start!Nil, "there", "missing"},
       key \in BOOLEAN, store \in {Start!Nil, "fts5"}, answers \in BOOLEAN, count \in 0..1,
       server \in ProbedServers, fallbacks \in SUBSET {"memory"} :
        Start!ReportsAgree(Checked(llm, places, vault, key, store, answers, count, server), fallbacks)

\* A provider that is down counts as ready.
ASSUME SilenceCounts == \A llm \in ProbedModels : Start!SilenceIsReady(llm)

\* A server that is down may count as found.
ASSUME DownMayBeFound == \A server \in ProbedServers : Start!FoundThoughDown(server)

\* Every tool is at hand or can be discovered, never both.
ASSUME SurfacesSplit ==
    \A index \in SUBSET [name : 1..2, deferred : BOOLEAN, approval : BOOLEAN] : Start!SurfaceIsSplit(index)

=============================================================================
