------------------------------- MODULE Startup -------------------------------
(***************************************************************************)
(* How a process of co-cli comes up: settings from a file and from the     *)
(* environment (co_cli/config), what can be used of the services they name *)
(* (co_cli/bootstrap/core.py), and what the self-check says of them later  *)
(* (co_cli/bootstrap/check.py, co_cli/tools/system/capabilities.py).       *)
(*                                                                         *)
(* Settings are functions from names to values: strings, "" for an empty   *)
(* one, "invalid" for one that its field does not allow.                   *)
(***************************************************************************)
EXTENDS Integers, Sequences, FiniteSets

Nil == "nil"

-----------------------------------------------------------------------------
(* Settings.                                                                *)

Overlay(low, high) ==
    [name \in DOMAIN low \cup DOMAIN high |->
        IF name \in DOMAIN high THEN high[name] ELSE low[name]]

Get(f, name) == IF name \in DOMAIN f THEN f[name] ELSE ""

\* Settings.model_validate of the fields.
Fits(data) == \A name \in DOMAIN data : data[name] # "invalid"

Provider(env, data) ==
    IF Get(env, "provider") # "" THEN Get(env, "provider")
    ELSE IF Get(data, "provider") # "" THEN Get(data, "provider") ELSE "ollama"

\* resolve_api_key_from_env: the provider's own variable, then the common one.
ApiKeyOf(env, data) ==
    LET own == IF Provider(env, data) = "gemini" THEN Get(env, "gemini_key") ELSE ""
    IN  IF own # "" THEN own ELSE Get(env, "common_key")

\* fill_from_env: an empty variable counts as none.
FillFromEnv(data, env, fields) ==
    LET told == {name \in fields \cap DOMAIN env : env[name] # ""}
        key  == ApiKeyOf(env, data)
    IN  Overlay(Overlay(data, [name \in told |-> env[name]]),
                [name \in IF key # "" THEN {"api_key"} ELSE {} |-> key])

\* given is the environment of a test, <<>> otherwise; a file is <<>> if there is
\* none, else the one settings it holds, or "malformed".
LoadConfig(file, dotenv, shell, given, fields) ==
    LET data == IF file = <<>> THEN [name \in {} |-> ""] ELSE file[1]
        env  == Overlay(dotenv, IF given # <<>> THEN given[1] ELSE shell)
        all  == FillFromEnv(data, env, fields)
    IN  IF file # <<>> /\ (DOMAIN data = {"malformed"} \/ ~Fits(data))
        THEN [ok |-> FALSE, blames |-> "file"]
        ELSE IF ~Fits(all) THEN [ok |-> FALSE, blames |-> IF file # <<>> THEN "file" ELSE "settings"]
        ELSE [ok |-> TRUE, settings |-> all]

\* LlmSettings.validate_config; a model is known to a provider or not, and has
\* settings of its own for reasoning or not.
ConfigAccepted(llm) ==
    /\ llm.provider = "gemini" => llm.key
    /\ llm.known
    /\ llm.reasons

\* _probe_model_ctx: probed is what the loaded model has, fixed what each call
\* asks for; 0 where there is no answer.
ModelCtx(llm) ==
    IF /\ llm.provider = "ollama"
       /\ \/ llm.probed # 0 /\ llm.probed < llm.ceiling
          \/ llm.fixed # 0 /\ llm.fixed > llm.ceiling
    THEN 0 ELSE llm.ceiling

-----------------------------------------------------------------------------
(* Services.  A service answers "ok", "warn" or "error"; "skipped" is none  *)
(* configured.                                                              *)

\* _check_embedder
CheckEmbedder(provider, services) ==
    CASE provider = "none"   -> "skipped"
      [] provider = "tei"    -> services.tei
      [] provider = "ollama" -> services.models
      [] provider = "gemini" -> services.key

\* _discover_index_backend; services.opens are the backends the database opens with.
Backend(memory, services) ==
    LET cross    == IF memory.reranker THEN services.reranker ELSE "skipped"
        embedder == CheckEmbedder(memory.embeddings, services)
        hybrid   == /\ memory.backend = "hybrid" /\ cross = "ok"
                    /\ memory.embeddings # "none" /\ embedder \in {"ok", "skipped"}
        wanted   == IF hybrid THEN "hybrid" ELSE "fts5"
        opened   == IF wanted \in services.opens THEN wanted
                    ELSE IF hybrid /\ "fts5" \in services.opens THEN "fts5" ELSE Nil
    IN  IF memory.backend = "grep"
        THEN [fails |-> FALSE, store |-> Nil, reranks |-> memory.reranker, degraded |-> FALSE]
        ELSE [fails |-> opened = Nil, store |-> opened, reranks |-> cross = "ok",
              degraded |-> opened # memory.backend]

\* _discover_one: a server that lists its tools; names that are taken are left out.
Discovered(server, taken) == IF server.lists THEN server.tools \ taken ELSE {}

\* create_deps, the servers: those that connect serve, and are asked for their tools.
Servers(servers, native) ==
    LET connected == {s \in servers : s.connects}
    IN  [toolsets |-> connected,
         index    |-> native \cup UNION {Discovered(s, native) : s \in connected},
         gated    |-> UNION {Discovered(s, native) : s \in {c \in connected : c.asks}},
         degraded |-> {s \in connected : ~s.lists},
         told     |-> {s \in servers : ~s.connects \/ ~s.lists}]

\* create_deps: what it leaves open when it returns or raises, in its order.
CreateDeps(llm, memory, services, servers, native) ==
    LET back  == Backend(memory, services)
        mcp   == Servers(servers, native)
        raise(open) == [raised |-> TRUE, serving |-> open, store |-> Nil,
                        degraded |-> {}, short |-> FALSE]
    IN  IF ~ConfigAccepted(llm) \/ ModelCtx(llm) = 0 THEN raise({})
        ELSE IF back.fails \/ (back.store # Nil /\ ~services.syncs) THEN raise(mcp.toolsets)
        ELSE [raised |-> FALSE, serving |-> mcp.toolsets, store |-> back.store,
              degraded |-> mcp.degraded, short |-> back.degraded]

\* _sync_canon_dir: rows and files are sets of records; a file that cannot be read
\* or indexed keeps the row it has, and only rows of the directory itself go.
SyncCanon(rows, dir, files) ==
    LET row(f)  == [dir |-> dir, name |-> f.name, hash |-> f.hash]
        fresh   == {f \in files : row(f) \notin rows /\ f.works}
        current == {f.name : f \in files}
    IN  {r \in rows : r.dir = dir => r.name \in current \ {f.name : f \in fresh}}
            \cup {row(f) : f \in fresh}

\* _sync_canon_store, for the personality a process is started with.
SyncCanonStore(rows, hasIndex, dir, files) ==
    IF ~hasIndex \/ dir = Nil THEN rows ELSE SyncCanon(rows, dir, files)

-----------------------------------------------------------------------------
(* The self-check.  A component has a status and says whether it calls      *)
(* itself not configured; ok is what counts as ready.                       *)

Check(ok, status, unset) == [ok |-> ok, status |-> status, unset |-> unset]

\* _check_agent_llm
CheckAgentLlm(llm) ==
    IF llm.provider = "gemini"
    THEN IF llm.key THEN Check(TRUE, "ok", FALSE) ELSE Check(FALSE, "error", FALSE)
    ELSE IF ~llm.reachable THEN Check(TRUE, "warn", FALSE)
    ELSE IF llm.installed THEN Check(TRUE, "ok", FALSE) ELSE Check(FALSE, "error", FALSE)

\* _check_google
CheckGoogle(places) == IF places # {} THEN Check(TRUE, "ok", FALSE) ELSE Check(TRUE, "warn", TRUE)

\* _check_obsidian
CheckObsidian(vault) ==
    CASE vault = Nil      -> Check(TRUE, "skipped", TRUE)
      [] vault = "there"   -> Check(TRUE, "ok", FALSE)
      [] vault = "missing" -> Check(TRUE, "warn", FALSE)

\* _check_brave
CheckBrave(key) == IF key THEN Check(TRUE, "ok", FALSE) ELSE Check(TRUE, "skipped", TRUE)

\* _check_memory_store
CheckMemoryStore(store, answers) ==
    IF store = Nil THEN Check(TRUE, "warn", FALSE)
    ELSE IF answers THEN Check(TRUE, "ok", FALSE) ELSE Check(FALSE, "error", FALSE)

\* _check_skills
CheckSkills(count) == IF count > 0 THEN Check(TRUE, "ok", FALSE) ELSE Check(TRUE, "skipped", FALSE)

\* _check_mcp_server: an address is not called, a command is looked for.
CheckMcpServer(server) ==
    IF server.url \/ server.installed THEN Check(TRUE, "ok", FALSE) ELSE Check(FALSE, "error", FALSE)

\* _STATE_BY_STATUS and its exception
StateOf(check) ==
    CASE check.status = "ok"      -> "available"
      [] check.status = "skipped" -> "not_configured"
      [] check.status = "error"   -> "unavailable"
      [] check.status = "warn"    -> IF check.unset THEN "not_configured" ELSE "degraded"

\* check_runtime; checks are by component, and a server's component is a pair.
CheckRuntime(checks, degradations) ==
    [state     |-> [c \in DOMAIN checks |-> StateOf(checks[c])],
     findings  |-> {c \in DOMAIN checks : checks[c].status \in {"warn", "error"}},
     fallbacks |-> degradations,
     servers   |-> Cardinality({c \in DOMAIN checks : checks[c].ok /\ c[1] = "mcp"})]

\* _build_component_lines: servers have lines of their own.
Limited(report) ==
    {c \in DOMAIN report.state : report.state[c] \in {"degraded", "unavailable"} /\ c[1] # "mcp"}

\* summary_lines
AllOperational(report) == report.findings = {} /\ report.fallbacks = {}

\* _build_tool_surface_lines, of tools that are records of the index.
Surface(index) ==
    [now    |-> {t \in index : ~t.deferred}, later |-> {t \in index : t.deferred},
     gated  |-> {t \in index : t.approval}]

-----------------------------------------------------------------------------
(* What a start is to come to: which layer a setting comes from, what may  *)
(* be relied on once a process is up, and what the self-check tells of it. *)

\* A setting is what the environment says, else the file; a variable that is
\* empty in the shell hides one of the .env file.
LayersRank(file, dotenv, shell, fields) ==
    LET loaded == LoadConfig(file, dotenv, shell, <<>>, fields)
        said(name) ==
            IF name \in DOMAIN shell THEN shell[name]
            ELSE IF name \in DOMAIN dotenv THEN dotenv[name] ELSE ""
    IN  loaded.ok =>
            \A name \in fields :
                Get(loaded.settings, name) =
                    IF said(name) # "" THEN said(name)
                    ELSE IF file # <<>> THEN Get(file[1], name) ELSE ""

\* No variable mends a file, and what is amiss in the environment is blamed on the
\* file if there is one.
FileStands(file, dotenv, shell, fields) ==
    LET loaded == LoadConfig(file, dotenv, shell, <<>>, fields)
        sound  == LoadConfig(file, [n \in {} |-> ""], [n \in {} |-> ""], <<>>, fields).ok
    IN  /\ loaded.ok => sound
        /\ ~loaded.ok /\ file # <<>> => loaded.blames = "file"

\* The provider's own key goes to that provider only; the common one to any.
KeyFits(file, dotenv, shell, fields) ==
    LET loaded == LoadConfig(file, dotenv, shell, <<>>, fields)
        env    == Overlay(dotenv, shell)
        ends   == IF Get(loaded.settings, "provider") = "" THEN "ollama"
                  ELSE Get(loaded.settings, "provider")
    IN  loaded.ok /\ Get(env, "gemini_key") # "" =>
            (Get(loaded.settings, "api_key") = Get(env, "gemini_key") <=> ends = "gemini")

\* Once there is a store, hybrid or a reranker is used only if what it takes has
\* answered; less than was configured is told, and never is there no store
\* unless that was asked for.
StoreIsAnswered(memory, services) ==
    LET b == Backend(memory, services)
    IN  /\ b.store = "hybrid" => /\ memory.backend = "hybrid"
                                 /\ services.reranker = "ok"
                                 /\ CheckEmbedder(memory.embeddings, services) = "ok"
        /\ b.store # Nil /\ b.reranks => services.reranker = "ok"
        /\ ~b.fails => (b.degraded <=> b.store # memory.backend /\ memory.backend # "grep")
        /\ ~b.fails /\ b.store = Nil => memory.backend = "grep"
        /\ b.fails => memory.backend # "grep" /\ "fts5" \notin services.opens

\* A call asks for no more context than is counted on, which is no more than the
\* loaded model has, as far as it said.
ContextFits(llm) ==
    ModelCtx(llm) # 0 /\ llm.provider = "ollama" =>
        /\ llm.fixed <= ModelCtx(llm)
        /\ llm.probed # 0 => ModelCtx(llm) <= llm.probed

\* Native tools keep their names; a tool of a server is of one that serves, and
\* asks if its server is set to; a server that is short of tools is told of, but
\* noted as degraded only if it had connected.
ServersAreTold(servers, native) ==
    LET up == Servers(servers, native)
    IN  /\ native \subseteq up.index
        /\ \A t \in up.index \ native : \E s \in up.toolsets : t \in s.tools /\ (s.asks => t \in up.gated)
        /\ \A s \in servers : s.tools \subseteq up.index \/ s \in up.told
        /\ up.degraded = up.told \cap up.toolsets

\* Who gets no dependencies has no index open; a process that is up has the store
\* it was configured with, was told that it has less, or was to do without.
StartIsWhole(llm, memory, services, servers, native) ==
    LET d == CreateDeps(llm, memory, services, servers, native)
    IN  /\ d.raised => d.store = Nil
        /\ ~d.raised => /\ d.store = Nil <=> memory.backend = "grep"
                        /\ d.store \notin {Nil, memory.backend} => d.short

\* Scenes of the personality are as their files are, as far as they can be read;
\* those of another stay behind, whatever has become of their files.
CanonIsSynced(rows, dir, files, others) ==
    LET after == SyncCanonStore(rows, TRUE, dir, files)
    IN  /\ \A f \in files : f.works => [dir |-> dir, name |-> f.name, hash |-> f.hash] \in after
        /\ \A r \in after : r.dir = dir => \E f \in files : f.name = r.name /\ (f.works => f.hash = r.hash)
        /\ {r \in after : r.dir \in others} = {r \in rows : r.dir \in others}
        /\ SyncCanonStore(after, TRUE, dir, files) = after

\* What is shown as limited is a finding; a finding that is not shown so is a
\* server or calls itself not configured.
ReportsAgree(checks, degradations) ==
    LET report == CheckRuntime(checks, degradations)
    IN  /\ Limited(report) \subseteq report.findings
        /\ \A c \in report.findings \ Limited(report) : c[1] = "mcp" \/ checks[c].unset
        /\ AllOperational(report) => Limited(report) = {} /\ degradations = {}

\* A provider that does not answer counts as ready.
SilenceIsReady(llm) == llm.provider # "gemini" /\ ~llm.reachable => CheckAgentLlm(llm).ok

\* A server is found though it did not connect, for the check looks for its
\* command only.
FoundThoughDown(server) ==
    ~server.connects /\ (server.url \/ server.installed) => CheckMcpServer(server).ok

\* Every tool is at hand or can be discovered, never both.
SurfaceIsSplit(index) ==
    LET s == Surface(index)
    IN  s.now \cup s.later = index /\ s.now \cap s.later = {} /\ s.gated \subseteq index

=============================================================================
