------------------------------- MODULE Agents -------------------------------
(***************************************************************************)
(* How agents are built and how one runs another: co_cli/agent, the        *)
(* delegation tools, the forks of co_cli/deps.py, and what a turn counts   *)
(* as used.                                                                *)
(*                                                                         *)
(* A tool is a record of what its decorator says: name, approval,          *)
(* concurrent, deferred, the setting it takes ("" for none), the service   *)
(* it asks for before it is offered ("" for none) and its integration.     *)
(***************************************************************************)
EXTENDS Integers, Sequences, FiniteSets, SequencesExt

MaxAgentDepth == 2

-----------------------------------------------------------------------------
(* The tools that an agent has.                                             *)

\* What agent_tool refuses at import.
Decorated(tool) == tool.readOnly => tool.concurrent /\ ~tool.approval

ConfigRequirementMet(tool, settings) == tool.config = "" \/ tool.config \in settings

\* _build_native_toolset; a registration is what the SDK goes by.
Native(tool) ==
    [name |-> tool.name, approval |-> tool.approval, sequential |-> ~tool.concurrent,
     deferred |-> tool.deferred, needs |-> tool.needs]

NativeToolset(registry, settings) ==
    {Native(t) : t \in {u \in registry : ConfigRequirementMet(u, settings)}}

\* _SequentialMCPToolset: the index says of a tool whether it may run beside others;
\* a tool that the index does not have is as its server says.
FromServer(name, index, own) ==
    IF \E t \in index : t.name = name
    THEN ~(CHOOSE t \in index : t.name = name).concurrent ELSE own

\* _approval_resume_filter; resume is <<>> in a normal segment.
ResumeFilter(name, resume, index) ==
    \/ resume = <<>>
    \/ name \in resume[1]
    \/ \A t \in index : t.name = name => ~t.deferred

\* ...and _make_prepare.
Offered(registered, resume, index, available) ==
    {r \in registered : ResumeFilter(r.name, resume, index) /\ (r.needs = "" \/ r.needs \in available)}

\* build_task_agent: the tools its specification names, none of which asks.
TaskAgent(names, registry, settings) ==
    IF names \ {t.name : t \in registry} # {} THEN [raised |-> TRUE, tools |-> {}]
    ELSE [raised |-> FALSE,
          tools  |-> {[name |-> t.name, approval |-> FALSE, sequential |-> FALSE,
                       deferred |-> FALSE, needs |-> ""] :
                         t \in {u \in registry : u.name \in names /\ ConfigRequirementMet(u, settings)}}]

\* build_category_awareness_prompt: what stands for a deferred tool.
NativeCategories ==
    [file_write |-> "file editing", file_patch |-> "file editing",
     memory_manage |-> "memory management", task_start |-> "background tasks",
     task_status |-> "background tasks", task_cancel |-> "background tasks",
     task_list |-> "background tasks", code_execute |-> "code execution",
     web_research |-> "sub-agents", knowledge_analyze |-> "sub-agents", reason |-> "sub-agents"]
IntegrationCategories ==
    [obsidian |-> "Obsidian notes", google_gmail |-> "Gmail",
     google_calendar |-> "Google Calendar", google_drive |-> "Google Drive"]

Category(tool) ==
    IF tool.integration \in DOMAIN IntegrationCategories THEN {IntegrationCategories[tool.integration]}
    ELSE IF tool.name \in DOMAIN NativeCategories THEN {NativeCategories[tool.name]}
    ELSE {tool.integration} \ {""}

CategoryAwareness(index) == UNION {Category(t) : t \in {u \in index : u.deferred}}

\* clarify: approved says whether the call was, answers are <<>> where there are none.
Clarify(approved, answers, questions) ==
    CASE ~approved                    -> "asks"
      [] approved /\ answers = <<>>   -> "error"
      [] OTHER -> IF Len(answers[1]) = questions THEN "answers" ELSE "error"

-----------------------------------------------------------------------------
(* Forks.  Dependencies are a session, a runtime and what is shared.        *)

CleanRuntime(depth) ==
    [depth |-> depth, resume |-> <<>>, usage |-> 0, callback |-> FALSE, skips |-> 0,
     skillOps |-> FALSE, knowledgeOps |-> FALSE]

\* fork_deps
Fork(deps) ==
    [session |-> [creds |-> deps.session.creds, rules |-> deps.session.rules,
                  pages |-> {}, todos |-> <<>>, path |-> "", tasks |-> {}],
     runtime |-> CleanRuntime(deps.runtime.depth + 1),
     shared  |-> deps.shared]

\* fork_deps_for_reviewer, fork_deps_for_curator
ForkForReviewer(deps) ==
    LET child == Fork(deps)
    IN  [child EXCEPT !.runtime.skillOps = TRUE, !.runtime.knowledgeOps = TRUE]
ForkForCurator(deps) ==
    LET child == Fork(deps) IN [child EXCEPT !.runtime.skillOps = TRUE]

-----------------------------------------------------------------------------
(* Delegation.  An attempt of an agent takes some requests, of which it     *)
(* may have no more than its limit, and fails, or answers, perhaps nothing. *)

\* _run_attempt
Fails(attempt, limit) == attempt.fails \/ attempt.requests > limit

Refused(deps) == deps.depth >= MaxAgentDepth \/ ~deps.model

Retry == [raised |-> TRUE, merged |-> 0, used |-> 0, prompts |-> <<>>, empty |-> FALSE]

\* run_in_turn; a budget of 0 is the default of the specification.
RunInTurn(deps, budget, default, attempt) ==
    LET limit == IF budget # 0 THEN budget ELSE default
    IN  IF Refused(deps) \/ Fails(attempt, limit) THEN Retry
        ELSE [raised |-> FALSE, merged |-> attempt.requests, used |-> attempt.requests,
              prompts |-> <<"scoped">>, empty |-> attempt.empty]

\* web_research: another attempt with what is left, if the first found nothing.
WebResearch(deps, budget, default, first, second) ==
    LET limit == IF budget # 0 THEN budget ELSE default
        left  == limit - first.requests
    IN  IF Refused(deps) \/ Fails(first, limit) THEN Retry
        ELSE IF ~first.empty \/ left <= 0
        THEN [raised |-> FALSE, merged |-> first.requests, used |-> first.requests,
              prompts |-> <<"scoped">>, empty |-> FALSE]
        ELSE IF Fails(second, left) THEN [Retry EXCEPT !.merged = first.requests]
        ELSE [raised |-> FALSE, merged |-> first.requests + second.requests,
              used |-> first.requests + second.requests,
              prompts |-> <<"scoped", "query">>, empty |-> FALSE]

\* run_standalone: no depth is checked, nothing is merged, what fails is raised as it is.
RunStandalone(deps, budget, default, attempt) ==
    LET limit == IF budget # 0 THEN budget ELSE default
    IN  [raised |-> ~deps.model \/ Fails(attempt, limit), merged |-> 0]

-----------------------------------------------------------------------------
(* What a turn counts as used.  The SDK counts on in the object it is given *)
(* of the last segment that came to an end, and hands it back.              *)

NotUsed == -1
NoUsage == [latest |-> NotUsed, turn |-> 0]

\* _execute_stream_segment with _merge_turn_usage; run_in_turn's merge.
UsageStep(usage, event) ==
    LET on == IF usage.latest = NotUsed THEN event.own ELSE usage.latest + event.own
    IN  CASE event.kind = "segment"   -> [latest |-> on, turn |-> usage.turn + on]
          [] event.kind = "failed"    -> IF usage.latest = NotUsed THEN usage
                                         ELSE [usage EXCEPT !.latest = on]
          [] event.kind = "delegated" -> [usage EXCEPT !.turn = @ + event.own]

TurnUsage(events) == FoldLeft(UsageStep, NoUsage, events).turn

-----------------------------------------------------------------------------
(* What is to hold of the tools an agent has, of forks and delegation, and *)
(* what a turn's count of usage says.                                      *)

\* A tool that reads only never asks and may run beside others; a tool that the SDK
\* is told to run alone is one that is not marked safe.
MarksAreKept(tool) ==
    Decorated(tool) =>
        LET r == Native(tool)
        IN  /\ tool.readOnly => ~r.approval /\ ~r.sequential
            /\ r.sequential <=> ~tool.concurrent

\* In a resume every approved tool passes the filter, of those the index knows
\* nothing deferred does but them, and what it does not know always does.
ResumeIsNarrow(name, approved, index) ==
    LET known == {t \in index : t.name = name}
    IN  /\ name \in approved => ResumeFilter(name, <<approved>>, index)
        /\ (\E t \in known : t.deferred) /\ name \notin approved => ~ResumeFilter(name, <<approved>>, index)
        /\ known = {} => ResumeFilter(name, <<approved>>, index)
        /\ ResumeFilter(name, <<>>, index)

\* An approved tool whose service has gone meanwhile is not offered in the resume.
ApprovedMayBeGone(tool, index, available) ==
    tool.needs # "" /\ tool.needs \notin available =>
        Native(tool) \notin Offered({Native(tool)}, <<{tool.name}>>, index, available)

\* No tool of a task agent asks, waits for its service, or runs alone: two calls of
\* one that is not safe beside others may run together there.
TaskToolsAreFree(names, registry, settings) ==
    LET agent == TaskAgent(names, registry, settings)
    IN  /\ agent.raised <=> ~(names \subseteq {t.name : t \in registry})
        /\ \A r \in agent.tools : ~r.approval /\ ~r.sequential /\ r.needs = ""
        /\ ~agent.raised =>
             {r.name : r \in agent.tools} =
                 {r.name : r \in {n \in NativeToolset(registry, settings) : n.name \in names}}

\* Every deferred tool is announced, but one that has neither category nor integration.
DeferredAreTold(index) ==
    \A t \in index :
        t.deferred => Category(t) \subseteq CategoryAwareness(index)
                      /\ (Category(t) = {} => t.integration = "" /\ t.name \notin DOMAIN NativeCategories)

\* What clarify answers is what the user was asked for, never what the model said.
AnswersAreAsked(approved, answers, questions) ==
    Clarify(approved, answers, questions) = "answers" =>
        approved /\ answers # <<>> /\ Len(answers[1]) = questions

\* A fork has what is shared and the rules as they stood; nothing of the turn or of
\* the conversation that it is made in is known to it.
ForkIsClean(deps) ==
    \A child \in {Fork(deps), ForkForReviewer(deps), ForkForCurator(deps)} :
        /\ child.shared = deps.shared
        /\ child.session.rules = deps.session.rules
        /\ child.runtime.depth = deps.runtime.depth + 1
        /\ child.runtime.resume = <<>> /\ child.runtime.usage = 0
        /\ child.session.todos = <<>> /\ child.session.path = ""

\* Depths at which an agent may run, when each of the agents of a depth may start
\* those that its tools can.
Reached(starts) ==
    LET next(d) == IF starts /\ ~Refused([depth |-> d, model |-> TRUE]) THEN {d + 1} ELSE {}
        one == {0} \cup next(0)
        two == one \cup UNION {next(d) : d \in one}
    IN  two \cup UNION {next(d) : d \in two}
DepthIsBounded == \A starts \in BOOLEAN : \A d \in Reached(starts) : d <= MaxAgentDepth

\* However it goes, research takes no more requests than it was given; what it merges
\* is what its answered attempts took; it asks again only if nothing was found, and
\* then without the domains it was to keep to.
ResearchIsBounded(deps, budget, default, first, second) ==
    LET r     == WebResearch(deps, budget, default, first, second)
        limit == IF budget # 0 THEN budget ELSE default
    IN  /\ r.merged <= limit
        /\ ~r.raised => r.used = r.merged /\ ~r.empty
        /\ Len(r.prompts) = 2 => first.empty /\ r.prompts[2] # "scoped"
        /\ Refused(deps) => r.raised /\ r.merged = 0

\* What failed is not counted: requests were taken and none is merged.
FailedIsFree(deps, budget, default, attempt) ==
    LET r     == RunInTurn(deps, budget, default, attempt)
        limit == IF budget # 0 THEN budget ELSE default
    IN  /\ r.raised <=> Refused(deps) \/ Fails(attempt, limit)
        /\ r.raised => r.merged = 0

\* A turn counts what a segment used once for it and once more for each that comes
\* to an end after it; of one that fails, nothing before the first such.
CountedTimes(events, i) ==
    LET ends(j) == events[j].kind = "segment"
        later   == Cardinality({j \in i..Len(events) : ends(j)})
    IN  CASE events[i].kind = "delegated" -> 1
          [] events[i].kind = "segment"   -> later
          [] events[i].kind = "failed"    -> IF \E j \in 1..i : ends(j) THEN later ELSE 0
UsageCountsAgain(events) ==
    TurnUsage(events) =
        FoldLeft(LAMBDA a, b : a + b, 0, [i \in 1..Len(events) |-> events[i].own * CountedTimes(events, i)])

\* So it is what was used only where one segment came to an end and none had failed.
UsageIsTrue(events) ==
    TurnUsage(events) = FoldLeft(LAMBDA a, b : a + b.own, 0, events)

=============================================================================
