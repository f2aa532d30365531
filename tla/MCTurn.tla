------------------------------- MODULE MCTurn -------------------------------
(***************************************************************************)
(* Small instance of Turn: the history a REPL holds before its first turn, *)
(* and one after three turns, the first of which opened with a tool call   *)
(* (compaction then has a middle to drop and a call pinned at the head)    *)
(* and the last of which was broken off (its marker is joined to the next  *)
(* prompt).                                                                *)
(***************************************************************************)
EXTENDS Turn, TLC

P == M("prompt", {})
T == M("text", {})

MCHistories == { <<>>,
                 <<P, M("saycall", {}), M("ret", {}), T, P, T, M("abort", {})>> }

\* Callers that pass settings: the retry doubles once, up to the ceiling.
\* (main.py passes none, so its turns have no length retry.)
CallerTokens == {8192}

-----------------------------------------------------------------------------
(* The display of a segment, on all short streams.                          *)

Facts == INSTANCE Display

Modes == {"off", "summary", "full"}

Deltas ==
    [kind : {"text"}, piece : [at : {0}, stop : {FALSE}], due : BOOLEAN]
        \cup [kind : {"thinking"}, piece : [at : {0}, stop : BOOLEAN], due : BOOLEAN]

ToolEvents(ids) ==
    [kind : {"call"}, id : ids, label : {<<"label">>}]
        \cup [kind : {"result"}, id : ids, result : {Facts!Nothing, <<"result">>}]

Reports == [kind : {"progress"}, message : {<<"message">>}]

Streams(n) == Facts!BoundedSeq(Deltas \cup ToolEvents({<<1>>}), n)
Work(n)    == Facts!BoundedSeq(ToolEvents({<<1>>, <<2>>}) \cup Reports, n)

\* What the model said and thought is shown once and in order: streams of four
\* events, however rarely the surfaces are drawn.
ASSUME StreamsAreShown ==
    \A mode \in Modes, events \in Streams(4) : Facts!AllIsShown(mode, events)

\* The answer is shown once, after a segment that broke off.
ASSUME AnswersAreShownOnce ==
    \A mode \in Modes, before \in Streams(1), events \in Streams(2) :
        Facts!AnswerShownOnce(mode, before, events)

\* The calls shown at work are those at work: two calls that overlap, with
\* progress in between.
ASSUME WorkIsShown ==
    \A mode \in Modes, events \in Work(4) : Facts!ShownAtWork(mode, events)

\* Progress is shown at the call that began last, whoever it is of.
ASSUME ProgressGoesToLast == \A events \in Work(4) : Facts!ProgressIsOfLast(events)

\* The keys lead around a list of up to three.
ASSUME KeysSelect ==
    \A n \in 1..3, keys \in Facts!BoundedSeq({"up", "down", "other"}, 4) :
        Facts!SelectionFits([i \in 1..n |-> <<i>>], keys)

-----------------------------------------------------------------------------
(* Agents: their tools, delegation, and the usage of a turn.                *)

Agent == INSTANCE Agents

Named(name, S) == {t \in S : t.name = name}
AgentTools ==
    [name : {"t", "u"}, approval : BOOLEAN, readOnly : BOOLEAN, concurrent : BOOLEAN,
     deferred : BOOLEAN, config : {"", "google"}, needs : {"", "google"}, integration : {""}]

\* What a tool is marked with is what the SDK goes by.
ASSUME MarksStand == \A tool \in AgentTools : Agent!MarksAreKept(tool)

Indexed == {t \in AgentTools : Agent!Decorated(t) /\ ~t.approval /\ t.needs = "" /\ t.config = ""}

\* A resume shows the approved tools and those always shown, and what the index does
\* not know.
ASSUME ResumesAreNarrow ==
    \A a \in Named("t", Indexed), b \in Named("u", Indexed), approved \in SUBSET {"t", "u"} :
        \A index \in SUBSET {a, b}, name \in {"t", "u"} : Agent!ResumeIsNarrow(name, approved, index)

\* A tool approved a moment ago is not shown if its service has gone.
ASSUME ApprovedMayGo ==
    \A tool \in AgentTools, available \in SUBSET {"google"} :
        Agent!ApprovedMayBeGone(tool, {tool}, available)

\* A task agent has the tools that its specification names, and none of them asks or
\* runs alone.
ASSUME TaskToolsRun ==
    \A a \in Named("t", AgentTools), b \in Named("u", Indexed),
       names \in SUBSET {"t", "u", "v"}, settings \in SUBSET {"google"} :
        Agent!TaskToolsAreFree(names, {a, b}, settings)

\* Deferred tools are announced by what they are for.
ASSUME DeferredAreAnnounced ==
    \A index \in SUBSET [name : {"reason", "t"}, deferred : BOOLEAN,
                         integration : {"", "obsidian", "server"}] :
        Agent!DeferredAreTold(index)

\* What clarify answers comes from the user.
ASSUME AnswersAreTheUsers ==
    \A approved \in BOOLEAN, n \in 0..2,
       answers \in {<<>>} \cup {<<a>> : a \in Facts!BoundedSeq({"a"}, 2)} :
        Agent!AnswersAreAsked(approved, answers, n)

ForkedSessions ==
    [creds : {"none", "found"}, rules : SUBSET {"r"}, pages : {{"p"}}, todos : {<<"x">>},
     path : {"s"}, tasks : {{}, {"b"}}]
ForkedRuntimes ==
    {[Agent!CleanRuntime(d) EXCEPT !.resume = r, !.usage = u] :
        d \in 0..1, r \in {<<>>, <<"t">>}, u \in 0..1}

\* A fork knows nothing of the turn it is made in.
ASSUME ForksAreClean ==
    \A s \in ForkedSessions, r \in ForkedRuntimes :
        Agent!ForkIsClean([session |-> s, runtime |-> r, shared |-> {"tracker", "locks"}])

\* Agents that start agents come to an end of it.
ASSUME DepthsAreBounded == Agent!DepthIsBounded

Attempts == [fails : BOOLEAN, requests : 0..3, empty : BOOLEAN]
Parents == [depth : 0..3, model : BOOLEAN]

\* Research keeps to its budget in both of its attempts; what fails is not counted.
ASSUME ResearchStops ==
    \A deps \in Parents, most \in 0..3, first, second \in Attempts :
        /\ Agent!ResearchIsBounded(deps, most, 2, first, second)
        /\ Agent!FailedIsFree(deps, most, 2, first)

UsageEvents == [kind : {"segment", "failed", "delegated"}, own : {1, 2}]

\* A turn counts a segment again with every later one.
ASSUME UsageIsCounted == \A events \in Facts!BoundedSeq(UsageEvents, 4) : Agent!UsageCountsAgain(events)

\* With one segment and no failure the count is what was used.
ASSUME OneSegmentIsTrue ==
    \A events \in Facts!BoundedSeq(UsageEvents, 4) :
        (/\ \A i \in DOMAIN events : events[i].kind # "failed"
         /\ Cardinality({i \in DOMAIN events : events[i].kind = "segment"}) <= 1)
            => Agent!UsageIsTrue(events)

-----------------------------------------------------------------------------
(* What goes to the model beside the conversation.                          *)

Prompts == INSTANCE Prompting

\* Rule files are read all and in order, or none is.
ASSUME RulesAreRead == \A orders \in Facts!BoundedSeq(0..4, 4) : Prompts!RulesAreWhole(orders)

\* Repeated calls are counted back from the last, where each response makes one.
ASSUME SingleCallsCount ==
    \A calls \in Facts!BoundedSeq({"a", "b"}, 5) \ {<<>>} : Prompts!SingleCallsAreCounted(calls)

\* Where one makes several the count is too low, and too high.
ASSUME ParallelCallsMayNot ==
    /\ ~Prompts!CountsAsWritten(<< <<"b", "a">>, <<"a">> >>)
    /\ ~Prompts!CountsAsWritten(<< <<"a", "b">>, <<"a">> >>)

ShellReturns == {r \in [shell : BOOLEAN, flagged : BOOLEAN, reads : BOOLEAN] : r.reads => r.shell}

\* Who is warned of repetition has repeated.
ASSUME WarningsStand ==
    \A requests \in Facts!BoundedSeq(Facts!BoundedSeq(ShellReturns, 2), 2),
       responses \in Facts!BoundedSeq(Facts!BoundedSeq({"a", "b"}, 2), 2), n \in 1..2 :
        Prompts!WarningsAreFounded(responses, requests, n, n)

Bodies ==
    [kind : {"none", "text", "dict"}, says : BOOLEAN, error : {"none", "text", "dict"},
     code : BOOLEAN, message : BOOLEAN, raw : {"none", "error", "message", "other", "broken"},
     flat : BOOLEAN]

\* A conversation is cut only after a refusal that speaks of its length.
ASSUME OverflowsAreFounded ==
    \A status \in {400, 413, 429, 500}, body \in Bodies : Prompts!OverflowIsFounded(status, body)

\* One that speaks of it in a bare error field is taken for another refusal.
ASSUME PhrasesAreMissed == \A body \in Bodies : Prompts!PhraseIsMissed(body)

TypeLists == {<<"object">>, <<"string">>, <<"null">>, <<"string", "null">>, <<>>}
Optional(key, S) == {[k \in {} |-> TRUE]} \cup {key :> s : s \in S}
Joined(S, U) == {s @@ u : s \in S, u \in U}
Leaves ==
    {Prompts!Junk, "required" :> {"p"}} \cup Optional("type", TypeLists)
Properties == {[n \in {} |-> Prompts!Junk]} \cup {"p" :> n : n \in Leaves}
PlainSchemas ==
    Joined(Joined(Optional("type", TypeLists), Optional("properties", Properties)),
           Joined(Optional("required", SUBSET {"p", "q"}), Optional("items", Leaves)))

\* Schemas without unions come out fit to use, keep their parameters, and are not
\* changed again.
ASSUME ShapesAreMade ==
    \A schema \in PlainSchemas :
        /\ Prompts!ShapesFit(schema) /\ Prompts!TypesAreSingle(schema)
        /\ Prompts!IsSettled(schema) /\ Prompts!KeepsProperties(schema)

Branches ==
    {"type" :> t : t \in TypeLists}
        \cup Joined({"required" :> {"p", "q"}}, {"properties" :> ("p" :> ("type" :> <<"string">>))})
UnionSchemas ==
    Joined(Joined(Optional("type", TypeLists), Optional("properties", Properties)),
           {"anyOf" :> b : b \in Facts!BoundedSeq(Branches, 2)})

\* So do those with a union of branches that declare what they require.
ASSUME UnionsAreShaped == \A schema \in UnionSchemas : Prompts!ShapesFit(schema)

\* But a list of types survives in the one branch that is left of a union.
ASSUME UnionsKeepTypes == ~Prompts!TypesAreSingle("anyOf" :> << "type" :> <<"string", "null">> >>)

Restricted ==
    ("properties" :> ("p" :> ("type" :> <<"string">>))) @@ ("anyOf" :> << "required" :> {"p"} >>)

\* And a union that only says what is required takes the parameters with it.
ASSUME UnionsLoseProperties == ~Prompts!KeepsProperties(Restricted) /\ ~Prompts!ShapesFit(Restricted)

=============================================================================
