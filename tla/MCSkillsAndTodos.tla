-------------------------- MODULE MCSkillsAndTodos --------------------------
(***************************************************************************)
(* The library of skills with its background task, and the plan with its   *)
(* transcripts.  They share no variable, so a property of one is seen in   *)
(* the behaviours in which the other stays as it starts.  The plan may     *)
(* come to the end of its bounds, the skills may not.                      *)
(***************************************************************************)
EXTENDS Skills, Todos, TLC

CONSTANTS a, b

-----------------------------------------------------------------------------
(* A plan of two items, of which the content of the second has a line like an *)
(* item; calls that start one, that end one and that end both, one at a time  *)
(* and side by side.                                                          *)

I(x, st) == [id |-> x, status |-> st]
Update(p) == [merge |-> TRUE, full |-> FALSE, items |-> p]

Plan   == [merge |-> FALSE, full |-> TRUE,
           items |-> <<I(a, "pending"), I(b, "pending")>>]
StartA == Update(<<I(a, "in_progress")>>)
StartB == Update(<<I(b, "in_progress")>>)
EndAll == Update(<<I(a, "completed"), I(b, "completed")>>)

EndA   == Update(<<I(a, "completed")>>)

MCQuoted == [x \in Ids |-> IF x = b THEN <<I(a, "in_progress")>> ELSE <<>>]

MCBatches == {<<Plan>>, <<StartA>>, <<EndA>>, <<EndAll>>,
              <<StartA, StartB>>, <<StartB, EndAll>>}

BothInit == Init /\ TodosInit

\* An empty library (which settings it starts with is one choice of several).
NoSkills == Init /\ files = {} /\ tracking /\ ~paused

BothNext ==
    \/ TodosInit /\ Next      /\ UNCHANGED todosVars
    \/ NoSkills  /\ TodosNext /\ UNCHANGED vars

BothSpec == BothInit /\ [][BothNext]_<<vars, todosVars>> /\ Fairness

-----------------------------------------------------------------------------
(* Commands and the reading of skills, on all small libraries.              *)

Facts == INSTANCE Commands

Written(name, link, fault, invocable, hidden) ==
    [name |-> name, link |-> link, fault |-> fault, described |-> invocable, invocable |-> invocable,
     hidden |-> hidden, env |-> {"PATH", "X"}, body |-> <<Facts!All>>]

SkillFiles ==
    {Written(name, link, fault, invocable, ~invocable) :
        name \in {"tea", "Tea", "help"}, link \in {FALSE}, fault \in {"", "undecodable"}, invocable \in BOOLEAN}
        \cup {Written("tea", TRUE, "", TRUE, TRUE), Written("help", FALSE, "unreadable", TRUE, FALSE)}

\* A directory has one file for a name.
Directories == {d \in SUBSET SkillFiles : Cardinality(d) <= 2 /\ \A f, g \in d : f.name = g.name => f = g}

\* A user's file that loads is the skill of its name.
ASSUME SkillsAreLayered == \A bundled, users \in Directories : Facts!SkillsAreLayered(bundled, users)

Indexes == {Facts!RefreshSkills(d, {}) : d \in Directories}

\* The reload of the command and that of the tools differ by the names of commands.
ASSUME ReloadsDiffer ==
    \A bundled, users \in Directories, index \in Indexes : Facts!ReloadsDiffer(bundled, users, {"help"}, index)

\* A file that was skipped is said to conflict whatever it was skipped for.
ASSUME ConflictsMayBeOthers ==
    \A bundled \in Directories : Facts!ConflictsMayBeOthers(bundled, {"help"}, {})

\* What is offered starts a turn, but for capitals and the names of commands.
ASSUME OffersAreKept == \A index \in Indexes : Facts!OffersAreKept({"help"}, index)

\* The manifest has every skill, the list of the model those it may read.
ASSUME ManifestsShowMore == \A index \in Indexes : Facts!ManifestsShowMore(index)

BodyWords == {Facts!All, Facts!Nth(0), Facts!Nth(1), Facts!Nth(2), Facts!Nth(12), Facts!Text("a")}

\* Arguments go where the body has places for them.
ASSUME BodiesAreExpanded ==
    \A m, n \in 0..3 : \A body \in [1..m -> BodyWords], args \in [1..n -> BodyWords \ {Facts!All}] :
        Facts!BodiesAreExpanded(body, args)

\* An argument may be a place itself.
ASSUME PlacesInArguments == Facts!PlacesInArguments

\* A skill's variables are gone when its turn is.
ASSUME EnvIsRestored ==
    \A known, extra \in SUBSET {"A", "B", "C"} : Facts!EnvIsRestored([v \in known |-> "host"], extra)

SkillContents == [size : {10, 60000}, description : {0, 5, 2000}, flags : {{}, {"pipe_to_shell"}}]

\* What the skill tool refuses leaves nothing, what it does is free of flags.
ASSUME RefusalsLeaveNothing ==
    \A known \in SUBSET {"tea", "help"}, old \in SkillContents, content \in SkillContents,
       action \in {"create", "edit", "patch", "delete", "write_file"}, proper, every \in BOOLEAN, found \in 0..2 :
        Facts!RefusalsLeaveNothing([n \in known |-> old],
            [proper |-> proper, action |-> action, name |-> "tea", content |-> content, found |-> found, every |-> every])

\* Lint is of the description what the tool refuses, and more besides.
ASSUME LintIsAdvice ==
    \A content \in [fronted : BOOLEAN, description : {0, 1, 1024, 1025}, titled : BOOLEAN, body : {8000, 8001}] :
        Facts!LintIsAdvice(content)

CommandTokens == {Facts!Flag("--older-than"), Facts!Flag("--kind"), Facts!Word("rule"), Facts!Number(3)}
Noted(kind, age) ==
    [kind |-> kind, age |-> age, phrases |-> {<<Facts!Word("rule")>>, <<Facts!Number(3), Facts!Word("rule")>>}]
Noteds == {Noted("rule", 3), Noted("rule", 4), Noted("user", 9)}

\* What is forgotten is what would be listed.
ASSUME ForgetIsList ==
    \A n \in 0..4, confirmed \in BOOLEAN, gone \in SUBSET Noteds : \A tokens \in [1..n -> CommandTokens] :
        Facts!ForgetIsList(Noteds, tokens, confirmed, gone, <<Noted("rule", 3), Noted("user", 9), Noted("rule", 4)>>)

\* A flag that has no fit value is a word to look for.
ASSUME FlagsMayBeWords == \A n \in 0..5 : \A tokens \in [1..n -> CommandTokens] : Facts!FlagsMayBeWords(tokens)

\* One rule goes at a time, from either end.
ASSUME OneRuleGoes ==
    \A n \in 0..3, index \in -4..4 : Facts!OneRuleGoes([i \in 1..n |-> i], index)

=============================================================================
