------------------------------ MODULE Commands ------------------------------
(***************************************************************************)
(* What slash commands come to, how skills are read from their files, and  *)
(* what the commands and tools on skills, memory and approvals do:         *)
(* co_cli/commands, co_cli/skills, co_cli/tools/system/skills.py.          *)
(*                                                                         *)
(* A skill file is a record: name, link, fault ("" for none), described,   *)
(* invocable, hidden (from the model), env and body. A name is as it is    *)
(* written; Lowered says what it is in lower case. A command's arguments   *)
(* and a skill's body are sequences of words.                              *)
(***************************************************************************)
EXTENDS Integers, Sequences, FiniteSets, SequencesExt

Lowered(name) == IF name = "Tea" THEN "tea" ELSE name

-----------------------------------------------------------------------------
(* Skills as they are read.                                                 *)

EnvBlocked == {"PATH", "PYTHONPATH", "PYTHONHOME", "LD_PRELOAD", "LD_LIBRARY_PATH",
               "DYLD_INSERT_LIBRARIES", "HOME", "USER", "SHELL", "SUDO_UID"}

\* _load_skill_file: a link is passed over, a file that cannot be read is an error.
Loads(file) == ~file.link /\ file.fault = ""

Skill(file) ==
    [name |-> file.name, described |-> file.described, invocable |-> file.invocable,
     hidden |-> file.hidden, env |-> file.env \ EnvBlocked, body |-> file.body]

\* A file of the user's takes the place of the bundled one of its name, if it loads.
LoadSkills(bundled, users) ==
    LET own == {Skill(f) : f \in {g \in users : Loads(g)}}
    IN  own \cup {s \in {Skill(f) : f \in {g \in bundled : Loads(g)}} : \A t \in own : t.name # s.name}

FilterNamespaceConflicts(loaded, reserved) == {s \in loaded : s.name \notin reserved}

\* refresh_skills, which the skill tools and the reviews use, takes all of them...
RefreshSkills(bundled, users) == LoadSkills(bundled, users)

\* .../skills reload only those that no command shadows.
Reload(bundled, users, reserved, index) ==
    LET new == FilterNamespaceConflicts(LoadSkills(bundled, users), reserved)
        NamesOf(skills) == {s.name : s \in skills}
    IN  [index |-> new, added |-> NamesOf(new) \ NamesOf(index), removed |-> NamesOf(index) \ NamesOf(new)]

\* /skills check: what it says of a file. An unreadable file has no meta data and is
\* taken for a name that a command has; one that does not decode is an error.
Check(file, index) ==
    CASE \E s \in index : s.name = file.name -> "loaded"
      [] (\A s \in index : s.name # file.name) /\ file.fault = "undecodable" -> "error"
      [] OTHER -> "conflict"

\* lint_skill, on a content's marks.
Lint(content) ==
    (IF content.fronted THEN {} ELSE {"R1"})
        \cup (IF content.description \in 1..1024 THEN {} ELSE {"R2"})
        \cup (IF content.titled THEN {} ELSE {"R3"})
        \cup (IF content.body > 8000 THEN {"R4"} ELSE {})

\* /skills lint, on the contents of the skills it is asked about: it leaves the program
\* when there is anything to say.
LintCommand(contents) == IF \E c \in contents : Lint(c) # {} THEN "exit" ELSE "stay"

\* render_skill_manifest, get_skill_index, skill_view and the completer: who is told
\* about a skill, and to whom it is shown.
Manifest(index) == {s.name : s \in index}
ModelIndex(index) == {s.name : s \in {t \in index : t.described /\ ~t.hidden}}
View(name, index) == IF \E s \in index : s.name = name /\ ~s.hidden THEN "body" ELSE "error"
CompleterEntries(builtins, index) == builtins \o SetToSeq({s.name : s \in {t \in index : t.invocable}})

-----------------------------------------------------------------------------
(* Dispatch.                                                                *)

All == [kind |-> "all"]
Nth(n) == [kind |-> "nth", n |-> n]
Text(t) == [kind |-> "text", text |-> t]

\* The arguments go in first, then the name for $0, then the last argument to the first;
\* a place beyond the ninth is taken for its first digit when there is none of its own.
Expand(body, args, name) ==
    IF args = <<>> \/ All \notin ToSet(body) THEN body
    ELSE LET Each(words, Of(_)) == FlattenSeq([i \in DOMAIN words |-> Of(words[i])])
             whole == Each(body, LAMBDA w : IF w = All THEN args ELSE <<w>>)
             named == Each(whole, LAMBDA w : IF w = Nth(0) THEN <<Text(name)>> ELSE <<w>>)
             from[i \in 1..(Len(args) + 1)] ==
                 IF i = Len(args) + 1 THEN named
                 ELSE Each(from[i + 1], LAMBDA w :
                          CASE w = Nth(i) -> <<args[i]>>
                            [] w.kind = "nth" /\ w # Nth(i) /\ w.n \div 10 = i -> <<args[i], Text("digit")>>
                            [] OTHER -> <<w>>)
         IN  from[1]

\* What a line of input comes to: a command of the program goes before a skill, and
\* whether a skill is for users is not asked.
Dispatch(input, builtins, index) ==
    LET name == Lowered(input.name)
        named == {s \in index : s.name = name}
    IN  CASE ~input.slash -> [kind |-> "local", body |-> <<>>, env |-> {}]
          [] input.slash /\ name \in builtins -> [kind |-> "command", body |-> <<>>, env |-> {}]
          [] input.slash /\ name \notin builtins /\ named # {} ->
               LET s == CHOOSE t \in named : TRUE
               IN  [kind |-> "turn", body |-> Expand(s.body, input.args, name), env |-> s.env]
          [] OTHER -> [kind |-> "unknown", body |-> <<>>, env |-> {}]

\* The variables of a skill's turn, and what cleanup_skill_run_state leaves of them: env
\* is the environment, a function of its names.
EnvOfTurn(env, extra) == [v \in DOMAIN env \cup extra |-> IF v \in extra THEN "skill" ELSE env[v]]
Cleaned(during, saved, extra) ==
    [v \in {w \in DOMAIN during : w \notin extra \/ w \in DOMAIN saved} |->
        IF v \in extra THEN saved[v] ELSE during[v]]

-----------------------------------------------------------------------------
(* The skill tool. A content has a size, a description's length, and flags  *)
(* that the scan raises; library is what the user's directory has.          *)

MaxSkillChars == 50000
MaxDescription == 1024

Invalid(content) == content.size > MaxSkillChars \/ content.description \notin 1..MaxDescription

Kept(library) == [library |-> library, written |-> <<>>, reply |-> "error"]

\* What is flagged has been written and is put back as it was.
ScanOrRollback(library, name, content) ==
    IF content.flags # {}
    THEN [Kept(library) EXCEPT !.written = <<content>>]
    ELSE [library |-> [n \in DOMAIN library \cup {name} |-> IF n = name THEN content ELSE library[n]],
          written |-> <<content>>, reply |-> "done"]

EditSkill(library, name, content) ==
    IF name \notin DOMAIN library \/ Invalid(content) THEN Kept(library)
    ELSE ScanOrRollback(library, name, content)

CreateSkill(library, name, content) ==
    IF Invalid(content) \/ name \in DOMAIN library THEN Kept(library)
    ELSE ScanOrRollback(library, name, content)

\* A patch is not asked whether what comes of it is valid; found is how often the text is.
PatchSkill(library, name, content, found, every) ==
    IF name \notin DOMAIN library \/ found = 0 \/ (found > 1 /\ ~every) THEN Kept(library)
    ELSE ScanOrRollback(library, name, content)

DeleteSkill(library, name) ==
    IF name \notin DOMAIN library THEN Kept(library)
    ELSE [library |-> [n \in DOMAIN library \ {name} |-> library[n]], written |-> <<>>, reply |-> "done"]

\* skill_manage: whatever is asked for, only with a proper name.
SkillManage(library, call) ==
    CASE ~call.proper -> Kept(library)
      [] call.proper /\ call.action = "create" -> CreateSkill(library, call.name, call.content)
      [] call.proper /\ call.action = "edit" -> EditSkill(library, call.name, call.content)
      [] call.proper /\ call.action = "patch" -> PatchSkill(library, call.name, call.content, call.found, call.every)
      [] call.proper /\ call.action = "delete" -> DeleteSkill(library, call.name)
      [] OTHER -> Kept(library)

\* run_session_review: the reviewer's skills are read anew, the session's own stay as
\* they are, and a review that fails leaves no report.
SessionReview(disk, index, fails) ==
    [reviewers |-> disk, sessions |-> index, report |-> IF fails THEN <<>> ELSE <<"run.json", "run.md">>]

-----------------------------------------------------------------------------
(* The memory command. An item: kind, age in days, words; words of a        *)
(* command line are records, a flag's value is a number when it is one.     *)

Flag(name) == [kind |-> "flag", word |-> name]
Word(w) == [kind |-> "word", word |-> w]
Number(n) == [kind |-> "number", n |-> n]

\* _parse_memory_args: a flag without its value, or with one that is no number where
\* one is due, is a word of the query like others. older and of are <<>> or <<value>>.
ParseMemoryArgs(tokens) ==
    LET from[i \in 1..(Len(tokens) + 2)] ==
            IF i > Len(tokens) THEN [query |-> <<>>, older |-> <<>>, of |-> <<>>]
            ELSE LET next == i < Len(tokens)
                     value == tokens[i + 1]
                     rest == from[i + 2]
                 IN  CASE tokens[i] = Flag("--older-than") /\ next /\ value.kind = "number" ->
                            [rest EXCEPT !.older = IF @ = <<>> THEN <<value.n>> ELSE @]
                       [] tokens[i] = Flag("--kind") /\ next ->
                            [rest EXCEPT !.of = IF @ = <<>> THEN <<value>> ELSE @]
                       [] OTHER -> [from[i + 1] EXCEPT !.query = <<tokens[i]>> \o @]
    IN  from[1]

\* What list shows, count counts and forget deletes: the query is found as it stands.
Selected(items, parsed) ==
    {m \in items : /\ parsed.of = <<>> \/ parsed.of[1] = Word(m.kind)
                   /\ parsed.older = <<>> \/ m.age > parsed.older[1]
                   /\ parsed.query = <<>> \/ parsed.query \in m.phrases}

MemoryList(items, parsed) == Selected(items, parsed)
MemoryCount(items, parsed) == Cardinality(Selected(items, parsed))

\* Those that are gone by the time they are deleted end it; order is that of the files.
MemoryForget(items, parsed, confirmed, gone, order) ==
    LET chosen == SelectSeq(order, LAMBDA m : m \in Selected(items, parsed))
        stops == {i \in DOMAIN chosen : chosen[i] \in gone}
        last == IF stops = {} THEN Len(chosen) ELSE Min(stops) - 1
    IN  IF (parsed.query = <<>> /\ parsed.older = <<>> /\ parsed.of = <<>>) \/ chosen = <<>> \/ ~confirmed
        THEN [items |-> items \ gone, rows |-> items, raised |-> FALSE]
        ELSE LET deleted == {chosen[i] : i \in 1..last}
             IN  [items |-> (items \ gone) \ deleted, rows |-> items \ deleted, raised |-> stops # {}]

\* /approvals clear <index> counts from the end for a negative one, as the language does.
ClearApproval(rules, index) ==
    LET at == IF index < 0 THEN Len(rules) + index + 1 ELSE index + 1
    IN  IF at \in DOMAIN rules THEN RemoveAt(rules, at) ELSE rules

\* /tasks: an argument of eight hex digits or more is a task's id, any other a status.
TasksShown(tasks, arg) ==
    CASE arg.kind = "none" -> tasks
      [] arg.kind = "id" -> {t \in tasks : t.id = arg.id}
      [] OTHER -> {t \in tasks : t.status = arg.status}

-----------------------------------------------------------------------------
(* What is to hold of commands and skills: what is offered is what can be  *)
(* had, what is asked for is what is done, and what is refused leaves      *)
(* nothing behind.                                                         *)

\* There is one skill for a name; a user's file that loads is the one, a file that does
\* not load changes nothing, and no skill sets a variable that the program depends on.
SkillsAreLayered(bundled, users) ==
    LET skills == LoadSkills(bundled, users)
    IN  /\ \A s, t \in skills : s.name = t.name => s = t
        /\ \A f \in users : Loads(f) => Skill(f) \in skills
        /\ skills = LoadSkills({f \in bundled : Loads(f)}, {f \in users : Loads(f)})
        /\ \A f \in bundled : Loads(f) => \E s \in skills : s.name = f.name
        /\ \A s \in skills : s.env \cap EnvBlocked = {}

\* A reload says which names came and went; what the tools and the reviews reload may
\* have names besides that only a command answers to.
ReloadsDiffer(bundled, users, reserved, index) ==
    LET r == Reload(bundled, users, reserved, index)
        fresh == RefreshSkills(bundled, users)
    IN  /\ {s.name : s \in r.index} = ({s.name : s \in index} \ r.removed) \cup r.added
        /\ r.index = {s \in fresh : s.name \notin reserved}
        /\ \A s \in fresh \ r.index :
             Dispatch([slash |-> TRUE, name |-> s.name, args |-> <<>>], reserved, fresh).kind # "turn"

\* What /skills check calls a conflict of names may be a link or a file that nobody can read.
ConflictsMayBeOthers(files, reserved, users) ==
    LET index == FilterNamespaceConflicts(LoadSkills(files, users), reserved)
    IN  \A f \in files :
            /\ f.name \in reserved => Check(f, index) # "loaded"
            /\ Check(f, index) = "conflict" => f.name \in reserved \/ f.link \/ f.fault = "unreadable"

\* What completes to a skill starts its turn, unless it has capitals or a command's name;
\* a skill that is for the model only starts one too when its name is known.
OffersAreKept(builtins, index) ==
    \A s \in index :
        LET kind == Dispatch([slash |-> TRUE, name |-> s.name, args |-> <<>>], builtins, index).kind
        IN  kind = "turn" <=> \E t \in index : t.name = Lowered(s.name) /\ t.name \notin builtins

\* Every skill is in the manifest, also those that the model may not read; the list for
\* the model has none of them.
ManifestsShowMore(index) ==
    /\ ModelIndex(index) \subseteq Manifest(index)
    /\ \A name \in ModelIndex(index) : View(name, index) = "body"
    /\ \A name \in Manifest(index) : View(name, index) = "error" => \E s \in index : s.name = name /\ s.hidden

\* The places of a body are taken by the arguments when the body takes all of them
\* somewhere; arguments that hold no place themselves come out as they went in, and
\* the places beyond the last argument stay.
BodiesAreExpanded(body, args) ==
    LET out == Expand(body, args, "skill")
    IN  /\ args = <<>> \/ All \notin ToSet(body) => out = body
        /\ args # <<>> /\ All \in ToSet(body) /\ (\A i \in DOMAIN args : args[i].kind = "text") =>
             /\ All \notin ToSet(out)
             /\ \A i \in DOMAIN out : out[i].kind = "nth" => out[i].n > Len(args)
             /\ ToSet(args) \subseteq ToSet(out)

\* An argument that looks like a place is taken for one.
PlacesInArguments == Expand(<<All>>, <<Nth(2), Text("b")>>, "skill") = <<Text("b"), Text("b")>>

\* After a skill's turn the environment is what it was.
EnvIsRestored(env, extra) == Cleaned(EnvOfTurn(env, extra), [v \in extra \cap DOMAIN env |-> env[v]], extra) = env

\* A call that is refused leaves the library as it was; one that is done changes its own
\* skill only, to what is free of flags and, but for a patch, valid; what is flagged is on
\* disk for a moment.
RefusalsLeaveNothing(library, call) ==
    LET done == SkillManage(library, call)
    IN  /\ done.reply = "error" => done.library = library
        /\ \A n \in (DOMAIN library \cup DOMAIN done.library) \ {call.name} :
             n \in DOMAIN library /\ n \in DOMAIN done.library /\ library[n] = done.library[n]
        /\ done.reply = "done" /\ call.action # "delete" =>
             /\ done.library[call.name].flags = {}
             /\ Invalid(done.library[call.name]) => call.action = "patch"
        /\ done.written # <<>> /\ done.reply = "error" => done.written[1].flags # {}

\* What a content may be refused for, lint says too, but for its size; what lint says is
\* no reason to refuse, and it ends the program when a user asks.
LintIsAdvice(content) ==
    /\ ~Invalid([size |-> 0, description |-> content.description]) <=> "R2" \notin Lint(content)
    /\ LintCommand({content}) = "stay" => content.fronted /\ content.titled

\* Forget deletes what list shows and no other, all of it unless one was gone already,
\* and asks first; what it deletes has no rows after.
ForgetIsList(items, tokens, confirmed, gone, order) ==
    LET parsed == ParseMemoryArgs(tokens)
        after == MemoryForget(items, parsed, confirmed, gone, order)
    IN  /\ MemoryCount(items, parsed) = Cardinality(MemoryList(items, parsed))
        /\ items \ (after.items \cup gone) \subseteq MemoryList(items, parsed)
        /\ ~confirmed \/ tokens = <<>> => after.items = items \ gone /\ after.rows = items
        /\ confirmed /\ tokens # <<>> /\ gone = {} => after.items = items \ MemoryList(items, parsed)
        /\ after.items \subseteq after.rows /\ (gone = {} => after.rows = after.items)

\* A flag without a fit value is looked for in the items.
FlagsMayBeWords(tokens) ==
    LET parsed == ParseMemoryArgs(tokens)
    IN  /\ Flag("--older-than") \in ToSet(parsed.query) =>
             \E i \in DOMAIN tokens : tokens[i] = Flag("--older-than")
                                      /\ (i = Len(tokens) \/ tokens[i + 1].kind # "number")
        /\ Len(parsed.query) + 2 * (Len(parsed.older) + Len(parsed.of)) <= Len(tokens)

\* Removing a rule removes one or none, and a negative index counts from the end.
OneRuleGoes(rules, index) ==
    LET after == ClearApproval(rules, index)
    IN  /\ Len(after) = IF index \in -Len(rules)..(Len(rules) - 1) THEN Len(rules) - 1 ELSE Len(rules)
        /\ rules # <<>> => ClearApproval(rules, -1) = Front(rules)

=============================================================================
