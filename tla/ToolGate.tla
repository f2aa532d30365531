------------------------------ MODULE ToolGate ------------------------------
(***************************************************************************)
(* What a tool call passes before and behind its tool: duplicate calls are *)
(* dropped and malformed arguments repaired (co_cli/tools/lifecycle.py),   *)
(* the user is asked or a rule of the session answers                      *)
(* (co_cli/tools/approvals.py), and a command is classified and run under  *)
(* a timeout (co_cli/tools/shell_policy.py, shell, code).                  *)
(***************************************************************************)
EXTENDS Integers, SequencesExt

Nil == "nil"

-----------------------------------------------------------------------------
(* Duplicate calls.  A part is a call of a tool or another part; args are   *)
(* compared as the text they came as or, if they came parsed, as a dump.    *)

ArgsKey(args) == IF args.form = "text" THEN <<args.value, args.spaced>> ELSE <<args.value, FALSE>>

SameCall(p, q) == p.call /\ q.call /\ p.tool = q.tool /\ ArgsKey(p.args) = ArgsKey(q.args)

\* _dedup_tool_call_parts
Deduped(parts) ==
    FoldLeft(LAMBDA kept, p : IF \E i \in DOMAIN kept : SameCall(kept[i], p) THEN kept
                              ELSE Append(kept, p), <<>>, parts)

-----------------------------------------------------------------------------
(* Repair of arguments.  A text is a sequence of brackets, commas, quotes   *)
(* and "x", any other value; in an object a value is there with its key.    *)

Pair(b) == IF b \in {"{", "}"} THEN {"{", "}"} ELSE {"[", "]"}
CloserOf(b) == IF b = "{" THEN "}" ELSE "]"
Opening == {"{", "["}
Closing == {"}", "]"}

\* json.loads: at says what may come next; "no" if the text was refused.
ParseStep(s, ch) ==
    LET open   == Len(s.open)
        after  == [s EXCEPT !.at = IF open = 0 THEN "end" ELSE "next"]
        closed == SubSeq(s.open, 1, open - 1)
        begins == s.at \in {"value", "first"}
    IN  CASE s.quoted /\ ch = "quote"         -> [after EXCEPT !.quoted = FALSE]
          [] s.quoted /\ ch # "quote"         -> s
          [] ~s.quoted /\ ch = "quote" /\ begins -> [s EXCEPT !.quoted = TRUE]
          [] ~s.quoted /\ ch = "x" /\ begins     -> after
          [] ~s.quoted /\ ch \in Opening /\ begins ->
                [s EXCEPT !.open = Append(@, ch), !.at = "first"]
          [] ~s.quoted /\ ch \in Closing /\ s.at \in {"first", "next"} /\ open > 0
             /\ s.open[open] \in Pair(ch) ->
                [s EXCEPT !.open = closed, !.at = IF closed = <<>> THEN "end" ELSE "next"]
          [] ~s.quoted /\ ch = "," /\ s.at = "next" -> [s EXCEPT !.at = "value"]
          [] OTHER -> [s EXCEPT !.at = "no"]

Parses(text) ==
    LET s == FoldLeft(ParseStep, [open |-> <<>>, at |-> "value", quoted |-> FALSE], text)
    IN  s.at = "end" /\ ~s.quoted

\* _TRAILING_COMMA, inside of strings too.
StripCommas(text) ==
    LET stays(i) == ~(text[i] = "," /\ i < Len(text) /\ text[i + 1] \in Closing)
        kept     == SelectSeq([i \in DOMAIN text |-> i], stays)
    IN  [n \in DOMAIN kept |-> text[kept[n]]]

\* _balance_brackets: a closer that fits nothing is left.
Balanced(text) ==
    LET step(s, ch) ==
            CASE ch = "quote" -> [s EXCEPT !.quoted = ~@]
              [] ch # "quote" /\ s.quoted -> s
              [] ~s.quoted /\ ch \in Opening -> [s EXCEPT !.open = Append(@, ch)]
              [] ~s.quoted /\ ch \in Closing /\ s.open # <<>> /\ s.open[Len(s.open)] \in Pair(ch) ->
                    [s EXCEPT !.open = SubSeq(@, 1, Len(@) - 1)]
              [] OTHER -> s
        open == FoldLeft(step, [open |-> <<>>, quoted |-> FALSE], text).open
    IN  text \o [i \in DOMAIN open |-> CloserOf(open[Len(open) - i + 1])]

EmptyArgs == <<"{", "}">>
MaxTrim   == 50

\* The text without the fewest of its last closers with which it parses.
Trimmed(text) ==
    LET cuts == {n \in 1..MaxTrim :
                    /\ n <= Len(text) /\ \A i \in Len(text) - n + 1..Len(text) : text[i] \in Closing
                    /\ Parses(SubSeq(text, 1, Len(text) - n))}
    IN  IF cuts = {} THEN EmptyArgs
        ELSE SubSeq(text, 1, Len(text) - (CHOOSE n \in cuts : \A m \in cuts : n <= m))

\* _repair_json_args
Repair(text) ==
    LET stripped == StripCommas(text)
        balanced == StripCommas(Balanced(stripped))
    IN  CASE text \in {<<>>, <<"None">>} -> EmptyArgs
          [] text \notin {<<>>, <<"None">>} /\ Parses(text) -> text
          [] ~Parses(text) /\ Parses(stripped) -> stripped
          [] ~Parses(text) /\ ~Parses(stripped) /\ Parses(balanced) -> balanced
          [] OTHER -> Trimmed(balanced)

-----------------------------------------------------------------------------
(* Approvals.  A call says what it would be remembered by: the one in own   *)
(* if its tool has a resolver, the first word of a command, the directory of a path,    *)
(* the host of an address; Nil where there is none.                         *)

Subject(kind, value) == [kind |-> kind, value |-> value, rememberable |-> value # Nil]

ResolveSubject(call) ==
    IF call.own # {} THEN CHOOSE s \in call.own : TRUE
    ELSE CASE call.tool = "shell_exec" -> Subject("shell", call.utility)
           [] call.tool \in {"file_write", "file_patch"} -> Subject("path", call.parent)
           [] call.tool = "web_fetch" -> Subject("domain", call.domain)
           [] OTHER -> Subject("tool", call.tool)

Rule(subject) == <<subject.kind, subject.value>>

IsAutoApproved(subject, rules) == subject.rememberable /\ Rule(subject) \in ToSet(rules)

RememberApproval(subject, rules) ==
    IF ~subject.rememberable \/ Rule(subject) \in ToSet(rules) THEN rules
    ELSE Append(rules, Rule(subject))

\* One deferred call; choice is what the user says when asked.
CollectOne(s, call, choice) ==
    LET subject == ResolveSubject(call)
        auto    == IsAutoApproved(subject, s.rules)
    IN  IF call.questions THEN [s EXCEPT !.decisions = Append(@, "answered")]
        ELSE IF auto THEN [s EXCEPT !.decisions = Append(@, "yes")]
        ELSE [decisions |-> Append(s.decisions, IF choice \in {"y", "a"} THEN "yes" ELSE "no"),
              rules |-> IF choice = "a" THEN RememberApproval(subject, s.rules) ELSE s.rules,
              asked |-> Append(s.asked, call)]

\* _collect_deferred_tool_approvals
Collect(calls, choices, rules) ==
    FoldLeft(LAMBDA s, i : CollectOne(s, calls[i], choices[i]),
             [decisions |-> <<>>, rules |-> rules, asked |-> <<>>], [i \in DOMAIN calls |-> i])

-----------------------------------------------------------------------------
(* Commands.  A command is its words and the signs it has: those of Deny    *)
(* and "chain", an operator of the shell; a word is text and plain, whether *)
(* it is free of the patterns of paths, globs and variables.                *)

Deny == {"control", "heredoc", "env_injection", "destruction", "remote_exec", "remote_eval", "fork_bomb"}

Texts(words) == [i \in DOMAIN words |-> words[i].text]

\* _is_safe_command: the longest safe command it begins with decides.
IsSafeCommand(cmd, safe) ==
    LET begins == {p \in safe : p # <<>> /\ IsPrefix(p, Texts(cmd.words))}
        rest   == CHOOSE p \in begins : \A q \in begins : Len(q) <= Len(p)
    IN  /\ "chain" \notin cmd.signs
        /\ begins # {}
        /\ \A i \in Len(rest) + 1..Len(cmd.words) : cmd.words[i].plain

EvaluateShellCommand(cmd, safe) ==
    IF cmd.signs \cap Deny # {} THEN "deny"
    ELSE IF IsSafeCommand(cmd, safe) THEN "allow" ELSE "require_approval"

\* build_subprocess_env: what of the host may pass, the pagers, then the skill's.
SubprocessEnv(host, extra, allowed, forced) ==
    LET taken == DOMAIN extra \ allowed
    IN  [k \in (DOMAIN host \cap allowed) \cup DOMAIN forced \cup taken |->
            IF k \in taken THEN extra[k] ELSE IF k \in DOMAIN forced THEN forced[k] ELSE host[k]]

\* run_command.  p.shell is when the shell ends by itself, p.pipe when the last
\* process closes the output.  A command is over when both have happened; when
\* that takes too long its group is killed, if the shell is still there.
RunCommand(p, timeout) ==
    LET over == IF p.pipe > p.shell THEN p.pipe ELSE p.shell
    IN  CASE over <= timeout /\ p.decodes  -> [result |-> "exit", code |-> p.code, killed |-> FALSE]
          [] over <= timeout /\ ~p.decodes -> [result |-> "error", code |-> Nil, killed |-> FALSE]
          [] over > timeout -> [result |-> "timeout", code |-> Nil, killed |-> p.shell > timeout]

\* What a run comes back to the model as.
Reported(run) ==
    CASE run.result = "exit" /\ run.code = 0 -> "output"
      [] run.result = "exit" /\ run.code # 0 -> "failure"
      [] run.result # "exit" -> "retry"

\* shell_exec
ShellExec(cmd, safe, approved, inside, p, timeout, max_timeout) ==
    LET policy == EvaluateShellCommand(cmd, safe)
    IN  CASE policy = "deny" -> "failure"
          [] policy = "require_approval" /\ ~approved -> "deferred"
          [] (policy = "allow" \/ (policy = "require_approval" /\ approved)) /\ ~inside -> "failure"
          [] OTHER -> Reported(RunCommand(p, IF timeout < max_timeout THEN timeout ELSE max_timeout))

\* code_execute
CodeExecute(cmd, safe, approved, p, timeout, max_timeout) ==
    CASE EvaluateShellCommand(cmd, safe) = "deny" -> "failure"
      [] EvaluateShellCommand(cmd, safe) # "deny" /\ ~approved -> "deferred"
      [] OTHER -> Reported(RunCommand(p, IF timeout < max_timeout THEN timeout ELSE max_timeout))

-----------------------------------------------------------------------------
(* What ToolGate does to calls, arguments, rules and commands, against     *)
(* what it is to do, for given ones.                                       *)

\* A response keeps the first of equal calls, and everything else, in order.
DuplicatesGo(parts) ==
    LET kept  == Deduped(parts)
        first == {i \in DOMAIN parts : \A j \in 1..i - 1 : ~SameCall(parts[i], parts[j])}
    IN  kept = [n \in DOMAIN SetToSortSeq(first, <) |-> parts[SetToSortSeq(first, <)[n]]]

\* Arguments that parse stay as they are; others come out as some that do.
RepairIsSafe(text) ==
    /\ Parses(Repair(text))
    /\ Parses(text) => Repair(text) = text
    /\ Repair(Repair(text)) = Repair(text)

\* Arguments that were cut off outside of a string keep all that was there but
\* a comma at the end; closers too many are all that goes.
InString(text) == FoldLeft(LAMBDA q, ch : IF ch = "quote" THEN ~q ELSE q, FALSE, text)
RepairIsKind(text) ==
    Parses(text) =>
        /\ \A n \in 1..Len(text) :
              LET cut  == SubSeq(text, 1, n)
                  kept == IF cut[n] = "," THEN SubSeq(cut, 1, n - 1) ELSE cut
              IN  ~InString(cut) => IsPrefix(kept, Repair(cut))
        /\ text[1] \in Opening => \A c, d \in Closing : Repair(text \o <<c, d>>) = text

\* A call runs without being asked for only by a rule that an earlier "always"
\* for the same subject left, and then always; a call with nothing to remember
\* it by is always asked for; a batch may have rules from before.
AskedUnlessRuled(calls, choices) ==
    LET s == Collect(calls, choices, <<>>)
        subject(i) == ResolveSubject(calls[i])
        granted(i) == \E j \in 1..i - 1 :
                         /\ ~calls[j].questions /\ choices[j] = "a"
                         /\ subject(i).rememberable /\ Rule(subject(j)) = Rule(subject(i))
        asks == SelectSeq([i \in DOMAIN calls |-> i], LAMBDA i : ~calls[i].questions /\ ~granted(i))
    IN  /\ s.asked = [n \in DOMAIN asks |-> calls[asks[n]]]
        /\ \A i \in DOMAIN calls :
              s.decisions[i] = IF calls[i].questions THEN "answered"
                               ELSE IF granted(i) \/ choices[i] \in {"y", "a"} THEN "yes" ELSE "no"
        /\ \A n \in 0..Len(calls) :
              LET one == Collect(SubSeq(calls, 1, n), choices, <<>>)
                  two == Collect(SubSeq(calls, n + 1, Len(calls)),
                                 SubSeq(choices, n + 1, Len(choices)), one.rules)
              IN  one.decisions \o two.decisions = s.decisions /\ two.rules = s.rules

\* No command that runs unasked has a sign or, behind a safe command, a word
\* that is not plain, whatever else is safe; and what is added to the safe ones
\* takes no command away unless it is a longer beginning of it.
UnaskedIsPlain(cmd, safe) ==
    EvaluateShellCommand(cmd, safe) = "allow" =>
        /\ cmd.signs = {}
        /\ \E p \in safe : /\ IsPrefix(p, Texts(cmd.words))
                           /\ \A i \in Len(p) + 1..Len(cmd.words) : cmd.words[i].plain
        /\ \A more \in safe : EvaluateShellCommand(cmd, safe \ {more}) \in {"allow", "require_approval"}

\* The variables that pass from the host are the host's, whatever a skill sets.
HostEnvStands(host, extra, allowed, forced) ==
    LET env == SubprocessEnv(host, extra, allowed, forced)
    IN  /\ \A k \in allowed : k \in DOMAIN env <=> k \in DOMAIN host \cup (DOMAIN forced \cap allowed)
        /\ \A k \in (DOMAIN host \cap allowed) \ DOMAIN forced : env[k] = host[k]
        /\ DOMAIN env \subseteq allowed \cup DOMAIN forced \cup DOMAIN extra

\* A command whose shell ended in time and that is reported as timed out leaves
\* what it started running: only then is nothing killed.
LeftRunning(p, timeout) ==
    LET run == RunCommand(p, timeout)
    IN  run.result = "timeout" /\ ~run.killed <=> p.shell <= timeout /\ p.pipe > timeout

=============================================================================
