----------------------------- MODULE MCToolCalls -----------------------------
(***************************************************************************)
(* What tool calls leave behind for later steps: the count that caps them  *)
(* and the task that one of them started in the background.  The two share *)
(* no variable, so a property of one is seen in the behaviours in which    *)
(* the other stays where it starts.                                        *)
(* And what is before and behind a tool on all small calls.                *)
(***************************************************************************)
EXTENDS MCBackground, ToolCallCap

CallsInit == Init /\ CapInit

\* No task was started (which signals its processes would survive is one choice
\* of several).
NoTask == Init /\ stubborn = {}

CallsNext ==
    \/ CapInit /\ Next    /\ UNCHANGED capVars
    \/ NoTask  /\ CapNext /\ UNCHANGED vars

CallsSpec == CallsInit /\ [][CallsNext]_<<vars, capVars>> /\ Fairness

-----------------------------------------------------------------------------
(* Before and behind a tool.                                                *)

Facts == INSTANCE ToolGate

Tokens == {"{", "}", "[", "]", ",", "x", "quote"}

\* Whatever text comes as arguments, what leaves the repair is an object or a
\* value that parses, and what parsed is as it was: texts of up to four tokens.
ASSUME RepairsParse == \A n \in 0..4 : \A text \in [1..n -> Tokens] : Facts!RepairIsSafe(text)

\* The repair loses nothing of arguments that were cut off outside of a string:
\* the beginnings of all that parse, of up to five tokens.
ASSUME RepairsKeep == \A n \in 0..5 : \A text \in [1..n -> Tokens] : Facts!RepairIsKind(text)

Parts ==
    [call : {FALSE}, tool : {"t"}, args : [form : {"text"}, value : {1}, spaced : {FALSE}]]
        \cup [call : {TRUE}, tool : {"t", "u"},
              args : [form : {"text", "parsed"}, value : {1}, spaced : BOOLEAN]]

\* Of equal calls in a response one is left, the first.
ASSUME DuplicatesAreDropped == \A parts \in Facts!BoundedSeq(Parts, 3) : Facts!DuplicatesGo(parts)

Asked(tool, own, value, questions) ==
    [tool |-> tool, own |-> own, utility |-> value, parent |-> value, domain |-> value,
     questions |-> questions]

Deferred ==
    {Asked("shell_exec", {}, v, FALSE) : v \in {"p", Facts!Nil}}
        \cup {Asked(tool, {}, "p", FALSE) : tool \in {"file_write", "file_patch", "web_fetch", "other"}}
        \cup {Asked("clarify", {}, Facts!Nil, TRUE),
              Asked("skill_manage", {Facts!Subject("tool", "p")}, Facts!Nil, FALSE)}

\* A user is asked for each call but those an "always" covers: batches of three.
ASSUME ApprovalsAreAsked ==
    \A calls \in [1..3 -> Deferred], choices \in [1..3 -> {"y", "a", "n"}] :
        Facts!AskedUnlessRuled(calls, choices)

CommandWords == [text : {"git", "log"}, plain : BOOLEAN]

\* What runs unasked is a safe command with plain words, whatever is safe.
ASSUME UnaskedCommandsArePlain ==
    \A words \in Facts!BoundedSeq(CommandWords, 3), signs \in {{}, {"chain"}, {"control"}},
       safe \in SUBSET {<<"git">>, <<"git", "log">>, <<"log">>} :
        Facts!UnaskedIsPlain([words |-> words, signs |-> signs], safe)

Environments(value) == UNION {[names -> {value}] : names \in SUBSET {"PATH", "PAGER", "X"}}

\* No skill changes what a command has of the host.
ASSUME HostVariablesStand ==
    \A host \in Environments("host"), extra \in Environments("skill") :
        Facts!HostEnvStands(host, extra, {"PATH"}, [name \in {"PAGER"} |-> "cat"])

\* A command reported as timed out is killed unless its shell had ended already.
ASSUME CommandsMayBeLeft ==
    \A p \in [shell : 0..3, pipe : 0..3, code : 0..1, decodes : BOOLEAN] : Facts!LeftRunning(p, 2)

-----------------------------------------------------------------------------
(* Pages and searches: attempts, waits, and what is fetched.                *)

Web == INSTANCE Web

Told(seconds) == [kind |-> "number", value |-> seconds]

Answered(code, challenge, ms, after, body) ==
    [kind |-> "status", code |-> code, challenge |-> challenge, ms |-> ms, after |-> after, body |-> body]

ServerAnswers ==
    {Web!PlainStatus(code) : code \in {200, 301, 404, 429}}
        \cup {Answered(403, TRUE, Web!Nil, Web!Nil, Web!Nil),
              Answered(503, FALSE, Web!Nil, Told(40), Web!Nil),
              [kind |-> "timeout"], [kind |-> "unsafe"]}

\* A call asks twice for each attempt at most and stops at what another would not mend.
ASSUME RequestsAreFew ==
    \A server \in [1..4 -> ServerAnswers], fallback \in BOOLEAN :
        Web!RequestsAreBounded(server, 1, fallback, 5, 30, 20)

\* No wait is empty or longer than the settings allow.
ASSUME WaitsAreBounded ==
    \A server \in [1..4 -> ServerAnswers], base \in {0, 5, 30}, jitter \in {0, 20, 100} :
        Web!WaitsAreBounded(server, 1, base, 30, jitter)

\* Without jitter the waits of a call never get shorter.
ASSUME WaitsGrow == \A retries \in 0..10, base \in {1, 5}, most \in {5, 80} : Web!WaitsGrow(retries, base, most)

\* What a server tells is kept to, in whichever place and form it tells it.
ASSUME ServersAreHeard ==
    \A ms \in {Web!Nil, Told(-5), Told(40), Told(250), Told(9000)},
       after \in {Web!Nil, Told(0), Told(30), [kind |-> "date", value |-> -20],
                  [kind |-> "date", value |-> 90], [kind |-> "junk"]},
       body \in {Web!Nil, Told(0), Told(20)}, code \in {429, 500}, most \in {5, 80} :
        Web!ToldIsKept(Answered(code, FALSE, ms, after, body), most)

Addresses ==
    [readable : {TRUE}, version : {4}, marks : {{}, {"private"}, {"shared"}}, mapped : {{}}]
        \cup [readable : BOOLEAN, version : {6}, marks : {{}, {"shared"}},
              mapped : {{}, {{"shared"}}, {{"loopback"}}, {{}}}]

\* Both checks of a name agree, but for addresses that cannot be read.
ASSUME NamesAreCheckedTwice ==
    \A n \in 0..3, kind \in {"failed", "addresses"},
       host \in {<<>>, <<"metadata", "goog">>, <<"example", "com">>} : \A ips \in [1..n -> Addresses] :
        (kind = "failed" => n = 0) => Web!ChecksOfNames(host, [kind |-> kind, ips |-> ips])

Domains == {<<"com">>, <<"example", "com">>, <<"test">>, <<"www", "example", "com">>}

\* A rule for a domain is one for its sub-domains; blocked goes before allowed.
ASSUME RulesAreOfDomains ==
    \A host \in Domains, label \in {"www", "test"}, allowed, blocked \in SUBSET Domains :
        Web!DomainsHaveSubdomains(host, label, allowed, blocked)

\* A page that was cut says so, unless its bytes were cut and what is left fits.
ASSUME CutsAreTold ==
    \A response \in [mime : {"text", "image"}, html : BOOLEAN, size : 0..8, width : 1..2],
       format \in {"markdown", "text"}, mostBytes \in 1..6, mostChars \in 1..4 :
        Web!CutsAreTold(response, format, mostBytes, mostChars, [n \in 0..8 |-> n \div 2])

=============================================================================
