------------------------------ MODULE Prompting ------------------------------
(***************************************************************************)
(* What goes to the model beside the conversation: rule files, warnings    *)
(* about loops, the schemas of servers' tools; and what a refusal of it is *)
(* taken for.  co_cli/context/assembly.py, prompt_text.py and              *)
(* _http_error_classifier.py, co_cli/tools/mcp_schema.py.                  *)
(***************************************************************************)
EXTENDS Integers, Sequences, FiniteSets, TLC, SequencesExt

-----------------------------------------------------------------------------
(* Rule files: orders of the files by their names, 0 for a name that does   *)
(* not have the form.                                                       *)

\* _collect_rule_files
CollectRuleFiles(orders) ==
    LET wanted == 1..Len(orders)
    IN  IF orders = <<>> \/ {orders[i] : i \in wanted} # wanted THEN [raised |-> TRUE, files |-> <<>>]
        ELSE [raised |-> FALSE,
              files  |-> [n \in wanted |-> CHOOSE i \in wanted : orders[i] = n]]

-----------------------------------------------------------------------------
(* Warnings.  A response is the sequence of the calls it makes, a request   *)
(* that of the returns it brings, the oldest message first.                 *)

\* The scan is from the last message back, and forward in each.
Scanned(messages) == FlattenSeq(Reverse(messages))

Streak(items, Same(_)) ==
    Cardinality({n \in 1..Len(items) : \A m \in 1..n : Same(items[m])})

\* _count_consecutive_same_calls
CountSameCalls(responses) ==
    LET calls == Scanned(responses) IN Streak(calls, LAMBDA c : c = calls[1])

\* _is_shell_error_return with the test of its caller
IsShellError(return) == return.shell /\ (return.flagged \/ return.reads)

\* _count_consecutive_shell_errors
CountShellErrors(requests) == Streak(Scanned(requests), IsShellError)

\* safety_prompt_text
SafetyPrompt(responses, requests, doom, reflections) ==
    (IF CountSameCalls(responses) >= doom THEN {"loop"} ELSE {})
        \cup (IF CountShellErrors(requests) >= reflections THEN {"shell"} ELSE {})

-----------------------------------------------------------------------------
(* Refusals.  A body is none, a text or a dictionary; the flags say where   *)
(* in it a code or a phrase of the known ones stands.                       *)

\* _extract_raw_message with the test of its caller
RawSays(raw) == raw \in {"error", "message"}

\* _body_has_overflow_evidence
HasOverflowEvidence(body) ==
    CASE body.kind = "none" -> FALSE
      [] body.kind = "text" -> body.says
      [] body.kind = "dict" ->
            \/ body.error = "dict" /\ (body.code \/ body.message \/ RawSays(body.raw))
            \/ body.flat

\* is_context_overflow
IsContextOverflow(status, body) == status = 413 \/ (status = 400 /\ HasOverflowEvidence(body))

-----------------------------------------------------------------------------
(* Schemas.  A node is a function from some of "type", "properties",        *)
(* "required", "items", "anyOf"; a type is a sequence of names, a single    *)
(* one standing for itself; "junk" is what is no dictionary.                *)

Junk == "junk" :> TRUE
Has(node, key) == key \in DOMAIN node
IsType(node, name) == Has(node, "type") /\ node["type"] = <<name>>
With(node, key, value) == (key :> value) @@ node
Empty == [n \in {} |-> Junk]

\* _fix_type_array
FixTypeArray(node) ==
    LET kept == SelectSeq(node["type"], LAMBDA t : t # "null")
    IN  IF Has(node, "type") /\ Len(node["type"]) # 1
        THEN With(node, "type", IF kept = <<>> THEN <<"object">> ELSE <<kept[1]>>)
        ELSE IF ~Has(node, "type") /\ (Has(node, "properties") \/ Has(node, "required"))
             THEN With(node, "type", <<"object">>) ELSE node

\* _collapse_nullable_union
CollapseNullableUnion(node) ==
    IF ~Has(node, "anyOf") THEN node
    ELSE LET left == SelectSeq(node["anyOf"], LAMBDA b : ~IsType(b, "null"))
         IN  IF Len(left) = 1 THEN left[1] ELSE node

\* _fix_object_shape
FixObjectShape(node) ==
    LET shaped == IF IsType(node, "object") /\ ~Has(node, "properties")
                  THEN With(node, "properties", Empty) ELSE node
        valid  == shaped["required"] \cap DOMAIN shaped["properties"]
    IN  IF ~(Has(shaped, "required") /\ Has(shaped, "properties")) THEN shaped
        ELSE IF valid # {} THEN With(shaped, "required", valid)
        ELSE [k \in DOMAIN shaped \ {"required"} |-> shaped[k]]

\* _sanitize_node with _recurse_children
RECURSIVE SanitizeNode(_)
SanitizeNode(node) ==
    IF node = Junk THEN ("type" :> <<"object">>) @@ ("properties" :> Empty)
    ELSE LET n == FixObjectShape(CollapseNullableUnion(FixTypeArray(node)))
         IN  [k \in DOMAIN n |->
                CASE k = "properties" -> [p \in DOMAIN n[k] |-> SanitizeNode(n[k][p])]
                  [] k = "items"      -> SanitizeNode(n[k])
                  [] k = "anyOf"      -> [i \in DOMAIN n[k] |-> SanitizeNode(n[k][i])]
                  [] OTHER            -> n[k]]

\* sanitize_mcp_schema
SanitizeMcpSchema(schema) ==
    LET n     == SanitizeNode(schema)
        typed == IF Has(n, "type") THEN n ELSE With(n, "type", <<"object">>)
    IN  IF IsType(typed, "object") /\ ~Has(typed, "properties")
        THEN With(typed, "properties", Empty) ELSE typed

-----------------------------------------------------------------------------
(* What is to hold of rule files, warnings, refusals and schemas, and      *)
(* where it does not.                                                      *)

\* Rule files are read all and in order, or none is.
RulesAreWhole(orders) ==
    LET r == CollectRuleFiles(orders)
    IN  IF r.raised
        THEN orders = <<>> \/ \E n \in 1..Len(orders) : \A i \in 1..Len(orders) : orders[i] # n
        ELSE Len(r.files) = Len(orders) /\ \A n \in 1..Len(orders) : orders[r.files[n]] = n

\* Where every response makes one call, the count is that of the last calls.
LastCalls(calls) ==
    Streak(Reverse(calls), LAMBDA c : c = calls[Len(calls)])
SingleCallsAreCounted(calls) ==
    CountSameCalls([i \in 1..Len(calls) |-> <<calls[i]>>]) = LastCalls(calls)

\* Responses that make several at once are each scanned from their first.
CountsAsWritten(responses) ==
    CountSameCalls(responses) = LastCalls(FlattenSeq(responses))

\* A warning of the shell is given only if there was nothing but its failures since
\* at least so many returns, and a loop only if the last response has a part in it.
WarningsAreFounded(responses, requests, doom, reflections) ==
    LET told == SafetyPrompt(responses, requests, doom, reflections)
        last == requests[Len(requests)]
    IN  /\ "shell" \in told /\ requests # <<>> => \A i \in 1..Len(last) :
              i <= reflections => IsShellError(last[i])
        /\ "loop" \in told => Len(FlattenSeq(responses)) >= doom

\* No other refusal than 400 and 413 is taken for an overflow, and 400 only with
\* evidence.
OverflowIsFounded(status, body) ==
    IsContextOverflow(status, body) =>
        status = 413 \/ (status = 400 /\ (body.says \/ body.code \/ body.message \/ RawSays(body.raw) \/ body.flat))

\* A phrase that is the whole of a text is found, the same one as the error of a
\* dictionary is not.
PhraseIsMissed(body) ==
    /\ HasOverflowEvidence([body EXCEPT !.kind = "text", !.says = TRUE])
    /\ ~HasOverflowEvidence([body EXCEPT !.kind = "dict", !.error = "text", !.says = TRUE, !.flat = FALSE])

\* Every node of a schema that is in use.
RECURSIVE Nodes(_)
Nodes(node) ==
    {node} \cup
        (IF Has(node, "properties")
         THEN UNION {Nodes(node["properties"][p]) : p \in DOMAIN node["properties"]} ELSE {})
        \cup (IF Has(node, "items") THEN Nodes(node["items"]) ELSE {})
        \cup (IF Has(node, "anyOf") THEN UNION {Nodes(node["anyOf"][i]) : i \in DOMAIN node["anyOf"]} ELSE {})

\* What is required is declared wherever something is, and an object declares.
ShapesFit(schema) ==
    \A n \in Nodes(SanitizeMcpSchema(schema)) :
        /\ Has(n, "required") /\ Has(n, "properties") => n["required"] \subseteq DOMAIN n["properties"]
        /\ IsType(n, "object") => Has(n, "properties")

\* Types are single, if no union is taken apart.
TypesAreSingle(schema) ==
    \A n \in Nodes(SanitizeMcpSchema(schema)) : Has(n, "type") => Len(n["type"]) = 1

\* A schema that has been made fit is left as it is.
IsSettled(schema) ==
    LET once == SanitizeMcpSchema(schema) IN SanitizeMcpSchema(once) = once

\* A tool's parameters are those its schema has.
KeepsProperties(schema) ==
    Has(schema, "properties") =>
        LET made == SanitizeMcpSchema(schema)
        IN  Has(made, "properties") /\ DOMAIN made["properties"] = DOMAIN schema["properties"]

=============================================================================
