---------------------------- MODULE ToolResults ----------------------------
(***************************************************************************)
(* What becomes of tool results in the message list: spilled to a file     *)
(* when they arrive (co_cli/tools/tool_io.py), and before every request    *)
(* replaced by references to later copies, cleared when older ones of      *)
(* their tool, and spilled largest first until the request fits            *)
(* (co_cli/context/history_processors.py); all of them cleared when a      *)
(* request overflows, and some dropped by a compaction.                    *)
(*                                                                         *)
(* Only the tool returns of the list are kept here, with the number of the *)
(* turn they belong to.  The processors' list becomes the run's own.  A    *)
(* failed segment, whose caller goes back to an earlier list, is in Turn.  *)
(***************************************************************************)
EXTENDS Integers, FiniteSets, History

CONSTANTS
    Compactable,    \* COMPACTABLE_TOOLS
    OtherTools,     \* tools whose results are neither referred to nor evicted
    Values,         \* what a tool may return
    SizeOf(_),      \* how long that is
    DedupMin,       \* _DEDUP_MIN_CHARS
    Preview,        \* TOOL_RESULT_PREVIEW_CHARS
    SpillOver,      \* SPILL_THRESHOLD_CHARS
    Keep,           \* COMPACTABLE_KEEP_RECENT
    Threshold,      \* spill_threshold_tokens
    MaxReturns,     \* bound: results of tools
    MaxTurns        \* bound: user prompts

ASSUME ToolResultsAssumption ==
    /\ Compactable \cap OtherTools = {}
    /\ \A v \in Values : SizeOf(v) \in Nat
    /\ DedupMin \in Nat /\ Preview \in Nat /\ SpillOver \in Nat
    /\ Preview <= SpillOver
    /\ Keep \in Nat \ {0} /\ Threshold \in Nat
    /\ MaxReturns \in Nat /\ MaxTurns \in Nat \ {0}

Tools == Compactable \cup OtherTools
Ids   == 1..MaxReturns

VARIABLES
    list,     \* the tool returns of the message list
    turn,     \* the turn in progress
    spoken,   \* some response had a text
    head,     \* the returns before the first one that had
    \* Not in the program:
    all,      \* every return there was: its tool and turn
    stripped, \* those cleared because of an overflow
    dropped   \* those dropped by a compaction

resultsVars == <<list, turn, spoken, head, all, stripped, dropped>>

\* v is what the tool returned, whether or not the message still has it; "to"
\* is the return a reference names.
Return ==
    [id : Ids, tool : Tools, v : Values, turn : 1..MaxTurns,
     kind : {"full", "spilled", "ref", "cleared"}, to : Ids \cup {0}]

Positions == DOMAIN list

\* A placeholder is as long as its preview, a reference or a marker is short.
Size(r) == CASE r.kind = "full"    -> SizeOf(r.v)
             [] r.kind = "spilled" -> Preview
             [] OTHER              -> 1

-----------------------------------------------------------------------------
(***************************************************************************)
(* dedup_tool_results                                                      *)
(***************************************************************************)
\* The last turn is left alone.
Older(l) == {i \in DOMAIN l : l[i].turn < turn}

\* Later returns of the same tool before the last turn.
LaterOfTool(l, i) == {j \in Older(l) : j > i /\ l[j].tool = l[i].tool}

\* is_dedup_candidate.  It looks at the length alone; references and the markers of
\* cleared results are taken to be shorter, which a marker that names a path is not if
\* the path is longer than about DedupMin.
Candidate(r) ==
    r.tool \in Compactable /\ r.kind \in {"full", "spilled"} /\ Size(r) >= DedupMin

SameKey(r, s) == r.tool = s.tool /\ r.kind = s.kind /\ r.v = s.v

Copies(l, i) == {j \in DOMAIN l : Candidate(l[j]) /\ SameKey(l[i], l[j])}

\* Seeded fault: the reference is to the earliest copy.
LatestCopyFirst(l, i) == CHOOSE j \in Copies(l, i) : \A k \in Copies(l, i) : j <= k

\* _build_latest_id_by_key
LatestCopy(l, i) == CHOOSE j \in Copies(l, i) : \A k \in Copies(l, i) : j >= k

\* _build_durable_call_ids
Durable(l, j) ==
    l[j].turn = turn \/ Cardinality(LaterOfTool(l, j)) < Keep

Reference(r, s) == [r EXCEPT !.kind = "ref", !.to = s.id]

Dedup(l) ==
    [i \in DOMAIN l |->
        IF /\ i \in Older(l) /\ Candidate(l[i])
           /\ LatestCopy(l, i) # i /\ Durable(l, LatestCopy(l, i))
        THEN Reference(l[i], l[LatestCopy(l, i)])
        ELSE l[i]]

-----------------------------------------------------------------------------
(***************************************************************************)
(* evict_old_tool_results, strip_all_tool_returns                          *)
(***************************************************************************)
Cleared(r) == [r EXCEPT !.kind = "cleared", !.to = 0]

\* Seeded fault: returns of the last turn count against the ones kept.
EvictedCountingAll(l, i) ==
    /\ i \in Older(l) /\ l[i].tool \in Compactable
    /\ Cardinality({j \in DOMAIN l : j > i /\ l[j].tool = l[i].tool}) >= Keep

\* Not among the ones _build_keep_ids keeps.
Evicted(l, i) ==
    /\ i \in Older(l) /\ l[i].tool \in Compactable
    /\ Cardinality(LaterOfTool(l, i)) >= Keep

Evict(l) == [i \in DOMAIN l |-> IF Evicted(l, i) THEN Cleared(l[i]) ELSE l[i]]

Strip(l) == [i \in DOMAIN l |-> Cleared(l[i])]

-----------------------------------------------------------------------------
(***************************************************************************)
(* enforce_request_size                                                    *)
(***************************************************************************)
Spilled(r) == [r EXCEPT !.kind = "spilled"]

Total(l) == FoldLeft(LAMBDA sum, r : sum + Size(r), 0, l)

\* Content that is not longer than a preview is handed back as it is.
MaySpill(r) == r.kind = "full" /\ SizeOf(r.v) > Preview

Candidates(l) == {i \in DOMAIN l : l[i].kind # "spilled"}

\* The largest one, the first of those as long.
Largest(l, S) ==
    CHOOSE i \in S : \A j \in S \ {i} :
        Size(l[i]) > Size(l[j]) \/ (Size(l[i]) = Size(l[j]) /\ i < j)

StillOver(sum) == sum > Threshold

\* One candidate of _spill_largest_first; the writes at the positions in bad fail.
SpillNext(l, bad, s) ==
    LET i == Largest(l, s.left)
    IN  IF s.left = {} THEN s
        ELSE IF StillOver(s.sum) /\ MaySpill(l[i]) /\ i \notin bad
        THEN [sum |-> s.sum - Size(l[i]) + Preview, left |-> s.left \ {i},
              out |-> s.out \cup {i}]
        ELSE [s EXCEPT !.left = @ \ {i}]

\* The positions _spill_largest_first spills.
SpilledOf(l, bad) ==
    LET upTo[n \in 0..Len(l)] ==
            IF n = 0 THEN [sum |-> Total(l), left |-> Candidates(l), out |-> {}]
            ELSE SpillNext(l, bad, upTo[n - 1])
    IN  upTo[Len(l)].out

Enforce(l, bad) ==
    LET out == SpilledOf(l, bad)
    IN  [i \in DOMAIN l |-> IF i \in out THEN Spilled(l[i]) ELSE l[i]]

-----------------------------------------------------------------------------
ResultsInit ==
    /\ list = <<>> /\ turn = 1
    /\ spoken = FALSE /\ head = 0
    /\ all = <<>> /\ stripped = {} /\ dropped = {}

\* spill_with_span, as a tool returns; the write may fail.
ToolReturns(tool, v) ==
    /\ Len(all) < MaxReturns
    /\ \E kind \in {"full"} \cup (IF SizeOf(v) > SpillOver THEN {"spilled"} ELSE {}) :
          list' = Append(list, [id |-> Len(all) + 1, tool |-> tool, v |-> v,
                                turn |-> turn, kind |-> kind, to |-> 0])
    /\ all' = Append(all, [tool |-> tool, turn |-> turn])
    /\ UNCHANGED <<turn, spoken, head, stripped, dropped>>

\* The first response with a text ends what find_first_run_end pins.
FirstText ==
    /\ ~spoken
    /\ spoken' = TRUE /\ head' = Len(list)
    /\ UNCHANGED <<list, turn, all, stripped, dropped>>

NewPrompt ==
    /\ turn < MaxTurns
    /\ turn' = turn + 1
    /\ UNCHANGED <<list, spoken, head, all, stripped, dropped>>

\* The processors run before a request.
Request ==
    /\ LET l == Evict(Dedup(list))
       IN  \E bad \in SUBSET {i \in Positions : MaySpill(l[i])} : list' = Enforce(l, bad)
    /\ UNCHANGED <<turn, spoken, head, all, stripped, dropped>>

\* recover_overflow_history, the first attempt.
Overflow ==
    /\ list' = Strip(list)
    /\ stripped' = stripped \cup {list[i].id : i \in Positions}
    /\ UNCHANGED <<turn, spoken, head, all, dropped>>

\* A compaction keeps the head and whole turns from turn t on.
Stays(t) == {list[i] : i \in {j \in Positions : j <= head \/ list[j].turn >= t}}

Compact(t) ==
    /\ t \in 2..turn
    /\ list' = Among(list, Stays(t))
    /\ dropped' = dropped \cup {r.id : r \in ToSet(list) \ Stays(t)}
    /\ UNCHANGED <<turn, spoken, head, all, stripped>>

ResultsNext ==
    \/ \E tool \in Tools, v \in Values : ToolReturns(tool, v)
    \/ FirstText \/ NewPrompt \/ Request \/ Overflow
    \/ \E t \in 2..MaxTurns : Compact(t)

ResultsSpec == ResultsInit /\ [][ResultsNext]_resultsVars

-----------------------------------------------------------------------------
(***************************************************************************)
(* Properties.                                                             *)
(***************************************************************************)
\* The variables keep to their types, and the returns stay paired with their
\* calls: one for an id, in the order the calls were answered.
ResultsTypeOK ==
    /\ list \in Seq(Return)
    /\ \A i, j \in Positions : i < j => list[i].id < list[j].id
    /\ turn \in 1..MaxTurns
    /\ spoken \in BOOLEAN /\ head \in 0..Len(list)
    /\ Len(all) <= MaxReturns
    /\ stripped \subseteq Ids /\ dropped \subseteq Ids

\* A reference can be followed: it names a later return of the same content
\* that was not cleared, and so, reference by reference, one that still has it
\* or the file it is in; later turns may make that one a reference as well or
\* spill it, but never evict it first.  Only in the head may the named return
\* have been dropped, by a compaction.
RefsLead ==
    \A i \in Positions : list[i].kind = "ref" =>
        IF list[i].to \in dropped THEN i <= head
        ELSE \E j \in Positions :
                /\ j > i /\ list[j].id = list[i].to
                /\ list[j].v = list[i].v /\ list[j].kind # "cleared"

\* The results of the last turn, the last Keep of every compactable tool before
\* it and all of other tools are there to read, unless an overflow stripped
\* them: new results, repeats, new prompts and compactions in between
\* notwithstanding.
RecentReadable ==
    \A i \in Positions :
        LET n == list[i].id
        IN  (/\ n \notin stripped
             /\ \/ all[n].turn = turn
                \/ all[n].tool \in OtherTools
                \/ Cardinality({m \in DOMAIN all : m > n /\ all[m].turn < turn
                                                /\ all[m].tool = all[n].tool}) < Keep)
            => list[i].kind # "cleared"

=============================================================================
