------------------------------ MODULE History ------------------------------
(***************************************************************************)
(* Message lists as the agent sees them, and the operations on them that   *)
(* co_cli/context defines: where compaction may cut a list, what it puts   *)
(* in place of the part it drops, and what the turn loop does to the tail  *)
(* of a list when a turn is interrupted or a request is rejected.          *)
(*                                                                         *)
(* A message keeps only what the properties tell apart: its kind, and the  *)
(* set "of" of the things it stands for (the user's prompt, a tool call,   *)
(* the turn it belongs to).  A compaction marker stands for everything     *)
(* the dropped messages stood for.  Indices are 1-based here; the Python   *)
(* head_end (a count) keeps its value, tail_start is one larger.           *)
(*                                                                         *)
(* A list names its messages one by one, as they were made.  The SDK joins *)
(* adjacent requests of the list it sends, all but the newest one, into    *)
(* one (_clean_message_history: their parts in their order, tool returns   *)
(* first), unless their instructions differ, and hands that list back.     *)
(* What Python holds may so be shorter: one of Joinings(h).  Where a list  *)
(* is joined matters in two places: no cut falls inside a joined request,  *)
(* so a cut is here one that some joining allows; and a count of messages  *)
(* (main.py) is one of the joined list (Session).                          *)
(***************************************************************************)
EXTENDS SequencesExt

CarrierKinds == {"prompt", "reflect", "abort", "marker", "snapshot"}
TextKinds    == {"text", "saycall"}
CallKinds    == {"call", "saycall"}
Kinds        == CarrierKinds \cup TextKinds \cup CallKinds \cup {"ret"}

Msg     == [k : Kinds, of : SUBSET Nat]
M(k, S) == [k |-> k, of |-> S]

\* A ModelRequest with a UserPromptPart.  Markers, todo snapshots, reflections
\* and abort markers are requests of that shape too.
IsCarrier(m) == m.k \in CarrierKinds
\* A ModelRequest.
IsRequest(m) == m.k \in CarrierKinds \cup {"ret"}
\* A ModelResponse with a TextPart or a ThinkingPart.
HasText(m)   == m.k \in TextKinds
\* A ModelResponse with a ToolCallPart.
HasCall(m)   == m.k \in CallKinds

Covered(h) == UNION {h[i].of : i \in DOMAIN h}

\* The elements of a list that are in S, in their order.
Among(h, S) ==
    LET upTo[i \in 0..Len(h)] ==
            IF i = 0 THEN <<>>
            ELSE IF h[i] \in S THEN Append(upTo[i - 1], h[i]) ELSE upTo[i - 1]
    IN  upTo[Len(h)]

\* The last message is a response whose tool calls nothing has answered.
Dangling(h) == h # <<>> /\ HasCall(Last(h))

DropDangling(h) == IF Dangling(h) THEN Front(h) ELSE h

\* _clean_message_history: the requests at i - 1 and i can become one.
Joinable(h) == {i \in 2 .. Len(h) : IsRequest(h[i - 1]) /\ IsRequest(h[i])}

Both(m, n) == M(IF m.k = "ret" THEN n.k ELSE m.k, m.of \cup n.of)

\* h with the messages at the places in B joined to the ones before them.
Join(h, B) ==
    LET upTo[i \in 0..Len(h)] ==
            IF i = 0 THEN <<>>
            ELSE IF i \in B /\ upTo[i - 1] # <<>>
                 THEN Append(Front(upTo[i - 1]), Both(Last(upTo[i - 1]), h[i]))
                 ELSE Append(upTo[i - 1], h[i])
    IN  upTo[Len(h)]

\* What Python may hold for h.
Joinings(h) == {Join(h, B) : B \in SUBSET Joinable(h)}

-----------------------------------------------------------------------------
(***************************************************************************)
(* The boundary planner.                                                   *)
(***************************************************************************)
\* find_first_run_end + 1: how many messages stay pinned at the head.
HeadEnd(h) == LET texts == {i \in DOMAIN h : HasText(h[i])}
              IN  IF texts = {} THEN 1 ELSE Min(texts)

GroupStarts(h) == {i \in DOMAIN h : i = 1 \/ IsCarrier(h[i])}

\* The places where the tail can start in a list that is not joined.  The walk
\* from the end always takes the last group (_MIN_RETAINED_TURN_GROUPS = 1) and
\* stops at the head or at the tail budget, so any group past the head can be
\* the first one kept.
TailStarts(h) == IF Cardinality(GroupStarts(h)) < 2 THEN {}
                 ELSE {s \in GroupStarts(h) : s > HeadEnd(h) + 1}

\* The requests from s to the next one with a user prompt can be one request,
\* which opens a group.
Carries(h, s) == \E i \in s .. Len(h) :
                    /\ IsCarrier(h[i])
                    /\ \A j \in s .. i : IsRequest(h[j])

\* The same of a joined list: with no text response the head is the first
\* request, whatever is joined to it.
HeadEnds(h) ==
    {HeadEnd(h)}
      \cup {e \in DOMAIN h : /\ \A i \in DOMAIN h : ~HasText(h[i])
                             /\ \A i \in 1 .. e : IsRequest(h[i])}

\* Seeded fault: the last group is not pinned to the tail.
CutsUnpinned(h) ==
    {c \in HeadEnds(h) \X (1 .. Len(h) + 1) :
        c[2] > c[1] + 1 /\ (c[2] = Len(h) + 1 \/ Carries(h, c[2]))}

\* Where the boundary planner may cut: the end of the head, the start of the tail.
Cuts(h) == {c \in HeadEnds(h) \X DOMAIN h : c[2] > c[1] + 1 /\ Carries(h, c[2])}

Marker(dropped) == M("marker", Covered(dropped))
Snapshot        == M("snapshot", {})

\* compact_messages with head and tail cut at c: head, marker, todo snapshot when
\* there are active todos, tail.  Left out are the breadcrumbs it may put before the
\* tail, answered search_tools calls of the middle: the marker stands for them, and
\* no tail starts at one.
CompactAt(h, c, todos) ==
    SubSeq(h, 1, c[1])
      \o <<Marker(SubSeq(h, c[1] + 1, c[2] - 1))>>
      \o (IF todos THEN <<Snapshot>> ELSE <<>>)
      \o SubSeq(h, c[2], Len(h))

Compactions(h, todos) == {CompactAt(h, c, todos) : c \in Cuts(h)}

\* /compact drops everything: bounds (0, len, len).
CompactAll(h, todos) ==
    <<Marker(h)>> \o (IF todos THEN <<Snapshot>> ELSE <<>>)

=============================================================================
