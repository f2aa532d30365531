------------------------------- MODULE Display -------------------------------
(***************************************************************************)
(* What the terminal shows of a segment: the renderer, which buffers the   *)
(* model's text and thinking (co_cli/display/stream_renderer.py), and the  *)
(* surfaces of the terminal (co_cli/display/core.py), as functions of the  *)
(* stream's events (_handle_stream_event of co_cli/context/orchestrate.py).*)
(*                                                                         *)
(* A text is the sequence of the pieces that came, which may stop a        *)
(* sentence; labels and ids of calls are sequences too; screen is what     *)
(* stays on it, but for the last pictures of statuses and labels.  A       *)
(* surface that is not there shows Nothing.                                *)
(***************************************************************************)
EXTENDS Integers, SequencesExt

Nothing == <<>>

-----------------------------------------------------------------------------
(* The terminal: text, thinking and status are live surfaces; that of the   *)
(* tools is there while there are labels to show.                           *)

Blank ==
    [text |-> Nothing, thinking |-> Nothing, status |-> Nothing, note |-> Nothing,
     tools |-> <<>>, labels |-> <<>>, typing |-> FALSE, pending |-> <<>>, screen |-> <<>>]

\* Labels by tool call.
Without(f, id) == [x \in DOMAIN f \ {id} |-> f[x]]
With(f, id, v) == [x \in DOMAIN f \cup {id} |-> IF x = id THEN v ELSE f[x]]

Say(s, kind, what) == [s EXCEPT !.screen = Append(@, <<kind, what>>)]

\* What the status says can be asked for (note) even when it is not shown.
ClearStatus(s) ==
    IF s.status = Nothing THEN s ELSE [s EXCEPT !.status = Nothing, !.note = Nothing]

OnTextDelta(s, t) == [ClearStatus(s) EXCEPT !.text = t]

\* A text that was never live is not shown.
OnTextCommit(s, t) ==
    IF s.text = Nothing THEN ClearStatus(s)
    ELSE [Say(ClearStatus(s), "text", t) EXCEPT !.text = Nothing]

OnThinkingDelta(s, t) == [ClearStatus(s) EXCEPT !.thinking = t]

OnThinkingCommit(s, t) ==
    LET closed == [ClearStatus(s) EXCEPT !.thinking = Nothing]
    IN  IF t = Nothing THEN closed ELSE Say(closed, "thinking", t)

OnToolStart(s, id, label) ==
    [ClearStatus(s) EXCEPT !.tools = With(@, id, label), !.labels = With(@, id, label)]

OnToolProgress(s, id, message) == [ClearStatus(s) EXCEPT !.tools = With(@, id, message)]

\* The panel has the label of the start; without one, the call's id.
OnToolComplete(s, id, result) ==
    LET closed == [s EXCEPT !.tools = Without(@, id), !.labels = Without(@, id)]
        label  == IF id \in DOMAIN s.labels THEN s.labels[id] ELSE id
    IN  IF result = Nothing THEN closed ELSE Say(closed, "panel", <<label, result>>)

\* While the user types, a status waits.
OnStatus(s, m) ==
    IF s.typing THEN [s EXCEPT !.note = m, !.pending = Append(@, m)]
    ELSE [s EXCEPT !.note = m, !.status = m]

OnReasoningProgress(s, m) ==
    IF m = Nothing THEN s ELSE [s EXCEPT !.note = m, !.status = m]

SetInputActive(s, on) ==
    IF on THEN [s EXCEPT !.typing = TRUE]
    ELSE [s EXCEPT !.typing = FALSE, !.pending = <<>>,
                   !.screen = @ \o [i \in DOMAIN s.pending |-> <<"status", s.pending[i]>>]]

OnFinalOutput(s, t) == Say(ClearStatus(s), "text", t)

\* A text that was live stays as it was last drawn.
Cleanup(s) ==
    [s EXCEPT !.screen = IF s.text = Nothing THEN @ ELSE Append(@, <<"text", s.text>>),
              !.text = Nothing, !.thinking = Nothing, !.status = Nothing, !.note = Nothing,
              !.tools = <<>>, !.labels = <<>>]

ActiveSurface(s) ==
    CASE s.text # Nothing         -> "text"
      [] s.text = Nothing /\ s.thinking # Nothing -> "thinking"
      [] s.text = Nothing /\ s.thinking = Nothing /\ s.tools # <<>> -> "tool"
      [] s.text = Nothing /\ s.thinking = Nothing /\ s.tools = <<>> /\ s.status # Nothing -> "status"
      [] OTHER -> "none"

-----------------------------------------------------------------------------
(* The renderer of a segment.  rendered and thought say that the surface    *)
(* was drawn since the buffer was empty: the first piece is always drawn,   *)
(* later ones when the interval has passed (due).                           *)

Renderer(mode) ==
    [mode |-> mode, text |-> <<>>, rendered |-> FALSE, thinking |-> <<>>, thought |-> FALSE,
     active |-> FALSE, streamed |-> FALSE]

\* v.r and v.s are renderer and terminal, v.callback is the call that progress is
\* reported for.
FlushThinking(v) ==
    IF ~v.r.active /\ v.r.thinking = <<>> THEN v
    ELSE [v EXCEPT !.r.thinking = <<>>, !.r.thought = FALSE, !.r.active = FALSE,
                   !.s = IF v.r.mode = "full" /\ v.r.thinking # <<>>
                         THEN OnThinkingCommit(@, v.r.thinking) ELSE @]

CommitText(v) ==
    IF v.r.text = <<>> THEN v
    ELSE [v EXCEPT !.r.text = <<>>, !.r.rendered = FALSE, !.s = OnTextCommit(@, v.r.text)]

AppendText(v, piece, due) ==
    LET u == FlushThinking(v)
        t == Append(u.r.text, piece)
    IN  IF u.r.rendered /\ ~due THEN [u EXCEPT !.r.text = t, !.r.streamed = TRUE]
        ELSE [u EXCEPT !.r.text = t, !.r.streamed = TRUE, !.r.rendered = TRUE,
                       !.s = OnTextDelta(@, t)]

\* _reduce_thinking: the last complete sentence.
Reduced(pieces) ==
    LET ends == {i \in DOMAIN pieces : pieces[i].stop}
        last == CHOOSE i \in ends : \A j \in ends : j <= i
        from == {0} \cup {i \in ends : i < last}
        prev == CHOOSE i \in from : \A j \in from : j <= i
    IN  IF ends = {} THEN Nothing ELSE SubSeq(pieces, prev + 1, last)

AppendThinking(v, piece, due) ==
    LET t == Append(v.r.thinking, piece)
        u == [v EXCEPT !.r.thinking = t]
    IN  CASE v.r.mode = "off" -> v
          [] v.r.mode # "off" /\ v.r.thought /\ ~due -> u
          [] v.r.mode = "summary" /\ (due \/ ~v.r.thought) ->
                [u EXCEPT !.r.thought = TRUE, !.s = OnReasoningProgress(@, Reduced(t))]
          [] v.r.mode = "full" /\ (due \/ ~v.r.thought) ->
                [u EXCEPT !.r.thought = TRUE, !.r.active = TRUE, !.s = OnThinkingDelta(@, t)]

FlushForToolOutput(v) == CommitText(FlushThinking(v))

Finish(v) == CommitText(FlushThinking(v))

-----------------------------------------------------------------------------
(* A segment. *)

\* _handle_tool_call_event: the one callback reports for the call that came last.
HandleToolCall(v, e) ==
    LET u == FlushForToolOutput(v)
    IN  [u EXCEPT !.callback = e.id,
                  !.s = IF u.r.mode = "summary" THEN @ ELSE OnToolStart(@, e.id, e.label)]

HandleToolResult(v, e) ==
    LET u == FlushForToolOutput(v)
    IN  [u EXCEPT !.callback = Nothing, !.s = OnToolComplete(@, e.id, e.result)]

\* _handle_stream_event, and between the events a tool that reports its progress.
HandleEvent(v, e) ==
    CASE e.kind = "text"     -> AppendText(v, e.piece, e.due)
      [] e.kind = "thinking" -> AppendThinking(v, e.piece, e.due)
      [] e.kind = "call"     -> HandleToolCall(v, e)
      [] e.kind = "result"   -> HandleToolResult(v, e)
      [] e.kind = "progress" -> IF v.callback = Nothing THEN v
                                ELSE [v EXCEPT !.s = OnToolProgress(@, v.callback, e.message)]

\* The surfaces after the events: a segment that comes to its end commits what
\* it has buffered, one that breaks off does not.
Streamed(mode, s, events) ==
    FoldLeft(HandleEvent, [r |-> Renderer(mode), s |-> s, callback |-> Nothing], events)

\* _execute_stream_segment and _emit_final_output_if_needed.
Segment(mode, s, events, ends, output) ==
    LET v     == Streamed(mode, s, events)
        done  == IF ends THEN Finish(v) ELSE v
        clean == Cleanup(done.s)
    IN  IF ends /\ ~done.r.streamed /\ output # Nothing THEN OnFinalOutput(clean, output) ELSE clean

\* prompt_selection: the item the keys lead to; idx counts from 0.
Selection(items, current, keys) ==
    LET start == IF current \in ToSet(items)
                 THEN (CHOOSE i \in DOMAIN items : items[i] = current /\ \A j \in 1..i - 1 : items[j] # current) - 1
                 ELSE 0
        press(m, k) ==
            IF m.over THEN m
            ELSE CASE k = "up"    -> [m EXCEPT !.idx = (@ - 1) % Len(items)]
                   [] k = "down"  -> [m EXCEPT !.idx = (@ + 1) % Len(items)]
                   [] k = "enter" -> [m EXCEPT !.over = TRUE, !.got = items[m.idx + 1]]
                   [] k = "quit"  -> [m EXCEPT !.over = TRUE]
                   [] OTHER       -> m
    IN  IF items = <<>> THEN Nothing
        ELSE FoldLeft(press, [idx |-> start, over |-> FALSE, got |-> Nothing], keys).got

-----------------------------------------------------------------------------
(* What the screen shows of a segment, for given streams of events.        *)

Mark == [at |-> 0, stop |-> FALSE]

\* A screen and a stream as things of the given kinds, piece by piece; a stream's
\* pieces are known by their places in it.
Pieces(screen, kinds) ==
    FlattenSeq([i \in DOMAIN screen |->
        CASE screen[i][1] \notin kinds -> <<>>
          [] screen[i][1] = "panel" -> <<Mark>>
          [] OTHER -> screen[i][2]])

Came(events, kinds) ==
    FlattenSeq([i \in DOMAIN events |->
        CASE events[i].kind \in kinds -> <<events[i].piece>>
          [] events[i].kind = "result" /\ events[i].result # Nothing -> <<Mark>>
          [] OTHER -> <<>>])

Placed(events) ==
    [i \in DOMAIN events |->
        IF events[i].kind \in {"text", "thinking"} THEN [events[i] EXCEPT !.piece.at = i] ELSE events[i]]

\* No thinking behind a text with no tool between.
Sorted(events) ==
    \A i \in 2..Len(events) : ~(events[i - 1].kind = "text" /\ events[i].kind = "thinking")

\* What the model said is on the screen once and in order, with the results of
\* tools where they came, however rarely the surfaces are drawn; so is, in full
\* mode, what it thought, and in the others nothing of it.
AllIsShown(mode, events) ==
    LET came  == Placed(events)
        shown == Segment(mode, Blank, came, TRUE, Nothing).screen
        kinds == {"text", "panel"} \cup IF mode = "full" THEN {"thinking"} ELSE {}
    IN  /\ Pieces(shown, {"text", "panel"}) = Came(came, {"text"})
        /\ mode = "full" => Pieces(shown, {"thinking", "panel"}) = Came(came, {"thinking"})
        /\ mode # "full" => Pieces(shown, {"thinking"}) = <<>>
        /\ Sorted(events) => Pieces(shown, kinds) = Came(came, kinds)

\* The answer is on the screen once, streamed or not, and whatever was left
\* there by another segment.
AnswerShownOnce(mode, before, events) ==
    LET came == Placed(events)
        s    == Segment(mode, Segment(mode, Blank, before, FALSE, Nothing), came, TRUE, <<Mark>>)
    IN  Pieces(SubSeq(s.screen, Len(Segment(mode, Blank, before, FALSE, Nothing).screen) + 1,
                      Len(s.screen)), {"text"})
        = IF Came(came, {"text"}) = Came(came, {}) THEN <<Mark>>
          ELSE SelectSeq(Came(came, {"text"}), LAMBDA p : p # Mark)

\* While a segment runs, the calls that are shown at work are those that have
\* begun and have no result, but in summary mode; none is when it is over.
ShownAtWork(mode, events) ==
    LET v == Streamed(mode, Blank, events)
        last(id) == {i \in DOMAIN events : events[i].kind \in {"call", "result"} /\ events[i].id = id
                        /\ \A j \in i + 1..Len(events) :
                              events[j].kind \in {"call", "result"} => events[j].id # id}
        working == {id \in {events[i].id : i \in {j \in DOMAIN events : events[j].kind = "call"}} :
                       \A i \in last(id) : events[i].kind = "call"}
    IN  /\ DOMAIN v.s.tools \subseteq working
        /\ mode # "summary" => DOMAIN v.s.tools = working /\ DOMAIN v.s.labels = working
        /\ \A ends \in BOOLEAN :
              ActiveSurface(Segment(mode, Blank, events, ends, Nothing)) = "none"

\* Whose progress is shown: that of the call that began last.
ProgressIsOfLast(events) ==
    LET v == Streamed("full", Blank, events)
    IN  \A id \in DOMAIN v.s.tools :
            v.s.tools[id] # v.s.labels[id] =>
                \E i \in DOMAIN events :
                    /\ events[i].kind = "progress"
                    /\ \E j \in 1..i - 1 : /\ events[j].kind = "call" /\ events[j].id = id
                                           /\ \A k \in j + 1..i - 1 : events[k].kind # "call"

\* The keys up and down lead around the list, and enter takes what they lead to.
SelectionFits(items, keys) ==
    LET moves == SelectSeq(keys, LAMBDA k : k \in {"up", "down"})
        steps == FoldLeft(LAMBDA n, k : IF k = "down" THEN n + 1 ELSE n - 1, 0, moves)
    IN  /\ Selection(items, Nothing, Append(moves, "enter")) = items[(steps % Len(items)) + 1]
        /\ Selection(items, Nothing, moves \o <<"quit", "enter">>) = Nothing

=============================================================================
