------------------------------ MODULE Patching ------------------------------
(***************************************************************************)
(* What file_patch makes of a text (co_cli/tools/files/write.py) and how a *)
(* patch is read (co_cli/tools/files/_v4a.py).                             *)
(*                                                                         *)
(* A text is a sequence of characters: "nl" ends a line, "sp" and "tab"    *)
(* are blanks, "bs" is the backslash, "n" and "t" the letters that make an *)
(* escape with it.  Where FileEdit leaves open whether a hunk applies and  *)
(* what it makes, these operators say.                                     *)
(***************************************************************************)
EXTENDS Integers, SequencesExt

Blanks  == {"sp", "tab"}
EscapeOf == [n |-> "nl", t |-> "tab"]

-----------------------------------------------------------------------------
(* The transforms give the places of the text that stay, and what is read   *)
(* there.                                                                   *)

\* No line end from i to j, and nothing but blanks.
BlankFrom(text, i, j) == \A k \in i..j : text[k] \in Blanks

StartOf(text, i) ==
    LET ends == {k \in 1..i - 1 : text[k] = "nl"}
    IN  1 + (IF ends = {} THEN 0 ELSE CHOOSE k \in ends : \A m \in ends : m <= k)

EndOf(text, i) ==
    LET ends == {k \in i..Len(text) : text[k] = "nl"}
    IN  IF ends = {} THEN Len(text) ELSE (CHOOSE k \in ends : \A m \in ends : k <= m) - 1

IsLead(text, i)  == BlankFrom(text, StartOf(text, i), i)
IsTrail(text, i) == BlankFrom(text, i, EndOf(text, i))
IsEscape(text, i) ==
    i < Len(text) /\ text[i] = "bs" /\ text[i + 1] \in DOMAIN EscapeOf

Places(text) == [i \in DOMAIN text |-> i]

\* _transform_line_trimmed, _transform_indent_stripped, _transform_escape_expanded
Offsets(strategy, text) ==
    SelectSeq(Places(text), LAMBDA i :
        CASE strategy = "line-trimmed"    -> ~IsLead(text, i) /\ ~IsTrail(text, i)
          [] strategy = "indent-stripped" -> ~IsLead(text, i)
          [] strategy = "escape-expanded" -> i = 1 \/ ~IsEscape(text, i - 1))

ReadAt(strategy, text, i) ==
    IF strategy = "escape-expanded" /\ IsEscape(text, i) THEN EscapeOf[text[i + 1]] ELSE text[i]

Transform(strategy, text) ==
    LET at == Offsets(strategy, text) IN [k \in DOMAIN at |-> ReadAt(strategy, text, at[k])]

Strategies == <<"line-trimmed", "indent-stripped", "escape-expanded">>

-----------------------------------------------------------------------------
(* Replacing one text by another.                                           *)

\* Where part is in text, from left to right without overlap.
Occurrences(text, part) ==
    LET step(s, i) ==
            IF i >= s.next /\ SubSeq(text, i, i + Len(part) - 1) = part
            THEN [next |-> i + Len(part), found |-> Append(s.found, i)] ELSE s
    IN  FoldLeft(step, [next |-> 1, found |-> <<>>],
                 [i \in 1..(Len(text) - Len(part) + 1) |-> i]).found

\* The spans are replaced from the last to the first.
Spliced(text, spans, new) ==
    FoldRight(LAMBDA span, t : SubSeq(t, 1, span.first - 1) \o new \o SubSeq(t, span.last + 1, Len(t)),
              spans, text)

\* The span of the match at place k of what the text was transformed to; blanks
\* in front of it go with it if nothing else of the line is there.
SpanOf(strategy, text, k, size) ==
    LET at    == Offsets(strategy, text)
        start == StartOf(text, at[k])
    IN  [first |-> IF BlankFrom(text, start, at[k] - 1) THEN start ELSE at[k],
         last  |-> at[k + size - 1]]

Spans(strategy, text, old) ==
    LET found == Occurrences(Transform(strategy, text), Transform(strategy, old))
    IN  IF strategy = "exact"
        THEN LET there == Occurrences(text, old)
             IN  [i \in DOMAIN there |-> [first |-> there[i], last |-> there[i] + Len(old) - 1]]
        ELSE IF Transform(strategy, old) = <<>> THEN <<>>
        ELSE [i \in DOMAIN found |->
                 SpanOf(strategy, text, found[i], Len(Transform(strategy, old)))]

\* The text after it, or "refused" in how.
Refused == [text |-> <<>>, how |-> "refused", count |-> 0]

\* _fuzzy_apply, and the exact replacement before it.
Replaced(strategy, text, old, new, all) ==
    LET spans == Spans(strategy, text, old)
    IN  IF Len(spans) > 1 /\ ~all THEN Refused
        ELSE [text |-> Spliced(text, spans, new), how |-> strategy, count |-> Len(spans)]

\* _resolve_patch_strategies: the first strategy that finds a match decides.
Resolve(text, old, new, all) ==
    LET fits(strategy) == Spans(strategy, text, old) # <<>>
        some == SelectSeq(Strategies, fits)
    IN  IF Occurrences(text, old) # <<>> THEN Replaced("exact", text, old, new, all)
        ELSE IF some = <<>> THEN Refused ELSE Replaced(some[1], text, old, new, all)

-----------------------------------------------------------------------------
(* Hunks: lines with a prefix.                                              *)

JoinLines(lines) ==
    FlattenSeq([i \in DOMAIN lines |-> IF i = 1 THEN lines[i] ELSE <<"nl">> \o lines[i]])

Side(hunk, prefixes) ==
    LET kept == SelectSeq(hunk.lines, LAMBDA line : line.prefix \in prefixes)
    IN  JoinLines([i \in DOMAIN kept |-> kept[i].text])

\* rstrip("\n")
EndsCut(text) ==
    LET stays == {i \in DOMAIN text : \E j \in i..Len(text) : text[j] # "nl"}
    IN  SubSeq(text, 1, Cardinality(stays))

\* _insert_addition_hunk
Inserted(text, hint, new) ==
    LET there == Occurrences(text, hint)
        eol   == EndOf(text, there[1]) + 1
    IN  CASE hint # <<>> /\ there # <<>> /\ eol <= Len(text) ->
                SubSeq(text, 1, eol) \o new \o <<"nl">> \o SubSeq(text, eol + 1, Len(text))
          [] hint # <<>> /\ there # <<>> /\ eol > Len(text) -> text \o <<"nl">> \o new
          [] hint = <<>> \/ there = <<>> -> EndsCut(text) \o <<"nl">> \o new \o <<"nl">>

\* One hunk after the other, each on what the one before made.
ApplyHunk(state, hunk) ==
    LET old  == Side(hunk, {"context", "minus"})
        new  == Side(hunk, {"context", "plus"})
        made == Resolve(state.text, old, new, FALSE)
    IN  CASE ~state.ok -> state
          [] state.ok /\ old = <<>> -> [state EXCEPT !.text = Inserted(@, hunk.hint, new)]
          [] state.ok /\ old # <<>> /\ made.how = "refused" -> [state EXCEPT !.ok = FALSE]
          [] OTHER -> [state EXCEPT !.text = made.text]

\* _compute_v4a_update and _compute_v4a_add, behind their checks.
UpdatedText(hunks, text) == FoldLeft(ApplyHunk, [ok |-> TRUE, text |-> text], hunks)

AddedText(hunks) ==
    Side([lines |-> FlattenSeq([i \in DOMAIN hunks |-> hunks[i].lines])], {"plus"})

-----------------------------------------------------------------------------
(* parse_v4a_patch.  A line of a patch is a header with its path, a line    *)
(* that begins a hunk, one with a prefix, an empty one, a note (a backslash *)
(* in front), or bare; mark says whether it says where the patch begins or  *)
(* ends, which it may anywhere in it.                                       *)

Headers == {"update", "add", "delete"}

Body(lines) ==
    LET ends   == {i \in DOMAIN lines : lines[i].mark = "end"}
        end    == IF ends = {} THEN Len(lines) + 1 ELSE CHOOSE i \in ends : \A j \in ends : i <= j
        begins == {i \in 1..end - 1 : lines[i].mark = "begin"}
        begin  == IF begins = {} THEN 0 ELSE CHOOSE i \in begins : \A j \in begins : j <= i
    IN  SubSeq(lines, begin + 1, end - 1)

NewHunk(hint) == [hint |-> hint, lines |-> <<>>]
NewOp(line) == [kind |-> line.kind, path |-> line.path, hunks |-> <<>>]

\* The state: op and hunk are sequences of at most one.  A hunk without lines is
\* dropped.
WithHunk(s) ==
    IF s.op = <<>> \/ s.hunk = <<>> \/ s.hunk[1].lines = <<>> THEN s.op
    ELSE <<[s.op[1] EXCEPT !.hunks = Append(@, s.hunk[1])]>>

TextLine(prefix, line) == [prefix |-> prefix, text |-> line.text]

ParseLine(s, line) ==
    LET hunk == IF s.hunk = <<>> THEN NewHunk(<<>>) ELSE s.hunk[1]
        prefix == IF line.kind = "bare" THEN "context" ELSE line.kind
    IN  CASE line.kind \in {"update", "add"} ->
                [ops |-> s.ops \o WithHunk(s), op |-> <<NewOp(line)>>,
                 hunk |-> IF line.kind = "add" THEN <<NewHunk(<<>>)>> ELSE <<>>]
          [] line.kind = "delete" ->
                [ops |-> s.ops \o WithHunk(s) \o <<NewOp(line)>>, op |-> <<>>, hunk |-> <<>>]
          [] line.kind = "hunk" /\ s.op # <<>> ->
                [s EXCEPT !.op = WithHunk(s), !.hunk = <<NewHunk(line.hint)>>]
          [] line.kind = "note" /\ s.op # <<>> -> [s EXCEPT !.hunk = <<hunk>>]
          [] line.kind \in {"context", "minus", "plus", "bare"} /\ s.op # <<>> ->
                [s EXCEPT !.hunk = <<[hunk EXCEPT !.lines = Append(@, TextLine(prefix, line))]>>]
          [] OTHER -> s

\* The operations, or none if anything is wrong with them.
Parsed(lines) ==
    LET s   == FoldLeft(ParseLine, [ops |-> <<>>, op |-> <<>>, hunk |-> <<>>], Body(lines))
        ops == s.ops \o WithHunk(s)
    IN  IF \E i \in DOMAIN ops : ops[i].path = <<>> \/ (ops[i].kind = "update" /\ ops[i].hunks = <<>>)
        THEN <<>> ELSE ops

-----------------------------------------------------------------------------
(* What file_patch is to make of texts, and what a patch is to be read as, *)
(* for given ones.                                                         *)

\* text is pre, then part, then post, with part at i.
Before(text, i) == SubSeq(text, 1, i - 1)
Behind(text, i) == SubSeq(text, i, Len(text))

\* Where old is found, and only there, new is put: what is before and behind it
\* stays, and what went reads as old does, but for blanks at the beginning of
\* its line.  A text that is not found, or more than once, is not changed.  Of an
\* escape at the end of a match the letter stays behind.
ReplacesOld(text, old, new) ==
    LET made == Resolve(text, old, new, FALSE)
        reads(part) == IF made.how = "exact" THEN part ELSE Transform(made.how, part)
        torn(j) == made.how = "escape-expanded" /\ j > 1 /\ IsEscape(text, j - 1)
    IN  IF made.how = "refused" THEN Len(Occurrences(text, old)) # 1
        ELSE /\ made.count = 1
             /\ \E i, k, j \in 1..Len(text) + 1 :
                    /\ i = k \/ (i < k /\ i = StartOf(text, k) /\ BlankFrom(text, i, k - 1))
                    /\ k <= j
                    /\ made.text = Before(text, i) \o new \o Behind(text, j)
                    /\ \/ reads(SubSeq(text, k, j - 1)) = reads(old)
                       \/ torn(j) /\ reads(SubSeq(text, k, j)) = reads(old)

\* All replaced, from left to right, where they are there exactly.
ReplacesAll(text, old, new) ==
    LET n == Len(text)
        from[i \in 1..n + 1] ==
            IF i > n THEN <<>>
            ELSE IF i + Len(old) - 1 <= n /\ SubSeq(text, i, i + Len(old) - 1) = old
                 THEN new \o from[i + Len(old)] ELSE <<text[i]>> \o from[i + 1]
        made == Resolve(text, old, new, TRUE)
    IN  made.how = "exact" => made.text = from[1]

\* The matches of a strategy do not take from each other.
Apart(strategy, text, old) ==
    LET spans == Spans(strategy, text, old)
    IN  \A i \in 2..Len(spans) : spans[i - 1].last < spans[i].first

\* A text that differs from old in its indentation alone is found, and replaced
\* with its indentation.
FindsIndented(line, indent, old, new) ==
    LET text == <<"x", "nl">> \o indent \o old \o <<"nl", "x">>
        made == Resolve(text, line \o old, new, FALSE)
    IN  Occurrences(text, line \o old) = <<>> =>
            made.text = <<"x", "nl">> \o new \o <<"nl", "x">>

\* All places of a part, those that overlap too: the tool does not count these.
AllPlaces(text, part) ==
    {i \in 1..(Len(text) - Len(part) + 1) : SubSeq(text, i, i + Len(part) - 1) = part}

\* A hunk with a line of context, lines to go and lines to come makes of a file
\* that has the ones the same file with the others, if they are there once.
HunkMakes(pre, context, minus, plus, post) ==
    LET lines(prefix, ts) == [i \in DOMAIN ts |-> [prefix |-> prefix, text |-> ts[i]]]
        hunk == [hint |-> <<>>,
                 lines |-> lines("context", <<context>>) \o lines("minus", minus) \o lines("plus", plus)]
        text == JoinLines(pre \o <<context>> \o minus \o post)
        made == UpdatedText(<<hunk>>, text)
    IN  Cardinality(AllPlaces(text, Side(hunk, {"context", "minus"}))) = 1 =>
            made.ok /\ made.text = JoinLines(pre \o <<context>> \o plus \o post)

\* Lines that are only added come behind the line the hint is in, or at the end,
\* and no other line goes but empty ones at the end.
AdditionKeeps(pre, line, post, new, hinted) ==
    LET hunk == [hint |-> IF hinted THEN line ELSE <<>>, lines |-> <<[prefix |-> "plus", text |-> new]>>]
        text == JoinLines(pre \o <<line>> \o post)
        made == UpdatedText(<<hunk>>, text)
    IN  /\ made.ok
        /\ hinted /\ (\A i \in DOMAIN pre : Occurrences(pre[i], line) = <<>>) =>
              made.text = JoinLines(pre \o <<line, new>> \o post)
        /\ ~hinted => made.text = EndsCut(text) \o <<"nl">> \o new \o <<"nl">>

-----------------------------------------------------------------------------
(* A patch as it is written. *)

Line(kind, text) == [kind |-> kind, path |-> <<>>, hint |-> <<>>, text |-> text, mark |-> "none"]
Header(op) == [Line(op.kind, <<>>) EXCEPT !.path = op.path]
Begin == [Line("bare", <<"x">>) EXCEPT !.mark = "begin"]
End   == [Line("bare", <<"x">>) EXCEPT !.mark = "end"]

WrittenHunk(hunk) ==
    <<[Line("hunk", <<>>) EXCEPT !.hint = hunk.hint]>>
        \o [i \in DOMAIN hunk.lines |-> Line(hunk.lines[i].prefix, hunk.lines[i].text)]

Written(ops) ==
    FlattenSeq([i \in DOMAIN ops |->
        <<Header(ops[i])>> \o FlattenSeq([k \in DOMAIN ops[i].hunks |-> WrittenHunk(ops[i].hunks[k])])])

\* A patch is read as it was written, whatever is around it and whatever empty
\* lines and notes are between its lines.
ReadAsWritten(ops, noise) ==
    LET lines == Written(ops)
        junk  == Line("plus", <<"y">>)
    IN  /\ Parsed(lines) = ops
        /\ Parsed(<<junk, Begin>> \o lines \o <<End, junk>>) = ops
        /\ \A i \in 0..Len(lines) :
              Parsed(SubSeq(lines, 1, i) \o <<noise>> \o SubSeq(lines, i + 1, Len(lines))) = ops

\* Whatever the lines are, what is read has a path each and hunks with lines, and
\* no update without one.
ReadIsFit(lines) ==
    LET ops == Parsed(lines)
    IN  \A i \in DOMAIN ops :
            /\ ops[i].path # <<>>
            /\ ops[i].kind = "update" => ops[i].hunks # <<>>
            /\ ops[i].kind = "delete" => ops[i].hunks = <<>>
            /\ \A k \in DOMAIN ops[i].hunks : ops[i].hunks[k].lines # <<>>

=============================================================================
