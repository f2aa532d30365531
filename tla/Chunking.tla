------------------------------ MODULE Chunking ------------------------------
(***************************************************************************)
(* How a document is cut into the chunks that are searched: a memory item  *)
(* by paragraphs and lines (co_cli/memory/chunker.py), a transcript by a   *)
(* window that slides over its messages (co_cli/session/chunker.py).       *)
(*                                                                         *)
(* Pure functions.  A line is a sequence of characters; a blank one is     *)
(* empty.  Lines count from 1.  A text begins and ends with a line that    *)
(* is not blank.                                                           *)
(***************************************************************************)
EXTENDS Integers, SequencesExt

CharsPerToken == 4      \* len / 4 estimates the tokens of a text
NewLine       == 0      \* characters are numbers

SumOf(ns) == FoldLeft(LAMBDA n, m : n + m, 0, ns)

JoinWith(sep, parts) ==
    FoldLeft(LAMBDA t, p : IF t = <<>> THEN p ELSE t \o sep \o p, <<>>, parts)

Joined(lines) == JoinWith(<<NewLine>>, lines)

LastChars(n, s) == SubSeq(s, Len(s) - n + 1, Len(s))

Piece(text, from, to) == [text |-> text, from |-> from, to |-> to]

-----------------------------------------------------------------------------
(***************************************************************************)
(* Memory items.                                                           *)
(***************************************************************************)
\* _build_paragraphs: runs of lines that are not blank.
Paragraphs(lines) ==
    LET says(i) == i \in DOMAIN lines /\ lines[i] # <<>>
        starts == {i \in DOMAIN lines : says(i) /\ ~says(i - 1)}
        end(i) == CHOOSE j \in DOMAIN lines :
                     j >= i /\ ~says(j + 1) /\ \A k \in i..j : says(k)
    IN  [n \in DOMAIN SetToSortSeq(starts, <) |->
            LET i == SetToSortSeq(starts, <)[n]
            IN  [from |-> i, lines |-> SubSeq(lines, i, end(i))]]

\* _emit_chunk, behind the overlap with the chunk before it.
Emit(s, body, from, to) ==
    LET text == s.prefix \o body
    IN  [s EXCEPT !.chunks = Append(@, Piece(text, from, to)),
                  !.prefix = IF Len(text) > s.overlap THEN LastChars(s.overlap, text)
                             ELSE text]

\* The pieces of a line that is too long for one chunk.
EmitLine(s, line, at) ==
    LET pieces == (Len(line) + s.limit - 1) \div s.limit
        piece(n) == SubSeq(line, (n - 1) * s.limit + 1,
                           IF n = pieces THEN Len(line) ELSE n * s.limit)
    IN  FoldLeft(LAMBDA t, n : Emit(t, piece(n), at, at), s, [n \in 1..pieces |-> n])

EmitLines(s, from, lines) ==
    IF lines = <<>> THEN s ELSE Emit(s, Joined(lines), from, from + Len(lines) - 1)

\* _split_para_into_chunks: line by line, a long line in pieces of its own.
\* b.lines are the lines gathered so far, b.from the first of them.
SplitParagraph(s, p) ==
    LET add(b, i) ==
            LET line == p.lines[i]
                at   == p.from + i - 1
                full == SumOf([k \in DOMAIN b.lines |-> Len(b.lines[k])]) + Len(line) > s.limit
            IN  IF Len(line) > s.limit
                THEN [s |-> EmitLine(EmitLines(b.s, b.from, b.lines), line, at),
                      from |-> at + 1, lines |-> <<>>]
                ELSE IF full /\ b.lines # <<>>
                THEN [s |-> EmitLines(b.s, b.from, b.lines), from |-> at, lines |-> <<line>>]
                ELSE [b EXCEPT !.lines = Append(@, line)]
        last == FoldLeft(add, [s |-> s, from |-> p.from, lines |-> <<>>],
                         [i \in DOMAIN p.lines |-> i])
    IN  EmitLines(last.s, last.from, last.lines)

SizeOf(p) == Len(Joined(p.lines))

\* _flush_acc: the paragraphs gathered so far make a chunk.
Flush(s) ==
    IF s.acc = <<>> THEN s
    ELSE LET end == s.acc[Len(s.acc)]
         IN  [Emit(s, JoinWith(<<NewLine, NewLine>>, [i \in DOMAIN s.acc |-> Joined(s.acc[i].lines)]),
                   s.acc[1].from, end.from + Len(end.lines) - 1)
              EXCEPT !.acc = <<>>]

AddParagraph(s, p) ==
    LET gathered == SumOf([i \in DOMAIN s.acc |-> SizeOf(s.acc[i])])
    IN  IF SizeOf(p) > s.limit THEN SplitParagraph(Flush(s), p)
        ELSE IF gathered + SizeOf(p) > s.limit THEN [Flush(s) EXCEPT !.acc = <<p>>]
        ELSE [s EXCEPT !.acc = Append(@, p)]

\* An overlap as long as the chunk is cut down to a quarter of it.
OverlapOf(chunk_tokens, overlap_tokens) ==
    IF overlap_tokens >= chunk_tokens THEN chunk_tokens \div 4 ELSE overlap_tokens

\* chunk_text, for chunk_tokens > 0: of none it never comes to the end of a line.
ChunkText(lines, chunk_tokens, overlap_tokens) ==
    LET limit == chunk_tokens * CharsPerToken
        begin == [limit |-> limit, chunks |-> <<>>, prefix |-> <<>>, acc |-> <<>>,
                  overlap |-> CharsPerToken * OverlapOf(chunk_tokens, overlap_tokens)]
    IN  IF SumOf([i \in DOMAIN lines |-> Len(lines[i])]) + Len(lines) - 1 <= limit
        THEN <<Piece(Joined(lines), 1, Len(lines))>>
        ELSE Flush(FoldLeft(AddParagraph, begin, Paragraphs(lines))).chunks

-----------------------------------------------------------------------------
(***************************************************************************)
(* Transcripts.                                                            *)
(***************************************************************************)
\* A message has a role, a length, the lengths of the slices it is wrapped to,
\* and the line of the transcript it is from.
Heartbeat == 10

\* flatten_session leaves out short answers without a call and short returns.
Worth(ms, i) ==
    CASE ms[i].role = "assistant" ->
            ms[i].size > Heartbeat \/ (i < Len(ms) /\ ms[i + 1].role = "tool-call")
      [] ms[i].role = "tool-return" -> ms[i].size >= Heartbeat
      [] OTHER -> TRUE

\* flatten_session: slices as flat lines, with the line they are from.
Flatten(ms) ==
    FlattenSeq([i \in DOMAIN ms |->
        IF Worth(ms, i)
        THEN [k \in DOMAIN ms[i].slices |-> [len |-> ms[i].slices[k], line |-> ms[i].line]]
        ELSE <<>>])

Span(f, i, j) == SumOf([k \in 1..(j - i + 1) |-> f[i + k - 1].len + 1])

\* The first flat line behind i and past m that begins a line of the transcript.
NextMessage(f, i, m) ==
    IF i > m THEN i
    ELSE LET far == {j \in i..m : f[j].line # f[j - 1].line}
         IN  IF far = {} THEN m + 1 ELSE CHOOSE j \in far : \A k \in far : j <= k

\* The end of the window from i, exclusive: what no longer fits is left out,
\* but for the rest of a message.
WindowEnd(f, i, chars) ==
    LET over == {j \in i + 1..Len(f) : Span(f, i, j - 1) + f[j].len > chars}
    IN  IF over = {} THEN Len(f) + 1
        ELSE NextMessage(f, CHOOSE j \in over : \A k \in over : j <= k, Len(f))

\* Where the window after i..end-1 begins: as many lines back as fit the
\* overlap, but ahead of i, and where a message begins.
WindowNext(f, i, end, chars) ==
    LET fits == {j \in i..end : Span(f, j, end - 1) <= chars}
        back == CHOOSE j \in fits : \A k \in fits : j <= k
    IN  NextMessage(f, IF back > i THEN back ELSE i + 1, end - 1)

\* chunk_flattened
ChunkFlattened(f, chunk_tokens, overlap_tokens) ==
    LET from[i \in DOMAIN f] ==
            LET end == WindowEnd(f, i, chunk_tokens * CharsPerToken)
            IN  <<Piece(i..end - 1, f[i].line, f[end - 1].line)>>
                \o IF end > Len(f) THEN <<>>
                   ELSE from[WindowNext(f, i, end, overlap_tokens * CharsPerToken)]
    IN  IF f = <<>> THEN <<>> ELSE from[1]

\* chunk_session
ChunkSession(ms, chunk_tokens, overlap_tokens) ==
    ChunkFlattened(Flatten(ms), chunk_tokens, overlap_tokens)

=============================================================================
