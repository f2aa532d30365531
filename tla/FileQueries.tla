---------------------------- MODULE FileQueries ----------------------------
(***************************************************************************)
(* What file_read, file_find and file_search return                        *)
(* (co_cli/tools/files/read.py).  An optional argument is a sequence of at *)
(* most one value.                                                         *)
(***************************************************************************)
EXTENDS Integers, SequencesExt

MinOf(m, n) == IF m < n THEN m ELSE n
MaxOf(m, n) == IF m > n THEN m ELSE n

\* The items from lo to hi, counted from 0, hi not among them, as a slice of
\* Python takes them: a negative bound counts from the end.
Slice(items, lo, hi) ==
    LET n == Len(items)
        at(i) == IF i >= 0 THEN MinOf(i, n) ELSE MaxOf(0, n + i)
    IN  SubSeq(items, at(lo) + 1, at(hi))

-----------------------------------------------------------------------------
(* file_read: limits.lines is what a read without a range shows at most,    *)
(* limits.range one with a range, limits.bytes and limits.chars bound file  *)
(* and line.                                                                *)

\* _compute_read_slice
ReadSlice(start, end, total, limits) ==
    LET lo   == IF start = <<>> THEN 0 ELSE start[1] - 1
        last == IF end = <<>> THEN total ELSE end[1]
    IN  IF start # <<>> \/ end # <<>>
        THEN [lo |-> lo, hi |-> MinOf(last, lo + limits.range), partial |-> TRUE]
        ELSE [lo |-> 0, hi |-> MinOf(total, limits.lines), partial |-> total > limits.lines]

\* _build_read_display: the lines with their numbers and, if there are more,
\* where to go on.  A line is a sequence of characters.
ReadDisplay(lines, base, total, hi, chars) ==
    [lines |-> [i \in DOMAIN lines |->
                   [number |-> base + i - 1,
                    text |-> SubSeq(lines[i], 1, MinOf(chars, Len(lines[i]))),
                    cut |-> Len(lines[i]) > chars]],
     more |-> IF hi < total THEN <<hi + 1>> ELSE <<>>]

NotRead == [read |-> FALSE, display |-> [lines |-> <<>>, more |-> <<>>], partial |-> FALSE]

\* file_read, and what it notes in the tracker: a file it does not show it does
\* not note.
FileRead(file, start, end, limits) ==
    LET total == Len(file.lines)
        cut   == ReadSlice(start, end, total, limits)
        base  == IF start = <<>> THEN 1 ELSE start[1]
    IN  IF \/ file.kind \in {"none", "dir", "outside", "binary"}
           \/ start = <<>> /\ end = <<>> /\ file.size > limits.bytes
        THEN NotRead
        ELSE [read |-> TRUE, partial |-> cut.partial,
              display |-> ReadDisplay(Slice(file.lines, cut.lo, cut.hi), base, total, cut.hi, limits.chars)]

-----------------------------------------------------------------------------
(* file_find.  An entry has a name, a kind and an mtime, and fits the       *)
(* pattern or not.                                                          *)

\* Newest first; of equal ones as they came.
Newest(entries) ==
    LET before(i, j) == \/ entries[i].mtime > entries[j].mtime
                        \/ entries[i].mtime = entries[j].mtime /\ i < j
        order == SortSeq([i \in DOMAIN entries |-> i], before)
    IN  [n \in DOMAIN order |-> entries[order[n]]]

Named(entries, most) == SubSeq(entries, 1, MinOf(most, Len(entries)))

\* _glob_python stops at the last entry that it may have, whether there are more
\* or not; without one it may have, at the first.
GlobPython(entries, recursive, most) ==
    LET fit   == SelectSeq(entries, LAMBDA e : e.fits)
        order == IF recursive THEN Newest(fit) ELSE fit
    IN  [entries |-> Named(order, MaxOf(1, most)), truncated |-> order # <<>> /\ Len(order) >= most]

\* _glob_ripgrep has files only, in no order if its version cannot sort.
GlobRipgrep(entries, sorts, most) ==
    LET fit   == SelectSeq(entries, LAMBDA e : e.fits /\ e.kind = "file")
        order == IF sorts THEN Newest(fit) ELSE fit
    IN  [entries |-> Named(order, most), truncated |-> Len(order) > most]

\* file_find: rg says whether it is there, fails, or can sort.
FileFind(entries, recursive, rg, most) ==
    IF recursive /\ rg \in {"sorts", "plain"} THEN GlobRipgrep(entries, rg = "sorts", most)
    ELSE GlobPython(entries, recursive, most)

-----------------------------------------------------------------------------
(* file_search.  A line of the output is a separator or a line of a file,   *)
(* with its number, that matched or is there for the context.  A text is a  *)
(* sequence of numbers and signs.                                           *)

Colon  == -1
Dash   == -2
Letter == -3
IsNumber(token) == token >= 0

Shown(path, number, as, text) == [path |-> path, number |-> number, as |-> as, text |-> text]
Gap == Shown(<<>>, 0, "gap", <<>>)

\* _grep_context_output: windows around the matches, those that touch made one.
Windows(matches, total, context) ==
    LET add(ranges, m) ==
            LET lo == MaxOf(1, m - context)
                hi == MinOf(total, m + context)
                n  == Len(ranges)
            IN  IF n > 0 /\ lo <= ranges[n].hi + 1 THEN [ranges EXCEPT ![n].hi = hi]
                ELSE Append(ranges, [lo |-> lo, hi |-> hi])
    IN  FoldLeft(add, <<>>, matches)

ContextOutput(file, matches, context) ==
    LET windows == Windows(matches, Len(file.lines), context)
        line(n) == Shown(file.path, n, IF n \in ToSet(matches) THEN "match" ELSE "context", file.lines[n])
        lines(w) == [i \in 1..w.hi - w.lo + 1 |-> line(w.lo + i - 1)]
    IN  FlattenSeq([k \in DOMAIN windows |->
            (IF k > 1 THEN <<Gap>> ELSE <<>>) \o lines(windows[k])])

MatchesOf(file) == SelectSeq([n \in DOMAIN file.lines |-> n], LAMBDA n : n \in file.hits)

\* _grep_format_file_matches
FileOutput(file, mode, context) ==
    LET matches == MatchesOf(file)
    IN  CASE mode = "content" /\ context > 0 -> ContextOutput(file, matches, context)
          [] mode = "content" /\ context = 0 ->
                [k \in DOMAIN matches |-> Shown(file.path, matches[k], "match", file.lines[matches[k]])]
          [] mode = "files_with_matches" -> <<Shown(file.path, 0, "file", <<>>)>>
          [] mode = "count" -> <<Shown(file.path, Len(matches), "count", <<>>)>>

\* Binary files are passed over.
Found(files) == SelectSeq(files, LAMBDA f : f.kind = "text" /\ f.hits # {})

\* _grep_python
GrepPython(files, mode, context) ==
    LET found == Found(files)
    IN  [output |-> FlattenSeq([i \in DOMAIN found |-> FileOutput(found[i], mode, context)]),
         count  |-> FoldLeft(LAMBDA n, f : n + Len(MatchesOf(f)), 0, found)]

\* What rg prints of contents: a line with its path and number, with the sign of
\* a match or of a line of context around the number; a line of two dashes
\* between windows, be they of two files.
RgLine(shown) ==
    LET sign == IF shown.as = "match" THEN Colon ELSE Dash
    IN  IF shown = Gap THEN <<Dash, Dash>>
        ELSE shown.path \o <<sign, shown.number, sign>> \o shown.text

RgPrints(files, context) ==
    LET found == Found(files)
        shown == FlattenSeq([i \in DOMAIN found |->
                     (IF i > 1 /\ context > 0 THEN <<Gap>> ELSE <<>>)
                         \o FileOutput(found[i], "content", context)])
    IN  [k \in DOMAIN shown |-> RgLine(shown[k])]

\* The first number of a line between two of a sign, 0 if there is none.
NumberAt(line, sign) ==
    LET at == {i \in 2..Len(line) - 1 :
                  IsNumber(line[i]) /\ line[i - 1] = sign /\ line[i + 1] = sign}
    IN  IF at = {} THEN 0 ELSE CHOOSE i \in at : \A j \in at : i <= j

ReadLine(line) ==
    LET read(sign, as) ==
            LET i == NumberAt(line, sign)
            IN  Shown(SubSeq(line, 1, i - 2), line[i], as, SubSeq(line, i + 2, Len(line)))
    IN  CASE line \in {<<>>, <<Dash, Dash>>} -> <<Gap>>
          [] line \notin {<<>>, <<Dash, Dash>>} /\ NumberAt(line, Colon) > 0 -> <<read(Colon, "match")>>
          [] NumberAt(line, Colon) = 0 /\ NumberAt(line, Dash) > 0 -> <<read(Dash, "context")>>
          [] OTHER -> <<>>

\* _parse_grep_content_output: no two separators in a row and none at the ends.
ParseContent(lines) ==
    LET all  == FlattenSeq([i \in DOMAIN lines |-> ReadLine(lines[i])])
        line(k) == all[k] # Gap
        kept == SelectSeq([k \in DOMAIN all |-> k], LAMBDA k :
                    line(k) \/ (k > 1 /\ line(k - 1) /\ \E j \in k + 1..Len(all) : line(j)))
    IN  [output |-> [n \in DOMAIN kept |-> all[kept[n]]],
         count  |-> Len(SelectSeq(all, LAMBDA shown : shown.as = "match"))]

\* _grep_shell: of files with matches it counts the files.
GrepShell(files, mode, context) ==
    LET same == GrepPython(files, mode, context)
    IN  CASE mode = "content" -> ParseContent(RgPrints(files, context))
          [] mode = "files_with_matches" -> [same EXCEPT !.count = Len(same.output)]
          [] mode = "count" -> same

\* The page of the output; head 0 is all of it.
Page(output, head, offset) ==
    LET page == Slice(output, offset, IF head > 0 THEN offset + head ELSE Len(output))
    IN  [page |-> page, truncated |-> Len(output) - offset > Len(page)]

\* file_search with a valid pattern: rg, if it is there and works, or Python.
FileSearch(files, mode, context, head, offset, rg) ==
    LET found == IF rg THEN GrepShell(files, mode, context) ELSE GrepPython(files, mode, context)
    IN  [page |-> Page(found.output, head, offset), count |-> found.count]

-----------------------------------------------------------------------------
(* What the queries of FileQueries are to return, for given files.         *)

\* Reading on where the display says leads through the file: every line once, in
\* order, with its number; only the first read of a short file is not partial.
ReadsOnThroughFile(lines, limits) ==
    LET file == [kind |-> "text", size |-> 0, lines |-> lines]
        read(start) == FileRead(file, start, <<>>, limits)
        upto[n \in 0..Len(lines)] ==
            IF n = 0 THEN read(<<>>).display
            ELSE LET before == upto[n - 1]
                     next   == read(before.more).display
                 IN  IF before.more = <<>> THEN before
                     ELSE [lines |-> before.lines \o next.lines, more |-> next.more]
        whole == upto[Len(lines)]
    IN  /\ whole.more = <<>>
        /\ [i \in DOMAIN whole.lines |-> whole.lines[i].number] = [i \in DOMAIN lines |-> i]
        /\ \A i \in DOMAIN lines : /\ whole.lines[i].text = SubSeq(lines[i], 1, Len(whole.lines[i].text))
                                   /\ whole.lines[i].cut <=> whole.lines[i].text # lines[i]
        /\ read(<<>>).partial <=> read(<<>>).display.more # <<>>

\* A read that is not noted as partial shows every line, cut or not.
UnmarkedIsWhole(lines, start, end, limits) ==
    LET made == FileRead([kind |-> "text", size |-> 0, lines |-> lines], start, end, limits)
    IN  ~made.partial => Len(made.display.lines) = Len(lines)

\* The lines of a range, numbered as in the file; the hint, where there is one,
\* is the line behind the last one shown.
RangeFits(lines, start, end, limits) ==
    LET made == FileRead([kind |-> "text", size |-> 0, lines |-> lines], start, end, limits).display
        last == IF end = <<>> THEN Len(lines) ELSE end[1]
        wanted == {n \in DOMAIN lines : (start = <<>> \/ n >= start[1]) /\ n <= last}
    IN  /\ \A i \in DOMAIN made.lines : made.lines[i].number \in wanted
        /\ Cardinality(wanted) <= limits.range =>
              {made.lines[i].number : i \in DOMAIN made.lines} = wanted
        /\ made.more # <<>> /\ made.lines # <<>> =>
              made.more[1] = made.lines[Len(made.lines)].number + 1

\* What file_find leaves out of the entries that fit are not newer than any it
\* returns, where it looks into directories and can sort; and it says so.  A
\* result of just the allowed length may be called truncated though it is not.
FindsNewest(entries, rg, most) ==
    LET made == FileFind(entries, TRUE, rg, most)
        fit  == {i \in DOMAIN entries : entries[i].fits /\ (rg # "none" => entries[i].kind = "file")}
        left == {i \in fit : entries[i] \notin ToSet(made.entries)}
    IN  /\ \A i \in left : \A j \in DOMAIN made.entries : entries[i].mtime <= made.entries[j].mtime
        /\ left # {} => made.truncated
        /\ made.truncated => left # {} \/ Len(made.entries) = most

\* Context: every line of a file within the distance of a match, once and in
\* order, the matches marked; a separator where lines were left out and nowhere
\* else.
ContextFits(file, context) ==
    LET out  == FileOutput(file, "content", context)
        near == {n \in DOMAIN file.lines : \E m \in file.hits : m - n <= context /\ n - m <= context}
        lines == SelectSeq(out, LAMBDA shown : shown # Gap)
    IN  /\ {lines[k].number : k \in DOMAIN lines} = near
        /\ \A k \in 2..Len(lines) : lines[k - 1].number < lines[k].number
        /\ \A k \in DOMAIN lines : lines[k].as = "match" <=> lines[k].number \in file.hits
        /\ context > 0 => \A k \in DOMAIN out :
              out[k] = Gap => /\ 1 < k /\ k < Len(out)
                              /\ out[k + 1].number > out[k - 1].number + 1
        /\ context > 0 => \A k \in 2..Len(out) :
              (out[k] # Gap /\ out[k - 1] # Gap) => out[k].number = out[k - 1].number + 1

\* The pages, one behind the other, are the output, and only the last one is not
\* called truncated.
PagesCover(output, head) ==
    LET page(k) == Page(output, head, head * (k - 1))
        pages == {k \in 1..Len(output) + 1 : head * (k - 1) < Len(output)}
    IN  /\ FlattenSeq([k \in 1..Cardinality(pages) |-> page(k).page]) = output
        /\ \A k \in pages : page(k).truncated <=> k + 1 \in pages
        /\ Page(output, 0, 0) = [page |-> output, truncated |-> FALSE]

\* Nothing in a path or a line of context looks like the number of a line.
Plain(file) ==
    /\ \A i \in DOMAIN file.path : ~IsNumber(file.path[i])
    /\ \A n \in DOMAIN file.lines : NumberAt(file.lines[n], Colon) = 0

\* With rg and without it the lines and their count are the same, but for the
\* separators between files, if nothing in them looks like a number of a line.
SameWithRg(files, context) ==
    LET shell  == GrepShell(files, "content", context)
        python == GrepPython(files, "content", context)
        lines(out) == SelectSeq(out, LAMBDA shown : shown # Gap)
    IN  (\A i \in DOMAIN files : Plain(files[i])) =>
            /\ lines(shell.output) = lines(python.output) /\ shell.count = python.count
            /\ Len(Found(files)) = 1 => shell.output = python.output

=============================================================================
