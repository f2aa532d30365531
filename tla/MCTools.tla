------------------------------ MODULE MCTools ------------------------------
(***************************************************************************)
(* The two stores that tools leave something in: the files, two of them,   *)
(* and the results in the message list.  They share no variable, so a      *)
(* property of one is seen in the behaviours in which the other stays as   *)
(* it starts.                                                              *)
(***************************************************************************)
EXTENDS FileEdit, ToolResults, TLC

CONSTANTS a, b, listing, copy

MCFiles == {a, b}
Symmetry == Permutations(MCFiles)

\* Two lengths of results; only the longer one is spilled on arrival.
MCSizeOf(v) == IF v = listing THEN 3 ELSE 4

ToolsInit == Init /\ ResultsInit

ToolsNext ==
    \/ ResultsInit /\ Next        /\ UNCHANGED resultsVars
    \/ Init        /\ ResultsNext /\ UNCHANGED vars

ToolsSpec == ToolsInit /\ [][ToolsNext]_<<vars, resultsVars>>

-----------------------------------------------------------------------------
(* How a patch is read and applied, on all short texts.                     *)

Patch == INSTANCE Patching

\* Sequences of up to n items of S.
UpTo(n, S) == UNION {[1..m -> S] : m \in 0..n}

Chars == {"x", "n", "sp", "nl", "bs"}

\* A replacement changes what reads as the old text and nothing else.
ASSUME ReplacementsFit ==
    \A body \in UpTo(4, Chars), old \in UpTo(2, Chars) \ {<<>>} : Patch!ReplacesOld(body, old, <<"y">>)

\* All replaced is what a reader from left to right would replace.
ASSUME AllAreReplaced ==
    \A body \in UpTo(4, {"x", "n", "nl"}), old \in UpTo(2, {"x", "n", "nl"}) \ {<<>>},
       new \in UpTo(2, {"x", "y"}) :
        Patch!ReplacesAll(body, old, new)

\* Two matches do not share a character, but those of expanded escapes may.
ASSUME MatchesAreApart ==
    \A body \in UpTo(5, {"x", "sp", "nl"}), old \in UpTo(2, {"x", "sp", "nl"}) \ {<<>>},
       strategy \in {"exact", "line-trimmed", "indent-stripped"} :
        Patch!Apart(strategy, body, old)

\* There the second takes blanks in front of it that the first one had.
ASSUME EscapesMayOverlap ==
    ~Patch!Apart("escape-expanded", <<"sp", "nl", "sp", "sp", "nl", "sp">>, <<"sp", "bs", "n", "sp">>)

\* A wrong indentation does not keep a line from being found.
ASSUME IndentedIsFound ==
    \A wrong, right \in UpTo(2, {"sp", "tab"}), old \in UpTo(2, {"n", "y"}) \ {<<>>} :
        Patch!FindsIndented(wrong, right, old, <<"z">>)

TextLines == {<<>>, <<"x">>, <<"y">>, <<"sp", "x">>}

\* A hunk changes its lines and no others.
ASSUME HunksApply ==
    \A pre, plus, post \in UpTo(1, TextLines), minus \in UpTo(2, TextLines), context \in TextLines \ {<<>>} :
        Patch!HunkMakes(pre, context, minus, plus, post)

\* A hunk that only adds keeps what is there.
ASSUME AdditionsKeep ==
    \A pre \in UpTo(1, TextLines), line \in TextLines \ {<<>>}, post \in UpTo(2, TextLines),
       new \in TextLines, hinted \in BOOLEAN :
        Patch!AdditionKeeps(pre, line, post, new, hinted)

HunkLines == [prefix : {"context", "minus", "plus"}, text : {<<>>, <<"x">>}]
Hunks == [hint : {<<>>, <<"x">>}, lines : UpTo(2, HunkLines) \ {<<>>}]
PatchOperations ==
    [kind : {"update"}, path : {<<"p">>}, hunks : {<<hunk>> : hunk \in Hunks}]
        \cup [kind : {"add"}, path : {<<"q">>},
              hunks : UpTo(1, {hunk \in Hunks : Len(hunk.lines) = 1})]
        \cup [kind : {"delete"}, path : {<<"p">>, <<"q">>}, hunks : {<<>>}]

\* The parser reads the operations that were written, among text, notes and empty
\* lines.
ASSUME PatchesAreRead ==
    \A ops \in UpTo(2, PatchOperations),
       noise \in {Patch!Line("empty", <<>>), Patch!Line("note", <<"x">>)} :
        Patch!ReadAsWritten(ops, noise)

PatchLines ==
    {Patch!Line(kind, <<"x">>) : kind \in {"hunk", "context", "bare", "empty", "note"}}
        \cup {Patch!Begin, Patch!End}
        \cup {Patch!Header([kind |-> kind, path |-> path]) :
                 kind \in Patch!Headers, path \in {<<>>, <<"p">>}}

\* What the parser lets pass can be applied: all patches of three lines.
ASSUME ReadPatchesFit == \A lines \in UpTo(3, PatchLines) : Patch!ReadIsFit(lines)

-----------------------------------------------------------------------------
(* What the tools that only read return, on small files.                    *)

Query == INSTANCE FileQueries

Limits == [lines : 1..2, range : 1..3, chars : {1}, bytes : {0}]
Optional(n) == {<<>>} \cup {<<i>> : i \in 1..n}

\* The hints of file_read lead through a file: all short files and limits.
ASSUME ReadsLeadOn ==
    \A lines \in UpTo(5, {<<>>, <<1>>, <<1, 2>>}), limits \in Limits :
        Query!ReadsOnThroughFile(lines, limits)

\* A range is shown with its numbers, and only what is shown in full is not noted
\* as partly read.
ASSUME RangesAreShown ==
    \A n \in 0..4, limits \in Limits, start, end \in Optional(5) :
        LET lines == [i \in 1..n |-> <<1, i>>]
        IN  /\ Query!UnmarkedIsWhole(lines, start, end, limits)
            /\ start # <<>> \/ end # <<>> => Query!RangeFits(lines, start, end, limits)

Entries == [name : {0}, mtime : 0..1, fits : BOOLEAN, kind : {"file", "dir"}]

\* file_find returns the newest and says when it left some out.
ASSUME NewestAreFound ==
    \A entries \in UpTo(4, Entries), rg \in {"none", "sorts"}, most \in 1..4 :
        Query!FindsNewest([i \in DOMAIN entries |-> [entries[i] EXCEPT !.name = i]], rg, most)

FileOf(path, lines, hits) == [path |-> path, kind |-> "text", lines |-> lines, hits |-> hits]

\* The context of matches is whole, marked and parted by gaps: seven lines.
ASSUME ContextIsShown ==
    \A n \in 1..7, context \in 0..3 : \A hits \in SUBSET (1..n) :
        Query!ContextFits(FileOf(<<Query!Letter>>, [i \in 1..n |-> <<i>>], hits), context)

\* Pages cover the output.
ASSUME PagesAreWhole ==
    \A n \in 0..7, most \in 1..4 : Query!PagesCover([i \in 1..n |-> i], most)

LooksNumbered == <<Query!Letter, Query!Colon, 5, Query!Colon>>

SearchFiles ==
    {FileOf(path, lines, hits) :
        path \in {<<Query!Letter>>, <<Query!Dash>>, <<Query!Letter, Query!Colon>>, <<5>>},
        lines \in [1..3 -> {<<Query!Dash, Query!Dash>>, <<5, Query!Colon>>, LooksNumbered,
                            <<Query!Dash, 5, Query!Dash>>}],
        hits \in SUBSET (1..3)}

\* With rg and without it a search returns the same lines, if no line of context
\* looks like a match.
ASSUME SearchesAgree ==
    \A file \in SearchFiles, context \in 0..1 :
        Query!SameWithRg(<<file>>, context) /\ Query!SameWithRg(<<file, file>>, context)

\* One that does is counted as a match; and of files with matches rg counts the
\* files, Python the matches.
ASSUME CountsMayDiffer ==
    /\ LET file == FileOf(<<Query!Letter>>, <<<<1>>, LooksNumbered>>, {1})
       IN  Query!GrepShell(<<file>>, "content", 1).count > Query!GrepPython(<<file>>, "content", 1).count
    /\ LET file == FileOf(<<Query!Letter>>, <<<<1>>, <<2>>>>, {1, 2})
       IN  Query!GrepShell(<<file>>, "files_with_matches", 0).count
              < Query!GrepPython(<<file>>, "files_with_matches", 0).count

=============================================================================
