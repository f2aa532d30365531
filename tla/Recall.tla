------------------------------- MODULE Recall -------------------------------
(***************************************************************************)
(* How memory and past sessions are asked: the search and view tools of    *)
(* co_cli/tools/memory and co_cli/tools/session, the transcripts they read *)
(* and the queries that reach the index.                                   *)
(*                                                                         *)
(* A memory item is a record: stem, archived, kind, title ("" for none),   *)
(* words, created and updated (0 for never). The kinds a call asks for are *)
(* <<set>>, or <<>> for all. A ranking is the sequence of what the index   *)
(* finds, best first, before filters and limits.                           *)
(***************************************************************************)
EXTENDS Integers, Sequences, FiniteSets, SequencesExt

First(n, s) == SubSeq(s, 1, Min({n, Len(s)}))

\* A stable sort, the greater first.
LatestFirst(s, Key(_)) ==
    LET Before(i, j) == Key(s[i]) > Key(s[j]) \/ (Key(s[i]) = Key(s[j]) /\ i < j)
    IN  [n \in DOMAIN s |-> s[CHOOSE i \in DOMAIN s : Cardinality({j \in DOMAIN s : Before(j, i)}) = n - 1]]

-----------------------------------------------------------------------------
(* Memory.                                                                  *)

KindFits(kind, kinds) == kinds = <<>> \/ kind \in kinds[1]

\* Every item file at the top of the directory.
Loaded(items, kinds) == SelectSeq(items, LAMBDA m : ~m.archived /\ KindFits(m.kind, kinds))

\* An item is found by its content or its title and dated by its last change.
GrepRecall(items, query, limit) ==
    LET hits == SelectSeq(items, LAMBDA m : query \in m.words \/ query = m.title)
        Dated(m) == IF m.updated # 0 THEN m.updated ELSE m.created
    IN  First(limit, LatestFirst(hits, Dated))

Result(m) == [kind |-> m.kind, title |-> IF m.title = "" THEN m.stem ELSE m.title, stem |-> m.stem]

Results(items) == [i \in DOMAIN items |-> Result(items[i])]

Created(m) == m.created

\* An inventory goes by the time of creation. The index has a row for every file that
\* it was given, the archive's too...
IndexedItems(items, kinds, limit) ==
    First(limit, LatestFirst(SelectSeq(items, LAMBDA m : KindFits(m.kind, kinds)), Created))

\* ...and without one the files are listed.
ListMemoryItems(indexed, items, kinds, limit) ==
    IF indexed THEN IndexedItems(items, kinds, limit)
    ELSE First(limit, LatestFirst(Loaded(items, kinds), Created))

KnownKinds == {"user", "rule", "article", "note"}
UserCap == 3
WaterfallCap == 5

\* MemoryStore.search_memory_items: what is the user's first, then the others; a pass
\* that fails leaves nothing of its own. Asking for no kind is asking for all but the user's.
TwoPasses(ranking, kinds, limit, failing) ==
    LET others == (IF kinds = <<>> \/ kinds = <<{}>> THEN KnownKinds ELSE kinds[1]) \ {"user"}
        Pass(name, asked, most) ==
            IF name \in failing \/ asked = {} THEN <<>>
            ELSE First(most, SelectSeq(ranking, LAMBDA m : m.kind \in asked))
        users == IF kinds = <<>> \/ "user" \in kinds[1] THEN {"user"} ELSE {}
    IN  First(limit, Pass("user", users, UserCap) \o Pass("waterfall", others, WaterfallCap))

\* Without an index the files are read; asking for no kind is asking for every known one.
GrepMemoryItems(items, query, kinds, limit) ==
    GrepRecall(Loaded(items, <<IF kinds = <<>> \/ kinds = <<{}>> THEN KnownKinds ELSE kinds[1]>>), query, limit)

MemorySearch(indexed, items, ranking, query, kinds, limit, failing) ==
    LET most == Max({1, limit})
    IN  Results(IF query = "" THEN ListMemoryItems(indexed, items, kinds, most)
                ELSE IF indexed THEN TwoPasses(ranking, kinds, most, failing)
                ELSE GrepMemoryItems(items, query, kinds, most))

\* memory_view looks at the top of the directory only.
MemoryView(items, stem) ==
    IF \E i \in DOMAIN items : items[i].stem = stem /\ ~items[i].archived THEN "item" ELSE "error"

-----------------------------------------------------------------------------
(* Sessions. A file is a record: at, id (neither, named, when its name is   *)
(* none of a session), whether it can be looked at, and its lines.          *)

\* A line is junk, or a message with its parts and the bytes it takes. Only a message
\* that ends within the head can be read; a prompt that is a list breaks its line off.
ExtractTitle(lines, head) ==
    LET end[i \in 0..Len(lines)] == IF i = 0 THEN 0 ELSE end[i - 1] + lines[i].size
        Prompts(i) == SelectSeq(lines[i].parts, LAMBDA p : p.kind = "user-prompt" /\ p.text # "")
        titled == {i \in DOMAIN lines : /\ lines[i].kind = "message" /\ end[i] <= head
                                        /\ Prompts(i) # <<>> /\ ~Prompts(i)[1].listed}
    IN  IF titled = {} THEN "(untitled)" ELSE Prompts(Min(titled))[1].text

\* The newest first, as the names sort.
ListSessions(files) ==
    LET At(f) == f.at
    IN  LatestFirst(SelectSeq(files, LAMBDA f : f.named /\ f.stat), At)

BrowseRecent(files, current, limit) ==
    First(limit, SelectSeq(ListSessions(files), LAMBDA f : f.id # current))

SessionsCap == 3

\* _search_sessions: hits are chunks of sessions; each session has its best one.
SearchSessions(hits, current) ==
    LET other == SelectSeq(First(SessionsCap * 5, hits), LAMBDA h : h.id # current)
        firsts == {i \in DOMAIN other : \A j \in 1..(i - 1) : other[j].id # other[i].id}
    IN  First(SessionsCap, [n \in 1..Cardinality(firsts) |->
            other[CHOOSE i \in firsts : Cardinality({j \in firsts : j < i}) = n - 1]])

\* session_search: the limit is of what is browsed; a search has its own.
SessionSearch(files, hits, current, query, limit) ==
    IF query = "" THEN BrowseRecent(files, current, Max({1, limit})) ELSE SearchSessions(hits, current)

Role == [kind \in {"user-prompt", "text", "tool-call", "tool-return"} |->
            CASE kind = "user-prompt" -> "user"
              [] kind = "text" -> "assistant"
              [] OTHER -> kind]

\* _extract_part: thinking and the like are left out, and so is what says nothing; of a
\* call only the tool's name is kept.
Extracted(part, line) ==
    IF part.kind \notin DOMAIN Role \/ (IF part.kind = "tool-call" THEN part.tool ELSE part.text) = ""
    THEN <<>>
    ELSE <<[line |-> line, role |-> Role[part.kind],
            content |-> IF part.kind = "tool-call" THEN part.tool ELSE part.text,
            bytes |-> IF part.kind = "tool-call" THEN 1 ELSE part.bytes]>>

ExtractMessages(lines) ==
    FlattenSeq([i \in DOMAIN lines |->
        IF lines[i].kind = "message"
        THEN FlattenSeq([p \in DOMAIN lines[i].parts |-> Extracted(lines[i].parts[p], i)]) ELSE <<>>])

\* session_view: at most so many lines from the first, and of their messages those that
\* fit, each cut to a preview, up to the first that does not.
SessionView(lines, start, end, mostLines, mostBytes, preview) ==
    IF start < 1 \/ end < start THEN [kind |-> "refused", shown |-> <<>>, truncated |-> FALSE]
    ELSE LET last == Min({end, start + mostLines - 1})
             there == SelectSeq(ExtractMessages(lines), LAMBDA m : m.line \in start..last)
             used[i \in 0..Len(there)] == IF i = 0 THEN 0 ELSE used[i - 1] + Min({there[i].bytes, preview})
             fit == Max({i \in 0..Len(there) : used[i] <= mostBytes})
         IN  [kind |-> "lines", shown |-> First(fit, there), truncated |-> last < end \/ fit < Len(there)]

-----------------------------------------------------------------------------
(* Queries. A query is a sequence of tokens: "word", "dotted" (a word with  *)
(* dots, dashes or underlines inside), "op" (AND, OR or NOT), "quote", "*", *)
(* "+" (any sign that is dropped) and " "; a phrase is what quotes enclose. *)

\* The phrases go by whole: <<"phrase">> stands for one.
KeepQuoted(query) ==
    LET quotes == {i \in DOMAIN query : query[i] = "quote"}
        Nth(i) == Cardinality({j \in quotes : j <= i})
        paired == IF Cardinality(quotes) % 2 = 0 THEN quotes ELSE quotes \ {Max(quotes)}
        inside(i) == \E j \in paired : j < i /\ Nth(j) % 2 = 1 /\ Nth(j) = Nth(i) /\ i \notin quotes
        closing(i) == i \in paired /\ Nth(i) % 2 = 0
        opening(i) == i \in paired /\ Nth(i) % 2 = 1
        token(i) == IF opening(i) THEN "phrase" ELSE query[i]
        kept == {i \in DOMAIN query : ~inside(i) /\ ~closing(i)}
    IN  [n \in 1..Cardinality(kept) |->
            token(CHOOSE i \in kept : Cardinality({j \in kept : j < i}) = n - 1)]

Stripped(query) ==
    LET body == {i \in DOMAIN query : query[i] # " "}
    IN  IF body = {} THEN <<>> ELSE SubSeq(query, Min(body), Max(body))

\* A star is kept once, and only behind something.
StarsKept(query) ==
    LET spaced == [i \in DOMAIN query |-> IF query[i] \in {"+", "quote"} THEN " " ELSE query[i]]
        kept == {i \in DOMAIN spaced : spaced[i] = "*" => i > 1 /\ spaced[i - 1] \notin {" ", "*"}}
    IN  [n \in 1..Cardinality(kept) |-> spaced[CHOOSE i \in kept : Cardinality({j \in kept : j < i}) = n - 1]]

\* One operator goes from the front and one from the end.
WithoutFirstOp(query) ==
    IF query # <<>> /\ query[1] = "op" THEN Tail(query) ELSE query
WithoutLastOp(query) ==
    IF Len(query) > 2 /\ query[Len(query)] = "op" /\ query[Len(query) - 1] = " " THEN Front(query) ELSE query

SanitizeQuery(query) ==
    LET front == Stripped(WithoutFirstOp(Stripped(StarsKept(KeepQuoted(query)))))
        both == Stripped(WithoutLastOp(front))
    IN  [i \in DOMAIN both |-> IF both[i] = "dotted" THEN "phrase" ELSE both[i]]

\* What the engine takes: operators between terms, and stars behind terms.
Accepted(query) ==
    LET said == SelectSeq(query, LAMBDA t : t # " ")
        Term(i) == i \in DOMAIN said /\ said[i] \in {"word", "phrase"}
    IN  /\ said # <<>>
        /\ \A i \in DOMAIN said :
             /\ said[i] \in {"word", "phrase", "op", "*"}
             /\ said[i] = "*" => Term(i - 1)
             /\ said[i] = "op" => (Term(i - 1) \/ (i > 1 /\ said[i - 1] = "*")) /\ Term(i + 1)

\* run_fts: a query that the engine refuses is asked of the words alone.
RunFts(query) ==
    CASE Accepted(query) -> "match"
      [] ~Accepted(query) /\ (\E i \in DOMAIN query : query[i] \in {"word", "phrase"}) -> "like"
      [] OTHER -> "none"

-----------------------------------------------------------------------------
(* What is to hold of recall: that a hit leads to what it is a hit of, how *)
(* the ways to ask agree, and which queries the index takes.               *)

\* What is listed or found can be viewed, but an archived item the index has a row of.
HitsCanBeViewed(indexed, items, query, kinds, limit) ==
    LET hits == MemorySearch(indexed, items, items, query, kinds, limit, {})
        archived(stem) == \E i \in DOMAIN items : items[i].stem = stem /\ items[i].archived
    IN  \A i \in DOMAIN hits : MemoryView(items, hits[i].stem) = "error" => indexed /\ archived(hits[i].stem)

\* A search with an index finds nothing of a kind that was not asked for, the user's
\* items first and three of them at most, and a limit of one leaves only those.
UsersComeFirst(items, kinds, limit, failing) ==
    LET hits == TwoPasses(items, kinds, limit, failing)
    IN  /\ Len(hits) <= limit /\ Len(hits) <= UserCap + WaterfallCap
        /\ \A i, j \in DOMAIN hits : i < j /\ hits[j].kind = "user" => hits[i].kind = "user"
        /\ Cardinality({i \in DOMAIN hits : hits[i].kind = "user"}) <= UserCap
        /\ kinds # <<>> /\ kinds # <<{}>> => \A i \in DOMAIN hits : hits[i].kind \in kinds[1]
        /\ (\E i \in DOMAIN items : items[i].kind = "user") /\ failing = {} /\ kinds = <<>> /\ limit = 1 =>
             hits[1].kind = "user"

\* With and without an index a search for no kind at all differs: the one leaves out the
\* user's items, the other has them; and an inventory of no kind is empty both ways.
NoKindIsMany(items, query) ==
    LET found == TwoPasses(items, <<{}>>, Len(items), {})
        read == GrepMemoryItems(items, query, <<{}>>, Len(items))
    IN  /\ \A i \in DOMAIN found : found[i].kind # "user"
        /\ \A i \in DOMAIN items :
             ~items[i].archived /\ query \in items[i].words /\ items[i].kind \in KnownKinds =>
                 items[i] \in ToSet(read)
        /\ ListMemoryItems(TRUE, items, <<{}>>, 9) = <<>> /\ ListMemoryItems(FALSE, items, <<{}>>, 9) = <<>>

\* The current session is never among what is found of others, a session is found once,
\* by its best chunk, and whatever the limit of a search is, three may come.
OthersAreFound(files, hits, current, limit) ==
    LET found == SessionSearch(files, hits, current, "query", limit)
        browsed == SessionSearch(files, hits, current, "", limit)
    IN  /\ \A i \in DOMAIN found : found[i].id # current
        /\ \A i, j \in DOMAIN found : found[i].id = found[j].id => i = j
        /\ \A i \in DOMAIN found :
             \E n \in DOMAIN hits : hits[n] = found[i] /\ \A m \in 1..(n - 1) : hits[m].id # found[i].id
        /\ Len(found) = Min({SessionsCap, Cardinality({hits[n].id : n \in DOMAIN hits} \ {current})})
        /\ \A i \in DOMAIN browsed : browsed[i].id # current
        /\ Len(browsed) <= Max({1, limit})
        /\ \A i, j \in DOMAIN browsed : i < j => browsed[i].at >= browsed[j].at

\* A session has a title when a message with a plain prompt ends within the head, and
\* then it is the first such prompt.
TitlesAreFound(lines, head) ==
    LET title == ExtractTitle(lines, head)
        prompts == {m \in ToSet(ExtractMessages(lines)) : m.role = "user"}
    IN  /\ title # "(untitled)" => \E m \in prompts : m.content = title
        /\ lines # <<>> /\ lines[1].size > head => title = "(untitled)"

\* What a chunk names can be read back: every message of the lines that were asked for
\* is shown, in their order, unless the view says that it left some out.
ViewsAreWhole(lines, start, end, mostLines, mostBytes) ==
    LET view == SessionView(lines, start, end, mostLines, mostBytes, 2)
        there == SelectSeq(ExtractMessages(lines), LAMBDA m : m.line \in start..end)
    IN  view.kind = "lines" =>
          /\ IsPrefix(view.shown, there)
          /\ ~view.truncated => view.shown = there
          /\ end - start < mostLines /\ 2 * Len(there) <= mostBytes => ~view.truncated

\* What tells words apart from what is around them holds of the tokens of a query.
WellCut(query) ==
    \A i \in 1..(Len(query) - 1) : ~({query[i], query[i + 1]} \subseteq {"word", "dotted", "op"})

Ops(query) == {i \in DOMAIN query : query[i] = "op"}

\* A query whose operators are spaced, and not more than one, is taken as it leaves the
\* clean-up; one that is not is asked of its words alone, unless it has none.
QueriesAreTaken(query) ==
    LET clean == SanitizeQuery(query)
        spaced == \A i \in Ops(query) :
                     (i > 1 => query[i - 1] = " ") /\ (i < Len(query) => query[i + 1] = " ")
        alone == Cardinality(Ops(query)) <= 1
    IN  /\ clean # <<>> /\ alone /\ spaced => RunFts(clean) = "match"
        /\ RunFts(clean) = "none" => \A i \in DOMAIN clean : clean[i] \in {" ", "op", "*"}
        /\ \A i \in DOMAIN clean : clean[i] \notin {"quote", "+", "dotted"}

\* Cleaning up again changes nothing but operators and a star that one of them left.
CleanStaysClean(query) ==
    LET clean == SanitizeQuery(query)
    IN  Ops(clean) = {} /\ ~IsPrefix(<<"*">>, clean) => SanitizeQuery(clean) = clean

=============================================================================
