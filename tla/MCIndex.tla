------------------------------ MODULE MCIndex ------------------------------
(* A long content and a short one that share a text, cut as the chunker cuts *)
(* them; and the chunkers and the ranking on all small inputs.               *)
EXTENDS Index, TLC

CONSTANTS long, short, textA, textB

Facts == INSTANCE SearchFacts

MCChunks == [v \in {long, short} |-> IF v = long THEN <<textA, textB>> ELSE <<textB>>]

\* A token each.
Line(t) == IF t = textA THEN <<1, 2, 3>> ELSE <<4, 5, 6>>

\* chunk_text makes these chunks of two paragraphs and of the second alone.
ASSUME ChunksAreCut ==
    \A v \in {long, short} :
        LET body == IF v = long THEN <<Line(textA), <<>>, Line(textB)>> ELSE <<Line(textB)>>
            made == Facts!ChunkText(body, 1, 0)
        IN  [n \in DOMAIN made |-> made[n].text] = [n \in DOMAIN MCChunks[v] |-> Line(MCChunks[v][n])]

\* chunk_text loses and repeats nothing but the overlap: four lines, blank ones
\* among them, shorter and longer than a chunk.
ASSUME TextsAreCut ==
    \A first, last \in {3, 9, 20}, m, n \in {0, 4, 7}, tokens \in 1..2, overlap \in 0..2 :
        Facts!TextChunks(<<first, m, n, last>>, tokens, overlap)

Messages ==
    {[role |-> r, size |-> Facts!SumOf(s), slices |-> s] :
        r \in {"assistant", "tool-call"}, s \in {<<4>>, <<11>>, <<7, 7>>}}

\* chunk_session covers a transcript without parting a message: four messages on
\* lines of their own.
ASSUME TranscriptsAreCut ==
    \A ms \in [1..4 -> Messages], overlap \in {0, 3, 6} :
        Facts!Windows([i \in 1..4 |-> [line |-> i] @@ ms[i]], 5, overlap)

Keys == {Facts!Key(d, c) : d \in 1..2, c \in 1..2}
Lists == {s \in Facts!BoundedSeq(Keys, 3) : Facts!IsInjective(s)}

\* _hybrid_merge ranks every document by its best chunk: all pairs of lists.
ASSUME ListsAreFused == \A fts, vec \in Lists : Facts!Fusion(fts, vec)

\* The chunks of three rowids.
At == <<Facts!Key(1, 1), Facts!Key(2, 1), Facts!Key(1, 2)>>

\* What search returns, over lists, filters, failing and answering services.
ASSUME ResultsFit ==
    \A words \in Lists, near \in {<<>>, <<2, 1>>, <<3, 1, 2>>}, allowed \in SUBSET (1..2),
       hybrid, embeds \in BOOLEAN, by \in {<<>>, <<1, 2>>, <<2, 1>>, <<1, 1>>}, limit \in 1..2 :
        Facts!Results(words, near, At, allowed, hybrid, embeds, by, limit)

\* The nearest chunk leads only if the rowids happen to be in the order of the
\* distances: the lookup of the chunks loses it.
ASSUME NearestMayFollow ==
    \E words \in Lists, near \in {s \in Facts!BoundedSeq(1..3, 3) : Facts!IsInjective(s)} :
        ~Facts!LeaderLeads(words, near, At, 1..2)

\* When they are, a chunk that leads both lists leads the result.
ASSUME NearestLeadsInOrder ==
    \A words \in Lists, near \in {<<1>>, <<1, 2>>, <<1, 2, 3>>} :
        Facts!LeaderLeads(words, near, At, 1..2)

-----------------------------------------------------------------------------
(* Recall: memory and past sessions, and the queries of the index.          *)

Recalls == INSTANCE Recall

QueryTokens == {"word", "dotted", "op", "quote", "*", "+", " "}

\* What is cleaned up is taken, unless operators meet or touch something.
ASSUME QueriesAreTaken ==
    \A n \in 0..4 : \A query \in [1..n -> QueryTokens] : Recalls!WellCut(query) => Recalls!QueriesAreTaken(query)

\* Cleaning up is done once.
ASSUME CleanStaysClean ==
    \A n \in 0..4 : \A query \in [1..n -> QueryTokens] : Recalls!WellCut(query) => Recalls!CleanStaysClean(query)

Noted(stem, archived, kind, title, updated) ==
    [stem |-> stem, archived |-> archived, kind |-> kind, title |-> title, words |-> {"tea"},
     created |-> 1, updated |-> updated]

Noteds ==
    {Noted("a", FALSE, "user", "", 0), Noted("b", FALSE, "rule", "tea", 2),
     Noted("c", TRUE, "rule", "", 3), Noted("d", FALSE, "other", "", 0)}

Kinds == {<<>>, <<{}>>, <<{"user"}>>, <<{"rule"}>>, <<{"user", "rule"}>>}

\* A hit of memory can be viewed, unless it is of the archive.
ASSUME HitsCanBeViewed ==
    \A n \in 0..3, query \in {"", "tea", "milk"}, kinds \in Kinds, limit \in -1..3, indexed \in BOOLEAN :
        \A items \in [1..n -> Noteds] : Recalls!HitsCanBeViewed(indexed, items, query, kinds, limit)

\* The user's items come first, three of them at most.
ASSUME UsersComeFirst ==
    \A items \in {[i \in 1..9 |-> Noted("a", FALSE, IF i % 2 = 0 THEN "user" ELSE "rule", "", 0)]}
                    \cup [1..3 -> Noteds],
       kinds \in Kinds, limit \in 1..9, failing \in SUBSET {"user", "waterfall"} :
        Recalls!UsersComeFirst(items, kinds, limit, failing)

\* To ask for no kind is to ask for all but the user's, for all or for none.
ASSUME NoKindIsMany == \A items \in [1..3 -> Noteds] : Recalls!NoKindIsMany(items, "tea")

\* Other sessions are found, each once; the limit is of browsing only.
ASSUME OthersAreFound ==
    \A files \in [1..2 -> {[at |-> i, id |-> i, named |-> b, stat |-> b] : i \in 1..4, b \in BOOLEAN}],
       ids \in [1..5 -> 1..4], current \in 0..4, limit \in 0..2 :
        Recalls!OthersAreFound(files, [i \in 1..5 |-> [id |-> ids[i], chunk |-> i]], current, limit)

TranscriptParts ==
    {[kind |-> "user-prompt", text |-> "u", listed |-> FALSE, tool |-> "", bytes |-> 1],
     [kind |-> "user-prompt", text |-> "v", listed |-> TRUE, tool |-> "", bytes |-> 3],
     [kind |-> "thinking", text |-> "t", listed |-> FALSE, tool |-> "", bytes |-> 1],
     [kind |-> "tool-call", text |-> "", listed |-> FALSE, tool |-> "x", bytes |-> 4]}

TranscriptLines ==
    {[kind |-> "junk", size |-> 1, parts |-> <<>>]}
        \cup {[kind |-> "message", size |-> size, parts |-> parts] :
                 size \in {1, 4}, parts \in UNION {[1..n -> TranscriptParts] : n \in 0..2}}

\* A session is titled by the first plain prompt that ends within the head of its file.
ASSUME TitlesAreFound == \A lines \in [1..2 -> TranscriptLines] : Recalls!TitlesAreFound(lines, 4)

\* A view shows all that was asked for or says that it does not.
ASSUME ViewsAreWhole ==
    \A lines \in [1..2 -> TranscriptLines], start \in 0..2, end \in 0..3, most \in 1..2, bytes \in {3, 5, 9} :
        Recalls!ViewsAreWhole(lines, start, end, most, bytes)

=============================================================================
