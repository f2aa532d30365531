------------------------------ MODULE Ranking ------------------------------
(***************************************************************************)
(* How the hits of a query are ranked (co_cli/index/_retrieval.py): the    *)
(* chunks that match its words and those whose vectors are near are fused  *)
(* by their places in the two lists, a document stands where its best      *)
(* chunk does, and a cross-encoder may rank what comes of it once more.    *)
(*                                                                         *)
(* Pure functions on sequences, best first.  A hit is a chunk of a         *)
(* document, by its key; filters are sets of documents.                    *)
(***************************************************************************)
EXTENDS Integers, SequencesExt

K == 60             \* Cormack et al.
Candidates == 4     \* RERANKER_CANDIDATE_MULTIPLIER
Nearest == 16       \* vectors fetched for a result
Fetched == 20       \* CHUNK_DEDUP_FETCH_MULTIPLIER

Key(doc, chunk) == [doc |-> doc, chunk |-> chunk]

First(n, s) == SubSeq(s, 1, IF n < Len(s) THEN n ELSE Len(s))

PlaceOf(s, x) == CHOOSE i \in DOMAIN s : s[i] = x /\ \A j \in 1..i - 1 : s[j] # x

\* sort() is stable: what no pair of better tells apart keeps its order.
Ranked(s, better) ==
    SetToSortSeq(ToSet(s), LAMBDA x, y :
        \/ <<x, y>> \in better
        \/ <<y, x>> \notin better /\ PlaceOf(s, x) < PlaceOf(s, y))

\* Distinct documents, in the order of their first hits.
DocsOf(keys) ==
    FoldLeft(LAMBDA ds, k : IF k.doc \in ToSet(ds) THEN ds ELSE Append(ds, k.doc), <<>>, keys)

-----------------------------------------------------------------------------
(***************************************************************************)
(* Reciprocal rank fusion; a score is a fraction <<numerator, denominator>>.*)
(***************************************************************************)
Less(p, q) == p[1] * q[2] < q[1] * p[2]

Score(fts, vec, k) ==
    LET f == K + PlaceOf(fts, k)
        v == K + PlaceOf(vec, k)
    IN  CASE k \notin ToSet(vec) -> <<1, f>>
          [] k \notin ToSet(fts) -> <<1, v>>
          [] OTHER -> <<f + v, f * v>>

\* The keys of both lists, in the order of the scores' dictionary.
Fused(fts, vec) == fts \o SelectSeq(vec, LAMBDA k : k \notin ToSet(fts))

\* The first of a document's best chunks.
Winner(fts, vec, doc) ==
    LET keys == SelectSeq(Fused(fts, vec), LAMBDA k : k.doc = doc)
        best == {i \in DOMAIN keys : \A j \in DOMAIN keys :
                    ~Less(Score(fts, vec, keys[i]), Score(fts, vec, keys[j]))}
    IN  keys[CHOOSE i \in best : \A j \in best : i <= j]

\* _hybrid_merge: only what the words matched has a snippet.
Merge(fts, vec) ==
    LET found    == DocsOf(Fused(fts, vec))
        score(d) == Score(fts, vec, Winner(fts, vec, d))
        docs     == Ranked(found, {p \in ToSet(found) \X ToSet(found) :
                                      Less(score(p[2]), score(p[1]))})
    IN  [i \in DOMAIN docs |->
            LET k == Winner(fts, vec, docs[i])
            IN  [key |-> k, snippet |-> k \in ToSet(fts)]]

-----------------------------------------------------------------------------
(***************************************************************************)
(* The two lists.                                                          *)
(***************************************************************************)
\* _run_chunks_fts: the filter is part of the query.
FtsChunks(words, allowed, n) == First(n, SelectSeq(words, LAMBDA k : k.doc \in allowed))

\* _dedup_by_path: the words' hits come by score, so a document's first is best.
Dedup(keys) ==
    LET docs == DocsOf(keys)
    IN  [i \in DOMAIN docs |->
            [key |-> (SelectSeq(keys, LAMBDA k : k.doc = docs[i]))[1], snippet |-> TRUE]]

\* _vec_chunks_search: near are rowids by distance, at[r] the chunk of rowid r.
\* The chunks are looked up among the rowids that are near, and come in the
\* order of these; the filter is applied to what was fetched.
VecChunks(near, at, allowed, n) ==
    LET rows == {r \in ToSet(First(n, near)) : r \in DOMAIN at /\ at[r].doc \in allowed}
    IN  [i \in DOMAIN SetToSortSeq(rows, <) |-> at[SetToSortSeq(rows, <)[i]]]

-----------------------------------------------------------------------------
(***************************************************************************)
(* A search.                                                               *)
(***************************************************************************)
\* _tei_rerank: by[i] is the score of candidate i, 0 if it was not answered.
TeiRerank(hits, by, limit) ==
    LET order == Ranked([i \in DOMAIN hits |-> i],
                        {p \in (DOMAIN hits) \X (DOMAIN hits) : by[p[1]] > by[p[2]]})
    IN  First(limit, [n \in DOMAIN order |-> hits[order[n]]])

\* _rerank: without a cross-encoder, or when it fails, as they come.
Rerank(hits, reranker, limit) ==
    IF reranker.answers /\ hits # <<>> THEN TeiRerank(hits, reranker.by, limit)
    ELSE First(limit, hits)

\* _hybrid_search: without a vector for the query the words decide.
HybridSearch(words, near, at, allowed, embeds, reranker, limit) ==
    LET fts == FtsChunks(words, allowed, limit * Candidates)
    IN  Rerank(IF embeds THEN Merge(fts, VecChunks(near, at, allowed, limit * Nearest))
               ELSE Dedup(fts), reranker, limit)

\* _fts_search
FtsSearch(words, allowed, n) == First(n, Dedup(FtsChunks(words, allowed, n * Fetched)))

\* search(): with a cross-encoder there are more candidates than results.
Search(words, near, at, allowed, hybrid, embeds, encoder, reranker, limit) ==
    IF hybrid THEN HybridSearch(words, near, at, allowed, embeds, reranker, limit)
    ELSE Rerank(FtsSearch(words, allowed, IF encoder THEN limit * Candidates ELSE limit),
                reranker, limit)

=============================================================================
