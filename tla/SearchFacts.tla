---------------------------- MODULE SearchFacts ----------------------------
(***************************************************************************)
(* What Chunking and Ranking compute, against what they are to compute,    *)
(* for given inputs.                                                       *)
(***************************************************************************)
EXTENDS Chunking, Ranking

-----------------------------------------------------------------------------
(* Memory items. *)

\* A text by the lengths of its lines; every character is another one.
TextOf(lens) == [i \in DOMAIN lens |-> [c \in 1..lens[i] |-> 100 * i + c]]

Letters(text) == SelectSeq(text, LAMBDA c : c # NewLine)

\* What a chunk has beside the overlap with the one before it.
Own(chunks, n, overlap) ==
    LET before == IF n = 1 THEN 0 ELSE Len(chunks[n - 1].text)
        shared == IF before > overlap THEN overlap ELSE before
    IN  Letters(SubSeq(chunks[n].text, shared + 1, Len(chunks[n].text)))

\* Every letter is in one chunk's own part, in order; a chunk names the lines
\* its own part is from, and has no more letters than its budget and overlap
\* allow (the line ends between its lines and paragraphs are not budgeted).
TextChunks(lens, tokens, overlap_tokens) ==
    LET lines   == TextOf(lens)
        chunks  == ChunkText(lines, tokens, overlap_tokens)
        overlap == CharsPerToken * OverlapOf(tokens, overlap_tokens)
        own(n)  == Own(chunks, n, overlap)
    IN  /\ FlattenSeq([n \in DOMAIN chunks |-> own(n)]) = FlattenSeq(lines)
        /\ \A n \in DOMAIN chunks :
              /\ own(n) # <<>>
              /\ chunks[n].from = own(n)[1] \div 100
              /\ chunks[n].to = own(n)[Len(own(n))] \div 100
              /\ Len(Letters(chunks[n].text)) <= CharsPerToken * tokens + overlap

-----------------------------------------------------------------------------
(* Transcripts. *)

\* Every line that is worth it is in some window, windows move on, a message is
\* never parted, only the last message of a window may exceed the budget, and
\* two windows share no more than the overlap.
Windows(ms, tokens, overlap_tokens) ==
    LET f == Flatten(ms)
        w == ChunkSession(ms, tokens, overlap_tokens)
        a(n) == CHOOSE i \in w[n].text : \A j \in w[n].text : i <= j
        z(n) == CHOOSE i \in w[n].text : \A j \in w[n].text : i >= j
        last(n) == CHOOSE i \in w[n].text :
                      /\ f[i].line = w[n].to
                      /\ \A j \in w[n].text : f[j].line = w[n].to => i <= j
    IN  /\ UNION {w[n].text : n \in DOMAIN w} = DOMAIN f
        /\ \A n \in DOMAIN w :
              /\ a(n) > 1 => f[a(n)].line # f[a(n) - 1].line
              /\ z(n) < Len(f) => f[z(n)].line # f[z(n) + 1].line
              /\ Span(f, a(n), last(n) - 1) - 1 <= tokens * CharsPerToken
              /\ n > 1 => /\ a(n) > a(n - 1) /\ a(n) <= z(n - 1) + 1
                          /\ Span(f, a(n), z(n - 1)) <= overlap_tokens * CharsPerToken

-----------------------------------------------------------------------------
(* Ranking. *)

\* Every document that either list has is there once and stands where the best
\* of its chunks does.
Fusion(fts, vec) ==
    LET m == Merge(fts, vec)
        s(k) == Score(fts, vec, k)
        all == ToSet(fts) \cup ToSet(vec)
    IN  /\ {m[i].key.doc : i \in DOMAIN m} = {k.doc : k \in all}
        /\ \A i \in DOMAIN m :
              /\ m[i].key \in all /\ (m[i].snippet <=> m[i].key \in ToSet(fts))
              /\ \A k \in all : k.doc = m[i].key.doc => ~Less(s(m[i].key), s(k))
              /\ \A j \in DOMAIN m : i < j =>
                    m[i].key.doc # m[j].key.doc /\ ~Less(s(m[i].key), s(m[j].key))

\* A search gives at most as many as were asked for, of allowed documents, no
\* document twice; and a cross-encoder's best candidate is the first of them.
Results(words, near, at, allowed, hybrid, embeds, by, limit) ==
    LET reranker == [answers |-> by # <<>>, by |-> by]
        find(r, n) == Search(words, near, at, allowed, hybrid, embeds, TRUE, r, n)
        got  == find(reranker, limit)
        \* As many candidates as there can be: the documents there are.
        all  == find([answers |-> FALSE, by |-> <<>>], Cardinality({at[r].doc : r \in DOMAIN at}))
    IN  /\ Len(got) <= limit /\ (got = <<>> <=> all = <<>>)
        /\ \A i \in DOMAIN got :
              /\ got[i].key.doc \in allowed /\ got[i] \in ToSet(all)
              /\ \A j \in DOMAIN got : got[i].key.doc = got[j].key.doc => i = j
        /\ by # <<>> /\ got # <<>> =>
              \A i \in DOMAIN all : by[PlaceOf(all, got[1])] >= by[i]

\* A chunk that leads both lists leads the result.
LeaderLeads(words, near, at, docs) ==
    words # <<>> /\ near # <<>> /\ at[near[1]] = words[1] =>
        LET nothing == [answers |-> FALSE, by |-> <<>>]
        IN  HybridSearch(words, near, at, docs, TRUE, nothing, 1)[1].key = words[1]

=============================================================================
