------------------------------- MODULE Index -------------------------------
(***************************************************************************)
(* The search index (co_cli/index): one SQLite connection over the rows of *)
(* documents, their chunks, the vectors of the chunks and the embedding    *)
(* cache, and those who keep it in step with the files: the syncs of a     *)
(* starting process (co_cli/memory/store.py, co_cli/session/store.py) and  *)
(* the memory tools.                                                       *)
(*                                                                         *)
(* "view" is what the connection sees, "db" what is committed: an error    *)
(* rolls a transaction back to it, and so does the end of the process.     *)
(* The hash of a content is the content.  What a query finds is left out;  *)
(* that it is embedded, which commits, is not.  The notes of Obsidian and  *)
(* the files of Drive would be indexed the same way, but their tools run   *)
(* on threads from which the connection refuses to be used.                *)
(***************************************************************************)
EXTENDS Integers, Sequences, FiniteSetsExt

CONSTANTS
    Items,      \* memory items
    Sessions,   \* transcripts
    Contents,   \* what a file may hold
    Texts,      \* what a chunk may say
    Chunks,     \* Chunks[v]: the texts content v is cut into
    MaxRow,     \* bound: rowids
    Absent      \* no file, no row, no transaction

Docs    == Items \cup Sessions
RowIds  == 1..MaxRow
Indexes == UNION {DOMAIN Chunks[v] : v \in Contents}

\* A transcript without chunks is passed over, and so left out.
ASSUME IndexAssumption ==
    /\ Chunks \in [Contents -> Seq(Texts) \ {<<>>}]
    /\ MaxRow \in Nat
    /\ Items \cap Sessions = {}
    /\ Absent \notin Docs \cup Contents \cup Texts

VARIABLES
    disk,       \* the files
    db,         \* what is committed of docs, chunks and chunks_vec
    view,       \* what the connection sees
    cache,      \* embedding_cache: the texts that are in it
    backend,    \* of the store: "hybrid" or "fts5"
    phase,      \* the sync the process is at, or that it is open, or down
    found,      \* the files the sync counts as current
    left,       \* those it has yet to look at
    excluded,   \* the session the process starts in; Absent: another one
    job,        \* the transaction that indexes a document, or Absent
    \* Not in the program:
    cut,        \* documents left as they were in the middle of a change
    off         \* documents changed, or failed on, since the process began

index     == <<db, view, cache>>
sync      == <<phase, found, left, excluded>>
indexVars == <<disk, index, backend, sync, job, cut, off>>

Chunk == [doc : Docs, n : Indexes, text : Texts]

Tables ==
    [docs    : [Docs -> Contents \cup {Absent}],
     chunks  : [RowIds -> Chunk \cup {Absent}],
     vec     : [RowIds -> Texts \cup {Absent}],
     \* Vectors whose chunk was deleted while the vector table was not in use.
     orphans : SUBSET RowIds]

Job == [doc : Docs, v : Contents, n : Nat, row : RowIds \cup {0},
        early : BOOLEAN]

ASSUME RowAssumption == Absent \notin Chunk \cup Job

Hybrid == backend = "hybrid"

-----------------------------------------------------------------------------
(***************************************************************************)
(* The tables.                                                             *)
(***************************************************************************)
ChunkRows(x, D) == {r \in RowIds : x.chunks[r] # Absent /\ x.chunks[r].doc \in D}

\* SQLite's choice for a table without AUTOINCREMENT: rowids are used again.
NextRow(x) == Max({0} \cup {r \in RowIds : x.chunks[r] # Absent}) + 1

\* Seeded fault: the vectors stay.
WithoutChunksOnly(x, D) ==
    LET gone == ChunkRows(x, D)
    IN  [x EXCEPT !.chunks = [r \in RowIds |-> IF r \in gone THEN Absent ELSE @[r]]]

\* _remove_chunks_no_commit, of each of D: vectors only go with the hybrid backend.
WithoutChunks(x, D) ==
    LET gone == ChunkRows(x, D)
    IN  [x EXCEPT
            !.chunks  = [r \in RowIds |-> IF r \in gone THEN Absent ELSE @[r]],
            !.vec     = [r \in RowIds |-> IF r \in gone /\ Hybrid THEN Absent ELSE @[r]],
            !.orphans = IF Hybrid THEN @ \ gone
                        ELSE @ \cup {r \in gone : x.vec[r] # Absent}]

\* _remove_no_commit, of each of D
Without(x, D) ==
    [WithoutChunks(x, D) EXCEPT !.docs = [d \in Docs |-> IF d \in D THEN Absent ELSE @[d]]]

NeedsReindex(d, v) == view.docs[d] # v

-----------------------------------------------------------------------------
(***************************************************************************)
(* One document: with store.transaction() as tx: tx.upsert, tx.index_chunks*)
(***************************************************************************)
\* The row has the new hash and the old chunks are gone.
Begin(d, v) ==
    /\ NextRow(WithoutChunks(view, {d})) + Len(Chunks[v]) <= MaxRow + 1
    /\ view' = [WithoutChunks(view, {d}) EXCEPT !.docs[d] = v]
    /\ job' = [doc |-> d, v |-> v, n |-> 1, row |-> 0, early |-> FALSE]

\* The text of the chunk at hand.
Text == Chunks[job.v][job.n]

More == job # Absent /\ job.n <= Len(Chunks[job.v])
Embedding == More /\ job.row # 0

NextChunk == [job EXCEPT !.n = @ + 1, !.row = 0]

InsertChunk ==
    /\ More /\ job.row = 0
    /\ view' = [view EXCEPT !.chunks[NextRow(view)] =
                                [doc |-> job.doc, n |-> job.n, text |-> Text]]
    /\ job' = IF Hybrid THEN [job EXCEPT !.row = NextRow(view)] ELSE NextChunk
    /\ UNCHANGED <<disk, db, cache, backend, sync, cut, off>>

\* Not in the cache, and the provider answers: EmbeddingService.embed commits
\* what it cached, and with it whatever the connection has open.
Embed ==
    /\ Embedding /\ Text \notin cache
    /\ cache' = cache \cup {Text}
    /\ db' = view
    /\ job' = [job EXCEPT !.early = TRUE]
    /\ UNCHANGED <<disk, view, backend, sync, cut, off>>

\* The provider fails: the chunk has no vector, for good.
NoEmbedding ==
    /\ Embedding /\ Text \notin cache
    /\ job' = NextChunk
    /\ UNCHANGED <<disk, index, backend, sync, cut, off>>

\* A rowid that still has a vector is refused.
PutVector ==
    /\ Embedding /\ Text \in cache /\ view.vec[job.row] = Absent
    /\ view' = [view EXCEPT !.vec[job.row] = Text]
    /\ job' = NextChunk
    /\ UNCHANGED <<disk, db, cache, backend, sync, cut, off>>

Commit ==
    /\ job # Absent /\ ~More
    /\ db' = view
    /\ job' = Absent
    /\ cut' = cut \ {job.doc}
    /\ UNCHANGED <<disk, view, cache, backend, sync, off>>

\* What a transaction that does not get to its end leaves behind.
CutShort == IF job # Absent /\ job.early THEN {job.doc} ELSE {}

\* Seeded fault: the connection is not rolled back.
RollBackNever == UNCHANGED view

RollBack == view' = db

\* The statement at hand raises, by a busy database, a vector of the wrong
\* length or a rowid taken, or Ctrl-C does.  A sync goes on with the next file.
TxRaises ==
    /\ job # Absent
    /\ RollBack
    /\ job' = Absent
    /\ cut' = cut \cup CutShort
    /\ off' = off \cup {job.doc}
    /\ UNCHANGED <<disk, db, cache, backend, sync>>

-----------------------------------------------------------------------------
(***************************************************************************)
(* The syncs of a starting process: memory first, then sessions.           *)
(***************************************************************************)
There(D) == {d \in D : disk[d] # Absent}

\* Seeded fault: the transcript in progress is indexed as well.
CurrentAll == There(Sessions)

\* Not the session the process is attached to.
Current == There(Sessions) \ {excluded}

Boot(b, s) ==
    /\ phase = "down"
    /\ phase' = "memory"
    /\ backend' = b
    /\ excluded' = s
    /\ found' = There(Items)
    /\ left' = There(Items)
    /\ UNCHANGED <<disk, index, job, cut, off>>

\* No process: what it knew is gone.
Down ==
    /\ phase' = "down"
    /\ found' = {} /\ left' = {}
    /\ excluded' = Absent
    /\ off' = {}

Syncing == phase \in {"memory", "session"} /\ job = Absent

\* One file: read, and indexed if its hash is not the one of the row.
Visit(d) ==
    /\ Syncing /\ d \in left
    /\ left' = left \ {d}
    /\ IF disk[d] # Absent /\ NeedsReindex(d, disk[d])
       THEN Begin(d, disk[d]) ELSE UNCHANGED <<view, job>>
    /\ UNCHANGED <<disk, db, cache, backend, phase, found, excluded, cut, off>>

Source == IF phase = "memory" THEN Items ELSE Sessions
Stale  == {d \in Source \ found : view.docs[d] # Absent}

NextSync ==
    IF phase = "memory"
    THEN phase' = "session" /\ found' = Current /\ left' = Current
    ELSE phase' = "open" /\ found' = {} /\ left' = {}

\* remove_stale; it commits only if there was something to remove.  The directory is
\* there: the start makes it, unless the settings name another, and then the sync of a
\* missing one leaves the rows alone.
EndSync ==
    /\ Syncing /\ left = {}
    /\ view' = Without(view, Stale)
    /\ db' = IF Stale = {} THEN db ELSE view'
    /\ cut' = cut \ Stale
    /\ NextSync
    /\ UNCHANGED <<disk, cache, backend, excluded, job, off>>

\* It raises between two statements and nobody rolls back: D is removed, e in
\* part.  For memory items that ends the startup, for sessions it is a warning.
EndSyncFails(D, e) ==
    /\ Syncing /\ left = {}
    /\ D \subseteq Stale /\ e \in Stale \ D
    /\ IF phase = "memory"
       THEN /\ view' = db
            /\ Down
            /\ UNCHANGED cut
       ELSE /\ view' = WithoutChunks(Without(view, D), {e})
            /\ phase' = "open" /\ found' = {} /\ left' = {}
            /\ cut' = cut \cup {e}
            /\ off' = off \cup Stale
            /\ UNCHANGED excluded
    /\ UNCHANGED <<disk, db, cache, backend, job>>

-----------------------------------------------------------------------------
(***************************************************************************)
(* The open process.                                                       *)
(***************************************************************************)
Open == phase = "open" /\ job = Absent

\* A memory tool writes an item and indexes it, whatever the row says.
Save(d, v) ==
    /\ Open
    /\ disk' = [disk EXCEPT ![d] = v]
    /\ Begin(d, v)
    /\ off' = off \ {d}
    /\ UNCHANGED <<db, cache, backend, sync, cut>>

\* It deletes or archives one.
Discard(d) ==
    /\ Open /\ disk[d] # Absent
    /\ disk' = [disk EXCEPT ![d] = Absent]
    /\ view' = Without(view, {d})
    /\ db' = view'
    /\ cut' = cut \ {d}
    /\ off' = off \ {d}
    /\ UNCHANGED <<cache, backend, sync, job>>

\* The removal raises before the row of the document goes: outside of a
\* transaction nothing rolls back, and the next commit takes it along.
DiscardFails(d) ==
    /\ Open /\ disk[d] # Absent
    /\ disk' = [disk EXCEPT ![d] = Absent]
    /\ view' = WithoutChunks(view, {d})
    /\ cut' = cut \cup {d}
    /\ off' = off \cup {d}
    /\ UNCHANGED <<db, cache, backend, sync, job>>

\* A query is embedded and cached.
Search ==
    /\ Open /\ Hybrid
    /\ db' = view
    /\ UNCHANGED <<disk, view, cache, backend, sync, job, cut, off>>

-----------------------------------------------------------------------------
\* Turns write transcripts, and people and other processes whatever they like.
Change(d, v) ==
    /\ disk[d] # v
    /\ disk' = [disk EXCEPT ![d] = v]
    /\ off' = IF phase = "down" THEN {} ELSE off \cup {d}
    /\ UNCHANGED <<index, backend, sync, job, cut>>

\* The process ends, in a transaction or not.
Stop ==
    /\ phase # "down"
    /\ Down
    /\ view' = db
    /\ job' = Absent
    /\ cut' = cut \cup CutShort
    /\ UNCHANGED <<disk, db, cache, backend>>

Empty ==
    [docs    |-> [d \in Docs |-> Absent],
     chunks  |-> [r \in RowIds |-> Absent],
     vec     |-> [r \in RowIds |-> Absent],
     orphans |-> {}]

IndexInit ==
    /\ disk \in [Docs -> Contents \cup {Absent}]
    /\ db = Empty /\ view = Empty
    /\ cache = {}
    /\ backend \in {"hybrid", "fts5"}
    /\ phase = "down"
    /\ found = {} /\ left = {}
    /\ excluded = Absent
    /\ job = Absent
    /\ cut = {} /\ off = {}

IndexNext ==
    \/ \E b \in {"hybrid", "fts5"}, s \in Sessions \cup {Absent} : Boot(b, s)
    \/ \E d \in Docs : Visit(d)
    \/ EndSync
    \/ \E D \in SUBSET Stale : \E e \in Stale : EndSyncFails(D, e)
    \/ InsertChunk \/ Embed \/ NoEmbedding \/ PutVector \/ Commit \/ TxRaises
    \/ \E d \in Items :
          \/ \E v \in Contents : Save(d, v)
          \/ Discard(d) \/ DiscardFails(d)
    \/ Search
    \/ \E d \in Docs : \E v \in Contents \cup {Absent} : Change(d, v)
    \/ Stop

IndexSpec == IndexInit /\ [][IndexNext]_indexVars

-----------------------------------------------------------------------------
(***************************************************************************)
(* Properties.                                                             *)
(***************************************************************************)
\* The variables keep to their types; only a starting process has files to
\* look at, and only a chunk that is there waits for its vector.
IndexTypeOK ==
    /\ disk \in [Docs -> Contents \cup {Absent}]
    /\ db \in Tables /\ view \in Tables
    /\ cache \subseteq Texts
    /\ backend \in {"hybrid", "fts5"}
    /\ phase \in {"memory", "session", "open", "down"}
    /\ found \subseteq Docs /\ left \subseteq found
    /\ excluded \in Sessions \cup {Absent}
    /\ job \in Job \cup {Absent}
    /\ left # {} => phase \in {"memory", "session"}
    /\ job # Absent => phase # "down" /\ (job.row # 0 => Hybrid /\ More)
    /\ cut \subseteq Docs /\ off \subseteq Docs

\* The documents at work.
AtWork == IF job = Absent THEN {} ELSE {job.doc}

Indexed(x, d) == {<<x.chunks[r].n, x.chunks[r].text>> : r \in ChunkRows(x, {d})}
Wanted(v) ==
    IF v = Absent THEN {} ELSE {<<n, Chunks[v][n]>> : n \in DOMAIN Chunks[v]}

\* A document is in the index with all its chunks or with none, for the
\* content its row has the hash of: this is what lets the sync go by the hash.
\* That fails for good where a change was cut off behind a commit: an indexing
\* after an embedding was cached, or a removal that raised.
Whole ==
    \A d \in Docs \ (cut \cup AtWork) :
        /\ Indexed(view, d) = Wanted(view.docs[d])
        /\ Indexed(db, d) = Wanted(db.docs[d])

\* A vector is that of the text of the chunk it leads to, through deletions,
\* rewrites and rowids used again, unless its chunk was deleted by a process
\* that had to do without vectors.
VectorsFit ==
    \A r \in RowIds \ view.orphans :
        view.vec[r] # Absent =>
            view.chunks[r] # Absent /\ view.chunks[r].text = view.vec[r]

\* In an open process the rows are those of the files, with the content the
\* files have, whatever earlier processes left behind; the session the process
\* started in has none.  Excepted are the files that changed since it started
\* and those that could not be indexed or removed.
RowsFollowDisk ==
    Open => \A d \in Docs \ off :
        view.docs[d] = IF d = excluded THEN Absent ELSE disk[d]

=============================================================================
