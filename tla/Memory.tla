------------------------------ MODULE Memory ------------------------------
(***************************************************************************)
(* The memory items of co_cli/memory: files in memory_dir, their archive,  *)
(* the rows of the search index, and the dream cycle that mines session    *)
(* transcripts, merges similar items and archives old ones.  Which         *)
(* transcripts it mines is in Session.                                     *)
(*                                                                         *)
(* What runs between two awaits is one section: "dirty" and "toArchive"    *)
(* hold what it has left to do, and until it is over nobody else gets a    *)
(* turn.  The cycle awaits only the miner and the merging model; while it  *)
(* does, the miner itself or the background review may call memory_manage. *)
(* An operation may raise, which ends its section, and the process may die *)
(* between any two; a new process first syncs the index.                   *)
(*                                                                         *)
(* An item is the set of facts it holds.  Which text is similar, what a    *)
(* model extracts and how it words a merged item are left open; a merged   *)
(* item is taken to hold all facts it was made from.  File names carry a   *)
(* fresh uuid, so no two items ever share one.                             *)
(***************************************************************************)
EXTENDS FiniteSets, Sequences, Integers

CONSTANTS
    Names,      \* bound: file names
    Facts,      \* what items are about
    ByHand,     \* the items there may be at first, functions like "active"
    MaxMerges,  \* _MAX_MERGES_PER_CYCLE
    MaxEdits,   \* bound: calls of memory_manage
    MaxTorn,    \* bound: rows out of date at a time because of an error
    None        \* no file, no row, no name

ASSUME MemoryAssumption ==
    /\ MaxMerges \in Nat /\ MaxEdits \in Nat /\ MaxTorn \in Nat
    /\ None \notin Names

VARIABLES
    active,     \* memory_dir/*.md
    archive,    \* memory_dir/_archive/*.md
    rows,       \* the index rows of active files: what they say
    archRows,   \* the archived files that have an index row
    dirty,      \* the file whose row the section updates next
    syncing,    \* ... by syncing the whole directory
    toArchive,  \* the files the section has yet to archive
    cycle,      \* where the dream cycle is
    atExit,     \* it was started by the shutdown
    clusters,   \* snapshots of the clusters yet to merge
    \* Not in the program:
    edits,      \* calls of memory_manage so far
    saved,      \* facts someone saved
    deleted,    \* facts deleted or replaced, and not saved again
    aged,       \* facts archived for their age
    late,       \* facts added to an item while a merge had its snapshot
    torn        \* files whose row an error kept from being updated

fileVars    == <<active, archive, rows, archRows, torn>>
sectionVars == <<dirty, syncing, toArchive>>
cycleVars   == <<cycle, atExit, clusters>>
factVars    == <<saved, deleted, aged, late>>
vars == <<fileVars, sectionVars, cycleVars, edits, factVars>>

-----------------------------------------------------------------------------
\* kept: decay_protected, which only items written by hand carry.
Item == [facts : SUBSET Facts, kept : BOOLEAN]
New(F) == [facts |-> F, kept |-> FALSE]
Files  == [Names -> Item \cup {None}]

ASSUME ItemAssumption == None \notin Item /\ ByHand \subseteq Files

Held(files) == {n \in Names : files[n] # None}
FactsOf(files) == UNION {files[n].facts : n \in Held(files)}
\* A snapshot of a cluster: the names, and what each item said.
FactsIn(snapshot) == UNION {snapshot[n] : n \in DOMAIN snapshot}

\* No uuid is drawn twice.
FreshNames == {n \in Names :
    active[n] = None /\ archive[n] = None /\ rows[n] = None /\
    \A i \in DOMAIN clusters : n \notin DOMAIN clusters[i]}

\* The section is over.
Idle == dirty = None /\ toArchive = {}
\* The cycle waits for the miner or for the merging model.
Waiting == Idle /\ (cycle = "mining" \/ (cycle = "merging" /\ clusters # <<>>))

-----------------------------------------------------------------------------
(***************************************************************************)
(* memory_manage, as the agent, the background review and the miner call   *)
(* it.  The review is cancelled before the shutdown's cycle begins.        *)
(***************************************************************************)
ToolMayRun == Idle /\ (cycle \in {"off", "mining"} \/ (Waiting /\ ~atExit))

Call == ToolMayRun /\ edits < MaxEdits /\ edits' = edits + 1

\* The file is written; its row comes next.
Put(n, item) ==
    /\ active' = [active EXCEPT ![n] = item]
    /\ dirty' = n
    /\ UNCHANGED <<archive, rows, archRows, torn, syncing, toArchive>>

\* What a step does to what is remembered: F is said anew, and whatever is
\* in no active file any more was deleted.
Restate(F) ==
    /\ saved' = saved \cup F
    /\ deleted' = (deleted \cup (FactsOf(active) \ FactsOf(active')))
                     \ FactsOf(active')
    /\ UNCHANGED aged

InSnapshot(n) == \E i \in DOMAIN clusters : n \in DOMAIN clusters[i]
LateIf(n, F)  == late' = IF InSnapshot(n) THEN late \cup F ELSE late

Create(n, f) ==
    /\ Call /\ n \in FreshNames
    /\ Put(n, New({f}))
    /\ Restate({f})
    /\ UNCHANGED <<cycleVars, late>>

\* append, and a create that consolidates into a similar item.
Extend(n, f) ==
    /\ Call /\ active[n] # None
    /\ Put(n, [active[n] EXCEPT !.facts = @ \cup {f}])
    /\ Restate({f})
    /\ LateIf(n, {f})
    /\ UNCHANGED cycleVars

Replace(n, f, g) ==
    /\ Call /\ active[n] # None /\ f \in active[n].facts /\ f # g
    /\ Put(n, [active[n] EXCEPT !.facts = (@ \ {f}) \cup {g}])
    /\ Restate({g})
    /\ LateIf(n, {g})
    /\ UNCHANGED cycleVars

\* delete; /memory forget does the same for every match.
Delete(n) ==
    /\ Call /\ active[n] # None
    /\ Put(n, None)
    /\ Restate({})
    /\ UNCHANGED <<cycleVars, late>>

-----------------------------------------------------------------------------
(***************************************************************************)
(* The rest of a section.                                                  *)
(***************************************************************************)
Says(n) == IF active[n] = None THEN None ELSE active[n].facts

\* Seeded fault: the row of a file that is gone stays.
UpdateRowIfThere ==
    /\ dirty # None /\ ~syncing
    /\ rows' = IF active[dirty] = None THEN rows
               ELSE [rows EXCEPT ![dirty] = Says(dirty)]
    /\ torn' = torn \ ({dirty} \ archRows)
    /\ dirty' = None
    /\ UNCHANGED <<active, archive, archRows, syncing, toArchive, cycleVars,
                   edits, factVars>>

\* reindex, reindex_one, or remove of one file.
UpdateRow ==
    /\ dirty # None /\ ~syncing
    /\ rows' = [rows EXCEPT ![dirty] = Says(dirty)]
    /\ torn' = torn \ ({dirty} \ archRows)
    /\ dirty' = None
    /\ UNCHANGED <<active, archive, archRows, syncing, toArchive, cycleVars,
                   edits, factVars>>

\* sync_dir: the rows follow the files but for those in failed, whose reading or
\* indexing raised; that is logged, and their rows stay as they are.  The directory is
\* there: the start makes it, unless the settings name another one.
Synced(failed) ==
    [n \in Names |-> IF n \in failed /\ active[n] # None THEN rows[n] ELSE Says(n)]

\* ... of which a row can be out of date that was so before.
Unmended(failed) == failed \cap Held(active) \cap (torn \cup {dirty})

\* sync_dir("*.md") of restore_artifact: rows of other paths under the
\* directory are stale and go.
SyncRows(failed) ==
    /\ dirty # None /\ syncing
    /\ Cardinality(Unmended(failed)) <= MaxTorn
    /\ rows' = Synced(failed)
    /\ archRows' = {}
    /\ torn' = Unmended(failed)
    /\ dirty' = None
    /\ syncing' = FALSE
    /\ UNCHANGED <<active, archive, toArchive, cycleVars, edits, factVars>>

\* Seeded fault: the file is unlinked instead of moved.
MovedAway(n) == archive

\* It is in the archive from here on, under a name nothing has there.
Moved(n) == [archive EXCEPT ![n] = active[n]]

\* One entry of archive_artifacts, its file skipped if it is gone.
ArchiveNext(n) ==
    /\ dirty = None /\ n \in toArchive
    /\ toArchive' = toArchive \ {n}
    /\ IF active[n] = None
       THEN UNCHANGED <<active, archive, dirty, aged>>
       ELSE /\ archive' = Moved(n)
            /\ active' = [active EXCEPT ![n] = None]
            /\ dirty' = n
            /\ aged' = IF cycle = "merging" THEN aged
                       ELSE aged \cup (FactsOf(active) \ FactsOf(active'))
    /\ UNCHANGED <<rows, archRows, torn, syncing, cycleVars, edits, saved,
                   deleted, late>>

\* The index or the file system raises: the rest of the section is skipped,
\* the caller logs or reports it and goes on.
Raise ==
    /\ ~Idle
    /\ Cardinality(torn) < MaxTorn
    /\ torn' = torn \cup ({dirty} \ {None})
    /\ dirty' = None
    /\ syncing' = FALSE
    /\ toArchive' = {}
    /\ UNCHANGED <<active, archive, rows, archRows, cycleVars, edits, factVars>>

-----------------------------------------------------------------------------
(***************************************************************************)
(* Commands, while no cycle runs.                                          *)
(***************************************************************************)
\* Seeded fault: the archived copy is copied, not moved.
ArchiveKept(n) == archive

ArchiveWithout(n) == [archive EXCEPT ![n] = None]

\* /memory restore
Restore(n) ==
    /\ cycle = "off" /\ Idle
    /\ archive[n] # None
    /\ active' = [active EXCEPT ![n] = archive[n]]
    /\ archive' = ArchiveWithout(n)
    /\ dirty' = n
    /\ syncing' = TRUE
    /\ deleted' = deleted \ archive[n].facts
    /\ aged' = aged \ archive[n].facts
    /\ UNCHANGED <<rows, archRows, torn, toArchive, cycleVars, edits, saved,
                   late>>

\* find_decay_candidates: which items are old enough is left open.
Old(S) == S \subseteq Held(active) /\ \A n \in S : ~active[n].kept

\* /memory decay-review, confirmed
DecayReview(S) ==
    /\ cycle = "off" /\ Idle
    /\ S # {} /\ Old(S)
    /\ toArchive' = S
    /\ UNCHANGED <<fileVars, dirty, syncing, cycleVars, edits, factVars>>

-----------------------------------------------------------------------------
(***************************************************************************)
(* The dream cycle.                                                        *)
(***************************************************************************)
StartCycle(exit) ==
    /\ cycle = "off" /\ Idle
    /\ cycle' = "mining"
    /\ atExit' = exit
    /\ UNCHANGED <<fileVars, sectionVars, clusters, edits, factVars>>

\* Not _is_merge_immune.
Mergeable == {n \in Held(active) : ~active[n].kept}

\* Disjoint clusters of at least two, in some order.
Clusterings ==
    LET Groups == {S \in SUBSET Mergeable : Cardinality(S) >= 2}
    IN  UNION {{q \in [1..k -> Groups] :
                  \A i, j \in 1..k : i # j => q[i] \cap q[j] = {}} :
               k \in 0..MaxMerges}

\* The miner is through with the last transcript, or failed on it.
IdentifyClusters ==
    /\ cycle = "mining" /\ Idle
    /\ cycle' = "merging"
    /\ \E q \in Clusterings :
          clusters' = [i \in DOMAIN q |-> [n \in q[i] |-> active[n].facts]]
    /\ UNCHANGED <<fileVars, sectionVars, atExit, edits, factVars>>

\* Seeded fault: the sources are archived before the merged item is there.
MergeArchivingFirst(n) ==
    /\ cycle = "merging" /\ Waiting /\ n \in FreshNames
    /\ toArchive' = DOMAIN Head(clusters)
    /\ clusters' = Tail(clusters)
    /\ UNCHANGED <<fileVars, dirty, syncing, cycle, atExit, edits, factVars>>

\* The merged text is back: it is written, and the sources are archived.
Merge(n) ==
    /\ cycle = "merging" /\ Waiting /\ n \in FreshNames
    /\ active' = [active EXCEPT ![n] = New(FactsIn(Head(clusters)))]
    /\ dirty' = n
    /\ toArchive' = DOMAIN Head(clusters)
    /\ clusters' = Tail(clusters)
    /\ deleted' = deleted \ FactsIn(Head(clusters))
    /\ UNCHANGED <<archive, rows, archRows, torn, syncing, cycle, atExit,
                   edits, saved, aged, late>>

\* The model raises, or its text is too short.
MergeFails ==
    /\ cycle = "merging" /\ Waiting
    /\ clusters' = Tail(clusters)
    /\ UNCHANGED <<fileVars, sectionVars, cycle, atExit, edits, factVars>>

Decay(S) ==
    /\ cycle = "merging" /\ clusters = <<>> /\ Idle
    /\ Old(S)
    /\ cycle' = "decay"
    /\ toArchive' = S
    /\ late' = late \ FactsOf(active)
    /\ UNCHANGED <<fileVars, dirty, syncing, atExit, clusters, edits, saved,
                   deleted, aged>>

CycleOver == IF atExit THEN "exited" ELSE "off"

\* save_dream_state
EndCycle ==
    /\ cycle = "decay" /\ Idle
    /\ cycle' = CycleOver
    /\ UNCHANGED <<fileVars, sectionVars, atExit, clusters, edits, factVars>>

\* Seeded fault: only the mining is under the timeout.
TimeOutMining ==
    /\ Waiting /\ cycle = "mining"
    /\ cycle' = CycleOver
    /\ clusters' = <<>>
    /\ UNCHANGED <<fileVars, sectionVars, atExit, edits, factVars>>

\* asyncio.timeout, or Ctrl-C: it takes effect at an await.
TimeOut ==
    /\ Waiting
    /\ cycle' = CycleOver
    /\ clusters' = <<>>
    /\ UNCHANGED <<fileVars, sectionVars, atExit, edits, factVars>>

-----------------------------------------------------------------------------
\* The process ends here or anywhere, and the next one syncs the directory
\* with sync_dir's own pattern, "**/*.md": archived files get rows.
Restart(failed) ==
    /\ Cardinality(Unmended(failed)) <= MaxTorn
    /\ cycle' = "off"
    /\ dirty' = None
    /\ syncing' = FALSE
    /\ toArchive' = {}
    /\ clusters' = <<>>
    /\ atExit' = FALSE
    /\ rows' = Synced(failed)
    /\ archRows' = Held(archive) \ (failed \ archRows)
    /\ torn' = Unmended(failed)
    /\ UNCHANGED <<active, archive, edits, factVars>>

Init ==
    /\ active \in ByHand
    /\ archive = [n \in Names |-> None]
    /\ rows = [n \in Names |-> Says(n)]
    /\ archRows = {}
    /\ dirty = None
    /\ syncing = FALSE
    /\ toArchive = {}
    /\ cycle = "off"
    /\ atExit = FALSE
    /\ clusters = <<>>
    /\ edits = 0
    /\ saved = FactsOf(active)
    /\ deleted = {}
    /\ aged = {}
    /\ late = {}
    /\ torn = {}

Tool ==
    \E n \in Names :
        \/ Delete(n)
        \/ \E f \in Facts : Create(n, f) \/ Extend(n, f)
        \/ \E f, g \in Facts : Replace(n, f, g)

Section ==
    \/ UpdateRow \/ Raise
    \/ \E failed \in SUBSET Held(active) : SyncRows(failed)
    \/ \E n \in Names : ArchiveNext(n)

Command ==
    \/ \E n \in Names : Restore(n)
    \/ \E S \in SUBSET Names : DecayReview(S)
    \/ \E exit \in BOOLEAN : StartCycle(exit)

\* What the cycle does by itself, between awaits.
Advance ==
    \/ EndCycle
    \/ \E S \in SUBSET Names : Decay(S)

Answered ==
    \/ IdentifyClusters \/ MergeFails
    \/ \E n \in Names : Merge(n)

Next ==
    \/ Tool \/ Section \/ Command \/ Advance \/ Answered \/ TimeOut
    \/ \E failed \in SUBSET (Held(active) \cup Held(archive)) : Restart(failed)

\* A section runs on.  The timer of a cycle goes off at last, and its
\* cancellation takes effect at one of the awaits the cycle still comes to;
\* neither a miner nor a model has to answer.
Fairness ==
    /\ WF_vars(Section) /\ WF_vars(Advance)
    /\ SF_vars(TimeOut)

Spec == Init /\ [][Next]_vars /\ Fairness

-----------------------------------------------------------------------------
(***************************************************************************)
(* Properties.                                                             *)
(***************************************************************************)
\* The variables keep to their types.
TypeOK ==
    /\ active \in Files /\ archive \in Files
    /\ rows \in [Names -> (SUBSET Facts) \cup {None}]
    /\ archRows \subseteq Names /\ torn \subseteq Names
    /\ dirty \in Names \cup {None} /\ syncing \in BOOLEAN
    /\ toArchive \subseteq Names
    /\ cycle \in {"off", "mining", "merging", "decay", "exited"}
    /\ atExit \in BOOLEAN
    /\ Len(clusters) <= MaxMerges
    /\ clusters # <<>> => cycle = "merging"
    /\ edits \in 0..MaxEdits
    /\ saved \subseteq Facts /\ deleted \subseteq Facts
    /\ aged \subseteq Facts /\ late \subseteq Facts

\* What was saved is on disk until someone deletes or replaces it: no merge,
\* sweep, error, timeout or crash in between destroys a fact, and none is
\* between two files for a moment.
NothingDestroyed ==
    saved \subseteq FactsOf(active) \cup FactsOf(archive) \cup deleted

\* And it is in an active item, not merely in the archive, unless it aged, or
\* came into an item of a cluster after the merge had read it.
MergeKeepsFacts ==
    saved \subseteq FactsOf(active) \cup deleted \cup aged \cup late

\* A file is in one place: never active and archived at once, so restoring
\* and archiving again overwrites nothing.
OnePlace == Held(active) \cap Held(archive) = {}

\* Search finds what the active files say: between sections every row agrees
\* with its file, in whatever order tools, merges, sweeps and restores came,
\* except rows an error kept from being updated, in a section or in every sync
\* since; and every other row is that of an archived file.  (That archived files have
\* rows after a start, and so are found, is not what archive.py says of them.)
RowsAgree ==
    /\ \A n \in Names \ (torn \cup {dirty}) : rows[n] = Says(n)
    /\ \A n \in archRows : archive[n] # None \/ n \in torn \cup {dirty}

\* The docstring's word on archived items: no search finds them, their rows are gone
\* but where an error kept one.
ArchivedInvisible == dirty = None => archRows \subseteq torn

\* A cycle ends, even when neither miner nor model ever answers: the shutdown
\* does not wait for it for ever.
CycleEnds == cycle \notin {"off", "exited"} ~> cycle \in {"off", "exited"}

=============================================================================
