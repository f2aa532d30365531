---------------------------- MODULE MemoryProofs ----------------------------
(***************************************************************************)
(* Safety of Memory for any names, facts and bounds: nothing that was      *)
(* saved is destroyed or lost to a merge, no file is in two places, and    *)
(* rows follow files.  And of the Index that memory is searched in, for    *)
(* any documents, contents and rowids: documents are there with all their  *)
(* chunks or none, vectors fit, and the rows of an open process are those  *)
(* of the files.                                                           *)
(***************************************************************************)
EXTENDS Memory, Index, HistoryTheorems, TLAPS

-----------------------------------------------------------------------------
(***************************************************************************)
(* Memory.                                                                 *)
(***************************************************************************)
\* What the names and texts of a cluster are when a merge reads them.
Cluster == UNION {[S -> SUBSET Facts] : S \in SUBSET Names}

Typed == TypeOK /\ clusters \in Seq(Cluster)

IInv == Typed /\ OnePlace /\ NothingDestroyed

\* A file whose own row is updated next has no row as an archived file that
\* nobody would take away.
RowsInv ==
    /\ RowsAgree
    /\ dirty \in archRows /\ ~syncing => archive[dirty] # None \/ dirty \in torn

\* What the items of a cluster say is what the merge read, or late.
Read ==
    \A i \in DOMAIN clusters : \A n \in DOMAIN clusters[i] :
        active[n] # None => active[n].facts \subseteq clusters[i][n] \cup late

\* While the sources of a merge are archived the merged item, which is not one of
\* them, says what they do.
Replaced ==
    cycle = "merging" /\ toArchive # {} =>
        \E m \in Names \ toArchive :
            /\ active[m] # None
            /\ \A n \in toArchive :
                  active[n] # None => active[n].facts \subseteq active[m].facts \cup late

MergeInv == MergeKeepsFacts /\ Read /\ Replaced

\* The items a directory holds say the facts it has.
LEMMA FactsThere ==
  ASSUME NEW files \in Files
  PROVE  /\ FactsOf(files) \subseteq Facts
         /\ \A n \in Names : files[n] # None => files[n].facts \subseteq FactsOf(files)
  BY ItemAssumption DEF Files, FactsOf, Held, Item

\* Changing one file loses at most what that file said.
LEMMA OneChanged ==
  ASSUME NEW files \in Files, NEW n \in Names, NEW item \in Item \cup {None}
  PROVE  LET new == [files EXCEPT ![n] = item] IN
         /\ new \in Files
         /\ \A m \in Names \ {n} : new[m] = files[m]
         /\ item # None => item.facts \subseteq FactsOf(new)
         /\ \A f \in FactsOf(files) \ FactsOf(new) :
               files[n] # None /\ f \in files[n].facts
         /\ files[n] = None => FactsOf(files) \subseteq FactsOf(new)
  BY ItemAssumption DEF Files, FactsOf, Held, Item

\* A set of facts makes an item.
LEMMA NewItems ==
  ASSUME NEW F \in SUBSET Facts
  PROVE  New(F) \in Item /\ New(F) # None /\ New(F).facts = F
<1>1. New(F) \in Item /\ New(F).facts = F
  BY DEF New, Item
<1> QED
  BY <1>1, ItemAssumption

\* The initial states satisfy the invariant.
LEMMA InvInit == Init => IInv
<1> SUFFICES ASSUME Init PROVE IInv
  OBVIOUS
<1>1. active \in Files
  BY ItemAssumption DEF Init
<1>2. FactsOf(active) \subseteq Facts
  BY <1>1, FactsThere
<1>3. rows \in [Names -> (SUBSET Facts) \cup {None}]
  BY <1>1, ItemAssumption DEF Init, Says, Files, Item
<1>4. archive \in Files
  BY DEF Init, Files
<1>5. clusters \in Seq(Cluster) /\ clusters = <<>>
      /\ Len(clusters) <= MaxMerges
  BY EmptySeq, MemoryAssumption DEF Init
<1>6. TypeOK
  <2>1. edits \in 0..MaxEdits
    BY MemoryAssumption DEF Init
  <2>2. /\ archRows \subseteq Names /\ torn \subseteq Names
        /\ toArchive \subseteq Names /\ deleted \subseteq Facts
        /\ aged \subseteq Facts /\ late \subseteq Facts
    BY DEF Init
  <2>3. /\ dirty \in Names \cup {None} /\ syncing \in BOOLEAN
        /\ cycle = "off" /\ atExit \in BOOLEAN /\ saved \subseteq Facts
    BY <1>2 DEF Init
  <2> QED
    BY <1>1, <1>3, <1>4, <1>5, <2>1, <2>2, <2>3 DEF TypeOK
<1>7. OnePlace /\ NothingDestroyed
  BY DEF Init, OnePlace, Held, NothingDestroyed
<1> QED
  BY <1>5, <1>6, <1>7 DEF IInv, Typed

-----------------------------------------------------------------------------
\* A file is written by a tool and the change is accounted for.
LEMMA PutKeeps ==
  ASSUME IInv, NEW n \in Names, NEW item \in Item \cup {None},
         NEW F \in SUBSET Facts,
         Call, Put(n, item), Restate(F),
         archive[n] = None,
         item # None => F \subseteq item.facts,
         item = None => F = {},
         late' \subseteq Facts, UNCHANGED cycleVars
  PROVE  IInv'
<1> USE DEF IInv, Typed, TypeOK, cycleVars
<1>1. active' = [active EXCEPT ![n] = item] /\ UNCHANGED archive
  BY DEF Put
<1>2. active' \in Files /\ F \subseteq FactsOf(active')
  BY <1>1, OneChanged
<1>3. /\ FactsOf(active) \subseteq Facts /\ FactsOf(active') \subseteq Facts
  BY <1>2, FactsThere
<1>4. TypeOK'
  BY <1>2, <1>3, MemoryAssumption DEF Put, Restate, Call, ToolMayRun
<1>5. OnePlace'
  BY <1>1 DEF OnePlace, Held, Files
<1>6. NothingDestroyed'
  BY <1>1, <1>2 DEF NothingDestroyed, Restate
<1> QED
  BY <1>4, <1>5, <1>6

\* The tools keep the invariant.
LEMMA ToolKeeps == ASSUME IInv, Tool PROVE IInv'
<1>0. \A n \in Names : active[n] # None =>
         /\ active[n] \in Item /\ archive[n] = None
  BY DEF IInv, Typed, TypeOK, OnePlace, Held, Files
<1>l. late \subseteq Facts
  BY DEF IInv, Typed, TypeOK
<1>1. ASSUME NEW n \in Names, Delete(n) PROVE IInv'
  <2>1. archive[n] = None /\ {} \in SUBSET Facts /\ late' \subseteq Facts
    BY <1>0, <1>l, <1>1 DEF Delete
  <2>2. Call /\ Put(n, None) /\ Restate({}) /\ UNCHANGED cycleVars
    BY <1>1 DEF Delete
  <2> QED
    BY <2>1, <2>2, PutKeeps
<1>2. ASSUME NEW n \in Names, NEW f \in Facts, Create(n, f) PROVE IInv'
  <2>1. /\ New({f}) \in Item /\ New({f}) # None
        /\ New({f}).facts = {f} /\ {f} \in SUBSET Facts
    BY NewItems
  <2>2. archive[n] = None /\ late' \subseteq Facts
    BY <1>l, <1>2 DEF Create, FreshNames
  <2>3. /\ Call /\ Put(n, New({f})) /\ Restate({f}) /\ UNCHANGED cycleVars
    BY <1>2 DEF Create
  <2> QED
    BY <2>1, <2>2, <2>3, PutKeeps
<1>3. ASSUME NEW n \in Names, NEW f \in Facts, Extend(n, f) PROVE IInv'
  <2> DEFINE item == [active[n] EXCEPT !.facts = @ \cup {f}]
  <2>1. active[n] \in Item /\ archive[n] = None
    BY <1>0, <1>3 DEF Extend
  <2>2. item \in Item /\ {f} \subseteq item.facts /\ {f} \in SUBSET Facts
    BY <2>1 DEF Item
  <2>3. late' \subseteq Facts
    BY <1>l, <1>3 DEF Extend, LateIf
  <2>4. Call /\ Put(n, item) /\ Restate({f}) /\ UNCHANGED cycleVars
    BY <1>3 DEF Extend
  <2>5. item # None
    BY <2>2, ItemAssumption
  <2> HIDE DEF item
  <2> QED
    BY <2>1, <2>2, <2>3, <2>4, <2>5, PutKeeps
<1>4. ASSUME NEW n \in Names, NEW f \in Facts, NEW g \in Facts, Replace(n, f, g)
      PROVE  IInv'
  <2> DEFINE item == [active[n] EXCEPT !.facts = (@ \ {f}) \cup {g}]
  <2>1. active[n] \in Item /\ archive[n] = None
    BY <1>0, <1>4 DEF Replace
  <2>2. item \in Item /\ {g} \subseteq item.facts /\ {g} \in SUBSET Facts
    BY <2>1 DEF Item
  <2>3. late' \subseteq Facts
    BY <1>l, <1>4 DEF Replace, LateIf
  <2>4. Call /\ Put(n, item) /\ Restate({g}) /\ UNCHANGED cycleVars
    BY <1>4 DEF Replace
  <2>5. item # None
    BY <2>2, ItemAssumption
  <2> HIDE DEF item
  <2> QED
    BY <2>1, <2>2, <2>3, <2>4, <2>5, PutKeeps
<1> QED
  BY <1>1, <1>2, <1>3, <1>4 DEF Tool

-----------------------------------------------------------------------------
\* What a row is made from is a set of facts.
LEMMA RowTypes ==
  ASSUME TypeOK, NEW n \in Names PROVE Says(n) \in (SUBSET Facts) \cup {None}
  BY DEF TypeOK, Says, Files, Item

\* So are the rows of a sync, whichever files it could not read, and what it leaves
\* torn is names.
LEMMA SyncedTypes ==
  ASSUME TypeOK, NEW failed
  PROVE  /\ Synced(failed) \in [Names -> (SUBSET Facts) \cup {None}]
         /\ Unmended(failed) \subseteq Names
<1>1. \A n \in Names : Says(n) \in (SUBSET Facts) \cup {None}
  BY RowTypes
<1>2. rows \in [Names -> (SUBSET Facts) \cup {None}]
  BY DEF TypeOK
<1> QED
  BY <1>1, <1>2 DEF Synced, Unmended, Held

\* An item moves between the directories: it is in one of them, and no fact is
\* lost on the way.
LEMMA MoveKeeps ==
  ASSUME NEW a \in Files, NEW b \in Files, NEW n \in Names,
         Held(a) \cap Held(b) = {}, a[n] # None
  PROVE  LET a2 == [a EXCEPT ![n] = None]
             b2 == [b EXCEPT ![n] = a[n]] IN
         /\ a2 \in Files /\ b2 \in Files
         /\ Held(a2) \cap Held(b2) = {}
         /\ FactsOf(a) \cup FactsOf(b) \subseteq FactsOf(a2) \cup FactsOf(b2)
         /\ FactsOf(a) \subseteq FactsOf(a2) \cup a[n].facts
<1> DEFINE a2 == [a EXCEPT ![n] = None]
           b2 == [b EXCEPT ![n] = a[n]]
<1>1. a[n] \in Item /\ b[n] = None
  BY DEF Files, Held
<1>2. a2 \in Files /\ b2 \in Files
  BY <1>1, OneChanged
<1>3. Held(a2) \cap Held(b2) = {}
  BY DEF Held, Files
<1>4. \A f \in FactsOf(a) \ FactsOf(a2) : f \in a[n].facts
  BY OneChanged
<1>5. FactsOf(b) \subseteq FactsOf(b2) /\ a[n].facts \subseteq FactsOf(b2)
  BY <1>1, OneChanged
<1> QED
  BY <1>2, <1>3, <1>4, <1>5

\* The rest of a section keeps the invariant.
LEMMA SectionKeeps == ASSUME IInv, Section PROVE IInv'
<1> USE DEF IInv, Typed, fileVars, cycleVars, factVars
<1>1. CASE UpdateRow
  <2>1. Says(dirty) \in (SUBSET Facts) \cup {None}
    BY <1>1, RowTypes DEF UpdateRow, TypeOK
  <2>2. TypeOK'
    BY <1>1, <2>1 DEF UpdateRow, TypeOK
  <2> QED
    BY <1>1, <2>2 DEF UpdateRow, OnePlace, NothingDestroyed
<1>2. ASSUME NEW failed, SyncRows(failed) PROVE IInv'
  <2>1. /\ rows' \in [Names -> (SUBSET Facts) \cup {None}]
        /\ torn' \subseteq Names /\ Cardinality(torn') <= MaxTorn
    BY <1>2, SyncedTypes DEF SyncRows
  <2>2. TypeOK'
    BY <1>2, <2>1 DEF SyncRows, TypeOK
  <2> QED
    BY <1>2, <2>2 DEF SyncRows, OnePlace, NothingDestroyed
<1>3. CASE Raise
  <2>1. TypeOK'
    BY <1>3 DEF Raise, TypeOK
  <2> QED
    BY <1>3, <2>1 DEF Raise, OnePlace, NothingDestroyed
<1>4. ASSUME NEW n \in Names, ArchiveNext(n) PROVE IInv'
  <2>1. CASE active[n] = None
    <3>1. TypeOK'
      BY <1>4, <2>1 DEF ArchiveNext, TypeOK
    <3> QED
      BY <1>4, <2>1, <3>1 DEF ArchiveNext, OnePlace, NothingDestroyed
  <2>2. CASE active[n] # None
    <3>1. /\ active' = [active EXCEPT ![n] = None]
          /\ archive' = [archive EXCEPT ![n] = active[n]]
      BY <1>4, <2>2 DEF ArchiveNext, Moved
    <3>2. /\ active' \in Files /\ archive' \in Files
          /\ Held(active') \cap Held(archive') = {}
          /\ FactsOf(active) \cup FactsOf(archive)
                \subseteq FactsOf(active') \cup FactsOf(archive')
      BY <2>2, <3>1, MoveKeeps DEF TypeOK, OnePlace
    <3>3. aged' \subseteq Facts
      BY <1>4, <2>2, FactsThere DEF ArchiveNext, TypeOK
    <3>4. TypeOK'
      BY <1>4, <2>2, <3>2, <3>3 DEF ArchiveNext, TypeOK
    <3>5. OnePlace' /\ NothingDestroyed'
      BY <1>4, <3>2 DEF ArchiveNext, OnePlace, NothingDestroyed
    <3> QED
      BY <1>4, <3>4, <3>5 DEF ArchiveNext
  <2> QED
    BY <2>1, <2>2
<1> QED
  BY <1>1, <1>2, <1>3, <1>4 DEF Section

\* The commands keep the invariant.
LEMMA CommandKeeps == ASSUME IInv, Command PROVE IInv'
<1> USE DEF IInv, Typed, fileVars, sectionVars, cycleVars, factVars
<1>1. ASSUME NEW n \in Names, Restore(n) PROVE IInv'
  <2>1. /\ archive' = [archive EXCEPT ![n] = None]
        /\ active' = [active EXCEPT ![n] = archive[n]] /\ archive[n] # None
    BY <1>1 DEF Restore, ArchiveWithout
  <2>2. /\ active' \in Files /\ archive' \in Files
        /\ Held(archive') \cap Held(active') = {}
        /\ FactsOf(archive) \cup FactsOf(active)
              \subseteq FactsOf(archive') \cup FactsOf(active')
    <3>1. archive \in Files /\ active \in Files /\ Held(archive) \cap Held(active) = {}
      BY DEF TypeOK, OnePlace
    <3> QED
      BY <2>1, <3>1, MoveKeeps
  <2>3. TypeOK'
    BY <1>1, <2>2 DEF Restore, TypeOK
  <2>4. archive[n].facts \subseteq FactsOf(active')
    BY <2>1, OneChanged DEF TypeOK, Files
  <2>5. OnePlace' /\ NothingDestroyed'
    BY <1>1, <2>2, <2>4 DEF Restore, OnePlace, NothingDestroyed
  <2> QED
    BY <1>1, <2>3, <2>5 DEF Restore
<1>2. ASSUME NEW S \in SUBSET Names, DecayReview(S) PROVE IInv'
  BY <1>2 DEF DecayReview, TypeOK, OnePlace, NothingDestroyed
<1>3. ASSUME NEW exit \in BOOLEAN, StartCycle(exit) PROVE IInv'
  BY <1>3 DEF StartCycle, TypeOK, OnePlace, NothingDestroyed
<1> QED
  BY <1>1, <1>2, <1>3 DEF Command

-----------------------------------------------------------------------------
\* The clusters the cycle finds are snapshots of at most MaxMerges.
LEMMA ClusterTypes ==
  ASSUME TypeOK, NEW q \in Clusterings
  PROVE  LET c == [i \in DOMAIN q |-> [n \in q[i] |-> active[n].facts]]
         IN  c \in Seq(Cluster) /\ Len(c) <= MaxMerges
<1> DEFINE c == [i \in DOMAIN q |-> [n \in q[i] |-> active[n].facts]]
<1>1. PICK k \in 0..MaxMerges : q \in [1..k -> SUBSET Mergeable]
  BY DEF Clusterings
<1>2. ASSUME NEW i \in 1..k PROVE c[i] \in Cluster
  <2>1. q[i] \subseteq Names /\ \A n \in q[i] : active[n].facts \in SUBSET Facts
    BY <1>1 DEF Mergeable, Held, TypeOK, Files, Item
  <2>2. c[i] \in [q[i] -> SUBSET Facts]
    BY <1>1, <2>1
  <2> QED
    BY <2>1, <2>2 DEF Cluster
<1>3. c \in [1..k -> Cluster] /\ k \in Nat
  BY <1>1, <1>2, MemoryAssumption
<1>4. c \in Seq(Cluster) /\ Len(c) = k
  BY <1>3
<1> QED
  BY <1>1, <1>4, MemoryAssumption

\* The next cluster, and what it says.
LEMMA HeadTypes ==
  ASSUME Typed, clusters # <<>>
  PROVE  /\ FactsIn(Head(clusters)) \subseteq Facts
         /\ DOMAIN Head(clusters) \subseteq Names
         /\ Tail(clusters) \in Seq(Cluster)
         /\ Len(Tail(clusters)) <= MaxMerges
<1>1. Head(clusters) \in Cluster /\ Tail(clusters) \in Seq(Cluster)
      /\ Len(Tail(clusters)) = Len(clusters) - 1 /\ Len(clusters) \in Nat
  BY HeadTailProperties, LenProperties DEF Typed
<1>2. PICK S \in SUBSET Names : Head(clusters) \in [S -> SUBSET Facts]
  BY <1>1 DEF Cluster
<1>3. FactsIn(Head(clusters)) \subseteq Facts
  BY <1>2 DEF FactsIn
<1>4. Len(Tail(clusters)) <= MaxMerges
  BY <1>1, MemoryAssumption DEF Typed, TypeOK
<1> QED
  BY <1>1, <1>2, <1>3, <1>4

\* The steps of the cycle keep the invariant.
LEMMA CycleKeeps == ASSUME IInv, Advance \/ Answered \/ TimeOut PROVE IInv'
<1> USE DEF IInv, Typed, fileVars, sectionVars, cycleVars, factVars
<1>0. <<>> \in Seq(Cluster) /\ Len(<<>>) = 0
  BY EmptySeq
<1>1. CASE IdentifyClusters
  <2>1. clusters' \in Seq(Cluster) /\ Len(clusters') <= MaxMerges
    BY <1>1, ClusterTypes DEF IdentifyClusters
  <2> QED
    BY <1>1, <2>1 DEF IdentifyClusters, TypeOK, OnePlace, NothingDestroyed
<1>2. ASSUME NEW n \in Names, Merge(n) PROVE IInv'
  <2>1. clusters # <<>>
    BY <1>2 DEF Merge, Waiting
  <2> DEFINE F == FactsIn(Head(clusters))
  <2>2. /\ F \in SUBSET Facts /\ DOMAIN Head(clusters) \subseteq Names
        /\ clusters' \in Seq(Cluster) /\ Len(clusters') <= MaxMerges
    BY <1>2, <2>1, HeadTypes DEF Merge
  <2>3. active[n] = None /\ archive[n] = None
    BY <1>2 DEF Merge, FreshNames
  <2>4. New(F) \in Item /\ New(F) # None /\ New(F).facts = F
    BY <2>2, NewItems
  <2>5. active' = [active EXCEPT ![n] = New(F)]
    BY <1>2 DEF Merge
  <2> HIDE DEF F
  <2>a. active \in Files
    BY DEF TypeOK
  <2>6. /\ active' \in Files /\ F \subseteq FactsOf(active')
        /\ FactsOf(active) \subseteq FactsOf(active')
    BY <2>3, <2>4, <2>5, <2>a, OneChanged
  <2>7. TypeOK'
    BY <1>2, <2>2, <2>6 DEF Merge, TypeOK
  <2>8. OnePlace'
    BY <1>2, <2>3, <2>5 DEF Merge, OnePlace, Held, TypeOK, Files
  <2>9. NothingDestroyed'
    BY <1>2, <2>6 DEF F, Merge, NothingDestroyed
  <2> QED
    BY <2>2, <2>7, <2>8, <2>9
<1>3. CASE MergeFails
  <2>1. clusters' \in Seq(Cluster) /\ Len(clusters') <= MaxMerges
    BY <1>3, HeadTypes DEF MergeFails, Waiting
  <2> QED
    BY <1>3, <2>1 DEF MergeFails, TypeOK, OnePlace, NothingDestroyed
<1>4. ASSUME NEW S \in SUBSET Names, Decay(S) PROVE IInv'
  BY <1>4 DEF Decay, TypeOK, OnePlace, NothingDestroyed
<1>5. CASE EndCycle
  BY <1>5 DEF EndCycle, CycleOver, TypeOK, OnePlace, NothingDestroyed
<1>6. CASE TimeOut
  BY <1>0, <1>6, MemoryAssumption
  DEF TimeOut, CycleOver, TypeOK, OnePlace, NothingDestroyed
<1> QED
  BY <1>1, <1>2, <1>3, <1>4, <1>5, <1>6 DEF Advance, Answered

\* A new process keeps the invariant.
LEMMA RestartKeeps == ASSUME IInv, NEW failed, Restart(failed) PROVE IInv'
<1> USE DEF IInv, Typed, factVars
<1>1. clusters' \in Seq(Cluster) /\ Len(clusters') = 0 /\ clusters' = <<>>
  BY EmptySeq DEF Restart
<1>2. /\ rows' \in [Names -> (SUBSET Facts) \cup {None}]
      /\ torn' \subseteq Names /\ Cardinality(torn') <= MaxTorn
  BY SyncedTypes DEF Restart
<1>3. archRows' \subseteq Names /\ Len(clusters') <= MaxMerges
  BY <1>1, MemoryAssumption DEF Restart, Held
<1>4. TypeOK'
  BY <1>1, <1>2, <1>3 DEF Restart, TypeOK
<1> QED
  BY <1>1, <1>4 DEF Restart, OnePlace, NothingDestroyed

\* Every step keeps the invariant.
LEMMA InvNext == ASSUME IInv, [Next]_vars PROVE IInv'
<1>1. CASE UNCHANGED vars
  BY <1>1 DEF IInv, Typed, TypeOK, OnePlace, NothingDestroyed, vars, fileVars,
     sectionVars, cycleVars, factVars
<1> QED
  BY <1>1, ToolKeeps, SectionKeeps, CommandKeeps, CycleKeeps, RestartKeeps
  DEF Next

\* The invariant holds in every state.
LEMMA Invariant == Spec => []IInv
  BY InvInit, InvNext, PTL DEF Spec

-----------------------------------------------------------------------------
\* A file is written between sections: its row is the one updated next.
LEMMA PutRows ==
  ASSUME IInv, RowsInv, Idle, NEW n \in Names,
         \A m \in Names \ {n} : active'[m] = active[m],
         dirty' = n, archive[n] = None,
         UNCHANGED <<archive, rows, archRows, torn>>
  PROVE  RowsInv'
<1>1. dirty = None /\ None \notin Names
  BY MemoryAssumption DEF Idle
<1>2. archRows \subseteq Names
  BY DEF IInv, Typed, TypeOK
<1>3. n \in archRows => n \in torn
  BY <1>1 DEF RowsInv, RowsAgree
<1> QED
  BY <1>1, <1>2, <1>3 DEF RowsInv, RowsAgree, Says

\* Every step keeps the rows in agreement with the files.
LEMMA RowsNext == ASSUME IInv, RowsInv, [Next]_vars PROVE RowsInv'
<1> USE DEF fileVars, sectionVars, cycleVars
<1>t. /\ active \in Files /\ archive \in Files
      /\ dirty \in Names \cup {None} /\ archRows \subseteq Names
      /\ rows \in [Names -> (SUBSET Facts) \cup {None}]
      /\ None \notin Names
  BY MemoryAssumption DEF IInv, Typed, TypeOK
<1>p. \A n \in Names : active[n] # None => archive[n] = None
  BY DEF IInv, OnePlace, Held
<1>1. ASSUME NEW n \in Names, NEW item, Idle, archive[n] = None,
             Put(n, item)
      PROVE  RowsInv'
  BY <1>1, <1>t, PutRows DEF Put, Files
<1>2. CASE Tool
  <2>1. ASSUME NEW n \in Names, Delete(n) PROVE RowsInv'
    BY <2>1, <1>1, <1>p DEF Delete, Call, ToolMayRun
  <2>2. ASSUME NEW n \in Names, NEW f \in Facts, Create(n, f) PROVE RowsInv'
    BY <2>2, <1>1 DEF Create, FreshNames, Call, ToolMayRun
  <2>3. ASSUME NEW n \in Names, NEW f \in Facts, Extend(n, f) PROVE RowsInv'
    BY <2>3, <1>1, <1>p DEF Extend, Call, ToolMayRun
  <2>4. ASSUME NEW n \in Names, NEW f \in Facts, NEW g \in Facts,
               Replace(n, f, g)
        PROVE  RowsInv'
    BY <2>4, <1>1, <1>p DEF Replace, Call, ToolMayRun
  <2> QED
    BY <1>2, <2>1, <2>2, <2>3, <2>4 DEF Tool
<1>3. ASSUME NEW n \in Names, Merge(n) PROVE RowsInv'
  BY <1>3, <1>t, PutRows DEF Merge, Waiting, FreshNames, Files
<1>4. CASE UpdateRow
  BY <1>4, <1>t DEF UpdateRow, RowsInv, RowsAgree, Says
<1>s. ASSUME NEW failed, rows' = Synced(failed), torn' = Unmended(failed),
             UNCHANGED active
      PROVE  \A n \in Names \ torn' : rows'[n] = Says(n)'
  BY <1>s, <1>t DEF RowsInv, RowsAgree, Synced, Unmended, Says, Held
<1>5. ASSUME NEW failed, SyncRows(failed) PROVE RowsInv'
  BY <1>5, <1>s DEF SyncRows, RowsInv, RowsAgree
<1>6. CASE Raise
  BY <1>6, <1>t DEF Raise, RowsInv, RowsAgree, Says
<1>7. ASSUME NEW n \in Names, ArchiveNext(n) PROVE RowsInv'
  BY <1>7, <1>t DEF ArchiveNext, Moved, Files, RowsInv, RowsAgree, Says
<1>8. ASSUME NEW n \in Names, Restore(n) PROVE RowsInv'
  BY <1>8, <1>t DEF Restore, Idle, ArchiveWithout, Files, RowsInv, RowsAgree,
     Says
<1>9. ASSUME NEW failed, Restart(failed) PROVE RowsInv'
  BY <1>9, <1>s, <1>t DEF Restart, Held, RowsInv, RowsAgree
<1>10. CASE \/ \E S \in SUBSET Names : DecayReview(S) \/ Decay(S)
            \/ \E exit \in BOOLEAN : StartCycle(exit)
            \/ EndCycle \/ IdentifyClusters \/ MergeFails \/ TimeOut
            \/ UNCHANGED vars
  BY <1>10 DEF DecayReview, Decay, StartCycle, EndCycle, IdentifyClusters,
     MergeFails, TimeOut, vars, RowsInv, RowsAgree, Says
<1> QED
  BY <1>2, <1>3, <1>4, <1>5, <1>6, <1>7, <1>8, <1>9, <1>10
  DEF Next, Section, Command, Advance, Answered

-----------------------------------------------------------------------------
\* The names of a cluster are names of items.
LEMMA ClusterNames ==
  ASSUME Typed PROVE \A i \in DOMAIN clusters : DOMAIN clusters[i] \subseteq Names
<1> SUFFICES ASSUME NEW i \in DOMAIN clusters PROVE DOMAIN clusters[i] \subseteq Names
  OBVIOUS
<1>1. clusters[i] \in Cluster
  BY DEF Typed
<1> QED
  BY <1>1 DEF Cluster

\* A tool writes a file; what it adds to one of a cluster is late.
LEMMA PutMerges ==
  ASSUME IInv, MergeInv, NEW n \in Names, NEW item \in Item \cup {None},
         NEW F \in SUBSET Facts,
         Call, Put(n, item), Restate(F),
         F \subseteq FactsOf(active'), late \subseteq late',
         InSnapshot(n) /\ item # None =>
            active[n] # None /\ item.facts \subseteq active[n].facts \cup late',
         UNCHANGED cycleVars
  PROVE  MergeInv'
<1> USE DEF MergeInv
<1>1. /\ active' = [active EXCEPT ![n] = item] /\ toArchive' = {}
      /\ clusters' = clusters
      /\ \A m \in Names \ {n} : active'[m] = active[m]
      /\ active'[n] = item
  BY DEF Put, Call, ToolMayRun, Waiting, Idle, cycleVars, IInv, Typed, TypeOK, Files
<1>2. MergeKeepsFacts'
  BY DEF MergeKeepsFacts, Restate
<1>3. Read'
  <2> SUFFICES ASSUME NEW i \in DOMAIN clusters, NEW m \in DOMAIN clusters[i],
                      active'[m] # None
               PROVE  active'[m].facts \subseteq clusters[i][m] \cup late'
    BY <1>1 DEF Read
  <2>1. CASE m = n
    BY <1>1, <2>1 DEF InSnapshot, Read
  <2>2. CASE m # n
    <3>1. m \in Names
      BY ClusterNames DEF IInv
    <3> QED
      BY <1>1, <2>2, <3>1 DEF Read
  <2> QED
    BY <2>1, <2>2
<1>4. Replaced'
  BY <1>1 DEF Replaced
<1> QED
  BY <1>2, <1>3, <1>4

\* The tools lose no fact to a merge.
LEMMA ToolMerges == ASSUME IInv, MergeInv, Tool PROVE MergeInv'
<1>t. active \in Files
  BY DEF IInv, Typed, TypeOK
<1>1. ASSUME NEW n \in Names, Delete(n) PROVE MergeInv'
  BY <1>1, PutMerges DEF Delete
<1>2. ASSUME NEW n \in Names, NEW f \in Facts, Create(n, f) PROVE MergeInv'
  <2>1. /\ New({f}) \in Item /\ New({f}) # None
        /\ New({f}).facts = {f} /\ {f} \in SUBSET Facts
    BY NewItems
  <2>2. {f} \subseteq FactsOf(active')
    BY <1>2, <1>t, <2>1, OneChanged DEF Create, Put
  <2>3. ~InSnapshot(n) /\ late' = late
    BY <1>2 DEF Create, FreshNames, InSnapshot
  <2> QED
    BY <1>2, <2>1, <2>2, <2>3, PutMerges DEF Create
<1>3. ASSUME NEW n \in Names, NEW f \in Facts, Extend(n, f) PROVE MergeInv'
  <2> DEFINE item == [active[n] EXCEPT !.facts = @ \cup {f}]
  <2>1. active[n] \in Item /\ active[n] # None
    BY <1>3, <1>t DEF Extend, Files
  <2>2. /\ item \in Item /\ {f} \subseteq item.facts /\ {f} \in SUBSET Facts
        /\ item.facts = active[n].facts \cup {f}
    BY <2>1 DEF Item
  <2>3. item # None
    BY <2>2, ItemAssumption
  <2>4. Call /\ Put(n, item) /\ Restate({f}) /\ UNCHANGED cycleVars
    BY <1>3 DEF Extend
  <2>5. late \subseteq late' /\ (InSnapshot(n) => f \in late')
    BY <1>3 DEF Extend, LateIf
  <2> HIDE DEF item
  <2>6. {f} \subseteq FactsOf(active')
    BY <1>t, <2>2, <2>3, <2>4, OneChanged DEF Put
  <2> QED
    BY <2>1, <2>2, <2>4, <2>5, <2>6, PutMerges
<1>4. ASSUME NEW n \in Names, NEW f \in Facts, NEW g \in Facts, Replace(n, f, g)
      PROVE  MergeInv'
  <2> DEFINE item == [active[n] EXCEPT !.facts = (@ \ {f}) \cup {g}]
  <2>1. active[n] \in Item /\ active[n] # None
    BY <1>4, <1>t DEF Replace, Files
  <2>2. /\ item \in Item /\ {g} \subseteq item.facts /\ {g} \in SUBSET Facts
        /\ item.facts \subseteq active[n].facts \cup {g}
    BY <2>1 DEF Item
  <2>3. item # None
    BY <2>2, ItemAssumption
  <2>4. Call /\ Put(n, item) /\ Restate({g}) /\ UNCHANGED cycleVars
    BY <1>4 DEF Replace
  <2>5. late \subseteq late' /\ (InSnapshot(n) => g \in late')
    BY <1>4 DEF Replace, LateIf
  <2> HIDE DEF item
  <2>6. {g} \subseteq FactsOf(active')
    BY <1>t, <2>2, <2>3, <2>4, OneChanged DEF Put
  <2> QED
    BY <2>1, <2>2, <2>4, <2>5, <2>6, PutMerges
<1> QED
  BY <1>1, <1>2, <1>3, <1>4 DEF Tool

\* Archiving loses no fact but of age: the sources of a merge say nothing that the
\* merged item does not, or it is late.
LEMMA ArchivingMerges ==
  ASSUME IInv, MergeInv, NEW n \in Names, ArchiveNext(n) PROVE MergeInv'
<1> USE DEF MergeInv
<1>t. active \in Files /\ None \notin Item
  BY ItemAssumption DEF IInv, Typed, TypeOK
<1>c. /\ UNCHANGED <<cycle, clusters, saved, deleted, late>>
      /\ toArchive' = toArchive \ {n} /\ n \in toArchive
  BY DEF ArchiveNext, cycleVars
<1>1. CASE active[n] = None
  <2>1. UNCHANGED <<active, aged>>
    BY <1>1 DEF ArchiveNext
  <2> QED
    BY <1>c, <2>1 DEF MergeKeepsFacts, Read, Replaced
<1>2. CASE active[n] # None
  <2>1. /\ active' = [active EXCEPT ![n] = None]
        /\ aged' = IF cycle = "merging" THEN aged
                   ELSE aged \cup (FactsOf(active) \ FactsOf(active'))
    BY <1>2 DEF ArchiveNext
  <2>2. /\ \A m \in Names \ {n} : active'[m] = active[m]
        /\ active'[n] = None /\ active' \in Files
    BY <1>t, <2>1 DEF Files
  <2>3. \A f \in FactsOf(active) \ FactsOf(active') : f \in active[n].facts
    BY <1>t, <2>1, OneChanged
  <2>4. MergeKeepsFacts'
    <3>1. CASE cycle # "merging"
      BY <1>c, <2>1, <3>1 DEF MergeKeepsFacts
    <3>2. CASE cycle = "merging"
      <4>1. PICK m \in Names \ toArchive :
              active[m] # None /\ active[n].facts \subseteq active[m].facts \cup late
        BY <1>c, <1>2, <3>2 DEF Replaced
      <4>2. active[m].facts \subseteq FactsOf(active')
        BY <1>c, <2>2, <4>1, FactsThere
      <4> QED
        BY <1>c, <2>1, <2>3, <3>2, <4>1, <4>2 DEF MergeKeepsFacts
    <3> QED
      BY <3>1, <3>2
  <2>5. Read'
    <3> SUFFICES ASSUME NEW i \in DOMAIN clusters, NEW m \in DOMAIN clusters[i],
                        active'[m] # None
                 PROVE  active'[m].facts \subseteq clusters[i][m] \cup late
      BY <1>c DEF Read
    <3>1. m \in Names
      BY ClusterNames DEF IInv
    <3> QED
      BY <2>2, <3>1 DEF Read
  <2>6. Replaced'
    <3> SUFFICES ASSUME cycle = "merging", toArchive' # {}
                 PROVE  \E m \in Names \ toArchive' :
                          /\ active'[m] # None
                          /\ \A k \in toArchive' : active'[k] # None =>
                                active'[k].facts \subseteq active'[m].facts \cup late
      BY <1>c DEF Replaced
    <3>1. PICK m \in Names \ toArchive :
            /\ active[m] # None
            /\ \A k \in toArchive : active[k] # None =>
                  active[k].facts \subseteq active[m].facts \cup late
      BY <1>c DEF Replaced
    <3>2. toArchive \subseteq Names
      BY DEF IInv, Typed, TypeOK
    <3>3. m \in Names \ toArchive' /\ active'[m] # None /\ active'[m] = active[m]
      BY <1>c, <2>2, <3>1
    <3> QED
      BY <1>c, <2>2, <3>1, <3>2, <3>3
  <2> QED
    BY <2>4, <2>5, <2>6
<1> QED
  BY <1>1, <1>2

\* A merge puts down what it read of its sources.
LEMMA MergeMerges ==
  ASSUME IInv, MergeInv, NEW n \in Names, Merge(n) PROVE MergeInv'
<1> USE DEF MergeInv
<1> DEFINE H == Head(clusters)
           F == FactsIn(H)
<1>1. clusters # <<>> /\ clusters \in Seq(Cluster)
  BY DEF Merge, Waiting, IInv, Typed
<1>2. F \in SUBSET Facts /\ DOMAIN H \subseteq Names
  BY <1>1, HeadTypes DEF IInv
<1>3. New(F) \in Item /\ New(F) # None /\ New(F).facts = F
  BY <1>2, NewItems
<1>4. /\ H = clusters[1] /\ 1 \in DOMAIN clusters
      /\ \A i \in DOMAIN Tail(clusters) :
            i + 1 \in DOMAIN clusters /\ Tail(clusters)[i] = clusters[i + 1]
  BY <1>1
<1>5. /\ active[n] = None
      /\ \A i \in DOMAIN clusters : n \notin DOMAIN clusters[i]
  BY DEF Merge, FreshNames
<1>6. /\ active' = [active EXCEPT ![n] = New(F)]
      /\ toArchive' = DOMAIN H /\ clusters' = Tail(clusters)
      /\ deleted' = deleted \ F /\ UNCHANGED <<saved, aged, late>>
  BY DEF Merge
<1>t. active \in Files
  BY DEF IInv, Typed, TypeOK
<1>a. /\ active' \in Files /\ F \subseteq FactsOf(active')
      /\ FactsOf(active) \subseteq FactsOf(active')
      /\ \A m \in Names \ {n} : active'[m] = active[m]
  <2> HIDE DEF F
  <2>1. active' = [active EXCEPT ![n] = New(F)]
    BY <1>6
  <2>2. \A m \in Names \ {n} : active'[m] = active[m]
    BY <1>t, <2>1 DEF Files
  <2>3. /\ active' \in Files /\ F \subseteq FactsOf(active')
        /\ FactsOf(active) \subseteq FactsOf(active')
    BY <1>t, <1>3, <1>5, <2>1, OneChanged
  <2> QED
    BY <2>2, <2>3
<1>b. active'[n] = New(F)
  BY <1>t, <1>6 DEF Files
<1>7. MergeKeepsFacts'
  BY <1>6, <1>a DEF MergeKeepsFacts
<1>8. Read'
  <2> SUFFICES ASSUME NEW i \in DOMAIN Tail(clusters),
                      NEW m \in DOMAIN Tail(clusters)[i], active'[m] # None
               PROVE  active'[m].facts \subseteq Tail(clusters)[i][m] \cup late
    BY <1>6 DEF Read
  <2>1. i + 1 \in DOMAIN clusters /\ m \in DOMAIN clusters[i + 1] /\ m # n
    BY <1>4, <1>5
  <2>2. m \in Names
    BY <2>1, ClusterNames DEF IInv
  <2>3. active[m] # None /\ active'[m] = active[m]
    BY <1>a, <2>1, <2>2
  <2>4. active[m].facts \subseteq clusters[i + 1][m] \cup late
    BY <2>1, <2>3 DEF Read
  <2> QED
    BY <1>4, <2>3, <2>4
<1>9. Replaced'
  <2>1. n \notin DOMAIN H
    BY <1>4, <1>5
  <2>2. \A m \in DOMAIN H : H[m] \subseteq F
    BY DEF FactsIn
  <2>3. ASSUME NEW m \in DOMAIN H, active'[m] # None
        PROVE  active'[m].facts \subseteq F \cup late
    <3>1. m # n /\ m \in Names
      BY <1>2, <2>1
    <3>2. active'[m] = active[m]
      BY <1>a, <3>1
    <3>3. active[m].facts \subseteq H[m] \cup late
      BY <1>4, <2>3, <3>2 DEF Read
    <3> QED
      BY <2>2, <3>2, <3>3
  <2> QED
    BY <1>3, <1>6, <1>b, <2>1, <2>3 DEF Replaced
<1> QED
  BY <1>7, <1>8, <1>9

\* A cluster is read when it is found.
LEMMA FoundMerges ==
  ASSUME IInv, MergeInv, IdentifyClusters PROVE MergeInv'
<1>1. PICK q \in Clusterings :
        clusters' = [i \in DOMAIN q |-> [n \in q[i] |-> active[n].facts]]
  BY DEF IdentifyClusters
<1>2. UNCHANGED <<active, saved, deleted, aged, late>> /\ toArchive' = {}
  BY DEF IdentifyClusters, Idle, fileVars, sectionVars, factVars
<1>3. Read'
  BY <1>1, <1>2 DEF Read
<1> QED
  BY <1>2, <1>3 DEF MergeInv, MergeKeepsFacts, Replaced

\* Every step loses no fact to a merge.
LEMMA MergeNext == ASSUME IInv, MergeInv, [Next]_vars PROVE MergeInv'
<1> USE DEF fileVars, sectionVars, cycleVars, factVars
<1>t. active \in Files /\ archive \in Files
  BY DEF IInv, Typed, TypeOK
<1>e. \A i : i \notin DOMAIN <<>>
  OBVIOUS
<1>1. CASE \/ UpdateRow \/ Raise \/ EndCycle \/ UNCHANGED vars
           \/ \E failed \in SUBSET Held(active) : SyncRows(failed)
           \/ \E exit \in BOOLEAN : StartCycle(exit)
  BY <1>1 DEF UpdateRow, SyncRows, Raise, EndCycle, CycleOver, StartCycle, Idle, vars,
     MergeInv, MergeKeepsFacts, Read, Replaced
<1>2. CASE TimeOut \/ \E failed \in SUBSET (Held(active) \cup Held(archive)) : Restart(failed)
  BY <1>2, <1>e DEF TimeOut, Restart, CycleOver, Waiting, Idle, MergeInv,
     MergeKeepsFacts, Read, Replaced
<1>3. ASSUME NEW S \in SUBSET Names, DecayReview(S) PROVE MergeInv'
  BY <1>3 DEF DecayReview, MergeInv, MergeKeepsFacts, Read, Replaced
<1>4. ASSUME NEW S \in SUBSET Names, Decay(S) PROVE MergeInv'
  BY <1>4, <1>e DEF Decay, MergeInv, MergeKeepsFacts, Read, Replaced
<1>5. CASE MergeFails
  <2>1. clusters \in Seq(Cluster) /\ clusters # <<>>
    BY <1>5 DEF MergeFails, Waiting, IInv, Typed
  <2>2. \A i \in DOMAIN Tail(clusters) :
          i + 1 \in DOMAIN clusters /\ Tail(clusters)[i] = clusters[i + 1]
    BY <2>1
  <2>3. Read'
    BY <1>5, <2>2 DEF MergeFails, MergeInv, Read
  <2> QED
    BY <1>5, <2>3 DEF MergeFails, Waiting, Idle, MergeInv, MergeKeepsFacts, Replaced
<1>6. ASSUME NEW n \in Names, Restore(n) PROVE MergeInv'
  <2>1. clusters = <<>> /\ clusters' = <<>> /\ cycle' = "off"
    BY <1>6 DEF Restore, IInv, Typed, TypeOK
  <2>2. archive[n] \in Item /\ active[n] = None /\ archive[n] # None
    BY <1>6, <1>t DEF Restore, IInv, OnePlace, Held, Files
  <2>3. /\ FactsOf(active) \subseteq FactsOf(active')
        /\ archive[n].facts \subseteq FactsOf(active')
    BY <1>6, <1>t, <2>2, OneChanged DEF Restore
  <2>4. MergeKeepsFacts'
    BY <1>6, <2>3 DEF Restore, MergeInv, MergeKeepsFacts
  <2> QED
    BY <1>e, <2>1, <2>4 DEF MergeInv, Read, Replaced
<1> QED
  BY <1>1, <1>2, <1>3, <1>4, <1>5, <1>6, ToolMerges, ArchivingMerges, MergeMerges,
     FoundMerges DEF Next, Section, Command, Advance, Answered

-----------------------------------------------------------------------------
\* The variables keep to their types.
THEOREM TypeCorrect == Spec => []TypeOK
<1>1. IInv => TypeOK
  BY DEF IInv, Typed
<1> QED
  BY <1>1, Invariant, PTL

\* What someone saved is on disk until someone deletes or replaces it, whatever
\* is merged, archived, restored, cut off by an error or a crash in between.
THEOREM SavedStays == Spec => []NothingDestroyed
<1>1. IInv => NothingDestroyed
  BY DEF IInv
<1> QED
  BY <1>1, Invariant, PTL

\* No file is active and archived at once.
THEOREM InOnePlace == Spec => []OnePlace
<1>1. IInv => OnePlace
  BY DEF IInv
<1> QED
  BY <1>1, Invariant, PTL

\* Between sections every row agrees with its file, and every other one is that
\* of an archived file, except where an error kept a row from being updated.
THEOREM RowsFollow == Spec => []RowsAgree
<1>1. Init => RowsInv
  BY DEF Init, RowsInv, RowsAgree
<1>2. RowsInv => RowsAgree
  BY DEF RowsInv
<1> QED
  BY <1>1, <1>2, RowsNext, Invariant, PTL DEF Spec

\* What was saved is in an active item unless it was deleted, aged, or came into an
\* item of a cluster after the merge had read it.
THEOREM MergesKeep == Spec => []MergeKeepsFacts
<1>1. Init => MergeInv
  BY EmptySeq DEF Init, MergeInv, MergeKeepsFacts, Read, Replaced
<1>2. MergeInv => MergeKeepsFacts
  BY DEF MergeInv
<1> QED
  BY <1>1, <1>2, MergeNext, Invariant, PTL DEF Spec

-----------------------------------------------------------------------------
(***************************************************************************)
(* The index.                                                              *)
(***************************************************************************)
\* Every vector that is not an orphan is that of its chunk.
Fits(x) ==
    \A r \in RowIds \ x.orphans :
        x.vec[r] # Absent => x.chunks[r] # Absent /\ x.chunks[r].text = x.vec[r]

\* A document has the chunks of the content its row has the hash of.
Agrees(x, d) == Indexed(x, d) = Wanted(x.docs[d])

\* How many chunks of its content the job has inserted.
Inserted == IF job.row = 0 THEN job.n - 1 ELSE job.n

\* A job has inserted the first chunks of its content, and there is room for the
\* others; the chunk that waits for its vector is the one at hand.
JobInv ==
    job # Absent =>
        /\ job.n # 0 /\ Inserted <= Len(Chunks[job.v])
        /\ view.docs[job.doc] = job.v
        /\ Indexed(view, job.doc) = {<<n, Chunks[job.v][n]>> : n \in 1 .. Inserted}
        /\ NextRow(view) + Len(Chunks[job.v]) - Inserted <= MaxRow + 1
        /\ job.row # 0 =>
              view.chunks[job.row] = [doc |-> job.doc, n |-> job.n, text |-> Text]

\* What the connection sees is whole but for the document at work; what is
\* committed is whole, even of that one until an embedding commits it early.
WholeInv ==
    \A d \in Docs \ cut :
        /\ d \notin AtWork => Agrees(view, d)
        /\ d \notin CutShort => Agrees(db, d)

\* A rollback brings no row back to what it was.
SameRows == \A d \in Docs \ (off \cup AtWork) : db.docs[d] = view.docs[d]

\* The row a document has when its file was looked at.
Follows(d) == view.docs[d] = IF d = excluded THEN Absent ELSE disk[d]

FollowInv ==
    /\ phase = "down" => off = {} /\ job = Absent
    /\ job # Absent => job.doc # excluded /\ (job.doc \notin off => disk[job.doc] = job.v)
    /\ phase \in {"memory", "session"} =>
          /\ found \subseteq Source /\ excluded \notin found
          /\ \A d \in Source \ off : d \in found <=> disk[d] # Absent /\ d # excluded
          /\ \A d \in found \ (left \cup off \cup AtWork) : Follows(d)
    /\ phase = "session" => \A d \in Items \ (off \cup AtWork) : Follows(d)
    /\ phase = "open" => \A d \in Docs \ (off \cup AtWork) : Follows(d)

IndexInv ==
    /\ IndexTypeOK /\ JobInv /\ WholeInv
    /\ Fits(view) /\ Fits(db)
    /\ SameRows /\ FollowInv

-----------------------------------------------------------------------------
(***************************************************************************)
(* Tables.                                                                 *)
(***************************************************************************)
\* The fields of the tables.
LEMMA TableFields ==
    ASSUME NEW x \in Tables
    PROVE  /\ x.docs \in [Docs -> Contents \cup {Absent}]
           /\ x.chunks \in [RowIds -> Chunk \cup {Absent}]
           /\ x.vec \in [RowIds -> Texts \cup {Absent}]
           /\ x.orphans \subseteq RowIds
BY DEF Tables

\* The next rowid is behind all that are in use, and the one before it is one.
LEMMA NextFree ==
    ASSUME NEW x \in Tables
    PROVE  /\ NextRow(x) \in 1 .. MaxRow + 1
           /\ \A q \in RowIds : q >= NextRow(x) => x.chunks[q] = Absent
           /\ NextRow(x) # 1 =>
                 NextRow(x) - 1 \in RowIds /\ x.chunks[NextRow(x) - 1] # Absent
<1> DEFINE S == {r \in RowIds : x.chunks[r] # Absent}
           T == {0} \cup S
<1>1. S \in SUBSET (1 .. MaxRow) /\ MaxRow \in Nat
  BY IndexAssumption DEF RowIds
<1>2. \A q \in RowIds : q \notin S => x.chunks[q] = Absent
  OBVIOUS
<1>3. \A q \in S : q \in RowIds /\ x.chunks[q] # Absent
  OBVIOUS
<1>d. NextRow(x) = Max(T) + 1
  BY DEF NextRow
<1> HIDE DEF S
<1>4. \E m \in T : \A y \in T : m >= y
  <2>1. CASE S = {}
    BY <2>1
  <2>2. CASE S # {}
    <3>1. PICK m \in S : \A y \in S : m >= y
      BY <1>1, <2>2, GreatestIsOne
    <3>2. m >= 0
      BY <1>1
    <3> QED
      BY <3>1, <3>2
  <2> QED
    BY <2>1, <2>2
<1>5. Max(T) \in T /\ \A y \in T : Max(T) >= y
  BY <1>4 DEF Max
<1> DEFINE m == Max(T)
<1>6. m \in 0 .. MaxRow
  <2>1. \A y \in T : y \in 0 .. MaxRow
    BY <1>1
  <2> HIDE DEF T
  <2> QED
    BY <1>5, <2>1
<1>7. \A q \in RowIds : q >= m + 1 => q \notin S
  <2> SUFFICES ASSUME NEW q \in RowIds, q >= m + 1, q \in S PROVE FALSE
    OBVIOUS
  <2>1. m >= q
    BY <1>5
  <2> QED
    BY <1>1, <1>6, <2>1
<1>8. m # 0 => m \in S
  BY <1>5
<1> HIDE DEF m, T
<1> QED
  BY <1>1, <1>2, <1>3, <1>6, <1>7, <1>8, <1>d DEF m

\* There is one such rowid.
LEMMA NextRowIs ==
    ASSUME NEW x \in Tables, NEW r \in 1 .. MaxRow,
           x.chunks[r] # Absent, \A q \in RowIds : q > r => x.chunks[q] = Absent
    PROVE  NextRow(x) = r + 1
<1>1. /\ NextRow(x) \in 1 .. MaxRow + 1
      /\ \A q \in RowIds : q >= NextRow(x) => x.chunks[q] = Absent
      /\ NextRow(x) # 1 =>
            NextRow(x) - 1 \in RowIds /\ x.chunks[NextRow(x) - 1] # Absent
  BY NextFree
<1>2. MaxRow \in Nat /\ RowIds = 1 .. MaxRow
  BY IndexAssumption DEF RowIds
<1> DEFINE n == NextRow(x)
<1> HIDE DEF n
<1>3. ~(r >= n)
  BY <1>1, <1>2 DEF n
<1>4. ~(n - 1 > r)
  BY <1>1, <1>2 DEF n
<1> QED
  BY <1>1, <1>2, <1>3, <1>4 DEF n

\* What of a document is in the index.
LEMMA InIndex ==
    ASSUME NEW x, NEW d, NEW e
    PROVE  e \in Indexed(x, d) <=>
              \E r \in RowIds : /\ x.chunks[r] # Absent /\ x.chunks[r].doc = d
                                /\ e = <<x.chunks[r].n, x.chunks[r].text>>
BY Zenon DEF Indexed, ChunkRows

\* If the chunks of a document are the same, what is in the index of it is.
LEMMA SameIndexed ==
    ASSUME NEW x, NEW y, NEW d,
           \A r \in RowIds :
              x.chunks[r] # y.chunks[r] =>
                 /\ x.chunks[r] # Absent => x.chunks[r].doc # d
                 /\ y.chunks[r] # Absent => y.chunks[r].doc # d
    PROVE  Indexed(x, d) = Indexed(y, d)
<1>1. \A e : e \in Indexed(x, d) <=> e \in Indexed(y, d)
  <2> TAKE e
  <2>1. e \in Indexed(x, d) <=>
           \E r \in RowIds : /\ x.chunks[r] # Absent /\ x.chunks[r].doc = d
                             /\ e = <<x.chunks[r].n, x.chunks[r].text>>
    BY InIndex
  <2>2. e \in Indexed(y, d) <=>
           \E r \in RowIds : /\ y.chunks[r] # Absent /\ y.chunks[r].doc = d
                             /\ e = <<y.chunks[r].n, y.chunks[r].text>>
    BY InIndex
  <2> QED
    BY <2>1, <2>2
<1> QED
  BY <1>1, Zenon

\* The chunks of some documents go, and their vectors with them or as orphans.
LEMMA CutTables ==
    ASSUME NEW x \in Tables, NEW D \in SUBSET Docs
    PROVE  /\ WithoutChunks(x, D) \in Tables
           /\ WithoutChunks(x, D).docs = x.docs
           /\ \A r \in RowIds : WithoutChunks(x, D).chunks[r] =
                 IF x.chunks[r] # Absent /\ x.chunks[r].doc \in D
                 THEN Absent ELSE x.chunks[r]
           /\ Fits(x) => Fits(WithoutChunks(x, D))
<1> DEFINE gone == ChunkRows(x, D)
           w == WithoutChunks(x, D)
<1>1. gone \subseteq RowIds
  BY DEF ChunkRows
<1>2. \A r \in RowIds : r \in gone <=> x.chunks[r] # Absent /\ x.chunks[r].doc \in D
  BY DEF ChunkRows
<1>3. w = [x EXCEPT
            !.chunks  = [r \in RowIds |-> IF r \in gone THEN Absent ELSE x.chunks[r]],
            !.vec     = [r \in RowIds |-> IF r \in gone /\ Hybrid THEN Absent ELSE x.vec[r]],
            !.orphans = IF Hybrid THEN x.orphans \ gone
                        ELSE x.orphans \cup {r \in gone : x.vec[r] # Absent}]
  BY DEF WithoutChunks
<1> HIDE DEF gone, w
<1>4. /\ w.docs = x.docs
      /\ w.chunks = [r \in RowIds |-> IF r \in gone THEN Absent ELSE x.chunks[r]]
      /\ w.vec = [r \in RowIds |-> IF r \in gone /\ Hybrid THEN Absent ELSE x.vec[r]]
      /\ w.orphans = IF Hybrid THEN x.orphans \ gone
                     ELSE x.orphans \cup {r \in gone : x.vec[r] # Absent}
  BY <1>3 DEF Tables
<1>5. w \in Tables
  <2>1. /\ w.docs \in [Docs -> Contents \cup {Absent}]
        /\ w.chunks \in [RowIds -> Chunk \cup {Absent}]
        /\ w.vec \in [RowIds -> Texts \cup {Absent}]
        /\ w.orphans \in SUBSET RowIds
    BY <1>1, <1>4, TableFields
  <2>2. w = [docs |-> w.docs, chunks |-> w.chunks, vec |-> w.vec, orphans |-> w.orphans]
    BY <1>3 DEF Tables
  <2> QED
    BY <2>1, <2>2 DEF Tables
<1>6. ASSUME Fits(x) PROVE Fits(w)
  <2> SUFFICES ASSUME NEW r \in RowIds, r \notin w.orphans, w.vec[r] # Absent
               PROVE  w.chunks[r] # Absent /\ w.chunks[r].text = w.vec[r]
    BY Zenon DEF Fits
  <2>1. w.vec[r] = (IF r \in gone /\ Hybrid THEN Absent ELSE x.vec[r])
    BY <1>4
  <2>2. x.vec[r] # Absent /\ ~(r \in gone /\ Hybrid) /\ w.vec[r] = x.vec[r]
    BY <2>1
  <2>3. r \notin gone /\ r \notin x.orphans
    BY <1>4, <2>2
  <2>4. x.chunks[r] # Absent /\ x.chunks[r].text = x.vec[r]
    BY <1>6, <2>2, <2>3 DEF Fits
  <2> QED
    BY <1>4, <2>2, <2>3, <2>4
<1>7. \A r \in RowIds : w.chunks[r] =
         IF x.chunks[r] # Absent /\ x.chunks[r].doc \in D THEN Absent ELSE x.chunks[r]
  BY <1>2, <1>4
<1> QED
  BY <1>4, <1>5, <1>6, <1>7 DEF w

\* Of those documents nothing is in the index, and of the others what was.
LEMMA CutIndexed ==
    ASSUME NEW x \in Tables, NEW D \in SUBSET Docs, NEW d \in Docs
    PROVE  Indexed(WithoutChunks(x, D), d) = IF d \in D THEN {} ELSE Indexed(x, d)
<1> DEFINE w == WithoutChunks(x, D)
<1>1. \A r \in RowIds : w.chunks[r] =
         IF x.chunks[r] # Absent /\ x.chunks[r].doc \in D THEN Absent ELSE x.chunks[r]
  BY CutTables
<1> HIDE DEF w
<1>2. CASE d \in D
  <2>1. \A e : e \notin Indexed(w, d)
    <3> SUFFICES ASSUME NEW e, e \in Indexed(w, d) PROVE FALSE
      OBVIOUS
    <3>1. PICK r \in RowIds : w.chunks[r] # Absent /\ w.chunks[r].doc = d
      BY InIndex
    <3> QED
      BY <1>1, <1>2, <3>1
  <2> QED
    BY <1>2, <2>1 DEF w
<1>3. CASE d \notin D
  <2>1. \A r \in RowIds :
           w.chunks[r] # x.chunks[r] =>
              /\ w.chunks[r] # Absent => w.chunks[r].doc # d
              /\ x.chunks[r] # Absent => x.chunks[r].doc # d
    BY <1>1, <1>3
  <2>2. Indexed(w, d) = Indexed(x, d)
    BY <2>1, SameIndexed
  <2> QED
    BY <1>3, <2>2 DEF w
<1> QED
  BY <1>2, <1>3

\* The documents themselves go.
LEMMA OutTables ==
    ASSUME NEW x \in Tables, NEW D \in SUBSET Docs
    PROVE  /\ Without(x, D) \in Tables
           /\ \A d \in Docs : Without(x, D).docs[d] = IF d \in D THEN Absent ELSE x.docs[d]
           /\ \A d \in Docs :
                 Indexed(Without(x, D), d) = IF d \in D THEN {} ELSE Indexed(x, d)
           /\ Fits(x) => Fits(Without(x, D))
<1> DEFINE w == WithoutChunks(x, D)
           y == Without(x, D)
<1>1. /\ w \in Tables /\ w.docs = x.docs
      /\ Fits(x) => Fits(w)
      /\ \A d \in Docs : Indexed(w, d) = IF d \in D THEN {} ELSE Indexed(x, d)
  BY CutTables, CutIndexed
<1>2. y = [w EXCEPT !.docs = [d \in Docs |-> IF d \in D THEN Absent ELSE w.docs[d]]]
  BY DEF Without
<1> HIDE DEF w, y
<1>3. /\ y.docs = [d \in Docs |-> IF d \in D THEN Absent ELSE w.docs[d]]
      /\ y.chunks = w.chunks /\ y.vec = w.vec /\ y.orphans = w.orphans
  BY <1>1, <1>2 DEF Tables
<1>4. y \in Tables
  <2>1. y.docs \in [Docs -> Contents \cup {Absent}]
    BY <1>1, <1>3, TableFields
  <2>2. y = [docs |-> y.docs, chunks |-> w.chunks, vec |-> w.vec, orphans |-> w.orphans]
    BY <1>1, <1>2, <1>3 DEF Tables
  <2> QED
    BY <1>1, <2>1, <2>2 DEF Tables
<1>5. \A d \in Docs : Indexed(y, d) = Indexed(w, d)
  BY <1>3, SameIndexed
<1>6. Fits(w) => Fits(y)
  BY <1>3 DEF Fits
<1> QED
  BY <1>1, <1>3, <1>4, <1>5, <1>6 DEF y

\* One more chunk, under the next rowid.
LEMMA OneMoreChunk ==
    ASSUME NEW x \in Tables, NextRow(x) <= MaxRow, NEW c \in Chunk,
           NEW y, y = [x EXCEPT !.chunks[NextRow(x)] = c]
    PROVE  /\ y \in Tables /\ y.docs = x.docs
           /\ NextRow(x) \in RowIds /\ y.chunks[NextRow(x)] = c
           /\ NextRow(y) = NextRow(x) + 1
           /\ \A d : Indexed(y, d) = IF d = c.doc THEN Indexed(x, d) \cup {<<c.n, c.text>>}
                                     ELSE Indexed(x, d)
           /\ Fits(x) => Fits(y)
<1>1. PICK r : r = NextRow(x)
  OBVIOUS
<1>2. MaxRow \in Nat /\ RowIds = 1 .. MaxRow
  BY IndexAssumption DEF RowIds
<1>3. r \in 1 .. MaxRow /\ \A q \in RowIds : q >= r => x.chunks[q] = Absent
  BY <1>1, <1>2, NextFree
<1>4. c # Absent
  BY RowAssumption
<1>5. /\ y.docs = x.docs /\ y.vec = x.vec /\ y.orphans = x.orphans
      /\ y.chunks = [x.chunks EXCEPT ![r] = c]
  BY <1>1 DEF Tables
<1>6. /\ x.chunks[r] = Absent /\ y.chunks[r] = c
      /\ \A q \in RowIds : q # r => y.chunks[q] = x.chunks[q]
  <2>1. x.chunks[r] = Absent
    BY <1>2, <1>3
  <2> QED
    BY <1>2, <1>3, <1>5, <2>1, TableFields
<1>7. y \in Tables
  <2>1. y.chunks \in [RowIds -> Chunk \cup {Absent}]
    <3>1. x.chunks \in [RowIds -> Chunk \cup {Absent}] /\ y.chunks = [x.chunks EXCEPT ![r] = c]
      BY <1>5, TableFields
    <3>2. \A f \in [RowIds -> Chunk \cup {Absent}] :
             [f EXCEPT ![r] = c] \in [RowIds -> Chunk \cup {Absent}]
      OBVIOUS
    <3> QED
      BY <3>1, <3>2, Zenon
  <2>2. y = [docs |-> x.docs, chunks |-> y.chunks, vec |-> x.vec, orphans |-> x.orphans]
    BY <1>5 DEF Tables
  <2> QED
    BY <2>1, <2>2 DEF Tables
<1>8. NextRow(y) = r + 1
  <2>1. \A q \in RowIds : q > r => y.chunks[q] = Absent
    BY <1>2, <1>3, <1>6
  <2> QED
    BY <1>3, <1>4, <1>6, <1>7, <2>1, NextRowIs
<1>9. ASSUME NEW d
      PROVE  Indexed(y, d) = IF d = c.doc THEN Indexed(x, d) \cup {<<c.n, c.text>>}
                             ELSE Indexed(x, d)
  <2>1. CASE d = c.doc
    <3>1. ASSUME NEW e PROVE e \in Indexed(y, d) <=> e \in Indexed(x, d) \/ e = <<c.n, c.text>>
      <4>0. \A z : e \in Indexed(z, d) <=>
               \E q \in RowIds : /\ z.chunks[q] # Absent /\ z.chunks[q].doc = d
                                 /\ e = <<z.chunks[q].n, z.chunks[q].text>>
        BY InIndex
      <4>1. e \in Indexed(y, d) <=>
               \E q \in RowIds : /\ y.chunks[q] # Absent /\ y.chunks[q].doc = d
                                 /\ e = <<y.chunks[q].n, y.chunks[q].text>>
        BY <4>0, Zenon
      <4>2. e \in Indexed(x, d) <=>
               \E q \in RowIds : /\ x.chunks[q] # Absent /\ x.chunks[q].doc = d
                                 /\ e = <<x.chunks[q].n, x.chunks[q].text>>
        BY <4>0, Zenon
      <4>3. e \in Indexed(y, d) => e \in Indexed(x, d) \/ e = <<c.n, c.text>>
        BY <1>6, <4>1, <4>2
      <4>4. e \in Indexed(x, d) => e \in Indexed(y, d)
        BY <1>6, <4>1, <4>2
      <4>5. e = <<c.n, c.text>> => e \in Indexed(y, d)
        BY <1>2, <1>3, <1>4, <1>6, <2>1, <4>1
      <4> QED
        BY <4>3, <4>4, <4>5
    <3> QED
      BY <2>1, <3>1
  <2>2. CASE d # c.doc
    <3>1. \A q \in RowIds :
             y.chunks[q] # x.chunks[q] =>
                /\ y.chunks[q] # Absent => y.chunks[q].doc # d
                /\ x.chunks[q] # Absent => x.chunks[q].doc # d
      BY <1>6, <2>2
    <3> QED
      BY <2>2, <3>1, SameIndexed
  <2> QED
    BY <2>1, <2>2
<1>10. ASSUME Fits(x) PROVE Fits(y)
  <2> SUFFICES ASSUME NEW q \in RowIds, q \notin y.orphans, y.vec[q] # Absent
               PROVE  y.chunks[q] # Absent /\ y.chunks[q].text = y.vec[q]
    BY Zenon DEF Fits
  <2>1. x.chunks[q] # Absent /\ x.chunks[q].text = x.vec[q]
    BY <1>5, <1>10 DEF Fits
  <2> QED
    BY <1>5, <1>6, <2>1
<1> QED
  BY <1>1, <1>2, <1>3, <1>5, <1>6, <1>7, <1>8, <1>9, <1>10

\* A vector that is that of its chunk.
LEMMA OneMoreVector ==
    ASSUME NEW x \in Tables, NEW r \in RowIds, x.chunks[r] # Absent,
           NEW t \in Texts, x.chunks[r].text = t,
           NEW y, y = [x EXCEPT !.vec[r] = t]
    PROVE  /\ y \in Tables /\ y.docs = x.docs /\ y.chunks = x.chunks
           /\ NextRow(y) = NextRow(x)
           /\ \A d : Indexed(y, d) = Indexed(x, d)
           /\ Fits(x) => Fits(y)
<1>1. /\ y.docs = x.docs /\ y.chunks = x.chunks /\ y.orphans = x.orphans
      /\ y.vec = [x.vec EXCEPT ![r] = t]
  BY DEF Tables
<1>2. y \in Tables
  <2>1. y.vec \in [RowIds -> Texts \cup {Absent}]
    BY <1>1, TableFields
  <2>2. y = [docs |-> x.docs, chunks |-> x.chunks, vec |-> y.vec, orphans |-> x.orphans]
    BY <1>1 DEF Tables
  <2> QED
    BY <2>1, <2>2 DEF Tables
<1>3. NextRow(y) = NextRow(x) /\ \A d : Indexed(y, d) = Indexed(x, d)
  BY <1>1 DEF NextRow, Indexed, ChunkRows
<1>4. ASSUME Fits(x) PROVE Fits(y)
  <2> SUFFICES ASSUME NEW q \in RowIds, q \notin y.orphans, y.vec[q] # Absent
               PROVE  y.chunks[q] # Absent /\ y.chunks[q].text = y.vec[q]
    BY Zenon DEF Fits
  <2>1. CASE q = r
    BY <1>1, <2>1, TableFields
  <2>2. CASE q # r
    <3>1. y.vec[q] = x.vec[q]
      BY <1>1, <2>2, TableFields
    <3> QED
      BY <1>1, <1>4, <3>1 DEF Fits
  <2> QED
    BY <2>1, <2>2
<1> QED
  BY <1>1, <1>2, <1>3, <1>4

-----------------------------------------------------------------------------
(***************************************************************************)
(* One document.                                                           *)
(***************************************************************************)
\* The empty tables.
LEMMA ColdStart == IndexInit => IndexInv
<1> SUFFICES ASSUME IndexInit PROVE IndexInv
  OBVIOUS
<1> USE DEF IndexInit
<1>1. Empty \in Tables
  BY DEF Empty, Tables
<1>2. /\ \A d \in Docs : Empty.docs[d] = Absent
      /\ \A r \in RowIds : Empty.chunks[r] = Absent /\ Empty.vec[r] = Absent
  BY DEF Empty
<1>3. IndexTypeOK
  BY <1>1 DEF IndexTypeOK
<1>4. JobInv
  BY DEF JobInv
<1>5. \A d \in Docs : Agrees(Empty, d)
  <2> SUFFICES ASSUME NEW d \in Docs PROVE Indexed(Empty, d) = Wanted(Empty.docs[d])
    BY DEF Agrees
  <2>1. \A e : e \notin Indexed(Empty, d)
    BY <1>2, InIndex
  <2>2. Wanted(Empty.docs[d]) = {}
    BY <1>2 DEF Wanted
  <2> QED
    BY <2>1, <2>2
<1>6. WholeInv
  BY <1>5 DEF WholeInv
<1>7. Fits(Empty)
  BY <1>2 DEF Fits
<1>8. SameRows
  BY DEF SameRows
<1>9. FollowInv
  BY DEF FollowInv
<1> QED
  BY <1>3, <1>4, <1>6, <1>7, <1>8, <1>9 DEF IndexInv

\* The content of a job is cut into chunks.
LEMMA JobFacts ==
    ASSUME IndexInv, job # Absent
    PROVE  /\ job \in Job /\ job.doc \in Docs /\ job.v \in Contents
           /\ job.n \in Nat /\ job.n >= 1 /\ job.early \in BOOLEAN
           /\ job.row \in RowIds \/ job.row = 0
           /\ Len(Chunks[job.v]) \in Nat
           /\ More => /\ job.n <= Len(Chunks[job.v]) /\ Text \in Texts
                      /\ [doc |-> job.doc, n |-> job.n, text |-> Text] \in Chunk
<1>1. job \in Job
  BY DEF IndexInv, IndexTypeOK
<1>2. /\ job.doc \in Docs /\ job.v \in Contents /\ job.n \in Nat /\ job.early \in BOOLEAN
      /\ job.row \in RowIds \/ job.row = 0
  BY <1>1 DEF Job
<1>3. job.n >= 1
  BY <1>2 DEF IndexInv, JobInv
<1>4. Chunks[job.v] \in Seq(Texts)
  BY <1>2, IndexAssumption
<1>5. Len(Chunks[job.v]) \in Nat /\ DOMAIN Chunks[job.v] = 1 .. Len(Chunks[job.v])
  BY <1>4, LenProperties
<1>6. ASSUME More
      PROVE  /\ job.n <= Len(Chunks[job.v]) /\ Text \in Texts
             /\ [doc |-> job.doc, n |-> job.n, text |-> Text] \in Chunk
  <2>1. job.n \in DOMAIN Chunks[job.v] /\ job.n <= Len(Chunks[job.v])
    BY <1>2, <1>3, <1>5, <1>6 DEF More
  <2>2. Text \in Texts
    BY <1>4, <1>5, <2>1, ElementOfSeq DEF Text
  <2>3. job.n \in Indexes
    BY <1>2, <2>1 DEF Indexes
  <2> QED
    BY <1>2, <2>1, <2>2, <2>3 DEF Chunk
<1> QED
  BY <1>1, <1>2, <1>3, <1>5, <1>6

\* A document is to be indexed: the row has the content, its chunks are gone,
\* and the rowids suffice.
LEMMA BeginKeeps ==
    ASSUME IndexInv, job = Absent, NEW d \in Docs, NEW v \in Contents, Begin(d, v),
           UNCHANGED <<db, cut>>
    PROVE  /\ view' \in Tables /\ view'.docs[d] = v
           /\ \A e \in Docs : e # d => view'.docs[e] = view.docs[e]
           /\ job' \in Job /\ job' # Absent
           /\ job'.doc = d /\ job'.v = v /\ job'.row = 0
           /\ JobInv' /\ WholeInv' /\ Fits(view)' /\ Fits(db)'
<1> DEFINE w == WithoutChunks(view, {d})
<1>0. view \in Tables /\ Fits(view) /\ Fits(db)
  BY DEF IndexInv, IndexTypeOK
<1>1. /\ w \in Tables /\ w.docs = view.docs /\ Fits(w)
      /\ \A e \in Docs : Indexed(w, e) = IF e = d THEN {} ELSE Indexed(view, e)
  BY <1>0, CutTables, CutIndexed
<1>2. /\ view' = [w EXCEPT !.docs[d] = v]
      /\ NextRow(w) + Len(Chunks[v]) <= MaxRow + 1
      /\ job' = [doc |-> d, v |-> v, n |-> 1, row |-> 0, early |-> FALSE]
  BY DEF Begin
<1> HIDE DEF w
<1>3. /\ view'.chunks = w.chunks /\ view'.vec = w.vec /\ view'.orphans = w.orphans
      /\ view'.docs = [view.docs EXCEPT ![d] = v]
  BY <1>1, <1>2 DEF Tables
<1>4. /\ view'.docs[d] = v
      /\ \A e \in Docs : e # d => view'.docs[e] = view.docs[e]
  BY <1>0, <1>3, TableFields
<1>5. view' \in Tables
  <2>1. view'.docs \in [Docs -> Contents \cup {Absent}]
    BY <1>0, <1>3, TableFields
  <2>2. view' = [docs |-> view'.docs, chunks |-> w.chunks, vec |-> w.vec, orphans |-> w.orphans]
    BY <1>1, <1>2, <1>3 DEF Tables
  <2> QED
    BY <1>1, <2>1, <2>2 DEF Tables
<1>6. /\ \A e : Indexed(view', e) = Indexed(w, e)
      /\ NextRow(view') = NextRow(w) /\ Fits(view')
  BY <1>1, <1>3 DEF Indexed, ChunkRows, NextRow, Fits
<1>7. /\ job' \in Job /\ job' # Absent
      /\ job'.doc = d /\ job'.v = v /\ job'.row = 0 /\ job'.n = 1 /\ job'.early = FALSE
  <2>1. job' \in Job
    BY <1>2 DEF Job
  <2> QED
    BY <1>2, <2>1, RowAssumption
<1>8. Len(Chunks[v]) \in Nat
  BY IndexAssumption, LenProperties
<1>9. JobInv'
  <2>1. Inserted' = 0
    BY <1>7 DEF Inserted
  <2>2. Indexed(view', d) = {<<n, Chunks[v][n]>> : n \in 1 .. 0}
    BY <1>1, <1>6
  <2>3. NextRow(view') + Len(Chunks[v]) - 0 <= MaxRow + 1
    <3>1. NextRow(w) \in Nat /\ MaxRow \in Nat
      BY <1>1, NextFree, IndexAssumption
    <3> QED
      BY <1>2, <1>6, <1>8, <3>1
  <2> QED
    BY <1>4, <1>7, <1>8, <2>1, <2>2, <2>3 DEF JobInv
<1>10. WholeInv'
  <2> SUFFICES ASSUME NEW e \in Docs, e \notin cut
               PROVE  /\ e \notin AtWork' => Agrees(view', e)
                      /\ Agrees(db, e)
    BY Zenon DEF WholeInv
  <2>1. Agrees(db, e) /\ Agrees(view, e)
    BY DEF IndexInv, WholeInv, AtWork, CutShort
  <2>2. e \notin AtWork' => e # d
    BY <1>7 DEF AtWork
  <2>3. e # d => Agrees(view', e)
    BY <1>1, <1>4, <1>6, <2>1 DEF Agrees
  <2> QED
    BY <2>1, <2>2, <2>3
<1>11. Fits(view)' /\ Fits(db)'
  <2>1. Fits(view)' <=> Fits(view')
    BY DEF Fits
  <2>2. Fits(db)' <=> Fits(db')
    BY DEF Fits
  <2> QED
    BY <1>0, <1>6, <2>1, <2>2
<1> QED
  BY <1>4, <1>5, <1>7, <1>9, <1>10, <1>11

\* A job goes on: only its own document changes, and what is committed stays or
\* is what the connection sees.
LEMMA JobGoesOn ==
    ASSUME IndexInv, job # Absent,
           job' \in Job, job'.doc = job.doc, job'.v = job.v,
           job'.row # 0 => Hybrid /\ More', JobInv',
           view' \in Tables, view'.docs = view.docs, Fits(view'),
           \A d \in Docs : d # job.doc => Indexed(view', d) = Indexed(view, d),
           cache' \subseteq Texts,
           \/ db' = db /\ job'.early = job.early
           \/ db' = view /\ job'.early = TRUE,
           UNCHANGED <<disk, backend, sync, cut, off>>
    PROVE  IndexInv'
<1>0. /\ IndexTypeOK /\ WholeInv /\ SameRows /\ FollowInv /\ Fits(view) /\ Fits(db)
      /\ UNCHANGED <<disk, backend, phase, found, left, excluded, cut, off>>
  BY DEF IndexInv, sync
<1>1. job' # Absent
  BY RowAssumption
<1>2. AtWork = {job.doc} /\ AtWork' = {job.doc}
  BY <1>1 DEF AtWork
<1>3. IndexTypeOK'
  BY <1>0, <1>1 DEF IndexTypeOK, Hybrid
<1>4. WholeInv'
  <2> SUFFICES ASSUME NEW d \in Docs, d \notin cut
               PROVE  /\ d \notin AtWork' => Agrees(view', d)
                      /\ d \notin CutShort' => Agrees(db', d)
    BY <1>0, Zenon DEF WholeInv
  <2>1. /\ d # job.doc => Agrees(view, d)
        /\ d \notin CutShort => Agrees(db, d)
    BY <1>0, <1>2 DEF WholeInv
  <2>2. d # job.doc => Agrees(view', d)
    BY <2>1 DEF Agrees
  <2>3. d \notin CutShort' => Agrees(db', d)
    <3>1. CASE db' = db /\ job'.early = job.early
      <4>1. CutShort' = CutShort
        BY <1>1, <3>1 DEF CutShort
      <4> QED
        BY <2>1, <3>1, <4>1
    <3>2. CASE db' = view /\ job'.early = TRUE
      <4>1. CutShort' = {job.doc}
        BY <1>1, <3>2 DEF CutShort
      <4> QED
        BY <2>1, <3>2, <4>1
    <3> QED
      BY <3>1, <3>2
  <2> QED
    BY <1>2, <2>2, <2>3
<1>5. Fits(view)' /\ Fits(db)'
  <2>1. Fits(view)' <=> Fits(view')
    BY DEF Fits
  <2>2. Fits(db)' <=> Fits(db')
    BY DEF Fits
  <2> QED
    BY <1>0, <2>1, <2>2
<1>6. SameRows'
  BY <1>0, <1>2 DEF SameRows
<1>7. FollowInv'
  BY <1>0, <1>1, <1>2 DEF FollowInv, Follows, Source
<1> QED
  BY <1>3, <1>4, <1>5, <1>6, <1>7 DEF IndexInv

\* A job at another chunk, or with another rowid.
LEMMA JobMoves ==
    ASSUME NEW j, NEW d \in Docs, NEW v \in Contents, NEW n \in Nat, NEW r, NEW e \in BOOLEAN,
           r \in RowIds \/ r = 0,
           j = [doc |-> d, v |-> v, n |-> n, row |-> r, early |-> e]
    PROVE  /\ j \in Job /\ j # Absent
           /\ j.doc = d /\ j.v = v /\ j.n = n /\ j.row = r /\ j.early = e
<1>1. j \in Job
  BY DEF Job
<1> QED
  BY <1>1, RowAssumption

\* A chunk is inserted, and waits for its vector or is done with.
LEMMA InsertKeeps == ASSUME IndexInv, InsertChunk PROVE IndexInv'
<1>0. /\ More /\ job # Absent /\ job.row = 0
      /\ UNCHANGED <<disk, db, cache, backend, sync, cut, off>>
  BY DEF InsertChunk, More
<1>1. /\ job \in Job /\ job.doc \in Docs /\ job.v \in Contents /\ job.early \in BOOLEAN
      /\ job.n \in Nat /\ job.n >= 1 /\ Len(Chunks[job.v]) \in Nat
      /\ job.n <= Len(Chunks[job.v])
  BY <1>0, JobFacts
<1>2. PICK c : c = [doc |-> job.doc, n |-> job.n, text |-> Text]
  OBVIOUS
<1>3. c \in Chunk /\ c.doc = job.doc /\ c.n = job.n /\ c.text = Text
  BY <1>0, <1>2, JobFacts
<1>4. PICK r : r = NextRow(view)
  OBVIOUS
<1>5. Inserted = job.n - 1
  BY <1>0 DEF Inserted
<1>6. view \in Tables /\ Fits(view)
  BY DEF IndexInv, IndexTypeOK
<1>7. /\ r + Len(Chunks[job.v]) - (job.n - 1) <= MaxRow + 1
      /\ view.docs[job.doc] = job.v
      /\ Indexed(view, job.doc) = {<<n, Chunks[job.v][n]>> : n \in 1 .. job.n - 1}
  BY <1>0, <1>4, <1>5 DEF IndexInv, JobInv
<1>8. r \in 1 .. MaxRow + 1 /\ MaxRow \in Nat
  BY <1>4, <1>6, NextFree, IndexAssumption
<1>9. r <= MaxRow
  BY <1>1, <1>7, <1>8
<1>10. view' = [view EXCEPT !.chunks[NextRow(view)] = c]
  BY <1>2 DEF InsertChunk
<1>11. /\ view' \in Tables /\ view'.docs = view.docs
       /\ r \in RowIds /\ view'.chunks[r] = c
       /\ NextRow(view') = r + 1
       /\ \A d : Indexed(view', d) = IF d = c.doc THEN Indexed(view, d) \cup {<<c.n, c.text>>}
                                     ELSE Indexed(view, d)
       /\ Fits(view')
  <2>1. \A y : y = [view EXCEPT !.chunks[NextRow(view)] = c] =>
           /\ y \in Tables /\ y.docs = view.docs
           /\ NextRow(view) \in RowIds /\ y.chunks[NextRow(view)] = c
           /\ NextRow(y) = NextRow(view) + 1
           /\ \A d : Indexed(y, d) = IF d = c.doc THEN Indexed(view, d) \cup {<<c.n, c.text>>}
                                     ELSE Indexed(view, d)
           /\ Fits(view) => Fits(y)
    <3>1. NextRow(view) <= MaxRow
      BY <1>4, <1>9
    <3> QED
      BY <1>3, <1>6, <3>1, OneMoreChunk
  <2> QED
    BY <1>4, <1>6, <1>10, <2>1
<1>12. Indexed(view', job.doc) = {<<n, Chunks[job.v][n]>> : n \in 1 .. job.n}
  <2>1. c.text = Chunks[job.v][job.n]
    BY <1>3 DEF Text
  <2>2. 1 .. job.n = (1 .. job.n - 1) \cup {job.n}
    BY <1>1
  <2> QED
    BY <1>3, <1>7, <1>11, <2>1, <2>2
<1>13. /\ job' \in Job /\ job'.doc = job.doc /\ job'.v = job.v /\ job'.early = job.early
       /\ job' # Absent
       /\ \/ Hybrid /\ job'.n = job.n /\ job'.row = r
          \/ job'.n = job.n + 1 /\ job'.row = 0
  <2>1. job' = IF Hybrid THEN [job EXCEPT !.row = r] ELSE [job EXCEPT !.n = @ + 1, !.row = 0]
    BY <1>4 DEF InsertChunk, NextChunk
  <2>2. PICK m \in Nat : m = job.n + 1
    BY <1>1
  <2>3. CASE Hybrid
    <3>1. job' = [doc |-> job.doc, v |-> job.v, n |-> job.n, row |-> r, early |-> job.early]
      BY <1>1, <2>1, <2>3 DEF Job
    <3> QED
      BY <1>1, <1>11, <2>3, <3>1, JobMoves
  <2>4. CASE ~Hybrid
    <3>1. job' = [doc |-> job.doc, v |-> job.v, n |-> m, row |-> 0, early |-> job.early]
      BY <1>1, <2>1, <2>2, <2>4 DEF Job
    <3> QED
      BY <1>1, <2>2, <3>1, JobMoves
  <2> QED
    BY <2>3, <2>4
<1>14. Inserted' = job.n /\ job'.n # 0 /\ r # 0
  BY <1>1, <1>8, <1>13 DEF Inserted
<1>15. job'.row # 0 => Hybrid /\ More' /\ job'.n = job.n /\ job'.row = r /\ Text' = Text
  BY <1>1, <1>13 DEF More, Text
<1>16. JobInv'
  <2>1. r + 1 + Len(Chunks[job.v]) - job.n <= MaxRow + 1
    BY <1>1, <1>7, <1>8
  <2>2. view'.docs[job.doc] = job.v
    BY <1>7, <1>11
  <2>3. job'.row # 0 =>
           view'.chunks[job'.row] = [doc |-> job'.doc, n |-> job'.n, text |-> Text']
    BY <1>2, <1>11, <1>13, <1>15
  <2> QED
    BY <1>1, <1>11, <1>12, <1>13, <1>14, <2>1, <2>2, <2>3 DEF JobInv
<1>17. \A d \in Docs : d # job.doc => Indexed(view', d) = Indexed(view, d)
  BY <1>3, <1>11
<1>18. cache' \subseteq Texts
  BY <1>0 DEF IndexInv, IndexTypeOK
<1>19. db' = db /\ job'.early = job.early
  BY <1>0, <1>13
<1>20. job'.row # 0 => Hybrid /\ More'
  BY <1>15
<1> QED
  BY <1>0, <1>11, <1>13, <1>16, <1>17, <1>18, <1>19, <1>20, JobGoesOn, Zenon

\* The text is embedded, which commits what the connection sees.
LEMMA EmbedKeeps == ASSUME IndexInv, Embed PROVE IndexInv'
<1>0. /\ More /\ job # Absent /\ view' = view /\ db' = view
      /\ cache' = cache \cup {Text} /\ job' = [job EXCEPT !.early = TRUE]
      /\ UNCHANGED <<disk, backend, sync, cut, off>>
  BY DEF Embed, Embedding, More
<1>1. job \in Job /\ Text \in Texts
  BY <1>0, JobFacts
<1>2. /\ job' \in Job /\ job'.doc = job.doc /\ job'.v = job.v /\ job'.early = TRUE
      /\ job'.n = job.n /\ job'.row = job.row
  BY <1>0, <1>1 DEF Job
<1>3. job' # Absent
  BY <1>2, RowAssumption
<1>4. view \in Tables /\ Fits(view) /\ cache' \subseteq Texts
  BY <1>0, <1>1 DEF IndexInv, IndexTypeOK
<1>5. Text' = Text /\ Inserted' = Inserted /\ (More' <=> More)
  BY <1>0, <1>2, <1>3 DEF Text, Inserted, More
<1>6. job'.row # 0 => Hybrid /\ More'
  BY <1>0, <1>2, <1>5 DEF IndexInv, IndexTypeOK
<1>7. JobInv'
  BY <1>0, <1>2, <1>5 DEF IndexInv, JobInv
<1> QED
  BY <1>0, <1>2, <1>4, <1>6, <1>7, JobGoesOn

\* On to the next chunk.
LEMMA NextKeeps ==
    ASSUME IndexInv, Embedding, job' = NextChunk,
           view' \in Tables, view'.docs = view.docs, Fits(view'),
           NextRow(view') = NextRow(view), \A d : Indexed(view', d) = Indexed(view, d),
           UNCHANGED <<disk, db, cache, backend, sync, cut, off>>
    PROVE  IndexInv'
<1>0. More /\ job # Absent /\ job.row # 0
  BY DEF Embedding, More
<1>1. /\ job \in Job /\ job.n \in Nat /\ job.n >= 1 /\ job.n <= Len(Chunks[job.v])
      /\ Len(Chunks[job.v]) \in Nat
      /\ job.doc \in Docs /\ job.v \in Contents /\ job.early \in BOOLEAN
  BY <1>0, JobFacts
<1>2. /\ job' \in Job /\ job'.doc = job.doc /\ job'.v = job.v /\ job'.early = job.early
      /\ job'.n = job.n + 1 /\ job'.row = 0
  <2>1. job' = [job EXCEPT !.n = job.n + 1, !.row = 0]
    BY DEF NextChunk
  <2>2. PICK m \in Nat : m = job.n + 1
    BY <1>1
  <2>3. job' = [doc |-> job.doc, v |-> job.v, n |-> m, row |-> 0, early |-> job.early]
    BY <1>1, <2>1, <2>2 DEF Job
  <2> QED
    BY <1>1, <2>2, <2>3, JobMoves
<1>3. Inserted = job.n /\ Inserted' = job.n
  BY <1>0, <1>1, <1>2 DEF Inserted
<1>4. JobInv'
  <2>1. job'.n # 0
    BY <1>1, <1>2
  <2>2. /\ view.docs[job.doc] = job.v
        /\ Indexed(view, job.doc) = {<<n, Chunks[job.v][n]>> : n \in 1 .. job.n}
        /\ NextRow(view) + Len(Chunks[job.v]) - job.n <= MaxRow + 1
    BY <1>0, <1>3 DEF IndexInv, JobInv
  <2> QED
    BY <1>1, <1>2, <1>3, <2>1, <2>2 DEF JobInv
<1>5. cache' \subseteq Texts
  BY DEF IndexInv, IndexTypeOK
<1>6. /\ \A d \in Docs : d # job.doc => Indexed(view', d) = Indexed(view, d)
      /\ job'.row # 0 => Hybrid /\ More'
      /\ db' = db /\ job'.early = job.early
  BY <1>2
<1> QED
  BY <1>0, <1>2, <1>4, <1>5, <1>6, JobGoesOn, Zenon

\* A chunk goes without a vector.
LEMMA NoEmbeddingKeeps == ASSUME IndexInv, NoEmbedding PROVE IndexInv'
<1>1. /\ Embedding /\ job' = NextChunk /\ view' = view
      /\ UNCHANGED <<disk, db, cache, backend, sync, cut, off>>
  BY DEF NoEmbedding, index
<1>2. view \in Tables /\ Fits(view)
  BY DEF IndexInv, IndexTypeOK
<1> QED
  BY <1>1, <1>2, NextKeeps

\* A chunk gets its vector.
LEMMA PutVectorKeeps == ASSUME IndexInv, PutVector PROVE IndexInv'
<1>1. /\ Embedding /\ More /\ job # Absent /\ job.row # 0 /\ job' = NextChunk
      /\ view' = [view EXCEPT !.vec[job.row] = Text]
      /\ UNCHANGED <<disk, db, cache, backend, sync, cut, off>>
  BY DEF PutVector, Embedding, More
<1>2. view \in Tables /\ Fits(view)
  BY DEF IndexInv, IndexTypeOK
<1>3. /\ job.row \in RowIds /\ Text \in Texts
      /\ [doc |-> job.doc, n |-> job.n, text |-> Text] \in Chunk
  BY <1>1, JobFacts
<1>4. view.chunks[job.row] = [doc |-> job.doc, n |-> job.n, text |-> Text]
  BY <1>1 DEF IndexInv, JobInv
<1>5. view.chunks[job.row] # Absent /\ view.chunks[job.row].text = Text
  BY <1>3, <1>4, RowAssumption
<1>6. \A y : y = [view EXCEPT !.vec[job.row] = Text] =>
         /\ y \in Tables /\ y.docs = view.docs /\ y.chunks = view.chunks
         /\ NextRow(y) = NextRow(view)
         /\ \A d : Indexed(y, d) = Indexed(view, d)
         /\ Fits(view) => Fits(y)
  BY <1>2, <1>3, <1>5, OneMoreVector
<1>7. /\ view' \in Tables /\ view'.docs = view.docs
      /\ NextRow(view') = NextRow(view)
      /\ \A d : Indexed(view', d) = Indexed(view, d)
      /\ Fits(view')
  BY <1>1, <1>2, <1>6
<1> QED
  BY <1>1, <1>7, NextKeeps

\* A job is done: all of its document is there.
LEMMA CommitKeeps == ASSUME IndexInv, Commit PROVE IndexInv'
<1>0. /\ job # Absent /\ ~More /\ db' = view /\ view' = view /\ job' = Absent
      /\ cut' = cut \ {job.doc}
      /\ UNCHANGED <<disk, cache, backend, phase, found, left, excluded, off>>
      /\ IndexTypeOK /\ WholeInv /\ SameRows /\ FollowInv /\ Fits(view) /\ JobInv
  BY DEF Commit, IndexInv, sync
<1>1. /\ job.doc \in Docs /\ job.v \in Contents /\ job.n \in Nat /\ job.n >= 1
      /\ Len(Chunks[job.v]) \in Nat
  BY <1>0, JobFacts
<1>2. AtWork = {job.doc} /\ AtWork' = {} /\ CutShort' = {}
  BY <1>0 DEF AtWork, CutShort
<1>3. job.row = 0 /\ Inserted = Len(Chunks[job.v])
  <2>1. job.row = 0 /\ job.n > Len(Chunks[job.v])
    BY <1>0, <1>1 DEF IndexTypeOK, More
  <2>2. job.n - 1 <= Len(Chunks[job.v])
    BY <1>0, <2>1 DEF JobInv, Inserted
  <2> QED
    BY <1>1, <2>1, <2>2 DEF Inserted
<1>4. Agrees(view, job.doc)
  <2>1. DOMAIN Chunks[job.v] = 1 .. Len(Chunks[job.v]) /\ job.v # Absent
    BY <1>1, IndexAssumption, LenProperties
  <2>2. Wanted(job.v) = {<<n, Chunks[job.v][n]>> : n \in 1 .. Len(Chunks[job.v])}
    BY <2>1 DEF Wanted
  <2> QED
    BY <1>0, <1>3, <2>2 DEF JobInv, Agrees
<1>5. IndexTypeOK'
  BY <1>0 DEF IndexTypeOK
<1>6. WholeInv'
  <2> SUFFICES ASSUME NEW d \in Docs, d \notin cut \ {job.doc} PROVE Agrees(view, d)
    BY <1>0, Zenon DEF WholeInv
  <2> QED
    BY <1>0, <1>2, <1>4 DEF WholeInv
<1>7. JobInv' /\ SameRows' /\ Fits(view)' /\ Fits(db)'
  BY <1>0 DEF JobInv, SameRows, Fits
<1>8. job.doc \notin off => Follows(job.doc)
  BY <1>0 DEF FollowInv, JobInv, Follows
<1>9. FollowInv'
  BY <1>0, <1>2, <1>8 DEF FollowInv, Follows, Source
<1> QED
  BY <1>5, <1>6, <1>7, <1>9 DEF IndexInv

\* A job is undone: the connection sees what is committed.
LEMMA RaiseKeeps == ASSUME IndexInv, TxRaises PROVE IndexInv'
<1>0. /\ job # Absent /\ db' = db /\ view' = db /\ job' = Absent
      /\ cut' = cut \cup CutShort /\ off' = off \cup {job.doc}
      /\ UNCHANGED <<disk, cache, backend, phase, found, left, excluded>>
      /\ IndexTypeOK /\ WholeInv /\ SameRows /\ FollowInv /\ Fits(db)
  BY DEF TxRaises, RollBack, IndexInv, sync
<1>1. job.doc \in Docs
  BY <1>0, JobFacts
<1>2. AtWork = {job.doc} /\ AtWork' = {} /\ CutShort' = {} /\ CutShort \subseteq Docs
  BY <1>0, <1>1 DEF AtWork, CutShort
<1>3. IndexTypeOK'
  BY <1>0, <1>1, <1>2 DEF IndexTypeOK
<1>4. WholeInv'
  BY <1>0 DEF WholeInv, Agrees
<1>5. JobInv' /\ SameRows' /\ Fits(view)' /\ Fits(db)'
  BY <1>0 DEF JobInv, SameRows, Fits
<1>6. \A d \in Docs : d \notin off' => view'.docs[d] = view.docs[d]
  BY <1>0, <1>2 DEF SameRows
<1>7. FollowInv'
  <2>1. Source' = Source /\ found \subseteq Docs /\ Items \subseteq Docs
    BY <1>0 DEF Source, IndexTypeOK, Docs
  <2>2. \A d \in Docs : d \notin off' /\ Follows(d) => Follows(d)'
    BY <1>0, <1>6 DEF Follows
  <2> QED
    BY <1>0, <1>2, <2>1, <2>2 DEF FollowInv
<1> QED
  BY <1>3, <1>4, <1>5, <1>7 DEF IndexInv

-----------------------------------------------------------------------------
(***************************************************************************)
(* Syncs and tools.                                                        *)
(***************************************************************************)
\* With no job at work everything is whole that was not cut off.
LEMMA IdleFacts ==
    ASSUME IndexInv, job = Absent
    PROVE  /\ AtWork = {} /\ CutShort = {}
           /\ \A d \in Docs : d \notin cut => Agrees(view, d) /\ Agrees(db, d)
           /\ \A d \in Docs : d \notin off => db.docs[d] = view.docs[d]
           /\ Fits(view) /\ Fits(db) /\ view \in Tables /\ db \in Tables
           /\ excluded \notin Items /\ Items \subseteq Docs /\ Sessions \subseteq Docs
<1>1. AtWork = {} /\ CutShort = {}
  BY DEF AtWork, CutShort
<1>2. excluded \notin Items /\ Items \subseteq Docs /\ Sessions \subseteq Docs
  BY IndexAssumption DEF IndexInv, IndexTypeOK, Docs
<1> QED
  BY <1>1, <1>2 DEF IndexInv, IndexTypeOK, WholeInv, SameRows

\* A step that leaves no job behind keeps the tables whole.
LEMMA IdleKeeps ==
    ASSUME job' = Absent, view' \in Tables, db' \in Tables, Fits(view'), Fits(db'),
           \A d \in Docs : d \notin cut' => Agrees(view', d) /\ Agrees(db', d),
           \A d \in Docs : d \notin off' => db'.docs[d] = view'.docs[d]
    PROVE  /\ JobInv' /\ WholeInv' /\ SameRows' /\ Fits(view)' /\ Fits(db)'
           /\ AtWork' = {}
<1>1. AtWork' = {}
  BY DEF AtWork
<1>2. WholeInv'
  <2> SUFFICES ASSUME NEW d \in Docs, d \notin cut' PROVE Agrees(view', d) /\ Agrees(db', d)
    BY Zenon DEF WholeInv
  <2> QED
    OBVIOUS
<1>3. JobInv' /\ SameRows'
  BY DEF JobInv, SameRows
<1>4. (Fits(view)' <=> Fits(view')) /\ (Fits(db)' <=> Fits(db'))
  BY DEF Fits
<1> QED
  BY <1>1, <1>2, <1>3, <1>4

\* Without a document nothing is in the index, as is wanted.
LEMMA OutAgrees ==
    ASSUME NEW x \in Tables, NEW D \in SUBSET Docs, NEW d \in Docs, d \in D \/ Agrees(x, d)
    PROVE  Agrees(Without(x, D), d)
<1>1. /\ Without(x, D).docs[d] = IF d \in D THEN Absent ELSE x.docs[d]
      /\ Indexed(Without(x, D), d) = IF d \in D THEN {} ELSE Indexed(x, d)
  BY OutTables
<1>2. Wanted(Absent) = {}
  BY DEF Wanted
<1> QED
  BY <1>1, <1>2 DEF Agrees

\* A process starts: it counts the files of the items.
LEMMA BootKeeps ==
    ASSUME IndexInv, NEW b \in {"hybrid", "fts5"}, NEW s \in Sessions \cup {Absent}, Boot(b, s)
    PROVE  IndexInv'
<1>0. /\ phase = "down" /\ phase' = "memory" /\ backend' = b /\ excluded' = s
      /\ found' = There(Items) /\ left' = There(Items)
      /\ UNCHANGED <<disk, db, view, cache, job, cut, off>>
  BY DEF Boot, index
<1>1. job = Absent
  BY <1>0 DEF IndexInv, FollowInv
<1>2. /\ \A d \in Docs : d \notin cut => Agrees(view, d) /\ Agrees(db, d)
      /\ \A d \in Docs : d \notin off => db.docs[d] = view.docs[d]
      /\ Fits(view) /\ Fits(db) /\ view \in Tables /\ db \in Tables
      /\ Items \subseteq Docs
  BY <1>1, IdleFacts
<1>3. JobInv' /\ WholeInv' /\ SameRows' /\ Fits(view)' /\ Fits(db)' /\ AtWork' = {}
  BY <1>0, <1>1, <1>2, IdleKeeps
<1>4. IndexTypeOK'
  BY <1>0, <1>1, <1>2 DEF IndexInv, IndexTypeOK, There
<1>5. FollowInv'
  <2>1. Source' = Items /\ s \notin Items
    BY <1>0, IndexAssumption DEF Source, Docs
  <2>2. \A d \in Items : d \in found' <=> disk[d] # Absent /\ d # s
    BY <1>0, <2>1 DEF There
  <2>3. found' \subseteq Items /\ found' = left'
    BY <1>0 DEF There
  <2> QED
    BY <1>0, <1>1, <2>1, <2>2, <2>3 DEF FollowInv
<1> QED
  BY <1>3, <1>4, <1>5 DEF IndexInv

\* A file is looked at, and indexed if its row has another content.
LEMMA VisitKeeps == ASSUME IndexInv, NEW d \in Docs, Visit(d) PROVE IndexInv'
<1>0. /\ phase \in {"memory", "session"} /\ job = Absent /\ d \in left
      /\ left' = left \ {d}
      /\ UNCHANGED <<disk, db, cache, backend, phase, found, excluded, cut, off>>
      /\ IndexTypeOK /\ FollowInv
  BY DEF Visit, Syncing, IndexInv
<1>1. /\ AtWork = {} /\ view \in Tables /\ db \in Tables
      /\ \A e \in Docs : e \notin cut => Agrees(view, e) /\ Agrees(db, e)
      /\ \A e \in Docs : e \notin off => db.docs[e] = view.docs[e]
      /\ Fits(view) /\ Fits(db) /\ Items \subseteq Docs
  BY <1>0, IdleFacts
<1>2. /\ found \subseteq Source /\ excluded \notin found /\ d \in found /\ found \subseteq Docs
      /\ \A e \in Source \ off : e \in found <=> disk[e] # Absent /\ e # excluded
      /\ \A e \in found \ (left \cup off) : Follows(e)
      /\ phase = "session" => \A e \in Items \ off : Follows(e)
  BY <1>0, <1>1 DEF IndexTypeOK, FollowInv
<1>3. Source' = Source
  BY <1>0 DEF Source
<1>4. CASE disk[d] # Absent /\ NeedsReindex(d, disk[d])
  <2>1. Begin(d, disk[d]) /\ disk[d] \in Contents
    BY <1>0, <1>4 DEF Visit, IndexTypeOK
  <2>2. PICK v \in Contents : v = disk[d]
    BY <2>1
  <2>3. /\ view' \in Tables /\ view'.docs[d] = v
        /\ \A e \in Docs : e # d => view'.docs[e] = view.docs[e]
        /\ job' \in Job /\ job' # Absent
        /\ job'.doc = d /\ job'.v = v /\ job'.row = 0
        /\ JobInv' /\ WholeInv' /\ Fits(view)' /\ Fits(db)'
    BY <1>0, <2>1, <2>2, BeginKeeps
  <2>4. AtWork' = {d}
    BY <2>3 DEF AtWork
  <2>5. IndexTypeOK'
    BY <1>0, <2>3 DEF IndexTypeOK
  <2>6. SameRows'
    BY <1>0, <1>1, <2>3, <2>4 DEF SameRows
  <2>7. \A e \in Docs : e # d /\ Follows(e) => Follows(e)'
    BY <1>0, <2>3 DEF Follows
  <2>8. FollowInv'
    <3>1. job'.doc # excluded /\ disk[job'.doc] = job'.v
      BY <1>2, <2>2, <2>3
    <3>2. \A e \in found \ (left' \cup off \cup {d}) : Follows(e)'
      BY <1>0, <1>2, <2>7
    <3>3. phase = "session" => \A e \in Items \ (off \cup {d}) : Follows(e)'
      BY <1>1, <1>2, <2>7
    <3> QED
      BY <1>0, <1>2, <1>3, <2>4, <3>1, <3>2, <3>3 DEF FollowInv
  <2> QED
    BY <2>3, <2>5, <2>6, <2>8 DEF IndexInv
<1>5. CASE ~(disk[d] # Absent /\ NeedsReindex(d, disk[d]))
  <2>1. view' = view /\ job' = job
    BY <1>5 DEF Visit
  <2>2. JobInv' /\ WholeInv' /\ SameRows' /\ Fits(view)' /\ Fits(db)' /\ AtWork' = {}
    BY <1>0, <1>1, <2>1, IdleKeeps
  <2>3. IndexTypeOK'
    BY <1>0, <2>1 DEF IndexTypeOK
  <2>4. d \notin off => Follows(d)
    <3>1. d \notin off => disk[d] # Absent /\ d # excluded
      BY <1>2
    <3> QED
      BY <1>5, <3>1 DEF NeedsReindex, Follows
  <2>5. \A e \in Docs : Follows(e) => Follows(e)'
    BY <1>0, <2>1 DEF Follows
  <2>6. \A e \in found \ (left' \cup off) : Follows(e)'
    BY <1>0, <1>2, <2>4, <2>5
  <2>7. phase = "session" => \A e \in Items \ off : Follows(e)'
    BY <1>1, <1>2, <2>5
  <2>8. FollowInv'
    BY <1>0, <1>2, <1>3, <2>1, <2>2, <2>6, <2>7 DEF FollowInv
  <2> QED
    BY <2>2, <2>3, <2>8 DEF IndexInv
<1> QED
  BY <1>4, <1>5

\* At the end of a sync the rows that are not stale are those of the files.
LEMMA SyncedFacts ==
    ASSUME IndexInv, Syncing, left = {}
    PROVE  /\ phase \in {"memory", "session"} /\ job = Absent
           /\ Source \subseteq Docs /\ Stale \subseteq Source
           /\ \A d \in Source \ off :
                 (IF d \in Stale THEN Absent ELSE view.docs[d])
                    = IF d = excluded THEN Absent ELSE disk[d]
           /\ phase = "session" => \A d \in Items \ off : Follows(d)
<1>1. phase \in {"memory", "session"} /\ job = Absent
  BY DEF Syncing
<1>2. AtWork = {} /\ Items \subseteq Docs /\ Sessions \subseteq Docs
  BY <1>1, IdleFacts
<1>3. Source \subseteq Docs /\ Stale \subseteq Source
  BY <1>2 DEF Source, Stale
<1>4. /\ \A d \in Source \ off : d \in found <=> disk[d] # Absent /\ d # excluded
      /\ \A d \in found \ off : Follows(d)
      /\ phase = "session" => \A d \in Items \ off : Follows(d)
  BY <1>1, <1>2 DEF IndexInv, FollowInv
<1>5. ASSUME NEW d \in Source \ off
      PROVE  (IF d \in Stale THEN Absent ELSE view.docs[d])
                = IF d = excluded THEN Absent ELSE disk[d]
  <2>1. CASE d \in found
    BY <1>4, <2>1 DEF Stale, Follows
  <2>2. CASE d \notin found
    <3>1. (IF d = excluded THEN Absent ELSE disk[d]) = Absent
      BY <1>4, <2>2
    <3>2. (IF d \in Stale THEN Absent ELSE view.docs[d]) = Absent
      BY <2>2 DEF Stale
    <3> QED
      BY <3>1, <3>2
  <2> QED
    BY <2>1, <2>2
<1> QED
  BY <1>1, <1>3, <1>4, <1>5

\* A sync ends: what is stale goes.
LEMMA EndSyncKeeps == ASSUME IndexInv, EndSync PROVE IndexInv'
<1>0. /\ Syncing /\ left = {} /\ view' = Without(view, Stale)
      /\ db' = IF Stale = {} THEN db ELSE view'
      /\ cut' = cut \ Stale
      /\ UNCHANGED <<disk, cache, backend, excluded, job, off>>
      /\ IndexTypeOK /\ FollowInv
  BY DEF EndSync, IndexInv
<1>1. /\ phase \in {"memory", "session"} /\ job = Absent
      /\ Source \subseteq Docs /\ Stale \subseteq Source
      /\ \A d \in Source \ off :
            (IF d \in Stale THEN Absent ELSE view.docs[d])
               = IF d = excluded THEN Absent ELSE disk[d]
      /\ phase = "session" => \A d \in Items \ off : Follows(d)
  BY <1>0, SyncedFacts
<1>2. /\ \A d \in Docs : d \notin cut => Agrees(view, d) /\ Agrees(db, d)
      /\ \A d \in Docs : d \notin off => db.docs[d] = view.docs[d]
      /\ Fits(view) /\ Fits(db) /\ view \in Tables /\ db \in Tables
      /\ excluded \notin Items /\ Items \subseteq Docs /\ Sessions \subseteq Docs
  BY <1>1, IdleFacts
<1>3. Stale \in SUBSET Docs
  BY <1>1
<1>4. /\ view' \in Tables /\ Fits(view')
      /\ \A d \in Docs : view'.docs[d] = IF d \in Stale THEN Absent ELSE view.docs[d]
      /\ \A d \in Docs : d \notin cut' => Agrees(view', d)
  <2>1. \A x \in Tables : \A D \in SUBSET Docs :
           /\ Without(x, D) \in Tables
           /\ Fits(x) => Fits(Without(x, D))
           /\ \A d \in Docs : Without(x, D).docs[d] = IF d \in D THEN Absent ELSE x.docs[d]
           /\ \A d \in Docs : d \in D \/ Agrees(x, d) => Agrees(Without(x, D), d)
    BY OutTables, OutAgrees
  <2> QED
    BY <1>0, <1>2, <1>3, <2>1
<1>5. /\ db' \in Tables /\ Fits(db')
      /\ \A d \in Docs : d \notin cut' => Agrees(db', d)
      /\ \A d \in Docs : d \notin off' => db'.docs[d] = view'.docs[d]
  <2>1. CASE Stale = {}
    BY <1>0, <1>2, <1>4, <2>1
  <2>2. CASE Stale # {}
    BY <1>0, <1>4, <2>2
  <2> QED
    BY <2>1, <2>2
<1>6. JobInv' /\ WholeInv' /\ SameRows' /\ Fits(view)' /\ Fits(db)' /\ AtWork' = {}
  BY <1>0, <1>1, <1>4, <1>5, IdleKeeps
<1>7. \A d \in Source \ off : Follows(d)'
  BY <1>0, <1>1, <1>4 DEF Follows
<1>8. CASE phase = "memory"
  <2>1. phase' = "session" /\ found' = Current /\ left' = Current
    BY <1>0, <1>8 DEF EndSync, NextSync
  <2>2. Current = {d \in Sessions : disk[d] # Absent /\ d # excluded}
    BY DEF Current, There
  <2>3. Source = Items /\ Source' = Sessions
    BY <1>8, <2>1 DEF Source
  <2>4. IndexTypeOK'
    BY <1>0, <1>1, <1>2, <1>4, <1>5, <2>1, <2>2 DEF IndexTypeOK
  <2>5. FollowInv'
    BY <1>0, <1>1, <1>6, <1>7, <2>1, <2>2, <2>3 DEF FollowInv
  <2> QED
    BY <1>6, <2>4, <2>5 DEF IndexInv
<1>9. CASE phase = "session"
  <2>1. phase' = "open" /\ found' = {} /\ left' = {}
    BY <1>0, <1>9 DEF EndSync, NextSync
  <2>2. Source = Sessions
    BY <1>9 DEF Source
  <2>3. \A d \in Items \ off : Follows(d)'
    <3>1. \A d \in Items : d \notin Stale
      BY <1>1, <2>2, IndexAssumption
    <3> QED
      BY <1>0, <1>1, <1>2, <1>4, <1>9, <3>1 DEF Follows
  <2>4. IndexTypeOK'
    BY <1>0, <1>1, <1>4, <1>5, <2>1 DEF IndexTypeOK
  <2>5. FollowInv'
    BY <1>0, <1>1, <1>6, <1>7, <2>1, <2>2, <2>3 DEF FollowInv, Docs
  <2> QED
    BY <1>6, <2>4, <2>5 DEF IndexInv
<1> QED
  BY <1>1, <1>8, <1>9

\* Without its chunks a document may be left cut, and the others are as they were.
LEMMA CutAgrees ==
    ASSUME NEW x \in Tables, NEW D \in SUBSET Docs, NEW d \in Docs, d \notin D, Agrees(x, d)
    PROVE  Agrees(WithoutChunks(x, D), d)
BY CutTables, CutIndexed DEF Agrees

\* The removal of what is stale fails: of memory items that is the end of the
\* process, of sessions what is left stays for the next one.
LEMMA EndSyncFailsKeeps ==
    ASSUME IndexInv, NEW D \in SUBSET Stale, NEW e \in Stale, EndSyncFails(D, e)
    PROVE  IndexInv'
<1>0. /\ Syncing /\ left = {} /\ UNCHANGED <<disk, db, cache, backend, job>>
      /\ IndexTypeOK /\ FollowInv
  BY DEF EndSyncFails, IndexInv
<1>1. /\ phase \in {"memory", "session"} /\ job = Absent
      /\ Source \subseteq Docs /\ Stale \subseteq Source
      /\ \A d \in Source \ off :
            (IF d \in Stale THEN Absent ELSE view.docs[d])
               = IF d = excluded THEN Absent ELSE disk[d]
      /\ phase = "session" => \A d \in Items \ off : Follows(d)
  BY <1>0, SyncedFacts
<1>2. /\ \A d \in Docs : d \notin cut => Agrees(view, d) /\ Agrees(db, d)
      /\ \A d \in Docs : d \notin off => db.docs[d] = view.docs[d]
      /\ Fits(view) /\ Fits(db) /\ view \in Tables /\ db \in Tables
      /\ excluded \notin Items /\ Items \subseteq Docs /\ Sessions \subseteq Docs
  BY <1>1, IdleFacts
<1>3. CASE phase = "memory"
  <2>1. /\ view' = db /\ cut' = cut /\ phase' = "down" /\ found' = {} /\ left' = {}
        /\ excluded' = Absent /\ off' = {}
    BY <1>3 DEF EndSyncFails, Down
  <2>2. JobInv' /\ WholeInv' /\ SameRows' /\ Fits(view)' /\ Fits(db)' /\ AtWork' = {}
    BY <1>0, <1>1, <1>2, <2>1, IdleKeeps
  <2>3. IndexTypeOK'
    BY <1>0, <1>1, <2>1 DEF IndexTypeOK
  <2>4. FollowInv'
    BY <1>0, <1>1, <2>1 DEF FollowInv
  <2> QED
    BY <2>2, <2>3, <2>4 DEF IndexInv
<1>4. CASE phase = "session"
  <2>1. /\ view' = WithoutChunks(Without(view, D), {e})
        /\ phase' = "open" /\ found' = {} /\ left' = {}
        /\ cut' = cut \cup {e} /\ off' = off \cup Stale /\ excluded' = excluded
    BY <1>4 DEF EndSyncFails
  <2>2. D \in SUBSET Docs /\ e \in Docs /\ {e} \in SUBSET Docs /\ Stale \subseteq Docs
    BY <1>1
  <2> DEFINE w == Without(view, D)
  <2>3. /\ w \in Tables /\ Fits(w)
        /\ \A d \in Docs : w.docs[d] = IF d \in D THEN Absent ELSE view.docs[d]
        /\ \A d \in Docs : d \notin cut => Agrees(w, d)
    BY <1>2, <2>2, OutTables, OutAgrees
  <2>w. view' = WithoutChunks(w, {e})
    BY <2>1
  <2> HIDE DEF w
  <2>4. /\ view' \in Tables /\ Fits(view') /\ view'.docs = w.docs
        /\ \A d \in Docs : d # e /\ Agrees(w, d) => Agrees(view', d)
    BY <2>2, <2>3, <2>w, CutTables, CutAgrees
  <2>5. \A d \in Docs : d \notin cut' => Agrees(view', d) /\ Agrees(db', d)
    BY <1>0, <1>2, <2>1, <2>3, <2>4
  <2>6. \A d \in Docs : d \notin off' => d \notin D /\ view'.docs[d] = view.docs[d]
    BY <2>1, <2>3, <2>4
  <2>7. \A d \in Docs : d \notin off' => db'.docs[d] = view'.docs[d]
    BY <1>0, <1>2, <2>1, <2>6
  <2>8. JobInv' /\ WholeInv' /\ SameRows' /\ Fits(view)' /\ Fits(db)' /\ AtWork' = {}
    BY <1>0, <1>1, <1>2, <2>4, <2>5, <2>7, IdleKeeps
  <2>9. IndexTypeOK'
    BY <1>0, <1>1, <2>1, <2>2, <2>4 DEF IndexTypeOK
  <2>10. \A d \in Docs : d \notin off' => Follows(d)'
    <3> SUFFICES ASSUME NEW d \in Docs, d \notin off' PROVE Follows(d)'
      OBVIOUS
    <3>1. d \notin off /\ d \notin Stale /\ view'.docs[d] = view.docs[d]
      BY <2>1, <2>6
    <3>2. CASE d \in Items
      <4>1. Follows(d)
        BY <1>1, <1>4, <3>1, <3>2
      <4> QED
        BY <1>0, <2>1, <3>1, <4>1 DEF Follows
    <3>3. CASE d \in Sessions
      <4>1. d \in Source \ off
        BY <1>4, <3>1, <3>3 DEF Source
      <4>2. view.docs[d] = IF d = excluded THEN Absent ELSE disk[d]
        BY <1>1, <3>1, <4>1
      <4> QED
        BY <1>0, <2>1, <3>1, <4>2 DEF Follows
    <3> QED
      BY <3>2, <3>3 DEF Docs
  <2>11. FollowInv'
    BY <1>0, <1>1, <2>1, <2>8, <2>10 DEF FollowInv
  <2> QED
    BY <2>8, <2>9, <2>11 DEF IndexInv
<1> QED
  BY <1>1, <1>3, <1>4

\* In an open process without a job all rows but those it lost track of follow.
LEMMA OpenFacts ==
    ASSUME IndexInv, Open
    PROVE  /\ phase = "open" /\ job = Absent /\ left = {}
           /\ \A d \in Docs : d \notin off => Follows(d)
<1>1. phase = "open" /\ job = Absent
  BY DEF Open
<1>2. AtWork = {}
  BY <1>1, IdleFacts
<1>3. left = {}
  BY <1>1 DEF IndexInv, IndexTypeOK
<1> QED
  BY <1>1, <1>2, <1>3 DEF IndexInv, FollowInv

\* A tool writes an item.
LEMMA SaveKeeps ==
    ASSUME IndexInv, NEW d \in Items, NEW v \in Contents, Save(d, v) PROVE IndexInv'
<1>0. /\ Open /\ disk' = [disk EXCEPT ![d] = v] /\ Begin(d, v) /\ off' = off \ {d}
      /\ UNCHANGED <<db, cache, backend, phase, found, left, excluded, cut>>
      /\ IndexTypeOK
  BY DEF Save, IndexInv, sync
<1>1. /\ phase = "open" /\ job = Absent /\ left = {}
      /\ \A e \in Docs : e \notin off => Follows(e)
  BY <1>0, OpenFacts
<1>2. /\ \A e \in Docs : e \notin off => db.docs[e] = view.docs[e]
      /\ excluded \notin Items /\ d \in Docs
  BY <1>1, IdleFacts
<1>3. /\ view' \in Tables /\ view'.docs[d] = v
      /\ \A e \in Docs : e # d => view'.docs[e] = view.docs[e]
      /\ job' \in Job /\ job' # Absent
      /\ job'.doc = d /\ job'.v = v /\ job'.row = 0
      /\ JobInv' /\ WholeInv' /\ Fits(view)' /\ Fits(db)'
  BY <1>0, <1>1, <1>2, BeginKeeps
<1>4. AtWork' = {d}
  BY <1>3 DEF AtWork
<1>5. disk' \in [Docs -> Contents \cup {Absent}] /\ disk'[d] = v
      /\ \A e \in Docs : e # d => disk'[e] = disk[e]
  BY <1>0, <1>2 DEF IndexTypeOK
<1>6. IndexTypeOK'
  BY <1>0, <1>1, <1>3, <1>5 DEF IndexTypeOK
<1>7. SameRows'
  BY <1>0, <1>2, <1>3, <1>4 DEF SameRows
<1>8. \A e \in Docs : e \notin off' \cup {d} => Follows(e)'
  BY <1>0, <1>1, <1>3, <1>5 DEF Follows
<1>9. FollowInv'
  BY <1>0, <1>1, <1>2, <1>3, <1>4, <1>5, <1>8 DEF FollowInv
<1> QED
  BY <1>3, <1>6, <1>7, <1>9 DEF IndexInv

\* A tool removes one, and its row with it.
LEMMA DiscardKeeps == ASSUME IndexInv, NEW d \in Items, Discard(d) PROVE IndexInv'
<1>0. /\ Open /\ disk' = [disk EXCEPT ![d] = Absent] /\ view' = Without(view, {d}) /\ db' = view'
      /\ cut' = cut \ {d} /\ off' = off \ {d}
      /\ UNCHANGED <<cache, backend, phase, found, left, excluded, job>>
      /\ IndexTypeOK
  BY DEF Discard, IndexInv, sync
<1>1. /\ phase = "open" /\ job = Absent /\ left = {}
      /\ \A e \in Docs : e \notin off => Follows(e)
  BY <1>0, OpenFacts
<1>2. /\ \A e \in Docs : e \notin cut => Agrees(view, e)
      /\ Fits(view) /\ view \in Tables /\ d \in Docs /\ {d} \in SUBSET Docs
  BY <1>1, IdleFacts
<1>3. /\ view' \in Tables /\ Fits(view')
      /\ \A e \in Docs : view'.docs[e] = IF e \in {d} THEN Absent ELSE view.docs[e]
      /\ \A e \in Docs : e \in {d} \/ Agrees(view, e) => Agrees(view', e)
  BY <1>0, <1>2, OutTables, OutAgrees
<1>4. \A e \in Docs : e \notin cut' => Agrees(view', e) /\ Agrees(db', e)
  BY <1>0, <1>2, <1>3
<1>5. JobInv' /\ WholeInv' /\ SameRows' /\ Fits(view)' /\ Fits(db)' /\ AtWork' = {}
  BY <1>0, <1>1, <1>3, <1>4, IdleKeeps
<1>6. disk' \in [Docs -> Contents \cup {Absent}] /\ disk'[d] = Absent
      /\ \A e \in Docs : e # d => disk'[e] = disk[e]
  BY <1>0, <1>2 DEF IndexTypeOK
<1>7. IndexTypeOK'
  BY <1>0, <1>1, <1>3, <1>6 DEF IndexTypeOK
<1>8. \A e \in Docs : e \notin off' => Follows(e)'
  BY <1>0, <1>1, <1>3, <1>6 DEF Follows
<1>9. FollowInv'
  BY <1>0, <1>1, <1>5, <1>8 DEF FollowInv
<1> QED
  BY <1>5, <1>7, <1>9 DEF IndexInv

\* The removal fails: the row is left without its chunks.
LEMMA DiscardFailsKeeps == ASSUME IndexInv, NEW d \in Items, DiscardFails(d) PROVE IndexInv'
<1>0. /\ Open /\ disk' = [disk EXCEPT ![d] = Absent] /\ view' = WithoutChunks(view, {d})
      /\ cut' = cut \cup {d} /\ off' = off \cup {d}
      /\ UNCHANGED <<db, cache, backend, phase, found, left, excluded, job>>
      /\ IndexTypeOK
  BY DEF DiscardFails, IndexInv, sync
<1>1. /\ phase = "open" /\ job = Absent /\ left = {}
      /\ \A e \in Docs : e \notin off => Follows(e)
  BY <1>0, OpenFacts
<1>2. /\ \A e \in Docs : e \notin cut => Agrees(view, e) /\ Agrees(db, e)
      /\ \A e \in Docs : e \notin off => db.docs[e] = view.docs[e]
      /\ Fits(view) /\ Fits(db) /\ view \in Tables /\ db \in Tables
      /\ d \in Docs /\ {d} \in SUBSET Docs
  BY <1>1, IdleFacts
<1>3. /\ view' \in Tables /\ Fits(view') /\ view'.docs = view.docs
      /\ \A e \in Docs : e \notin {d} /\ Agrees(view, e) => Agrees(view', e)
  BY <1>0, <1>2, CutTables, CutAgrees
<1>4. \A e \in Docs : e \notin cut' => Agrees(view', e) /\ Agrees(db', e)
  BY <1>0, <1>2, <1>3
<1>5. \A e \in Docs : e \notin off' => db'.docs[e] = view'.docs[e]
  BY <1>0, <1>2, <1>3
<1>6. JobInv' /\ WholeInv' /\ SameRows' /\ Fits(view)' /\ Fits(db)' /\ AtWork' = {}
  BY <1>0, <1>1, <1>2, <1>3, <1>4, <1>5, IdleKeeps
<1>7. /\ disk' \in [Docs -> Contents \cup {Absent}]
      /\ \A e \in Docs : e # d => disk'[e] = disk[e]
  BY <1>0, <1>2 DEF IndexTypeOK
<1>8. IndexTypeOK'
  BY <1>0, <1>1, <1>2, <1>3, <1>7 DEF IndexTypeOK
<1>9. \A e \in Docs : e \notin off' => Follows(e)'
  BY <1>0, <1>1, <1>3, <1>7 DEF Follows
<1>10. FollowInv'
  BY <1>0, <1>1, <1>6, <1>9 DEF FollowInv
<1> QED
  BY <1>6, <1>8, <1>10 DEF IndexInv

\* A query commits what the connection sees.
LEMMA SearchKeeps == ASSUME IndexInv, Search PROVE IndexInv'
<1>0. /\ Open /\ db' = view /\ view' = view
      /\ UNCHANGED <<disk, cache, backend, phase, found, left, excluded, job, cut, off>>
      /\ IndexTypeOK /\ FollowInv
  BY DEF Search, IndexInv, sync
<1>1. /\ phase = "open" /\ job = Absent /\ left = {}
      /\ \A e \in Docs : e \notin off => Follows(e)
  BY <1>0, OpenFacts
<1>2. /\ \A e \in Docs : e \notin cut => Agrees(view, e)
      /\ Fits(view) /\ view \in Tables
  BY <1>1, IdleFacts
<1>3. JobInv' /\ WholeInv' /\ SameRows' /\ Fits(view)' /\ Fits(db)' /\ AtWork' = {}
  BY <1>0, <1>1, <1>2, IdleKeeps
<1>4. IndexTypeOK'
  BY <1>0, <1>1 DEF IndexTypeOK
<1>5. FollowInv'
  BY <1>0, <1>1, <1>3 DEF FollowInv, Follows
<1> QED
  BY <1>3, <1>4, <1>5 DEF IndexInv

\* A file changes: its row need not follow until the next process.
LEMMA ChangeKeeps ==
    ASSUME IndexInv, NEW d \in Docs, NEW v \in Contents \cup {Absent}, Change(d, v)
    PROVE  IndexInv'
<1>0. /\ disk' = [disk EXCEPT ![d] = v]
      /\ off' = IF phase = "down" THEN {} ELSE off \cup {d}
      /\ UNCHANGED <<db, view, cache, backend, phase, found, left, excluded, job, cut>>
      /\ IndexTypeOK /\ FollowInv /\ JobInv /\ WholeInv /\ SameRows /\ Fits(view) /\ Fits(db)
  BY DEF Change, IndexInv, sync, index
<1>1. /\ disk' \in [Docs -> Contents \cup {Absent}]
      /\ \A e \in Docs : e # d => disk'[e] = disk[e]
  BY <1>0 DEF IndexTypeOK
<1>2. IndexTypeOK'
  BY <1>0, <1>1 DEF IndexTypeOK, More, Hybrid
<1>3. JobInv' /\ Fits(view)' /\ Fits(db)'
  BY <1>0 DEF JobInv, Inserted, Text, Fits
<1>4. AtWork' = AtWork /\ CutShort' = CutShort
  BY <1>0 DEF AtWork, CutShort
<1>5. WholeInv'
  BY <1>0, <1>4 DEF WholeInv
<1>6. off \subseteq off'
  BY <1>0 DEF FollowInv
<1>7. SameRows'
  BY <1>0, <1>4, <1>6 DEF SameRows
<1>8. FollowInv'
  <2>1. CASE phase = "down"
    BY <1>0, <2>1 DEF FollowInv
  <2>2. CASE phase # "down"
    <3>1. off' = off \cup {d}
      BY <1>0, <2>2
    <3>2. Source' = Source /\ Source \subseteq Docs /\ Items \subseteq Docs
      BY <1>0 DEF Source, Docs
    <3>3. found \subseteq Docs /\ (job # Absent => job.doc \in Docs)
      BY <1>0, JobFacts DEF IndexTypeOK
    <3>4. \A e \in Docs : e \notin off' /\ Follows(e) => Follows(e)'
      BY <1>0, <1>1, <3>1 DEF Follows
    <3>5. job' # Absent =>
             job'.doc # excluded' /\ (job'.doc \notin off' => disk'[job'.doc] = job'.v)
      BY <1>0, <1>1, <3>1, <3>3 DEF FollowInv
    <3> QED
      BY <1>0, <1>1, <1>4, <2>2, <3>1, <3>2, <3>3, <3>4, <3>5 DEF FollowInv
  <2> QED
    BY <2>1, <2>2
<1> QED
  BY <1>2, <1>3, <1>5, <1>7, <1>8 DEF IndexInv

\* The process ends: what was committed is left.
LEMMA StopKeeps == ASSUME IndexInv, Stop PROVE IndexInv'
<1>0. /\ phase' = "down" /\ found' = {} /\ left' = {} /\ excluded' = Absent /\ off' = {}
      /\ view' = db /\ db' = db /\ job' = Absent /\ cut' = cut \cup CutShort
      /\ UNCHANGED <<disk, cache, backend>>
      /\ IndexTypeOK /\ WholeInv /\ Fits(db)
  BY DEF Stop, Down, IndexInv
<1>1. CutShort \subseteq Docs
  <2>1. job # Absent => job.doc \in Docs
    BY JobFacts
  <2> QED
    BY <2>1 DEF CutShort
<1>2. \A e \in Docs : e \notin cut' => Agrees(view', e) /\ Agrees(db', e)
  BY <1>0 DEF WholeInv
<1>3. db \in Tables
  BY <1>0 DEF IndexTypeOK
<1>4. JobInv' /\ WholeInv' /\ SameRows' /\ Fits(view)' /\ Fits(db)' /\ AtWork' = {}
  BY <1>0, <1>2, <1>3, IdleKeeps
<1>5. IndexTypeOK'
  BY <1>0, <1>1 DEF IndexTypeOK
<1>6. FollowInv'
  BY <1>0 DEF FollowInv
<1> QED
  BY <1>4, <1>5, <1>6 DEF IndexInv

\* A step that changes nothing.
LEMMA IndexStays == ASSUME IndexInv, UNCHANGED indexVars PROVE IndexInv'
<1>0. /\ UNCHANGED <<disk, db, view, cache, backend, phase, found, left, excluded, job, cut, off>>
      /\ IndexTypeOK /\ FollowInv /\ JobInv /\ WholeInv /\ SameRows /\ Fits(view) /\ Fits(db)
  BY DEF indexVars, index, sync, IndexInv
<1>1. AtWork' = AtWork /\ CutShort' = CutShort
  BY <1>0 DEF AtWork, CutShort
<1>2. IndexTypeOK' /\ JobInv' /\ Fits(view)' /\ Fits(db)'
  BY <1>0 DEF IndexTypeOK, More, Hybrid, JobInv, Inserted, Text, Fits
<1>3. WholeInv' /\ SameRows'
  BY <1>0, <1>1 DEF WholeInv, SameRows
<1>4. FollowInv'
  BY <1>0, <1>1 DEF FollowInv, Follows, Source
<1> QED
  BY <1>2, <1>3, <1>4 DEF IndexInv

\* Every step keeps the invariant.
LEMMA IndexStep == IndexInv /\ [IndexNext]_indexVars => IndexInv'
<1> SUFFICES ASSUME IndexInv, [IndexNext]_indexVars PROVE IndexInv'
  OBVIOUS
<1>1. ASSUME NEW b \in {"hybrid", "fts5"}, NEW s \in Sessions \cup {Absent}, Boot(b, s)
      PROVE  IndexInv'
  BY <1>1, BootKeeps
<1>2. ASSUME NEW d \in Docs, Visit(d) PROVE IndexInv'
  BY <1>2, VisitKeeps
<1>3. CASE EndSync
  BY <1>3, EndSyncKeeps
<1>4. ASSUME NEW D \in SUBSET Stale, NEW e \in Stale, EndSyncFails(D, e) PROVE IndexInv'
  BY <1>4, EndSyncFailsKeeps
<1>5. CASE InsertChunk
  BY <1>5, InsertKeeps
<1>6. CASE Embed
  BY <1>6, EmbedKeeps
<1>7. CASE NoEmbedding
  BY <1>7, NoEmbeddingKeeps
<1>8. CASE PutVector
  BY <1>8, PutVectorKeeps
<1>9. CASE Commit
  BY <1>9, CommitKeeps
<1>10. CASE TxRaises
  BY <1>10, RaiseKeeps
<1>11. ASSUME NEW d \in Items, NEW v \in Contents, Save(d, v) PROVE IndexInv'
  BY <1>11, SaveKeeps
<1>12. ASSUME NEW d \in Items, Discard(d) PROVE IndexInv'
  BY <1>12, DiscardKeeps
<1>13. ASSUME NEW d \in Items, DiscardFails(d) PROVE IndexInv'
  BY <1>13, DiscardFailsKeeps
<1>14. CASE Search
  BY <1>14, SearchKeeps
<1>15. ASSUME NEW d \in Docs, NEW v \in Contents \cup {Absent}, Change(d, v) PROVE IndexInv'
  BY <1>15, ChangeKeeps
<1>16. CASE Stop
  BY <1>16, StopKeeps
<1>17. CASE UNCHANGED indexVars
  BY <1>17, IndexStays
<1> QED
  BY <1>1, <1>2, <1>3, <1>4, <1>5, <1>6, <1>7, <1>8, <1>9, <1>10, <1>11, <1>12,
     <1>13, <1>14, <1>15, <1>16, <1>17 DEF IndexNext

\* The invariant.
LEMMA IndexInvariant == IndexSpec => []IndexInv
<1>1. IndexInit => IndexInv
  BY ColdStart
<1>2. IndexInv /\ [IndexNext]_indexVars => IndexInv'
  BY IndexStep
<1> QED
  BY <1>1, <1>2, PTL DEF IndexSpec

\* The tables, the sync and the job at work keep to their types.
THEOREM IndexTypeCorrect == IndexSpec => []IndexTypeOK
<1>1. IndexInv => IndexTypeOK
  BY DEF IndexInv
<1> QED
  BY <1>1, IndexInvariant, PTL

\* A document that was not cut off is in the index with all its chunks or with
\* none, for the content its row has the hash of, in what the connection sees
\* and in what a rollback would bring back (IndexTransaction).
THEOREM IndexWhole == IndexSpec => []Whole
<1>1. IndexInv => Whole
  <2> SUFFICES ASSUME IndexInv, NEW d \in Docs, d \notin cut, d \notin AtWork
               PROVE  /\ Indexed(view, d) = Wanted(view.docs[d])
                      /\ Indexed(db, d) = Wanted(db.docs[d])
    BY Zenon DEF Whole
  <2>1. d \notin CutShort
    BY DEF AtWork, CutShort
  <2>2. Agrees(view, d) /\ Agrees(db, d)
    BY <2>1 DEF IndexInv, WholeInv
  <2> QED
    BY <2>2 DEF Agrees
<1> QED
  BY <1>1, IndexInvariant, PTL

\* A vector is that of the text of its chunk, for any contents and any number
\* of rowids used again, but where a process without vectors deleted the chunk.
THEOREM IndexVectors == IndexSpec => []VectorsFit
<1>1. IndexInv => VectorsFit
  BY DEF IndexInv, Fits, VectorsFit
<1> QED
  BY <1>1, IndexInvariant, PTL

\* An open process has the rows of the files, but of those that changed since it
\* started or that it failed on, and none of its own session.
THEOREM IndexFollowsDisk == IndexSpec => []RowsFollowDisk
<1>1. IndexInv => RowsFollowDisk
  <2> SUFFICES ASSUME IndexInv, Open, NEW d \in Docs, d \notin off
               PROVE  view.docs[d] = IF d = excluded THEN Absent ELSE disk[d]
    BY Zenon DEF RowsFollowDisk
  <2> QED
    BY OpenFacts DEF Follows
<1> QED
  BY <1>1, IndexInvariant, PTL

=============================================================================
