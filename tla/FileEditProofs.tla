--------------------------- MODULE FileEditProofs ---------------------------
(***************************************************************************)
(* Theorems about FileEdit, for every set of files and every bound.        *)
(***************************************************************************)
EXTENDS FileEdit, SequenceTheorems, TLAPS

\* What is on disk, in the tracker and in memory stems from changes that were
\* made: the next change has a number, and an mtime, that nobody knows.
Numbered ==
    /\ \A f \in Files :
         /\ mtime[f] <= changes /\ mtimes[f] <= changes
         /\ text[f] \subseteq 1..changes
         /\ foreign[f] \subseteq 1..changes
    /\ \A i \in DOMAIN pending : pending[i].keep \subseteq 1..changes
    /\ pc = "reading" => reading.mtime <= changes

\* The changes by others that file f, or a text about to go there, holds came
\* while the running tool was at work on f.
OnlyLate(f, S) == foreign[f] \cap S \subseteq late[f]

\* The agent was shown the rest of it.
Known(f, S) == S \ late[f] \subseteq shown[f]

\* What the tracker vouches for: it would let a tool write f, or patch it.
Vouched ==
    \A f \in Files :
        IsRead(f) /\ ~IsStale(f) =>
            /\ OnlyLate(f, text[f])
            /\ f \notin partial => Known(f, text[f])

\* What holds of the operation a tool has checked and is about to read, of the
\* computed ones, and of the one whose mtime it is about to note.
JobKnows ==
    /\ pc = "read" =>
         /\ todo[1].kind = "update"
         /\ OnlyLate(todo[1].file, text[todo[1].file])
         /\ Known(todo[1].file, text[todo[1].file])
    /\ \A i \in DOMAIN pending :
         LET p == pending[i] IN
         /\ p.kind # "update" => p.keep = {}
         /\ OnlyLate(p.file, p.keep) /\ Known(p.file, p.keep)
         /\ Unguarded(p) \/ OnlyLate(p.file, text[p.file])
         /\ p.kind \in {"update", "delete"} => Known(p.file, text[p.file])
    /\ pc = "record" =>
         /\ OnlyLate(pending[1].file, text[pending[1].file])
         /\ Known(pending[1].file, text[pending[1].file])

IInv == TypeOK /\ Numbered /\ Vouched /\ JobKnows

-----------------------------------------------------------------------------
\* TypeOK, by what a step may touch.
DiskType ==
    /\ mtime \in [Files -> Changes \cup {Absent}]
    /\ text \in [Files -> SUBSET Changes]
    /\ changes \in 0..MaxChanges
    /\ \A f \in Files : text[f] = {} <=> mtime[f] = Absent

TrackerType ==
    /\ mtimes \in [Files -> Changes \cup {Absent, Unread}]
    /\ partial \subseteq Files

JobType ==
    /\ pc \in PCs
    /\ todo \in Seq(Ops) /\ pending \in Seq(PendingOps)
    /\ pc \in {"idle", "reading"} => pending = <<>>
    /\ pc \in {"check", "read"} <=> todo # <<>>
    /\ pc \in {"write", "record"} => pending # <<>>

ReadingType ==
    IF pc = "reading" THEN reading \in [file : Files, mtime : Changes]
                      ELSE reading = NoRead

GhostType ==
    /\ shown \in [Files -> SUBSET Changes]
    /\ foreign \in [Files -> SUBSET Changes]
    /\ late \in [Files -> SUBSET Changes]

\* The type invariant, split by what a step touches.
LEMMA TypeParts ==
  TypeOK <=> DiskType /\ TrackerType /\ JobType /\ ReadingType /\ GhostType
BY DEF TypeOK, DiskType, TrackerType, JobType, ReadingType, GhostType, Exists

\* The same of the next state, as steps need it.
LEMMA TypePartsNext ==
  DiskType' /\ TrackerType' /\ JobType' /\ ReadingType' /\ GhostType'
    => TypeOK'
BY DEF TypeOK, DiskType, TrackerType, JobType, ReadingType, GhostType, Exists

\* A job that Start takes is a non-empty sequence of operations.
LEMMA JobsAreSequences ==
  ASSUME NEW ops \in Patches \cup Writes
  PROVE  ops \in Seq(Ops) /\ ops # <<>>
<1>1. PICK n \in Nat : n > 0 /\ ops \in [1..n -> Ops]
  <2>1. CASE ops \in Writes
    BY <2>1 DEF Writes, Ops
  <2>2. CASE ops \in Patches
    <3>1. PICK n \in 1..MaxOps : ops \in [1..n -> PatchOps]
      BY <2>2 DEF Patches
    <3>2. \A i \in 1..n : ops[i] \in Ops
      BY <3>1 DEF Ops
    <3>3. n \in Nat /\ n > 0
      BY FileAssumption
    <3> QED
      BY <3>1, <3>2, <3>3
  <2> QED
    BY <2>1, <2>2
<1>2. ops \in Seq(Ops) /\ Len(ops) = n
  BY <1>1
<1> QED
  BY <1>1, <1>2

\* The initial state satisfies the invariant.
LEMMA InvInit == Init => IInv
<1> SUFFICES ASSUME Init PROVE IInv
  OBVIOUS
<1>1. TypeOK
  <2>1. DiskType /\ TrackerType
    BY FileAssumption DEF Init, DiskType, TrackerType, Absent, Unread
  <2>2. JobType /\ ReadingType /\ GhostType
    BY DEF Init, JobType, ReadingType, GhostType, PCs
  <2> QED
    BY <2>1, <2>2, TypeParts
<1>2. Numbered
  BY DEF Init, Numbered, Absent, Unread
<1>3. Vouched
  BY DEF Init, Vouched, IsRead
<1>4. JobKnows
  BY DEF Init, JobKnows
<1> QED
  BY <1>1, <1>2, <1>3, <1>4 DEF IInv

-----------------------------------------------------------------------------
\* A change of a file keeps the disk's type and is a new number.
LEMMA PutType ==
  ASSUME DiskType, NEW f \in Files, NEW S \in SUBSET Changes, Put(f, S)
  PROVE  DiskType' /\ changes' \in Changes /\ changes' = changes + 1
<1>1. changes' \in Changes /\ changes' = changes + 1
  BY FileAssumption DEF DiskType, Put, Changes
<1>2. mtime' \in [Files -> Changes \cup {Absent}]
      /\ text' \in [Files -> SUBSET Changes]
  BY <1>1 DEF DiskType, Put
<1>3. changes' \in 0..MaxChanges
  BY <1>1, FileAssumption DEF Changes
<1>4. ASSUME NEW g \in Files PROVE text'[g] = {} <=> mtime'[g] = Absent
  <2>1. CASE g = f
    BY <1>1, <2>1 DEF DiskType, Put, Absent, Changes
  <2>2. CASE g # f
    BY <2>2 DEF DiskType, Put
  <2> QED
    BY <2>1, <2>2
<1> QED
  BY <1>1, <1>2, <1>3, <1>4 DEF DiskType

\* So does a deletion.
LEMMA RemoveType ==
  ASSUME DiskType, NEW f \in Files, RemoveFile(f), UNCHANGED changes
  PROVE  DiskType'
<1>1. mtime' \in [Files -> Changes \cup {Absent}]
      /\ text' \in [Files -> SUBSET Changes]
  BY DEF DiskType, RemoveFile
<1>2. ASSUME NEW g \in Files PROVE text'[g] = {} <=> mtime'[g] = Absent
  BY DEF DiskType, RemoveFile
<1> QED
  BY <1>1, <1>2 DEF DiskType

\* The first pending operation is one.
LEMMA FirstPending ==
  ASSUME JobType, pending # <<>>
  PROVE  /\ pending[1] \in PendingOps /\ pending[1].file \in Files
         /\ pending[1].keep \in SUBSET Changes
<1>1. pending[1] \in PendingOps
  BY DEF JobType
<1> QED
  BY <1>1 DEF PendingOps

\* The first operation to compute is one.
LEMMA FirstTodo ==
  ASSUME JobType, todo # <<>>
  PROVE  /\ todo[1] \in Ops /\ todo[1].file \in Files
         /\ todo[1].kind \in {"update", "add", "delete", "write"}
BY DEF JobType, Ops, PatchOps, WriteOps

\* What is left behind the first element of a sequence.
LEMMA TailFacts ==
  ASSUME NEW S, NEW s \in Seq(S), s # <<>>
  PROVE  /\ Tail(s) \in Seq(S)
         /\ Tail(s) = <<>> <=> Len(s) = 1
         /\ \A i \in DOMAIN Tail(s) : i + 1 \in DOMAIN s /\ Tail(s)[i] = s[i + 1]
<1>1. /\ Tail(s) \in Seq(S) /\ Len(Tail(s)) = Len(s) - 1
      /\ \A i \in 1..Len(Tail(s)) : Tail(s)[i] = s[i + 1]
  BY HeadTailProperties
<1>2. Tail(s) = <<>> <=> Len(Tail(s)) = 0
  BY <1>1, EmptySeq
<1>3. Len(s) \in Nat /\ DOMAIN s = 1..Len(s)
      /\ DOMAIN Tail(s) = 1..Len(Tail(s))
  BY <1>1, LenProperties
<1> QED
  BY <1>1, <1>2, <1>3

\* Appending a computed operation, and taking off the first, keep the job's
\* type.
LEMMA ComputedType ==
  ASSUME JobType, todo # <<>>, NEW p \in PendingOps, Computed(p)
  PROVE  JobType'
<1>1. pending' \in Seq(PendingOps) /\ pending' # <<>> /\ todo' \in Seq(Ops)
  BY DEF JobType, Computed
<1>2. todo' # <<>> <=> Len(todo) # 1
  BY TailFacts DEF JobType, Computed
<1> QED
  BY <1>1, <1>2 DEF JobType, Computed, PCs

\* Taking off the first pending operation keeps the job's type.
LEMMA DoneType ==
  ASSUME JobType, pc \in {"write", "record"}, pending # <<>>,
         NEW behind \in {"write", "lint"}, Done(behind), UNCHANGED todo
  PROVE  JobType' /\ pc' # "reading"
<1>1. pending' \in Seq(PendingOps) /\ (Len(pending) = 1 <=> pending' = <<>>)
  BY TailFacts DEF JobType, Done
<1> QED
  BY <1>1 DEF JobType, Done, PCs

\* A tool that ends leaves a job of the right type.
LEMMA EndType ==
  ASSUME JobType, End PROVE JobType' /\ pc' = "idle"
BY DEF JobType, End, PCs

\* Every step keeps the types.
LEMMA TypeKeeps == ASSUME TypeOK, Next PROVE TypeOK'
<1> DEFINE DT == DiskType /\ TrackerType /\ JobType /\ ReadingType /\ GhostType
<1>0. DT
  BY TypeParts
<1> USE <1>0
<1>1. ASSUME NEW f \in Files, WorldEdit(f) PROVE DT'
  <2>1. DiskType' /\ changes' \in Changes
    BY <1>1, PutType DEF WorldEdit, DiskType
  <2>2. GhostType'
    BY <1>1, <2>1 DEF WorldEdit, GhostType
  <2> QED
    BY <1>1, <2>1, <2>2
    DEF WorldEdit, tracker, job, TrackerType, JobType, ReadingType
<1>2. ASSUME NEW f \in Files, WorldDelete(f) PROVE DT'
  <2>1. DiskType'
    BY <1>2, RemoveType DEF WorldDelete, ghosts
  <2> QED
    BY <1>2, <2>1 DEF WorldDelete, tracker, job, ghosts, TrackerType, JobType,
                     ReadingType, GhostType
<1>3. ASSUME NEW f \in Files, ReadStat(f) PROVE DT'
  <2>1. mtime[f] \in Changes
    BY <1>3 DEF ReadStat, DiskType, Exists
  <2> QED
    BY <1>3, <2>1 DEF ReadStat, disk, tracker, ghosts, DiskType, TrackerType,
                     JobType, ReadingType, GhostType, PCs
<1>4. ASSUME NEW S \in SUBSET Changes, NEW some \in BOOLEAN, ReadText(S, some)
      PROVE DT'
  <2>1. reading.file \in Files /\ reading.mtime \in Changes
    BY <1>4 DEF ReadText, ReadingType
  <2>2. TrackerType' /\ GhostType'
    BY <1>4, <2>1 DEF ReadText, TrackerType, GhostType, PartialAfter
  <2> QED
    BY <1>4, <2>2 DEF ReadText, disk, DiskType, JobType, ReadingType, PCs
<1>5. ASSUME ReadGone PROVE DT'
  BY <1>5 DEF ReadGone, disk, tracker, ghosts, DiskType, TrackerType, JobType,
              ReadingType, GhostType, PCs
<1>6. ASSUME NEW ops \in Patches \cup Writes, Start(ops) PROVE DT'
  <2>1. ops \in Seq(Ops) /\ ops # <<>>
    BY JobsAreSequences
  <2> QED
    BY <1>6, <2>1 DEF Start, disk, tracker, DiskType, TrackerType, JobType,
                     ReadingType, GhostType, PCs
<1>7. ASSUME Check PROVE DT'
  <2>1. todo # <<>>
    BY <1>7 DEF Check, JobType
  <2>2. Pending(todo[1], {}) \in PendingOps
    BY <2>1, FirstTodo DEF Pending, PendingOps
  <2>3. JobType' /\ pc' # "reading" /\ UNCHANGED reading
    <3>1. CASE todo[1].kind = "update"
      BY <1>7, <2>1, <3>1 DEF Check, JobType, PCs
    <3>2. CASE todo[1].kind # "update"
      BY <1>7, <2>1, <2>2, <3>2, ComputedType DEF Check, Computed
    <3> QED
      BY <3>1, <3>2
  <2> QED
    BY <1>7, <2>3 DEF Check, disk, tracker, ghosts, DiskType, TrackerType,
                     ReadingType, GhostType
<1>8. ASSUME Refuse \/ ReadFails \/ UnlinkFails \/ Interrupted PROVE DT'
  <2>1. End /\ pc # "reading" /\ UNCHANGED <<disk, tracker, ghosts>>
    BY <1>8 DEF Refuse, ReadFails, UnlinkFails, Interrupted
  <2> QED
    BY <2>1, EndType DEF End, disk, tracker, ghosts, DiskType, TrackerType,
                         ReadingType, GhostType
<1>9. ASSUME Read PROVE DT'
  <2>1. todo # <<>>
    BY <1>9 DEF Read, JobType
  <2>2. Pending(todo[1], text[todo[1].file]) \in PendingOps
    BY <2>1, FirstTodo DEF Pending, PendingOps, DiskType
  <2>3. JobType' /\ pc' # "reading" /\ UNCHANGED reading
    BY <1>9, <2>1, <2>2, ComputedType DEF Read, Computed
  <2> QED
    BY <1>9, <2>3 DEF Read, disk, tracker, ghosts, DiskType, TrackerType,
                     ReadingType, GhostType
<1>10. ASSUME Write PROVE DT'
  <2>1. pending[1].file \in Files /\ pending[1].keep \in SUBSET Changes
    BY <1>10, FirstPending DEF Write, JobType
  <2>2. DiskType' /\ changes' \in Changes
    BY <1>10, <2>1, PutType DEF Write
  <2>3. GhostType'
    BY <1>10, <2>1, <2>2 DEF Write, GhostType
  <2>4. JobType' /\ ReadingType'
    BY <1>10 DEF Write, JobType, ReadingType, PCs
  <2> QED
    BY <1>10, <2>2, <2>3, <2>4 DEF Write, tracker, TrackerType
<1>11. ASSUME WriteFails PROVE DT'
  <2>1. pending[1].file \in Files
    BY <1>11, FirstPending DEF WriteFails, JobType
  <2>2. DiskType' /\ changes' \in Changes
    BY <1>11, <2>1, PutType DEF WriteFails
  <2>3. GhostType'
    BY <1>11, <2>1, <2>2 DEF WriteFails, GhostType
  <2>4. JobType' /\ ReadingType'
    BY <1>11, EndType DEF WriteFails, End, ReadingType
  <2> QED
    BY <1>11, <2>2, <2>3, <2>4 DEF WriteFails, tracker, TrackerType
<1>12. ASSUME Record PROVE DT'
  <2>1. pending # <<>> /\ pending[1].file \in Files
    BY <1>12, FirstPending DEF Record, JobType
  <2>2. JobType' /\ pc' # "reading"
    BY <1>12, <2>1, DoneType DEF Record
  <2>3. TrackerType'
    BY <1>12, <2>1 DEF Record, TrackerType, DiskType
  <2> QED
    BY <1>12, <2>2, <2>3
    DEF Record, disk, ghosts, DiskType, ReadingType, GhostType
<1>13. ASSUME Unlink PROVE DT'
  <2>1. pending # <<>> /\ pending[1].file \in Files
    BY <1>13, FirstPending DEF Unlink, JobType
  <2>2. JobType' /\ pc' # "reading"
    BY <1>13, <2>1, DoneType DEF Unlink
  <2>3. DiskType'
    BY <1>13, <2>1, RemoveType DEF Unlink, ghosts
  <2> QED
    BY <1>13, <2>2, <2>3
    DEF Unlink, tracker, ghosts, TrackerType, ReadingType, GhostType
<1>14. ASSUME Linted PROVE DT'
  BY <1>14 DEF Linted, disk, tracker, ghosts, DiskType, TrackerType, JobType,
               ReadingType, GhostType, PCs
<1>15. ASSUME Restart PROVE DT'
  BY <1>15 DEF Restart, disk, DiskType, TrackerType, JobType, ReadingType,
               GhostType, PCs, Unread
<1>16. DT'
  BY <1>1, <1>2, <1>3, <1>4, <1>5, <1>6, <1>7, <1>8, <1>9, <1>10, <1>11,
     <1>12, <1>13, <1>14, <1>15 DEF Next, World, Reader, Writer
<1> QED
  BY <1>16, TypePartsNext

-----------------------------------------------------------------------------
Rest == Numbered /\ Vouched /\ JobKnows

\* A step that changes neither files nor what is known of them, and at most
\* drops what was pending.
LEMMA QuietKeeps ==
  ASSUME IInv, UNCHANGED <<disk, tracker, changes, shown, foreign, late>>,
         pending' = <<>> \/ pending' = pending,
         pc' \notin {"read", "record"},
         pc' = "reading" => reading'.mtime <= changes
  PROVE  Rest'
<1> USE DEF IInv, disk, tracker
<1>1. Numbered'
  BY DEF Numbered
<1>2. Vouched'
  BY DEF Vouched, IsRead, IsStale, OnlyLate, Known
<1>3. JobKnows'
  <2>1. CASE pending' = <<>>
    BY <2>1 DEF JobKnows
  <2>2. CASE pending' = pending
    BY <2>2 DEF JobKnows, Unguarded, IsRead, OnlyLate, Known
  <2> QED
    BY <2>1, <2>2
<1> QED
  BY <1>1, <1>2, <1>3 DEF Rest

\* The operations the job speaks of are about files.
LEMMA JobFiles ==
  ASSUME TypeOK
  PROVE  /\ \A i \in DOMAIN pending : /\ pending[i] \in PendingOps
                                      /\ pending[i].file \in Files
                                      /\ pending[i].keep \in SUBSET Changes
         /\ todo # <<>> => todo[1].file \in Files
         /\ pending # <<>> => 1 \in DOMAIN pending
<1>1. JobType
  BY TypeParts
<1>2. \A i \in DOMAIN pending : pending[i] \in PendingOps
  BY <1>1 DEF JobType
<1>3. pending # <<>> => 1 \in DOMAIN pending
  BY <1>1 DEF JobType
<1> QED
  BY <1>1, <1>2, <1>3, FirstTodo DEF PendingOps

\* Somebody else changes a file: no entry of the tracker has its new mtime,
\* and a tool at work on it is told by late.
LEMMA WorldEditKeeps ==
  ASSUME IInv, NEW f \in Files, WorldEdit(f) PROVE Rest'
<1> USE DEF IInv
<1>1. DiskType /\ TrackerType /\ GhostType /\ JobType
  BY TypeParts
<1>2. /\ changes' = changes + 1 /\ changes \in Nat
      /\ mtime' = [mtime EXCEPT ![f] = changes + 1]
      /\ text' = [text EXCEPT ![f] = @ \cup {changes + 1}]
      /\ foreign' = [foreign EXCEPT ![f] = @ \cup {changes + 1}]
      /\ UNCHANGED <<tracker, job, shown>>
  BY <1>1 DEF WorldEdit, Put, DiskType
<1>3. /\ late' \in [Files -> SUBSET Nat]
      /\ \A g \in Files : late[g] \subseteq late'[g]
      /\ f \in AtWork => changes + 1 \in late'[f]
  BY <1>1, <1>2 DEF WorldEdit, GhostType, Changes
<1>4. Numbered'
  <2>1. ASSUME NEW g \in Files
        PROVE  /\ mtime'[g] <= changes' /\ mtimes'[g] <= changes'
               /\ text'[g] \subseteq 1..changes'
               /\ foreign'[g] \subseteq 1..changes'
    <3>1. /\ mtime[g] <= changes /\ mtimes[g] <= changes
          /\ text[g] \subseteq 1..changes /\ foreign[g] \subseteq 1..changes
          /\ mtime[g] \in Int /\ mtimes[g] \in Int
      BY <1>1 DEF Numbered, DiskType, TrackerType, Changes, Absent, Unread
    <3> QED
      BY <1>1, <1>2, <3>1 DEF tracker, DiskType, TrackerType, GhostType
  <2>2. \A i \in DOMAIN pending : pending[i].keep \subseteq 1..changes'
    BY <1>2 DEF Numbered
  <2>3. pc = "reading" => reading.mtime <= changes'
    BY <1>1, <1>2, TypeParts DEF Numbered, ReadingType, Changes
  <2> QED
    BY <1>2, <2>1, <2>2, <2>3 DEF Numbered, job
<1>5. ASSUME NEW g \in Files, IsRead(g)', ~IsStale(g)'
      PROVE  g # f /\ UNCHANGED <<mtime[g], mtimes[g], text[g], foreign[g]>>
  BY <1>1, <1>2, <1>5 DEF IsRead, IsStale, tracker, Numbered, DiskType,
                          TrackerType, GhostType
<1>6. Vouched'
  BY <1>2, <1>3, <1>5 DEF Vouched, IsRead, IsStale, OnlyLate, Known, tracker
<1>7. JobKnows'
  <2>1. ASSUME NEW g \in AtWork, g \in Files
        PROVE  /\ \A c \in foreign'[g] : c \in foreign[g] \/ c \in late'[g]
               /\ \A c \in text'[g] : c \in text[g] \/ c \in late'[g]
               /\ late[g] \subseteq late'[g]
    BY <1>1, <1>2, <1>3, <2>1 DEF DiskType, GhostType
  <2>2. ASSUME NEW i \in DOMAIN pending
        PROVE  pending[i].file \in AtWork /\ pending[i].file \in Files
    BY JobFiles DEF AtWork
  <2>3. pc = "read" => todo[1].file \in AtWork /\ todo[1].file \in Files
    BY <1>1, JobFiles DEF AtWork, JobType
  <2>4. pc = "record" => 1 \in DOMAIN pending
    BY <1>1, JobFiles DEF JobType
  <2> QED
    BY <1>2, <2>1, <2>2, <2>3, <2>4
    DEF JobKnows, OnlyLate, Known, Unguarded, IsRead, job, tracker
<1> QED
  BY <1>4, <1>6, <1>7 DEF Rest

\* A file goes away, by whomever: what is said of its text holds of none.
LEMMA RemoveKeeps ==
  ASSUME IInv, NEW f \in Files, RemoveFile(f),
         UNCHANGED <<tracker, changes, shown, foreign, late>>,
         JobType', pc' # "reading" \/ UNCHANGED reading,
         \/ UNCHANGED <<pc, todo, pending>>
         \/ /\ pc' \in {"write", "idle"}
            /\ pending' = Tail(pending) /\ pending # <<>>
  PROVE  Rest'
<1> USE DEF IInv
<1>1. DiskType /\ JobType
  BY TypeParts
<1>2. \A g \in Files : /\ mtime'[g] \in {mtime[g], Absent}
                       /\ text'[g] \subseteq text[g]
                       /\ mtime'[g] # mtime[g] => text'[g] = {}
  BY <1>1 DEF DiskType, RemoveFile
<1>3. \A i \in DOMAIN pending' : \E j \in DOMAIN pending :
         pending'[i] = pending[j]
  BY <1>1, TailFacts DEF JobType
<1>4. Numbered'
  BY <1>1, <1>2, <1>3 DEF Numbered, tracker, DiskType, Absent
<1>5. Vouched'
  BY <1>2 DEF Vouched, IsRead, IsStale, OnlyLate, Known, tracker
<1>6. JobKnows'
  <2>1. ASSUME NEW i \in DOMAIN pending'
        PROVE LET p == pending'[i] IN
              /\ p.kind # "update" => p.keep = {}
              /\ OnlyLate(p.file, p.keep) /\ Known(p.file, p.keep)
              /\ Unguarded(p) \/ OnlyLate(p.file, text'[p.file])
              /\ p.kind \in {"update", "delete"} => Known(p.file, text'[p.file])
    BY <1>2, <1>3, JobFiles, SMTT(20) DEF JobKnows, OnlyLate, Known
  <2>2. CASE UNCHANGED <<pc, todo, pending>>
    <3>1. pc \in {"read"} => todo[1].file \in Files
      BY <1>1, JobFiles DEF JobType
    <3>2. pc = "record" => pending[1].file \in Files
      BY <1>1, JobFiles DEF JobType
    <3> QED
      BY <1>2, <2>1, <2>2, <3>1, <3>2
      DEF JobKnows, OnlyLate, Known, Unguarded, IsRead, tracker
  <2>3. CASE pc' \in {"write", "idle"}
    BY <2>1, <2>3 DEF JobKnows, OnlyLate, Known, Unguarded, IsRead, tracker
  <2> QED
    BY <2>2, <2>3
<1> QED
  BY <1>4, <1>5, <1>6 DEF Rest

\* file_read: nothing is pending, and the entry vouches for what was read if
\* the file is as it was at the stat.
LEMMA ReadTextKeeps ==
  ASSUME IInv, NEW S \in SUBSET Changes, NEW some \in BOOLEAN,
         ReadText(S, some)
  PROVE  Rest'
<1> USE DEF IInv
<1>1. TrackerType /\ GhostType /\ JobType /\ ReadingType
  BY TypeParts
<1> DEFINE f == reading.file
<1>2. f \in Files /\ pending = <<>>
  BY <1>1 DEF ReadText, ReadingType, JobType
<1>3. Numbered'
  BY <1>1, <1>2 DEF ReadText, Numbered, disk, TrackerType, GhostType
<1>4. Vouched'
  BY <1>1, <1>2 DEF ReadText, Vouched, IsRead, IsStale, OnlyLate, Known, disk,
                    TrackerType, GhostType, PartialAfter
<1>5. JobKnows'
  BY <1>2 DEF ReadText, JobKnows
<1> QED
  BY <1>3, <1>4, <1>5 DEF Rest

\* What an accepted operation finds.
LEMMA AllowedKnows ==
  ASSUME IInv, todo # <<>>, Allowed(todo[1])
  PROVE  LET op == todo[1] IN
         /\ Unguarded(op) \/ OnlyLate(op.file, text[op.file])
         /\ op.kind \in {"update", "delete"} => Known(op.file, text[op.file])
<1> DEFINE op == todo[1]
<1>1. op.file \in Files /\ op.kind \in {"update", "add", "delete", "write"}
  BY FirstTodo, TypeParts DEF IInv
<1>2. DiskType
  BY TypeParts DEF IInv
<1>3. CASE op.kind \in {"update", "delete"}
  BY <1>1, <1>3 DEF Allowed, Patchable, IInv, Vouched
<1>4. CASE op.kind = "add"
  BY <1>1, <1>2, <1>4 DEF Allowed, Exists, DiskType, OnlyLate
<1>5. CASE op.kind = "write"
  BY <1>1, <1>5 DEF Allowed, Unguarded, IInv, Vouched
<1> QED
  BY <1>1, <1>3, <1>4, <1>5

\* A computed operation joins the pending ones.
LEMMA ComputedKeeps ==
  ASSUME IInv, JobType', NEW keep \in SUBSET (1..changes),
         Computed(Pending(todo[1], keep)),
         UNCHANGED <<disk, tracker, ghosts>>, todo # <<>>,
         LET op == todo[1] IN
         /\ op.kind # "update" => keep = {}
         /\ OnlyLate(op.file, keep) /\ Known(op.file, keep)
         /\ Unguarded(op) \/ OnlyLate(op.file, text[op.file])
         /\ op.kind \in {"update", "delete"} => Known(op.file, text[op.file])
  PROVE  Rest'
<1> USE DEF IInv, disk, tracker, ghosts
<1>1. JobType
  BY TypeParts
<1> DEFINE p == Pending(todo[1], keep)
<1>2. \A i \in DOMAIN pending' :
         \/ i \in DOMAIN pending /\ pending'[i] = pending[i]
         \/ pending'[i] = p
  BY <1>1 DEF JobType, Computed
<1>3. p.kind = todo[1].kind /\ p.file = todo[1].file /\ p.keep = keep
  BY DEF Pending
<1>4. pc' \in {"write", "check"}
  BY DEF Computed
<1>5. Numbered'
  BY <1>2, <1>3, <1>4 DEF Numbered
<1>6. Vouched'
  BY DEF Vouched, IsRead, IsStale, OnlyLate, Known
<1>7. JobKnows'
  <2>1. /\ UNCHANGED <<text, mtimes, foreign, late, shown>>
        /\ p.kind # "update" => p.keep = {}
        /\ OnlyLate(p.file, p.keep) /\ Known(p.file, p.keep)
        /\ Unguarded(p) \/ OnlyLate(p.file, text[p.file])
        /\ p.kind \in {"update", "delete"} => Known(p.file, text[p.file])
    BY <1>3 DEF Unguarded
  <2>2. ASSUME NEW i \in DOMAIN pending'
        PROVE  LET q == pending'[i] IN
               /\ q.kind # "update" => q.keep = {}
               /\ OnlyLate(q.file, q.keep) /\ Known(q.file, q.keep)
               /\ Unguarded(q) \/ OnlyLate(q.file, text[q.file])
               /\ q.kind \in {"update", "delete"} => Known(q.file, text[q.file])
    <3> HIDE DEF p
    <3>1. CASE pending'[i] = p
      BY <2>1, <3>1
    <3>2. CASE i \in DOMAIN pending /\ pending'[i] = pending[i]
      BY <3>2 DEF JobKnows
    <3> QED
      BY <1>2, <3>1, <3>2
  <2> HIDE DEF p
  <2> QED
    BY <1>4, <2>1, <2>2 DEF JobKnows, OnlyLate, Known, Unguarded, IsRead
<1> QED
  BY <1>5, <1>6, <1>7 DEF Rest

\* An operation is checked and, unless it has to read, computed.
LEMMA CheckKeeps == ASSUME IInv, Check PROVE Rest'
<1>1. JobType' /\ todo # <<>>
  BY TypeKeeps, TypeParts DEF IInv, Next, Writer, TypeOK, JobType, Check
<1>2. CASE todo[1].kind = "update"
  <2>1. /\ OnlyLate(todo[1].file, text[todo[1].file])
        /\ Known(todo[1].file, text[todo[1].file])
    BY <1>1, <1>2, AllowedKnows DEF Check, Unguarded
  <2>2. pc' = "read" /\ UNCHANGED <<todo, pending, reading, disk, tracker, ghosts>>
    BY <1>2 DEF Check
  <2>3. Numbered'
    BY <2>2 DEF IInv, Numbered, disk, tracker, ghosts
  <2>4. Vouched'
    BY <2>2 DEF IInv, Vouched, IsRead, IsStale, OnlyLate, Known, disk, tracker,
                ghosts
  <2>5. JobKnows'
    BY <1>2, <2>1, <2>2 DEF IInv, JobKnows, Unguarded, IsRead, OnlyLate, Known,
                            disk, tracker, ghosts
  <2> QED
    BY <2>3, <2>4, <2>5 DEF Rest
<1>3. CASE todo[1].kind # "update"
  <2>1. Computed(Pending(todo[1], {})) /\ UNCHANGED <<disk, tracker, ghosts>>
    BY <1>3 DEF Check
  <2>2. OnlyLate(todo[1].file, {}) /\ Known(todo[1].file, {})
    BY DEF OnlyLate, Known
  <2>3. Allowed(todo[1])
    BY DEF Check
  <2> QED
    BY <1>1, <1>3, <2>1, <2>2, <2>3, AllowedKnows, ComputedKeeps
<1> QED
  BY <1>2, <1>3

\* An update reads the text it is computed from.
LEMMA ReadKeeps == ASSUME IInv, Read PROVE Rest'
<1>1. JobType' /\ todo # <<>> /\ todo[1].file \in Files
  BY TypeKeeps, JobFiles DEF IInv, Next, Writer, TypeOK, JobType, Read
<1>2. text[todo[1].file] \in SUBSET (1..changes)
  BY <1>1 DEF IInv, Numbered
<1>3. /\ todo[1].kind = "update"
      /\ OnlyLate(todo[1].file, text[todo[1].file])
      /\ Known(todo[1].file, text[todo[1].file])
  BY DEF IInv, JobKnows, Read
<1>4. /\ Computed(Pending(todo[1], text[todo[1].file]))
      /\ UNCHANGED <<disk, tracker, ghosts>>
  BY DEF Read
<1> QED
  BY <1>1, <1>2, <1>3, <1>4, ComputedKeeps

\* A tool writes: the new text is the kept one and a change the agent knows.
LEMMA WriteKeeps == ASSUME IInv, Write PROVE Rest'
<1> USE DEF IInv
<1> DEFINE p == pending[1]
           f == p.file
<1>1. DiskType /\ TrackerType /\ GhostType /\ JobType
  BY TypeParts
<1>2. 1 \in DOMAIN pending /\ f \in Files
  BY <1>1, JobFiles DEF Write, JobType
<1>3. /\ changes' = changes + 1 /\ changes \in Nat
      /\ mtime' = [mtime EXCEPT ![f] = changes + 1]
      /\ text' = [text EXCEPT ![f] = p.keep \cup {changes + 1}]
      /\ shown' = [shown EXCEPT ![f] = @ \cup {changes + 1}]
      /\ pc = "write" /\ pc' = "record"
      /\ UNCHANGED <<mtimes, partial, todo, pending, reading, foreign, late>>
  BY <1>1 DEF Write, Put, DiskType, tracker
<1>4. p.keep \subseteq 1..changes /\ foreign[f] \subseteq 1..changes
      /\ OnlyLate(f, p.keep) /\ Known(f, p.keep)
  BY <1>2 DEF Numbered, JobKnows
<1>5. Numbered'
  <2>1. ASSUME NEW g \in Files
        PROVE  /\ mtime'[g] <= changes' /\ mtimes'[g] <= changes'
               /\ text'[g] \subseteq 1..changes'
               /\ foreign'[g] \subseteq 1..changes'
    <3>1. /\ mtime[g] <= changes /\ mtimes[g] <= changes
          /\ text[g] \subseteq 1..changes /\ foreign[g] \subseteq 1..changes
          /\ mtime[g] \in Int /\ mtimes[g] \in Int
      BY <1>1 DEF Numbered, DiskType, TrackerType, Changes, Absent, Unread
    <3> QED
      BY <1>1, <1>2, <1>3, <1>4, <3>1 DEF DiskType
  <2>2. \A i \in DOMAIN pending : pending[i].keep \subseteq 1..changes'
    BY <1>3 DEF Numbered
  <2> QED
    BY <1>3, <2>1, <2>2 DEF Numbered
<1>6. ASSUME NEW g \in Files, IsRead(g)', ~IsStale(g)'
      PROVE  g # f /\ UNCHANGED <<mtime[g], text[g], shown[g]>>
  BY <1>1, <1>2, <1>3, <1>6 DEF IsRead, IsStale, Numbered, DiskType,
                               TrackerType, GhostType
<1>7. Vouched'
  BY <1>3, <1>6 DEF Vouched, IsRead, IsStale, OnlyLate, Known
<1>8. \A g \in Files : shown[g] \subseteq shown'[g]
  BY <1>1, <1>3 DEF GhostType
<1>9. OnlyLate(f, text[f])' /\ Known(f, text[f])'
  BY <1>1, <1>2, <1>3, <1>4 DEF OnlyLate, Known, DiskType, GhostType
<1>10. JobKnows'
  <2>1. ASSUME NEW i \in DOMAIN pending
        PROVE LET q == pending[i] IN
              /\ OnlyLate(q.file, q.keep)' /\ Known(q.file, q.keep)'
              /\ (Unguarded(q) \/ OnlyLate(q.file, text[q.file]))'
              /\ q.kind \in {"update", "delete"}
                   => Known(q.file, text[q.file])'
    <3>1. pending[i].file \in Files
      BY JobFiles
    <3>2. CASE pending[i].file = f
      BY <1>3, <1>8, <1>9, <3>1, <3>2 DEF JobKnows, OnlyLate, Known
    <3>3. CASE pending[i].file # f
      BY <1>1, <1>3, <1>8, <3>1, <3>3
      DEF JobKnows, OnlyLate, Known, Unguarded, IsRead, DiskType
    <3> QED
      BY <3>2, <3>3
  <2> QED
    BY <1>3, <1>9, <2>1 DEF JobKnows
<1> QED
  BY <1>5, <1>7, <1>10 DEF Rest

\* A write fails half-way: the tracker does not know the mtime it leaves.
LEMMA WriteFailsKeeps == ASSUME IInv, WriteFails PROVE Rest'
<1> USE DEF IInv
<1> DEFINE f == pending[1].file
<1>1. DiskType /\ TrackerType /\ GhostType /\ JobType
  BY TypeParts
<1>2. f \in Files
  BY <1>1, JobFiles DEF WriteFails, JobType
<1>3. /\ changes' = changes + 1 /\ changes \in Nat
      /\ mtime' = [mtime EXCEPT ![f] = changes + 1]
      /\ text' = [text EXCEPT ![f] = {changes + 1}]
      /\ foreign' = [foreign EXCEPT ![f] = @ \cup {changes + 1}]
      /\ pc' = "idle" /\ pending' = <<>>
      /\ UNCHANGED <<mtimes, partial, shown, late>>
  BY <1>1 DEF WriteFails, Put, End, DiskType, tracker
<1>4. Numbered'
  <2>1. ASSUME NEW g \in Files
        PROVE  /\ mtime'[g] <= changes' /\ mtimes'[g] <= changes'
               /\ text'[g] \subseteq 1..changes'
               /\ foreign'[g] \subseteq 1..changes'
    <3>1. /\ mtime[g] <= changes /\ mtimes[g] <= changes
          /\ text[g] \subseteq 1..changes /\ foreign[g] \subseteq 1..changes
          /\ mtime[g] \in Int /\ mtimes[g] \in Int
      BY <1>1 DEF Numbered, DiskType, TrackerType, Changes, Absent, Unread
    <3> QED
      BY <1>1, <1>2, <1>3, <3>1 DEF DiskType, GhostType
  <2> QED
    BY <1>3, <2>1 DEF Numbered
<1>5. ASSUME NEW g \in Files, IsRead(g)', ~IsStale(g)'
      PROVE  g # f /\ UNCHANGED <<mtime[g], text[g], foreign[g]>>
  BY <1>1, <1>2, <1>3, <1>5 DEF IsRead, IsStale, Numbered, DiskType,
                               TrackerType, GhostType
<1>6. Vouched'
  BY <1>3, <1>5 DEF Vouched, IsRead, IsStale, OnlyLate, Known
<1>7. JobKnows'
  BY <1>3 DEF JobKnows
<1> QED
  BY <1>4, <1>6, <1>7 DEF Rest

\* The new mtime is noted: it stands for what the file holds by now.
LEMMA RecordKeeps == ASSUME IInv, Record PROVE Rest'
<1> USE DEF IInv, disk, ghosts
<1> DEFINE f == pending[1].file
<1>1. TrackerType /\ DiskType /\ JobType
  BY TypeParts
<1>2. pending # <<>> /\ f \in Files
  BY <1>1, JobFiles DEF Record, JobType
<1>3. /\ mtimes' = [mtimes EXCEPT ![f] = mtime[f]]
      /\ pc = "record" /\ pc' \in {"idle", "write", "lint"}
      /\ pending' = Tail(pending)
      /\ UNCHANGED <<mtime, text, partial, changes, shown, foreign, late>>
  BY DEF Record, Done
<1>4. OnlyLate(f, text[f]) /\ Known(f, text[f])
  BY <1>3 DEF JobKnows
<1>5. \A i \in DOMAIN pending' : i + 1 \in DOMAIN pending
                                 /\ pending'[i] = pending[i + 1]
  BY <1>1, <1>2, <1>3, TailFacts DEF JobType
<1>6. Numbered'
  BY <1>1, <1>2, <1>3, <1>5 DEF Numbered, TrackerType
<1>7. Vouched'
  BY <1>1, <1>2, <1>3, <1>4
  DEF Vouched, IsRead, IsStale, OnlyLate, Known, TrackerType
<1>8. JobKnows'
  <2>1. ASSUME NEW i \in DOMAIN pending'
        PROVE  LET q == pending'[i] IN
               /\ q.kind # "update" => q.keep = {}
               /\ OnlyLate(q.file, q.keep) /\ Known(q.file, q.keep)
               /\ \/ mtimes'[q.file] = Unread /\ q.kind = "write"
                  \/ OnlyLate(q.file, text[q.file])
               /\ q.kind \in {"update", "delete"} => Known(q.file, text[q.file])
    <3>1. CASE pending'[i].file = f
      BY <1>4, <1>5, <3>1 DEF JobKnows
    <3>2. CASE pending'[i].file # f
      BY <1>1, <1>3, <1>5, <3>2, JobFiles
      DEF JobKnows, Unguarded, IsRead, TrackerType
    <3> QED
      BY <3>1, <3>2
  <2> QED
    BY <1>3, <2>1 DEF JobKnows, OnlyLate, Known, Unguarded, IsRead
<1> QED
  BY <1>6, <1>7, <1>8 DEF Rest

\* After a restart nothing is vouched for and nothing is pending.
LEMMA RestartKeeps == ASSUME IInv, Restart PROVE Rest'
<1>1. DiskType
  BY TypeParts DEF IInv
<1>2. Numbered'
  BY <1>1 DEF Restart, IInv, Numbered, disk, DiskType, Unread
<1>3. Vouched' /\ JobKnows'
  BY DEF Restart, Vouched, JobKnows, IsRead
<1> QED
  BY <1>2, <1>3 DEF Rest

\* Every step, a stuttering one included, keeps the invariant.
LEMMA InvNext == IInv /\ [Next]_vars => IInv'
<1> SUFFICES ASSUME IInv, [Next]_vars PROVE IInv'
  OBVIOUS
<1>1. CASE UNCHANGED vars
  <2>1. TypeOK'
    BY <1>1 DEF IInv, TypeOK, Exists, vars, disk, tracker, job, ghosts
  <2>2. (Numbered /\ Vouched /\ JobKnows)'
    BY <1>1 DEF IInv, Numbered, Vouched, JobKnows, IsRead, IsStale, Unguarded,
                OnlyLate, Known, vars, disk, tracker, job, ghosts
  <2> QED
    BY <2>1, <2>2 DEF IInv
<1>2. ASSUME Next PROVE TypeOK' /\ Rest'
  <2>1. TypeOK'
    BY <1>2, TypeKeeps DEF IInv
  <2>2. JobType' /\ DiskType
    BY <2>1, TypeParts DEF IInv, TypeOK, JobType
  <2>3. ASSUME NEW f \in Files, WorldEdit(f) PROVE Rest'
    BY <2>3, WorldEditKeeps
  <2>4. ASSUME NEW f \in Files, WorldDelete(f) PROVE Rest'
    BY <2>2, <2>4, RemoveKeeps DEF WorldDelete, job, ghosts
  <2>5. ASSUME NEW f \in Files, ReadStat(f) PROVE Rest'
    <3>1. mtime[f] <= changes
      BY DEF IInv, Numbered
    <3> QED
      BY <2>5, <3>1, QuietKeeps DEF ReadStat, ghosts
  <2>6. ASSUME NEW S \in SUBSET Changes, NEW some \in BOOLEAN, ReadText(S, some)
        PROVE  Rest'
    BY <2>6, ReadTextKeeps
  <2>7. ASSUME ReadGone PROVE Rest'
    BY <2>7, QuietKeeps DEF ReadGone, ghosts
  <2>8. ASSUME NEW ops \in Patches \cup Writes, Start(ops) PROVE Rest'
    BY <2>8, QuietKeeps DEF Start
  <2>9. ASSUME Refuse \/ ReadFails \/ UnlinkFails \/ Interrupted PROVE Rest'
    BY <2>9, QuietKeeps DEF Refuse, ReadFails, UnlinkFails, Interrupted, End,
                            ghosts
  <2>10. ASSUME Linted PROVE Rest'
    BY <2>10, QuietKeeps DEF Linted, ghosts
  <2>11. ASSUME Unlink PROVE Rest'
    <3>1. pending # <<>> /\ pending[1].file \in Files
      BY <2>11, JobFiles DEF IInv, TypeOK, Unlink
    <3> QED
      BY <2>2, <2>11, <3>1, RemoveKeeps DEF Unlink, Done, ghosts
  <2> QED
    BY <1>2, <2>1, <2>3, <2>4, <2>5, <2>6, <2>7, <2>8, <2>9, <2>10, <2>11,
       CheckKeeps, ReadKeeps, WriteKeeps, WriteFailsKeeps, RecordKeeps,
       RestartKeeps
    DEF Next, World, Reader, Writer
<1> QED
  BY <1>1, <1>2 DEF IInv, Rest

-----------------------------------------------------------------------------
\* The invariant holds throughout.
THEOREM FileInvariant == Spec => []IInv
BY InvInit, InvNext, PTL DEF Spec

\* Types, for every set of files and every bound.
THEOREM FileTypeCorrect == Spec => []TypeOK
<1>1. IInv => TypeOK
  BY DEF IInv
<1> QED
  BY <1>1, FileInvariant, PTL

\* What a tool is about to undo that the agent does not know of came while
\* the tool was at work on the file.
THEOREM LossCorrect == Spec => []OnlyLateLoss
<1>1. IInv => OnlyLateLoss
  BY DEF IInv, JobKnows, OnlyLate, OnlyLateLoss
<1> QED
  BY <1>1, FileInvariant, PTL

\* A patch is computed from files the agent was shown in full.
THEOREM PatchCorrect == Spec => []PatchKnowsFile
<1>1. IInv => PatchKnowsFile
  BY DEF IInv, JobKnows, Known, PatchKnowsFile
<1> QED
  BY <1>1, FileInvariant, PTL
=============================================================================
