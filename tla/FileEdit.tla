------------------------------ MODULE FileEdit ------------------------------
(***************************************************************************)
(* The tools that read and change workspace files (co_cli/tools/files) and *)
(* the tracker that tells them whether a file is as the agent last saw it  *)
(* (co_cli/tools/file_read_tracker.py), beside a world that changes the    *)
(* same files: an editor, a shell command, a background task.              *)
(*                                                                         *)
(* The agent runs one of these tools at a time: the ones that write are    *)
(* registered as sequential, which makes their whole batch so, and no      *)
(* other agent has them.  Their locks are therefore always free.  The      *)
(* world is other processes and may act between any two calls to the file  *)
(* system; the event loop gives way only while a written file is linted.   *)
(*                                                                         *)
(* A change of a file has a number.  It stands for the text the change put *)
(* into the file and for the mtime the file has after it: no two changes   *)
(* share an mtime.  The mtime of a file that is not there is 0, as         *)
(* safe_mtime has it.                                                      *)
(***************************************************************************)
EXTENDS Integers, Sequences

CONSTANTS
    Files,
    MaxOps,     \* bound: operations of one patch
    MaxChanges  \* bound: changes of files

ASSUME FileAssumption == MaxOps \in Nat /\ MaxChanges \in Nat

Changes == 1..MaxChanges
Absent  == 0    \* mtime of a missing file
Unread  == -1   \* no entry in the tracker

\* Operations of a patch, and file_write as an operation of its own.
PatchOps  == [kind : {"update", "add", "delete"}, file : Files]
WriteOps  == [kind : {"write"}, file : Files]
Ops       == PatchOps \cup WriteOps
Patches   == UNION {[1..n -> PatchOps] : n \in 1..MaxOps}
Writes    == [1..1 -> WriteOps]

VARIABLES
    mtime,    \* [Files -> 0..MaxChanges], on disk
    text,     \* [Files -> SUBSET Changes], what the file holds
    mtimes,   \* FileReadTracker._mtimes
    partial,  \* FileReadTracker._partial_reads
    pc,       \* where the running tool is; "idle" when none runs
    todo,     \* operations that are yet to be computed
    pending,  \* computed operations that are yet to be written
    reading   \* the file and mtime of a file_read that has its stat

\* What happened, for the properties only.
VARIABLES
    changes,  \* number of changes so far
    shown,    \* changes of a file that the agent read or made
    foreign,  \* changes made by others since the agent last read the file
    late      \* of these, the ones that came while a tool was at the file

disk    == <<mtime, text>>
tracker == <<mtimes, partial>>
job     == <<pc, todo, pending, reading>>
ghosts  == <<changes, shown, foreign, late>>
vars    == <<disk, tracker, job, ghosts>>

NoRead == [file |-> "none", mtime |-> Absent]

Init ==
    /\ changes = 0
    /\ mtime = [f \in Files |-> Absent] /\ text = [f \in Files |-> {}]
    /\ mtimes = [f \in Files |-> Unread] /\ partial = {}
    /\ pc = "idle" /\ todo = <<>> /\ pending = <<>> /\ reading = NoRead
    /\ shown = [f \in Files |-> {}] /\ foreign = [f \in Files |-> {}]
    /\ late = [f \in Files |-> {}]

Exists(f) == mtime[f] # Absent

-----------------------------------------------------------------------------
(***************************************************************************)
(* The disk and the world.                                                 *)
(***************************************************************************)
\* Files that the running tool has checked and is not yet done with.
AtWork ==
    {pending[i].file : i \in DOMAIN pending}
        \cup (IF pc = "read" THEN {todo[1].file} ELSE {})

\* File f now holds S and the next change, which f's new mtime is.
Put(f, S) ==
    /\ changes < MaxChanges
    /\ changes' = changes + 1
    /\ mtime' = [mtime EXCEPT ![f] = changes']
    /\ text' = [text EXCEPT ![f] = S \cup {changes'}]

RemoveFile(f) ==
    /\ mtime' = [mtime EXCEPT ![f] = Absent]
    /\ text' = [text EXCEPT ![f] = {}]

\* Another process creates or edits a file.
WorldEdit(f) ==
    /\ Put(f, text[f])
    /\ foreign' = [foreign EXCEPT ![f] = @ \cup {changes'}]
    /\ late' = IF f \in AtWork THEN [late EXCEPT ![f] = @ \cup {changes'}]
                               ELSE late
    /\ UNCHANGED <<tracker, job, shown>>

\* Another process deletes a file.
WorldDelete(f) ==
    /\ Exists(f)
    /\ RemoveFile(f)
    /\ UNCHANGED <<tracker, job, ghosts>>

-----------------------------------------------------------------------------
(***************************************************************************)
(* file_read: stat, then read, then note the mtime of the stat.            *)
(***************************************************************************)
ReadStat(f) ==
    /\ pc = "idle" /\ Exists(f)
    /\ pc' = "reading" /\ reading' = [file |-> f, mtime |-> mtime[f]]
    /\ UNCHANGED <<disk, tracker, todo, pending, ghosts>>

\* Seeded fault: only a file's first read can mark it as partly read.
PartialIfFirst(f, some) ==
    IF some /\ mtimes[f] = Unread THEN partial \cup {f} ELSE partial \ {f}

\* record_read: a read of some lines marks the file, a read of all clears it.
PartialAfter(f, some) == IF some THEN partial \cup {f} ELSE partial \ {f}

\* The agent sees S: all of the text or, of a range or of a file that is longer
\* than a read may be, a part of it.  Lines that the display cuts are taken as
\* seen.
ReadText(S, some) ==
    LET f == reading.file IN
    /\ pc = "reading" /\ Exists(f)
    /\ S \subseteq text[f] /\ (some \/ S = text[f])
    /\ mtimes' = [mtimes EXCEPT ![f] = reading.mtime]
    /\ partial' = PartialAfter(f, some)
    /\ shown' = [shown EXCEPT ![f] = @ \cup S]
    /\ foreign' = [foreign EXCEPT ![f] = {}]
    /\ late' = [late EXCEPT ![f] = {}]
    /\ pc' = "idle" /\ reading' = NoRead
    /\ UNCHANGED <<disk, todo, pending, changes>>

\* The file has gone, or it is not text.
ReadGone ==
    /\ pc = "reading" /\ pc' = "idle" /\ reading' = NoRead
    /\ UNCHANGED <<disk, tracker, todo, pending, ghosts>>

-----------------------------------------------------------------------------
(***************************************************************************)
(* file_write and file_patch: every operation is checked and computed,     *)
(* then every one is written.  file_patch in replace mode is a patch of    *)
(* one update.                                                             *)
(***************************************************************************)
Start(ops) ==
    /\ pc = "idle"
    /\ pc' = "check" /\ todo' = ops
    /\ UNCHANGED <<disk, tracker, pending, reading, changes, shown, foreign,
                   late>>

\* The tool returns or raises; what is not written yet is dropped.
End ==
    /\ pc' = "idle" /\ todo' = <<>> /\ pending' = <<>>
    /\ UNCHANGED reading

IsRead(f) == mtimes[f] # Unread

\* Seeded fault: an mtime newer than the noted one is not a change.
IsStaleIfOlder(f) == mtimes[f] > mtime[f]

IsStale(f) == mtimes[f] # mtime[f]

\* _check_patch_preconditions.
Patchable(f) == IsRead(f) /\ f \notin partial /\ ~IsStale(f)

\* What each kind of operation asks of its file before anything is written.
Allowed(op) ==
    CASE op.kind \in {"update", "delete"} ->
            Exists(op.file) /\ Patchable(op.file)
      [] op.kind = "add" -> ~Exists(op.file)
      [] op.kind = "write" -> IsRead(op.file) => ~IsStale(op.file)

\* The first operation is computed: on to the next one, or to the writing.
Computed(p) ==
    /\ pending' = Append(pending, p)
    /\ todo' = Tail(todo)
    /\ pc' = IF Len(todo) = 1 THEN "write" ELSE "check"
    /\ UNCHANGED reading

\* A computed operation: keep is what a written file holds of the old text.
Pending(op, keep) == [kind |-> op.kind, file |-> op.file, keep |-> keep]

Check ==
    /\ pc = "check" /\ Allowed(todo[1])
    /\ IF todo[1].kind = "update"
       THEN pc' = "read" /\ UNCHANGED <<todo, pending, reading>>
       ELSE Computed(Pending(todo[1], {}))
    /\ UNCHANGED <<disk, tracker, ghosts>>

\* The check failed, or the path or the size is not acceptable.
Refuse ==
    /\ pc = "check" /\ End
    /\ UNCHANGED <<disk, tracker, ghosts>>

\* The text is read and the hunks are applied to it in memory.
Read ==
    /\ pc = "read" /\ Exists(todo[1].file)
    /\ Computed(Pending(todo[1], text[todo[1].file]))
    /\ UNCHANGED <<disk, tracker, ghosts>>

\* A hunk does not match, or the file has gone.
ReadFails ==
    /\ pc = "read" /\ End
    /\ UNCHANGED <<disk, tracker, ghosts>>

\* write_text, in the order of the patch.
Write ==
    LET p == pending[1] IN
    /\ pc = "write" /\ p.kind # "delete"
    /\ Put(p.file, p.keep)
    /\ shown' = [shown EXCEPT ![p.file] = @ \cup {changes'}]
    /\ pc' = "record"
    /\ UNCHANGED <<tracker, todo, pending, reading, foreign, late>>

\* The write fails half-way: what is left on disk nobody has seen.
WriteFails ==
    LET p == pending[1] IN
    /\ pc = "write" /\ p.kind # "delete"
    /\ Put(p.file, {})
    /\ foreign' = [foreign EXCEPT ![p.file] = @ \cup {changes'}]
    /\ End
    /\ UNCHANGED <<tracker, shown, late>>

\* The first pending operation is done, and so is the tool behind the last.
Done(behind) ==
    /\ pending' = Tail(pending)
    /\ pc' = IF behind # "write" THEN behind
             ELSE IF Len(pending) = 1 THEN "idle" ELSE "write"

\* update_mtime takes the mtime the file has now.
Record ==
    /\ pc = "record"
    /\ mtimes' = [mtimes EXCEPT ![pending[1].file] = mtime[pending[1].file]]
    /\ Done(IF pending[1].kind = "write" THEN "write" ELSE "lint")
    /\ UNCHANGED <<disk, partial, todo, reading, ghosts>>

\* unlink; the tracker keeps its entry.
Unlink ==
    LET f == pending[1].file IN
    /\ pc = "write" /\ pending[1].kind = "delete" /\ Exists(f)
    /\ RemoveFile(f)
    /\ Done("write")
    /\ UNCHANGED <<tracker, todo, reading, ghosts>>

\* unlink raises: the file has gone.
UnlinkFails ==
    /\ pc = "write" /\ pending[1].kind = "delete" /\ ~Exists(pending[1].file)
    /\ End
    /\ UNCHANGED <<disk, tracker, ghosts>>

\* The linter is done or timed out (_run_lint_if_python).
Linted ==
    /\ pc = "lint"
    /\ pc' = IF pending = <<>> THEN "idle" ELSE "write"
    /\ UNCHANGED <<disk, tracker, todo, pending, reading, ghosts>>

\* Ctrl-C or the segment's timeout reaches the tool at its only await.
Interrupted ==
    /\ pc = "lint" /\ End
    /\ UNCHANGED <<disk, tracker, ghosts>>

-----------------------------------------------------------------------------
\* The process ends between any two steps and another one starts: the tracker
\* is in memory only, and the new agent has seen nothing.
Restart ==
    /\ mtimes' = [f \in Files |-> Unread] /\ partial' = {}
    /\ pc' = "idle" /\ todo' = <<>> /\ pending' = <<>> /\ reading' = NoRead
    /\ shown' = [f \in Files |-> {}]
    /\ UNCHANGED <<disk, changes, foreign, late>>

World == \E f \in Files : WorldEdit(f) \/ WorldDelete(f)

Reader ==
    \/ \E f \in Files : ReadStat(f)
    \/ \E S \in SUBSET Changes, some \in BOOLEAN : ReadText(S, some)
    \/ ReadGone

Writer ==
    \/ \E ops \in Patches \cup Writes : Start(ops)
    \/ Check \/ Refuse \/ Read \/ ReadFails
    \/ Write \/ WriteFails \/ Record \/ Unlink \/ UnlinkFails
    \/ Linted \/ Interrupted

Next == World \/ Reader \/ Writer \/ Restart

Spec == Init /\ [][Next]_vars

-----------------------------------------------------------------------------
(***************************************************************************)
(* Properties.                                                             *)
(***************************************************************************)
PCs == {"idle", "reading", "check", "read", "write", "record", "lint"}

PendingOps ==
    [kind : {"update", "add", "delete", "write"}, file : Files,
     keep : SUBSET Changes]

\* The variables keep to their types, a missing file holds nothing and one
\* that is there holds something, and a tool leaves no work behind.
TypeOK ==
    /\ mtime \in [Files -> Changes \cup {Absent}]
    /\ text \in [Files -> SUBSET Changes]
    /\ mtimes \in [Files -> Changes \cup {Absent, Unread}]
    /\ partial \subseteq Files
    /\ pc \in PCs
    /\ todo \in Seq(Ops) /\ pending \in Seq(PendingOps)
    /\ IF pc = "reading" THEN reading \in [file : Files, mtime : Changes]
                         ELSE reading = NoRead
    /\ pc \in {"idle", "reading"} => pending = <<>>
    /\ pc \in {"check", "read"} <=> todo # <<>>
    /\ pc \in {"write", "record"} => pending # <<>>
    /\ changes \in 0..MaxChanges
    /\ shown \in [Files -> SUBSET Changes]
    /\ foreign \in [Files -> SUBSET Changes]
    /\ late \in [Files -> SUBSET Changes]
    /\ \A f \in Files : text[f] = {} <=> ~Exists(f)

\* file_write on a file that the tracker does not know asks no questions.
Unguarded(p) == p.kind = "write" /\ ~IsRead(p.file)

\* A tool is about to write over, or to delete, only what the agent knew when
\* the tool looked at the file: a change by someone else that the tool would
\* undo came while it was at work.  However reads, other patches, failed
\* writes, deletions and restarts went before.
OnlyLateLoss ==
    \A i \in DOMAIN pending :
        \/ Unguarded(pending[i])
        \/ LET f == pending[i].file IN
           foreign[f] \cap text[f] \subseteq late[f]

\* A patch edits or deletes a file only when the agent was shown all that the
\* file held when the patch looked at it, or wrote it itself.
PatchKnowsFile ==
    \A i \in DOMAIN pending :
        LET f == pending[i].file IN
        pending[i].kind \in {"update", "delete"}
            => text[f] \ late[f] \subseteq shown[f]

=============================================================================
