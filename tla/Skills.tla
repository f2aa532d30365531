------------------------------- MODULE Skills -------------------------------
(***************************************************************************)
(* The library of skills a co process keeps for itself: the files of       *)
(* user_skills_dir and its .archive, the records of the usage sidecar      *)
(* (co_cli/skills/usage.py), the curator's passes over them                *)
(* (co_cli/skills/curator.py) and the session review after which the       *)
(* background task runs a pass (co_cli/main.py).                           *)
(*                                                                         *)
(* The background task, /skills curator run and whoever calls the skill    *)
(* tools take turns at awaits.  What runs between two awaits but writes    *)
(* more than one file is cut at the writes: "pending" holds what is left   *)
(* of it, nobody else runs before it is done, and an error or the end of   *)
(* the process may drop it.                                                *)
(*                                                                         *)
(* What skills say, what the agents make of them and how often they write  *)
(* is left open.  Time is counted in steps of which Interval, StaleAfter   *)
(* and ArchiveAfter give the thresholds.                                   *)
(***************************************************************************)
EXTENDS Integers, FiniteSets

CONSTANTS
    Names,         \* bound: skills
    MaxTime,       \* bound: time
    Interval,      \* curator_interval_hours
    StaleAfter,    \* CURATOR_STALE_AFTER_DAYS
    ArchiveAfter,  \* CURATOR_ARCHIVE_AFTER_DAYS
    Nudge,         \* review_nudge_interval
    None,          \* no record, no pass, never
    Garbled        \* a date that cannot be parsed

ASSUME SkillsAssumption ==
    /\ MaxTime \in Nat /\ Interval \in Nat
    /\ StaleAfter \in Nat /\ ArchiveAfter \in Nat
    /\ StaleAfter <= ArchiveAfter
    /\ Nudge \in Nat \ {0}

Time == 0..MaxTime
\* Who runs a pass: the background task, or the command.
Who == {"task", "command"}

VARIABLES
    now,
    tracking,    \* usage_tracking_enabled, of this process
    files,       \* the skills of user_skills_dir
    archived,    \* the skills of user_skills_dir/.archive
    rec,         \* the records of .usage.json
    pending,     \* what the section has left to do, per skill
    lastRun,     \* last_run_at of .curator_state.json
    paused,      \* paused of it
    iterations,  \* iterations_since_review, counted up to Nudge
    task,        \* background_review_task: none or done, or where it is
    pass,        \* when the pass that is consolidating began
    \* Not in the program:
    touched,     \* when a tool last noted that it created or viewed a skill
    astray,      \* skills a record may call archived although they are not
    alone,       \* when the last pass began that was by itself to its end
    unread       \* the state could not be read when the gate was last asked

library == <<files, archived, rec, pending, touched, astray>>
curator == <<lastRun, paused, pass, alone>>
vars == <<now, tracking, library, curator, unread, iterations, task>>

States == {"active", "stale", "archived"}
\* ref: last_used_at, or created_at as long as that is null.
Record == [state : States, pinned : BOOLEAN, ref : Time]
Fresh  == [state |-> "active", pinned |-> FALSE, ref |-> now]

ASSUME NoneAssumption ==
    /\ None \notin Nat /\ None \notin Record
    /\ None \notin {"record", "forget", "move"}
    /\ Garbled \notin Nat \cup {None}

\* Between sections.
Idle == pending = [n \in Names |-> None]

-----------------------------------------------------------------------------
(***************************************************************************)
(* The sidecar.                                                            *)
(***************************************************************************)
GetOrInit(n) == IF rec[n] = None THEN Fresh ELSE rec[n]

\* bump_view and bump_use; bump_patch touches no field the curator reads.
Bumped(n)  == [rec EXCEPT ![n] = [GetOrInit(n) EXCEPT !.ref = now]]
Patched(n) == [rec EXCEPT ![n] = GetOrInit(n)]

\* _enabled: with the tracking turned off no use, creation or deletion is noted.
IfTracked(records) == IF tracking THEN records ELSE rec
NoteTouch(n)   == touched' = IF tracking THEN [touched EXCEPT ![n] = now] ELSE touched

\* Seeded fault: a record left by an earlier skill of that name is kept.
CreatedKeeping(n) == Patched(n)

\* record_create
Created(n) == [rec EXCEPT ![n] = Fresh]

-----------------------------------------------------------------------------
(***************************************************************************)
(* The tools, called by the agent of a turn, a reviewer or a curator, and  *)
(* the commands; and what a person does to the directory.                  *)
(***************************************************************************)
\* skill_view of a user skill.  Its use as a command is no step of this module: the
\* dispatcher of /name notes nothing.
View(n) ==
    /\ Idle /\ n \in files
    /\ rec' = IfTracked(Bumped(n))
    /\ NoteTouch(n)
    /\ UNCHANGED <<now, tracking, unread, files, archived, pending, astray, curator,
                   iterations, task>>

\* skill_manage edit and patch; the content is left out.
Edit(n) ==
    /\ Idle /\ n \in files
    /\ rec' = IfTracked(Patched(n))
    /\ UNCHANGED <<now, tracking, unread, files, archived, pending, touched, astray,
                   curator, iterations, task>>

\* skill_manage create: the file, then the record.
Create(n) ==
    /\ Idle /\ n \notin files
    /\ files' = files \cup {n}
    /\ pending' = [pending EXCEPT ![n] = "record"]
    /\ UNCHANGED <<now, tracking, unread, archived, rec, touched, astray, curator, iterations,
                   task>>

\* skill_manage delete: the file, then the record.
Delete(n) ==
    /\ Idle /\ n \in files
    /\ files' = files \ {n}
    /\ pending' = [pending EXCEPT ![n] = "forget"]
    /\ UNCHANGED <<now, tracking, unread, archived, rec, touched, astray, curator,
                   iterations, task>>

\* A skill copied into the directory: no record is made.
CopyIn(n) ==
    /\ Idle /\ n \notin files
    /\ files' = files \cup {n}
    /\ astray' = astray \cup {n}
    /\ UNCHANGED <<now, tracking, unread, archived, rec, pending, touched, curator, iterations,
                   task>>

\* /skills pin and unpin
SetPinned(n, pinned) ==
    /\ Idle /\ n \in files
    /\ rec' = [rec EXCEPT ![n] = [GetOrInit(n) EXCEPT !.pinned = pinned]]
    /\ UNCHANGED <<now, tracking, unread, files, archived, pending, touched, astray,
                   curator, iterations, task>>

\* restore_skill: over a file of that name, and the record stays as it is.
Restore(n) ==
    /\ Idle /\ n \in archived
    /\ files' = files \cup {n}
    /\ archived' = archived \ {n}
    /\ astray' = astray \cup {n}
    /\ UNCHANGED <<now, tracking, unread, rec, pending, touched, curator, iterations, task>>

-----------------------------------------------------------------------------
(***************************************************************************)
(* The rest of a section.                                                  *)
(***************************************************************************)
Done(n) == pending' = [pending EXCEPT ![n] = None]

RecordCreate(n) ==
    /\ pending[n] = "record"
    /\ Done(n)
    /\ rec' = IfTracked(Created(n))
    /\ NoteTouch(n)
    /\ astray' = IF tracking THEN astray \ {n} ELSE astray \cup {n}
    /\ UNCHANGED <<now, tracking, unread, files, archived, curator, iterations, task>>

Forget(n) ==
    /\ pending[n] = "forget"
    /\ Done(n)
    /\ rec' = IfTracked([rec EXCEPT ![n] = None])
    /\ UNCHANGED <<now, tracking, unread, files, archived, touched, astray, curator,
                   iterations, task>>

\* archive_skill: over an archived file of that name; without a file there is
\* nothing to move.
Archive(n) ==
    /\ pending[n] = "move"
    /\ Done(n)
    /\ IF n \in files
       THEN /\ files' = files \ {n}
            /\ archived' = archived \cup {n}
       ELSE UNCHANGED <<files, archived>>
    /\ UNCHANGED <<now, tracking, unread, rec, touched, astray, curator, iterations, task>>

\* The write or the move raises: it is logged, and the section goes on.
Raise(n) ==
    /\ pending[n] # None
    /\ Done(n)
    /\ astray' = astray \cup {n}
    /\ UNCHANGED <<now, tracking, unread, files, archived, rec, touched, curator,
                   iterations, task>>

-----------------------------------------------------------------------------
(***************************************************************************)
(* The curator.                                                            *)
(***************************************************************************)
\* Seeded fault: a record that is stale is archived whenever it was used.
NextStateHasty(r) ==
    IF r.pinned THEN r.state
    ELSE CASE r.state = "stale"                                -> "archived"
           [] r.state = "active" /\ now - r.ref > StaleAfter   -> "stale"
           [] OTHER                                            -> r.state

\* apply_state_transitions, one record
NextState(r) ==
    IF r.pinned THEN r.state
    ELSE CASE r.state = "active" /\ now - r.ref > StaleAfter   -> "stale"
           [] r.state = "stale"  /\ now - r.ref > ArchiveAfter -> "archived"
           [] r.state = "stale"  /\ now - r.ref <= StaleAfter  -> "active"
           [] OTHER                                            -> r.state

Moves(n) == rec[n] # None /\ NextState(rec[n]) # rec[n].state
                          /\ NextState(rec[n]) = "archived"

\* Phase 1 of run_curator: the sidecar is written, then the files are moved.
\* The check for another curator follows before anything is awaited, so that
\* in one process it finds none; a state that could be read only once makes it end
\* the pass there, as TaskTimesOut and CommandInterrupted do.
Begin(who) ==
    /\ rec' = [n \in Names |-> IF rec[n] = None THEN None
                               ELSE [rec[n] EXCEPT !.state = NextState(rec[n])]]
    /\ pending' = [n \in Names |-> IF Moves(n) THEN "move" ELSE None]
    /\ pass' = [pass EXCEPT ![who] = now]
    /\ UNCHANGED <<now, tracking, unread, files, archived, touched, astray, lastRun, paused,
                   alone, iterations>>

\* Seeded fault: the state is saved only when the agent came to an end.
LastRunIfAnswered(who, answered) == IF answered THEN pass[who] ELSE lastRun

LastRun(who, answered) == pass[who]

\* Phase 2 is over, with what the agent answered or with an error, and
\* phase 3 saves when the pass began, and "paused" as read then: FALSE when the state
\* could not be read.
Save(who, answered) ==
    /\ Idle /\ pass[who] # None
    /\ lastRun' = LastRun(who, answered)
    /\ pass' = [pass EXCEPT ![who] = None]
    /\ paused' \in {paused, FALSE}
    /\ alone' = IF \A w \in Who \ {who} : pass[w] = None THEN pass[who] ELSE alone
    /\ UNCHANGED <<now, tracking, unread, library, iterations>>

\* /skills curator run waits for no gate, and nothing but the timeout of
\* phase 2 bounds it.
CommandBegins ==
    /\ Idle /\ pass["command"] = None
    /\ Begin("command")
    /\ UNCHANGED task

CommandEnds ==
    /\ \E answered \in BOOLEAN : Save("command", answered)
    /\ UNCHANGED task

\* Ctrl-C
CommandInterrupted ==
    /\ Idle /\ pass["command"] # None
    /\ pass' = [pass EXCEPT !["command"] = None]
    /\ UNCHANGED <<now, tracking, unread, library, lastRun, paused, alone, iterations, task>>

-----------------------------------------------------------------------------
(***************************************************************************)
(* The background task.                                                    *)
(***************************************************************************)
Counted(k) == IF iterations + k > Nudge THEN Nudge ELSE iterations + k

\* _post_turn_hook of a turn of k iterations: below the threshold, or with a
\* task at work.
PostTurnCounts(k) ==
    /\ Idle /\ pass["command"] = None
    /\ iterations' = Counted(k)
    /\ Counted(k) < Nudge \/ task # "none"
    /\ UNCHANGED <<now, tracking, unread, library, curator, task>>

PostTurnSpawns(k) ==
    /\ Idle /\ pass["command"] = None
    /\ Counted(k) = Nudge /\ task = "none"
    /\ iterations' = 0
    /\ task' = "reviewing"
    /\ UNCHANGED <<now, tracking, unread, library, curator>>

\* _curator_gate_passes
GatePasses(last, halted) ==
    \/ last = None
    \/ ~halted /\ (last = Garbled \/ now - last > Interval)

\* The review is over, or failed, or timed out after REVIEW_TIMEOUT_SECONDS.
\* A state that cannot be read is taken for that of a curator that never ran.
\* Behind the gate run_curator yields before it looks at anything.
ReviewEnds ==
    /\ Idle /\ task = "reviewing"
    /\ \/ /\ task' = IF GatePasses(lastRun, paused) THEN "passing" ELSE "none"
          /\ unread' = FALSE
       \/ /\ task' = IF GatePasses(None, FALSE) THEN "passing" ELSE "none"
          /\ unread' = TRUE
    /\ UNCHANGED <<now, tracking, library, curator, iterations>>

TaskBegins ==
    /\ Idle /\ task = "passing"
    /\ Begin("task")
    /\ task' = "curating"

TaskEnds ==
    /\ \E answered \in BOOLEAN : Save("task", answered)
    /\ task' = "none"

\* Seeded fault: no timeout around the curator.
TaskTimesOutNever == FALSE

\* The timeout around run_curator began before that of phase 2 and is as long:
\* it is this one that cancels, and phase 3 is skipped.
TaskTimesOut ==
    /\ Idle /\ task = "curating"
    /\ task' = "none"
    /\ pass' = [pass EXCEPT !["task"] = None]
    /\ UNCHANGED <<now, tracking, unread, library, lastRun, paused, alone, iterations>>

-----------------------------------------------------------------------------
Tick ==
    /\ Idle /\ now < MaxTime
    /\ now' = now + 1
    /\ UNCHANGED <<tracking, unread, library, curator, iterations, task>>

\* read_records finds no records in a file that it cannot read, and what is written
\* next goes on from there.
LoseRecords ==
    /\ Idle
    /\ rec' = [n \in Names |-> None]
    /\ UNCHANGED <<now, tracking, unread, files, archived, pending, touched, astray,
                   curator, iterations, task>>

\* Somebody edits .curator_state.json, or it is damaged: a file that is not an
\* object reads as one without a date.  No command sets "paused".
EditState ==
    /\ Idle
    /\ lastRun' \in {None, Garbled}
    /\ paused' \in BOOLEAN
    /\ alone' = None
    /\ UNCHANGED <<now, tracking, unread, library, pass, iterations, task>>

\* The process ends, here or in a section, and another one starts.
Restart ==
    /\ tracking' \in BOOLEAN
    /\ pending' = [n \in Names |-> None]
    /\ pass' = [w \in Who |-> None]
    /\ iterations' = 0
    /\ task' = "none"
    /\ astray' = astray \cup {n \in Names : pending[n] # None}
    /\ UNCHANGED <<now, unread, files, archived, rec, touched, lastRun, paused,
                   alone>>

Init ==
    /\ now = 0
    /\ tracking \in BOOLEAN
    /\ files \in SUBSET Names
    /\ archived = {}
    /\ rec = [n \in Names |-> None]
    /\ pending = [n \in Names |-> None]
    /\ lastRun = None
    /\ paused \in BOOLEAN
    /\ iterations = 0
    /\ task = "none"
    /\ pass = [w \in Who |-> None]
    /\ touched = [n \in Names |-> None]
    /\ astray = {}
    /\ alone = None
    /\ unread = FALSE

Section(n) == RecordCreate(n) \/ Forget(n) \/ Archive(n) \/ Raise(n)

Next ==
    \/ \E n \in Names :
          \/ View(n) \/ Edit(n) \/ Create(n) \/ Delete(n) \/ CopyIn(n)
          \/ \E pinned \in BOOLEAN : SetPinned(n, pinned)
          \/ Restore(n)
          \/ Section(n)
    \/ CommandBegins \/ CommandEnds \/ CommandInterrupted
    \/ \E k \in 1..Nudge : PostTurnCounts(k) \/ PostTurnSpawns(k)
    \/ ReviewEnds \/ TaskBegins \/ TaskEnds \/ TaskTimesOut
    \/ Tick \/ EditState \/ LoseRecords \/ Restart

\* A section runs on, the task gets its turns at the awaits of others, and its
\* timers go off.  The agents need not answer.
Fairness ==
    /\ WF_vars(\E n \in Names : Section(n))
    /\ SF_vars(ReviewEnds \/ TaskBegins \/ TaskTimesOut)

Spec == Init /\ [][Next]_vars /\ Fairness

-----------------------------------------------------------------------------
(***************************************************************************)
(* Properties.                                                             *)
(***************************************************************************)
\* The variables keep to their types, and the task has a pass of its own
\* exactly while it is curating.
TypeOK ==
    /\ now \in Time
    /\ files \subseteq Names /\ archived \subseteq Names
    /\ rec \in [Names -> Record \cup {None}]
    /\ pending \in [Names -> {"record", "forget", "move", None}]
    /\ lastRun \in Time \cup {None, Garbled} /\ paused \in BOOLEAN
    /\ iterations \in 0..Nudge
    /\ task \in {"none", "reviewing", "passing", "curating"}
    /\ pass \in [Who -> Time \cup {None}]
    /\ pass["task"] # None <=> task = "curating"
    /\ touched \in [Names -> Time \cup {None}]
    /\ astray \subseteq Names
    /\ alone \in Time \cup {None}
    /\ tracking \in BOOLEAN /\ unread \in BOOLEAN

\* A skill leaves for the archive only if it is not pinned and no creation or
\* view of it was noted for longer than ArchiveAfter, however its record came
\* about: of an earlier skill of that name, after a crash, a restoration, a time
\* without tracking.  It says nothing of use: /name is not noted, so that a skill used
\* daily as a command goes to the archive like one that is not used at all.
ArchivedWasIdle ==
    [][\A n \in archived' \ archived :
          /\ ~rec[n].pinned
          /\ touched[n] # None => now - touched[n] > ArchiveAfter]_vars

\* A record calls a skill archived that is not, so that no pass will ever look
\* at it again, only if it was restored, copied into the directory, created without
\* tracking, or a step on it failed or was cut off: not by creating, deleting and
\* archiving in whatever order.
ArchivedIsAway ==
    Idle => \A n \in files \ astray : rec[n] # None => rec[n].state # "archived"

\* The background task passes the gate only when the last pass that was by
\* itself to its end began more than an interval ago, unless the state could not be
\* read just then.  (A pass that was cut short leaves no trace, one of two at a time
\* may put back the date, and an edited state file starts anew.)
PassesAreSpaced ==
    [][(task # "passing" /\ task' = "passing" /\ ~unread') =>
          (alone # None => now - alone > Interval)]_vars

\* The background task ends, even when its agents never answer, so that the
\* next review is not kept waiting for ever.
TaskComesToEnd == task # "none" ~> task = "none"

=============================================================================
