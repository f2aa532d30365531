----------------------------- MODULE Background -----------------------------
(***************************************************************************)
(* One background task: spawn_task, the monitor that copies its output,    *)
(* and kill_task as the tools, /cancel and the shutdown drain call it      *)
(* (co_cli/tools/background.py, tools/shell_env.py, tools/tasks/control.py, *)
(* commands/cancel.py, main.py).                                           *)
(*                                                                         *)
(* The command runs in a shell that leads a process group.  Shell,         *)
(* children in the group and strays that left it may each hold the output  *)
(* pipe; the monitor sees the end of output when none does.  The event     *)
(* loop notices at once when the shell exits (returncode).                 *)
(***************************************************************************)
EXTENDS Naturals

CONSTANT Killers    \* calls of kill_task that may be under way together

Procs == {"leader", "child", "stray"}
Group == {"leader", "child"}

VARIABLES
    status,     \* state.status; "absent" before the task is registered
    process,    \* state.process is not None
    ended,      \* state.completed_at is set
    exitCode,   \* state.exit_code: "none", "zero", "error", or "killed" (-1)
    incomplete, \* state.cleanup_incomplete
    monitor,    \* state._monitor_task and where it is
    kill        \* where each call of kill_task is

\* The operating system.
VARIABLES
    alive,      \* processes of the task that run
    pipe,       \* of these, the ones that hold the output pipe
    stubborn,   \* processes that survive SIGTERM
    immortal,   \* processes that survive SIGKILL too
    doomed      \* processes that got a signal they will die of

stateVars == <<status, process, ended, exitCode, incomplete>>
osVars    == <<alive, pipe, stubborn, immortal, doomed>>
vars      == <<stateVars, monitor, kill, osVars>>

Init ==
    /\ status = "absent" /\ process = FALSE /\ ended = FALSE
    /\ exitCode = "none" /\ incomplete = FALSE
    /\ monitor = "none"
    /\ kill = [k \in Killers |-> "idle"]
    /\ alive = {} /\ pipe = {} /\ doomed = {}
    /\ stubborn \in SUBSET Group
    /\ immortal \in SUBSET stubborn

Exited == "leader" \notin alive     \* proc.returncode is not None
EOF    == pipe = {}
Active == {"created", "reading", "waiting", "closing"}

-----------------------------------------------------------------------------
(***************************************************************************)
(* The processes.                                                          *)
(***************************************************************************)
\* A running process q starts p, which inherits the pipe or not.
Fork(q, p, holds) ==
    /\ q \in alive \ doomed /\ p \notin alive
    /\ p = "stray" \/ (p = "child" /\ q \in Group)
    /\ holds => q \in pipe
    /\ alive' = alive \cup {p}
    /\ pipe' = IF holds THEN pipe \cup {p} ELSE pipe
    /\ UNCHANGED <<stateVars, monitor, kill, stubborn, immortal, doomed>>

CloseOutput(p) ==
    /\ p \in pipe
    /\ pipe' = pipe \ {p}
    /\ UNCHANGED <<stateVars, monitor, kill, alive, stubborn, immortal,
                   doomed>>

Dies(p) ==
    /\ p \in alive
    /\ alive' = alive \ {p} /\ pipe' = pipe \ {p} /\ doomed' = doomed \ {p}
    /\ UNCHANGED <<stateVars, monitor, kill, stubborn, immortal>>

\* os.killpg on the leader's group.
Signal(survivors) == doomed' = doomed \cup ((alive \cap Group) \ survivors)

-----------------------------------------------------------------------------
(***************************************************************************)
(* spawn_task.                                                             *)
(***************************************************************************)
Register ==
    /\ status = "absent"
    /\ status' = "running"
    /\ monitor' = "spawning"
    /\ UNCHANGED <<process, ended, exitCode, incomplete, kill, osVars>>

Spawned ==
    /\ monitor = "spawning"
    /\ process' = TRUE
    /\ monitor' = "created"
    /\ alive' = {"leader"} /\ pipe' = {"leader"}
    /\ UNCHANGED <<status, ended, exitCode, incomplete, kill, stubborn, immortal,
                   doomed>>

SpawnFails ==
    /\ monitor = "spawning"
    /\ status' = "failed" /\ exitCode' = "killed" /\ ended' = TRUE
    /\ monitor' = "none"
    /\ UNCHANGED <<process, incomplete, kill, osVars>>

\* The tool call is cancelled in create_subprocess_shell: the task stays
\* registered as running, without a process or a monitor.
SpawnCancelled ==
    /\ monitor = "spawning"
    /\ monitor' = "none"
    /\ UNCHANGED <<stateVars, kill, osVars>>

-----------------------------------------------------------------------------
(***************************************************************************)
(* _monitor.                                                               *)
(***************************************************************************)
MonitorMoves(from, to) ==
    /\ monitor = from
    /\ monitor' = to
    /\ UNCHANGED <<stateVars, kill, osVars>>

MonitorOpens  == MonitorMoves("created", "reading")
MonitorReads  == EOF /\ MonitorMoves("reading", "waiting")
MonitorWaits  == Exited /\ MonitorMoves("waiting", "closing")

\* The log cannot be opened or written, or a line exceeds the reader's limit:
\* the coroutine ends with the exception.
MonitorFails ==
    \E from \in {"created", "reading"} : MonitorMoves(from, "failed")

Released == process' = FALSE

MonitorPublishes ==
    /\ monitor = "closing"
    /\ exitCode' \in {"zero", "error"}
    /\ status' = IF exitCode' = "zero" THEN "completed" ELSE "failed"
    /\ ended' = TRUE
    /\ Released
    /\ monitor' = "done"
    /\ UNCHANGED <<incomplete, kill, osVars>>

Monitor == MonitorOpens \/ MonitorReads \/ MonitorWaits \/ MonitorPublishes

-----------------------------------------------------------------------------
(***************************************************************************)
(* kill_task.                                                              *)
(***************************************************************************)
\* Seeded fault: the callers do not look at the status.
CancellableAlways == status # "absent" /\ monitor # "spawning"

\* task_cancel, /cancel and the drain look at the status first; nothing names
\* a task while it is being spawned.
Cancellable == status = "running" /\ monitor # "spawning"

Goes(k, pos) == kill' = [kill EXCEPT ![k] = pos]

\* Seeded fault: the monitor is not waited for.
DrainNever == "closing"

\* Where kill_task goes once the process is gone: it waits for the monitor if
\* there is one that has not ended.
Drain == IF monitor \in Active THEN "draining" ELSE "closing"

\* The call starts: SIGTERM to the group, unless the shell has exited.
Cancel(k) ==
    /\ kill[k] = "idle" /\ Cancellable
    /\ incomplete' = FALSE
    /\ IF process /\ ~Exited
       THEN Signal(stubborn) /\ Goes(k, "grace")
       ELSE UNCHANGED doomed /\ Goes(k, IF process THEN "waiting" ELSE Drain)
    /\ UNCHANGED <<status, process, ended, exitCode, monitor, alive, pipe,
                   stubborn, immortal>>

\* 200 ms later: SIGKILL to the group, unless the shell has exited.
GraceEnds(k) ==
    /\ kill[k] = "grace"
    /\ IF Exited THEN UNCHANGED doomed ELSE Signal(immortal)
    /\ Goes(k, "waiting")
    /\ UNCHANGED <<stateVars, monitor, alive, pipe, stubborn, immortal>>

\* proc.wait() returns.
ProcessGone(k) ==
    /\ kill[k] = "waiting" /\ Exited
    /\ Goes(k, Drain)
    /\ UNCHANGED <<stateVars, monitor, osVars>>

\* BackgroundCleanupError: the status stays as it is.
GiveUp(k) ==
    /\ incomplete' = TRUE
    /\ ended' = TRUE
    /\ Goes(k, "idle")
    /\ UNCHANGED <<status, process, exitCode, monitor, osVars>>

\* Seeded fault: a process that does not exit is taken for gone.
WaitExpiredAsGone(k) ==
    /\ Goes(k, "closing")
    /\ UNCHANGED <<stateVars, monitor, osVars>>

WaitExpired(k) == GiveUp(k)

\* proc.wait() did not return within a second: the shell is alive, or, in
\* Pythons where wait() needs the pipe closed, somebody holds the pipe.
WaitTimeout(k) ==
    /\ kill[k] = "waiting" /\ (~Exited \/ ~EOF)
    /\ WaitExpired(k)

Drained(k) ==
    /\ kill[k] = "draining" /\ monitor = "done"
    /\ Goes(k, "closing")
    /\ UNCHANGED <<stateVars, monitor, osVars>>

\* The awaited monitor fails: its exception leaves kill_task.
DrainFails(k) ==
    /\ kill[k] = "draining" /\ monitor = "failed"
    /\ Goes(k, "idle")
    /\ UNCHANGED <<stateVars, monitor, osVars>>

\* Seeded fault: the wait is not shielded, so the timeout cancels the monitor.
DrainExpiredUnshielded(k) ==
    /\ incomplete' = TRUE /\ ended' = TRUE
    /\ Goes(k, "idle")
    /\ monitor' = "cancelled"
    /\ UNCHANGED <<status, process, exitCode, osVars>>

DrainExpired(k) == GiveUp(k)

\* The monitor did not end within a second.
DrainTimeout(k) ==
    /\ kill[k] = "draining" /\ monitor \in Active
    /\ DrainExpired(k)

\* The transport is closed, the task is published as cancelled.
Finish(k) ==
    /\ kill[k] = "closing"
    /\ status' = "cancelled" /\ exitCode' = "killed" /\ ended' = TRUE
    /\ Released
    /\ Goes(k, "idle")
    /\ UNCHANGED <<incomplete, monitor, osVars>>

\* The caller is cancelled (Ctrl-C) while kill_task awaits.
Interrupted(k) ==
    /\ kill[k] # "idle"
    /\ Goes(k, "idle")
    /\ UNCHANGED <<stateVars, monitor, osVars>>

\* Seeded fault: the wait for the monitor has no timeout.
KillerWithoutTimeout(k) ==
    GraceEnds(k) \/ ProcessGone(k) \/ WaitTimeout(k) \/ Drained(k)
        \/ DrainFails(k) \/ Finish(k)

Killer(k) ==
    GraceEnds(k) \/ ProcessGone(k) \/ WaitTimeout(k) \/ Drained(k)
        \/ DrainFails(k) \/ DrainTimeout(k) \/ Finish(k)

-----------------------------------------------------------------------------
Next ==
    \/ \E q, p \in Procs, holds \in BOOLEAN : Fork(q, p, holds)
    \/ \E p \in Procs : CloseOutput(p) \/ Dies(p)
    \/ Register \/ Spawned \/ SpawnFails \/ SpawnCancelled
    \/ Monitor \/ MonitorFails
    \/ \E k \in Killers : Cancel(k) \/ Killer(k) \/ Interrupted(k)

\* The event loop resumes what is ready and fires its timers.  Nothing is
\* assumed of the processes.
Fairness == WF_vars(Monitor) /\ \A k \in Killers : WF_vars(Killer(k))

Spec == Init /\ [][Next]_vars /\ Fairness

-----------------------------------------------------------------------------
(***************************************************************************)
(* Properties.                                                             *)
(***************************************************************************)
Reported == {"completed", "failed", "cancelled"}

\* The variables keep to their types, and a task holds on to its process
\* exactly until it is reported.
TypeOK ==
    /\ status \in {"absent", "running"} \cup Reported
    /\ process \in BOOLEAN /\ ended \in BOOLEAN /\ incomplete \in BOOLEAN
    /\ exitCode \in {"none", "zero", "error", "killed"}
    /\ monitor \in {"none", "spawning", "done", "failed"} \cup Active
    /\ kill \in [Killers -> {"idle", "grace", "waiting", "draining", "closing"}]
    /\ alive \subseteq Procs /\ pipe \subseteq alive
    /\ stubborn \subseteq Group /\ immortal \subseteq stubborn
    /\ doomed \subseteq alive
    /\ process => status = "running"

\* A task reported as cancelled has no shell running and nobody copying its
\* output, however the kill, a second kill, the monitor and an interrupt of
\* the caller interleave.
CancelledIsOver ==
    status = "cancelled" => Exited /\ monitor \notin Active

Idle    == \A k \in Killers : kill[k] = "idle"
Settled == status \in Reported /\ Idle
Overruled == status' = "cancelled" /\ ~Idle

\* What was reported stands: only a kill that was under way when the task
\* ended by itself turns the report into "cancelled", and once no kill is
\* under way none starts and the report is final.
ReportStands ==
    [][/\ status \in Reported => (status' = status \/ Overruled)
       /\ Settled => Settled']_vars

\* A kill always comes back to its caller, also when the shell survives the
\* signals or a stray keeps the pipe open.
KillEnds == \A k \in Killers : kill[k] # "idle" ~> kill[k] = "idle"

\* A task whose shell has exited and whose output has ended is reported, also
\* when kills gave up on it before, unless the monitor failed.
EndIsReported ==
    (monitor \in Active /\ Exited /\ EOF)
        ~> (status \in Reported \/ monitor = "failed")

-----------------------------------------------------------------------------
(***************************************************************************)
(* What the documentation says and the code does not do.                   *)
(***************************************************************************)
\* "kill_process_tree handles the process group so shell children do not
\* outlive the tracked background task" (kill_task): a child in the group that
\* is alive when the task is reported as cancelled is about to die.
NoChildOutlives ==
    status = "cancelled" => "child" \notin alive \ (doomed \cup immortal)

=============================================================================
