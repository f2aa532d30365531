----------------------------- MODULE ToolProofs -----------------------------
(***************************************************************************)
(* Safety of the tool calls: the cap on the calls of a response            *)
(* (ToolCallCap), the background tasks (Background) and what becomes of    *)
(* the results (ToolResults), for every value of their constants.          *)
(***************************************************************************)
EXTENDS Background, ToolCallCap, ToolResults, HistoryTheorems, FiniteSetTheorems, TLAPS

-----------------------------------------------------------------------------
(***************************************************************************)
(* The cap, for every Cap and every bound.                                 *)
(***************************************************************************)
\* What the two fields say about the running step: calls are counted at this
\* step only under its own number, and then the count is at least theirs.
CountCovers ==
    /\ limitStep # step => ranHere = 0 /\ rejected = {}
    /\ limitStep = step => ranHere <= count

\* Once a segment has counted calls at an earlier step, the count is that of
\* this segment alone.
CountExact ==
    earlier => /\ limitStep <= step
               /\ (limitStep = step /\ rejected = {}) => count <= ranHere

\* A request is made when no call waits for approval.
NoneWaiting == pc = "request" => deferred = {}

CapInv == CapTypeOK /\ NoneWaiting /\ CountCovers /\ CountExact /\ StepCapped
       /\ CarryOnlyAtStart

\* The initial state satisfies the invariant.
LEMMA CapInvInit == CapInit => CapInv
<1> SUFFICES ASSUME CapInit PROVE CapInv
  OBVIOUS
<1>1. earlier \in BOOLEAN
  BY DEF CapInit
<1>2. CapTypeOK /\ NoneWaiting
  BY <1>1 DEF CapInit, CapTypeOK, NoneWaiting
<1>3. CountCovers /\ CountExact /\ StepCapped /\ CarryOnlyAtStart
  BY CapAssumption DEF CapAssumption, CapInit, CountCovers, CountExact,
     StepCapped, CarryOnlyAtStart
<1> QED
  BY <1>2, <1>3 DEF CapInv

\* A segment starts with nothing counted at its step.
LEMMA SegmentStarts ==
    ASSUME CapInv, UNCHANGED runtime,
           ranHere' = 0, rejected' = {}, earlier' = FALSE
    PROVE  CountCovers' /\ CountExact' /\ StepCapped' /\ CarryOnlyAtStart'
  BY CapAssumption DEF CapAssumption, CapInv, CapTypeOK, CountCovers, CountExact,
     StepCapped, CarryOnlyAtStart, runtime

\* Counting a call keeps the count exact and never starts one over the cap.
LEMMA WrapKeeps ==
    ASSUME CapInv, NEW c \in Calls, Wrap(c)
    PROVE  CapInv'
<1>1. c \in issued
  BY DEF CapInv, CapTypeOK, Wrap
<1>2. Counted \in Nat /\ ranHere + 1 <= Counted
  BY DEF CapInv, CapTypeOK, CountCovers, Counted
<1>3. CapTypeOK'
  <2>1. CASE Over(Counted)
    BY <1>1, <1>2, <2>1 DEF CapInv, CapTypeOK, Wrap
  <2>2. CASE ~Over(Counted)
    <3>1. deferred' \in {deferred, deferred \cup {c}} /\ todo' = todo \ {c}
      BY <2>2 DEF Wrap
    <3>2. deferred' \subseteq issued' /\ todo' \subseteq issued' \ deferred'
      BY <1>1, <3>1 DEF CapInv, CapTypeOK, Wrap
    <3> QED
      BY <1>2, <2>2, <3>2 DEF CapInv, CapTypeOK, Wrap
  <2> QED
    BY <2>1, <2>2
<1>4. CountCovers' /\ StepCapped'
  BY <1>2, CapAssumption DEF CapAssumption, CapInv, CapTypeOK, CountCovers, StepCapped, Wrap,
     Over
<1>5. CountExact' /\ CarryOnlyAtStart'
  <2>1. CASE Over(Counted)
    <3>1. earlier /\ rejected = {} => Cap <= ranHere
      BY <2>1, CapAssumption
         DEF CapAssumption, CapInv, CapTypeOK, CountCovers, CountExact, Counted, Over
    <3>2. earlier => limitStep <= step
      BY DEF CapInv, CountExact
    <3>3. rejected' # {} /\ limitStep' = step' /\ ranHere' = ranHere
          /\ earlier' = earlier /\ step' = step
      BY <2>1 DEF Wrap
    <3> QED
      BY <3>1, <3>2, <3>3, CapAssumption
         DEF CapAssumption, CapInv, CapTypeOK, CountExact, CarryOnlyAtStart
  <2>2. CASE ~Over(Counted)
    <3>1. limitStep' = step /\ step' = step /\ earlier' = earlier
          /\ rejected' = rejected /\ ranHere' = ranHere + 1
          /\ count' = Counted
      BY <2>2 DEF Wrap
    <3>2. earlier /\ rejected = {} => Counted <= ranHere + 1
      BY DEF CapInv, CapTypeOK, CountCovers, CountExact, Counted
    <3> QED
      BY <3>1, <3>2, CapAssumption
         DEF CapAssumption, CapInv, CapTypeOK, CountExact, CarryOnlyAtStart
  <2> QED
    BY <2>1, <2>2
<1>6. NoneWaiting'
  BY DEF NoneWaiting, Wrap
<1> QED
  BY <1>3, <1>4, <1>5, <1>6 DEF CapInv

\* A response opens a step with a number the segment has not counted under.
LEMMA RespondKeeps ==
    ASSUME CapInv, NEW S \in SUBSET Calls, NEW G \in SUBSET S,
           NEW A \in SUBSET (S \ G), Respond(S, G, A)
    PROVE  CapInv'
<1>1. CapTypeOK'
  BY DEF CapInv, CapTypeOK, Respond, Started, runtime
<1>2. CountCovers' /\ StepCapped'
  BY CapAssumption DEF CapAssumption, CapInv, CapTypeOK, CountCovers, StepCapped,
     Respond, runtime
<1>3. earlier' => limitStep <= step
  BY DEF CapInv, CapTypeOK, CountCovers, CountExact, Respond
<1>4. CountExact' /\ CarryOnlyAtStart'
  BY <1>3 DEF CapInv, CapTypeOK, CountExact, CarryOnlyAtStart, Respond, runtime
<1>5. NoneWaiting'
  BY DEF NoneWaiting, Respond
<1> QED
  BY <1>1, <1>2, <1>4, <1>5 DEF CapInv

\* Every step keeps the invariant.
LEMMA CapInvNext == CapInv /\ [CapNext]_capVars => CapInv'
<1> SUFFICES ASSUME CapInv, [CapNext]_capVars
             PROVE  CapInv'
  OBVIOUS
<1>1. CASE StartTurn
  <2>1. earlier' \in BOOLEAN
    BY <1>1 DEF StartTurn, StartSegment
  <2>2. CapTypeOK' /\ NoneWaiting'
    BY <1>1, <2>1 DEF CapInv, CapTypeOK, NoneWaiting, StartTurn, StartSegment, runtime
  <2>3. UNCHANGED runtime /\ ranHere' = 0 /\ rejected' = {} /\ earlier' = FALSE
    BY <1>1 DEF StartTurn, StartSegment
  <2> QED
    BY <2>2, <2>3, SegmentStarts DEF CapInv
<1>2. CASE \E S \in SUBSET Calls : \E G \in SUBSET S : \E A \in SUBSET (S \ G) :
              S # {} /\ Respond(S, G, A)
  BY <1>2, RespondKeeps
<1>3. CASE \E c \in Calls : Wrap(c)
  BY <1>3, WrapKeeps
<1>4. CASE EndBatch
  BY <1>4 DEF CapInv, CapTypeOK, NoneWaiting, CountCovers, CountExact, StepCapped,
     CarryOnlyAtStart, EndBatch, runtime
<1>5. CASE \E ok \in SUBSET deferred : Resume(ok)
  <2>1. PICK ok \in SUBSET deferred : Resume(ok)
    BY <1>5
  <2>2. earlier' \in BOOLEAN
    BY <2>1 DEF Resume, StartSegment
  <2>3. CapTypeOK' /\ NoneWaiting'
    BY <2>1, <2>2 DEF CapInv, CapTypeOK, NoneWaiting, Resume, StartSegment, runtime
  <2>4. UNCHANGED runtime /\ ranHere' = 0 /\ rejected' = {} /\ earlier' = FALSE
    BY <2>1 DEF Resume, StartSegment
  <2> QED
    BY <2>3, <2>4, SegmentStarts DEF CapInv
<1>6. CASE Retry
  <2>1. earlier' \in BOOLEAN
    BY <1>6 DEF Retry, StartSegment
  <2>2. CapTypeOK' /\ NoneWaiting'
    BY <1>6, <2>1 DEF CapInv, CapTypeOK, NoneWaiting, Retry, StartSegment, runtime
  <2>3. UNCHANGED runtime /\ ranHere' = 0 /\ rejected' = {} /\ earlier' = FALSE
    BY <1>6 DEF Retry, StartSegment
  <2> QED
    BY <2>2, <2>3, SegmentStarts DEF CapInv
<1>7. CASE EndTurn
  BY <1>7 DEF CapInv, CapTypeOK, NoneWaiting, CountCovers, CountExact, StepCapped,
     CarryOnlyAtStart, EndTurn, runtime, turnVars
<1>8. CASE UNCHANGED capVars
  BY <1>8 DEF CapInv, CapTypeOK, NoneWaiting, CountCovers, CountExact, StepCapped,
     CarryOnlyAtStart, capVars, runtime, turnVars
<1> QED
  BY <1>1, <1>2, <1>3, <1>4, <1>5, <1>6, <1>7, <1>8 DEF CapNext

\* The variables of the cap keep to their types.
THEOREM CapTypeCorrect == CapSpec => []CapTypeOK
<1>1. CapInv => CapTypeOK
  BY DEF CapInv
<1> QED
  BY <1>1, CapInvInit, CapInvNext, PTL DEF CapSpec

\* No step of a segment starts more handlers than the cap: the count the
\* runtime carries over can only make it stricter.
THEOREM CapCorrect == CapSpec => []StepCapped
<1>1. CapInv => StepCapped
  BY DEF CapInv
<1> QED
  BY <1>1, CapInvInit, CapInvNext, PTL DEF CapSpec

\* A call is turned away early only in the first batch a segment counts.
THEOREM CarryOnlyAtStartCorrect == CapSpec => []CarryOnlyAtStart
<1>1. CapInv => CarryOnlyAtStart
  BY DEF CapInv
<1> QED
  BY <1>1, CapInvInit, CapInvNext, PTL DEF CapSpec

-----------------------------------------------------------------------------
(***************************************************************************)
(* A background task, for any number of overlapping kills.                 *)
(***************************************************************************)
Gone == Exited /\ monitor \notin Active \cup {"spawning"}

\* Where the task is in its life: before and while it is spawned there is no
\* process; a monitor at work has one, which it has seen exit when it closes.
Life ==
    /\ status = "absent" => monitor = "none" /\ Idle
    /\ monitor = "spawning" => status = "running" /\ ~process /\ Idle
    /\ monitor \in Active => process
    /\ ~process /\ monitor # "spawning" => Exited
    /\ monitor \in {"closing", "done"} => Exited
    /\ alive = {} \/ (status # "absent" /\ monitor # "spawning")

\* Where a kill is: it looks after the monitor once the shell has exited, and
\* publishes once the monitor has ended as well.
KillPosition ==
    \A k \in Killers : /\ kill[k] = "draining" => Exited
                       /\ kill[k] = "closing" => Gone

Inv == TypeOK /\ Life /\ KillPosition /\ CancelledIsOver

\* The operating system's steps: nothing of the program's state changes, and
\* an exited shell stays so.
OS == \/ \E q, p \in Procs, holds \in BOOLEAN : Fork(q, p, holds)
      \/ \E p \in Procs : CloseOutput(p) \/ Dies(p)

\* The initial state satisfies the invariant.
LEMMA InvInit == Init => Inv
<1> SUFFICES ASSUME Init PROVE Inv
  OBVIOUS
<1>1. process \in BOOLEAN /\ ended \in BOOLEAN /\ incomplete \in BOOLEAN
      /\ ~process
  BY DEF Init
<1>2. TypeOK
  BY <1>1 DEF Init, TypeOK, Procs, Group
<1>3. Idle /\ Exited
  BY DEF Init, Idle, Exited
<1>4. Life
  BY <1>1, <1>3 DEF Init, Life, Active
<1>5. KillPosition
  BY <1>3 DEF KillPosition, Idle
<1>6. CancelledIsOver
  BY DEF Init, CancelledIsOver
<1> QED
  BY <1>2, <1>4, <1>5, <1>6 DEF Inv

\* A step of the operating system keeps the invariant.
LEMMA OSKeeps == ASSUME Inv, OS PROVE Inv'
<1>1. UNCHANGED <<stateVars, monitor, kill, stubborn, immortal>>
  BY DEF OS, Fork, CloseOutput, Dies
<1>2. Exited => Exited'
  BY DEF OS, Fork, CloseOutput, Dies, Exited, Procs, Group
<1>3. alive' \subseteq Procs /\ pipe' \subseteq alive' /\ doomed' \subseteq alive'
  <2>1. CASE \E q, p \in Procs, holds \in BOOLEAN : Fork(q, p, holds)
    BY <2>1 DEF Inv, TypeOK, Fork
  <2>2. CASE \E p \in Procs : CloseOutput(p)
    BY <2>2 DEF Inv, TypeOK, CloseOutput
  <2>3. CASE \E p \in Procs : Dies(p)
    BY <2>3 DEF Inv, TypeOK, Dies
  <2> QED
    BY <2>1, <2>2, <2>3 DEF OS
<1>4. alive = {} => alive' = {}
  BY DEF OS, Fork, CloseOutput, Dies
<1>5. TypeOK'
  BY <1>1, <1>3 DEF Inv, TypeOK, stateVars
<1>6. Life'
  BY <1>1, <1>2, <1>4 DEF Inv, Life, Idle, stateVars
<1>7. KillPosition' /\ CancelledIsOver'
  BY <1>1, <1>2 DEF Inv, KillPosition, Gone, CancelledIsOver, stateVars
<1> QED
  BY <1>5, <1>6, <1>7 DEF Inv

\* Spawning keeps the invariant.
LEMMA SpawnKeeps ==
    ASSUME Inv, Register \/ Spawned \/ SpawnFails \/ SpawnCancelled
    PROVE  Inv'
<1> USE DEF Inv, TypeOK, Life, KillPosition, CancelledIsOver, Gone, Idle,
            Exited, Active, Reported, Procs, stateVars, osVars
<1>1. CASE Register
  BY <1>1 DEF Register
<1>2. CASE Spawned
  BY <1>2 DEF Spawned
<1>3. CASE SpawnFails
  BY <1>3 DEF SpawnFails
<1>4. CASE SpawnCancelled
  BY <1>4 DEF SpawnCancelled
<1> QED
  BY <1>1, <1>2, <1>3, <1>4

\* A step of the monitor keeps the invariant.
LEMMA MonitorKeeps ==
    ASSUME Inv, Monitor \/ MonitorFails
    PROVE  Inv'
<1> USE DEF Inv, TypeOK, Life, KillPosition, CancelledIsOver, Gone, Idle,
            Exited, Active, Reported, Procs, stateVars, osVars
<1>1. CASE MonitorOpens \/ MonitorReads \/ MonitorWaits
  BY <1>1 DEF MonitorOpens, MonitorReads, MonitorWaits, MonitorMoves
<1>2. CASE MonitorFails
  BY <1>2 DEF MonitorFails, MonitorMoves
<1>3. CASE MonitorPublishes
  BY <1>3 DEF MonitorPublishes, Released
<1> QED
  BY <1>1, <1>2, <1>3 DEF Monitor

\* Where a kill goes when the shell has exited is right for it.
LEMMA DrainRight ==
    ASSUME Inv, Exited, monitor # "spawning"
    PROVE  /\ Drain \in {"draining", "closing"}
           /\ Drain = "closing" => Gone
  BY DEF Drain, Gone, Active

\* A step of a kill keeps the invariant.
LEMMA KillKeeps ==
    ASSUME Inv, NEW k \in Killers, Cancel(k) \/ Killer(k) \/ Interrupted(k)
    PROVE  Inv'
<1> DEFINE KillStates == {"idle", "grace", "waiting", "draining", "closing"}
<1>1. monitor # "spawning" /\ status # "absent"
  BY DEF Inv, Life, Idle, Cancel, Cancellable, Killer, GraceEnds, ProcessGone,
     WaitTimeout, Drained, DrainFails, DrainTimeout, Finish, Interrupted
<1>2. UNCHANGED <<monitor, alive, pipe, stubborn, immortal>>
  BY DEF Cancel, Killer, GraceEnds, ProcessGone, WaitTimeout, WaitExpired,
     Drained, DrainFails, DrainTimeout, DrainExpired, GiveUp, Finish,
     Interrupted, osVars
<1>3. /\ incomplete' \in BOOLEAN /\ ended' \in BOOLEAN
      /\ doomed' \subseteq alive
  <2>1. CASE Cancel(k)
    BY <2>1 DEF Cancel, Signal, Inv, TypeOK
  <2>2. CASE GraceEnds(k)
    BY <2>2 DEF GraceEnds, Signal, stateVars, Inv, TypeOK
  <2>3. CASE \/ ProcessGone(k) \/ WaitTimeout(k) \/ Drained(k)
             \/ DrainFails(k) \/ DrainTimeout(k) \/ Finish(k)
             \/ Interrupted(k)
    BY <2>3 DEF ProcessGone, WaitTimeout, WaitExpired, Drained, DrainFails,
       DrainTimeout, DrainExpired, GiveUp, Finish, Interrupted, stateVars,
       osVars, Inv, TypeOK
  <2> QED
    BY <2>1, <2>2, <2>3 DEF Killer
<1>4. PICK pos \in KillStates :
         /\ Goes(k, pos)
         /\ pos = "draining" => Exited
         /\ pos = "closing" => Gone
  <2>1. CASE Cancel(k)
    <3>1. CASE process /\ ~Exited
      BY <2>1, <3>1 DEF Cancel
    <3>2. CASE process /\ Exited
      BY <2>1, <3>2 DEF Cancel
    <3>3. CASE ~process
      <4>1. Exited
        BY <1>1, <3>3 DEF Inv, Life
      <4>2. Goes(k, Drain)
        BY <2>1, <3>3 DEF Cancel
      <4> QED
        BY <1>1, <4>1, <4>2, DrainRight
    <3> QED
      BY <3>1, <3>2, <3>3
  <2>2. CASE ProcessGone(k)
    <3>1. Exited /\ Goes(k, Drain)
      BY <2>2 DEF ProcessGone
    <3> QED
      BY <1>1, <3>1, DrainRight
  <2>3. CASE Drained(k)
    <3>1. kill[k] = "draining" /\ monitor = "done" /\ Goes(k, "closing")
      BY <2>3 DEF Drained
    <3>2. Gone
      BY <3>1 DEF Inv, Life, Gone, Active
    <3> QED
      BY <3>1, <3>2
  <2>4. CASE GraceEnds(k) \/ WaitTimeout(k) \/ DrainFails(k)
             \/ DrainTimeout(k) \/ Finish(k) \/ Interrupted(k)
    <3>1. Goes(k, "waiting") \/ Goes(k, "idle")
      BY <2>4 DEF GraceEnds, WaitTimeout, WaitExpired, DrainFails,
         DrainTimeout, DrainExpired, GiveUp, Finish, Interrupted
    <3> QED
      BY <3>1
  <2> QED
    BY <2>1, <2>2, <2>3, <2>4 DEF Killer
<1>5. /\ kill' \in [Killers -> KillStates]
      /\ kill'[k] = pos /\ \A j \in Killers : j # k => kill'[j] = kill[j]
  BY <1>4 DEF Goes, Inv, TypeOK
<1>6. \/ UNCHANGED <<status, process, exitCode>>
      \/ /\ Gone
         /\ status' = "cancelled" /\ process' = FALSE /\ exitCode' = "killed"
  <2>1. CASE Finish(k)
    BY <2>1 DEF Finish, Released, Inv, KillPosition
  <2>2. CASE ~Finish(k)
    BY <2>2 DEF Cancel, Killer, GraceEnds, ProcessGone, WaitTimeout,
       WaitExpired, Drained, DrainFails, DrainTimeout, DrainExpired, GiveUp,
       Interrupted, stateVars
  <2> QED
    BY <2>1, <2>2
<1>7. TypeOK'
  <2>1. process' \in BOOLEAN /\ (process' => status' = "running")
    <3>1. CASE UNCHANGED <<status, process, exitCode>>
      BY <3>1 DEF Inv, TypeOK
    <3>2. CASE process' = FALSE
      BY <3>2
    <3> QED
      BY <1>6, <3>1, <3>2
  <2>2. /\ status' \in {"absent", "running"} \cup Reported
        /\ exitCode' \in {"none", "zero", "error", "killed"}
    BY <1>6 DEF Inv, TypeOK, Reported
  <2>3. /\ monitor' \in {"none", "spawning", "done", "failed"} \cup Active
        /\ alive' \subseteq Procs /\ pipe' \subseteq alive'
        /\ stubborn' \subseteq Group /\ immortal' \subseteq stubborn'
        /\ doomed' \subseteq alive'
    BY <1>2, <1>3 DEF Inv, TypeOK
  <2> QED
    BY <1>3, <1>5, <2>1, <2>2, <2>3 DEF TypeOK
<1>8. Life'
  BY <1>1, <1>2, <1>6 DEF Inv, Life, Gone, Exited
<1>9. KillPosition'
  BY <1>2, <1>4, <1>5 DEF Inv, KillPosition, Gone, Exited
<1>10. CancelledIsOver'
  BY <1>2, <1>6 DEF Inv, CancelledIsOver, Gone, Exited
<1> QED
  BY <1>7, <1>8, <1>9, <1>10 DEF Inv

\* Every step keeps the invariant.
LEMMA InvNext == Inv /\ [Next]_vars => Inv'
<1> SUFFICES ASSUME Inv, [Next]_vars
             PROVE  Inv'
  OBVIOUS
<1>1. CASE OS
  BY <1>1, OSKeeps
<1>2. CASE Register \/ Spawned \/ SpawnFails \/ SpawnCancelled
  BY <1>2, SpawnKeeps
<1>3. CASE Monitor \/ MonitorFails
  BY <1>3, MonitorKeeps
<1>4. CASE \E k \in Killers : Cancel(k) \/ Killer(k) \/ Interrupted(k)
  BY <1>4, KillKeeps
<1>5. CASE UNCHANGED vars
  BY <1>5 DEF vars, stateVars, osVars, Inv, TypeOK, Life, KillPosition, Gone,
     CancelledIsOver, Idle, Exited
<1> QED
  BY <1>1, <1>2, <1>3, <1>4, <1>5 DEF Next, OS

\* A report is overruled only by a kill under way, and stands for good once
\* there is none.
LEMMA ReportKept ==
    ASSUME Inv, [Next]_vars
    PROVE  /\ status \in Reported => (status' = status \/ Overruled)
           /\ Settled => Settled'
<1> SUFFICES ASSUME status \in Reported
             PROVE  /\ status' = status \/ Overruled
                    /\ Idle => Idle' /\ status' = status
  BY DEF Settled
<1>1. status \notin {"absent", "running"}
  BY DEF Reported
<1>2. ~process /\ monitor \notin Active \cup {"spawning"}
  BY <1>1 DEF Inv, TypeOK, Life
<1>3. CASE OS
  BY <1>3 DEF OS, Fork, CloseOutput, Dies, stateVars, Idle
<1>4. CASE Register \/ Spawned \/ SpawnFails \/ SpawnCancelled
  BY <1>1, <1>2, <1>4 DEF Register, Spawned, SpawnFails, SpawnCancelled
<1>5. CASE Monitor \/ MonitorFails
  BY <1>2, <1>5 DEF Monitor, MonitorOpens, MonitorReads, MonitorWaits,
     MonitorFails, MonitorMoves, MonitorPublishes, Active
<1>6. ASSUME NEW k \in Killers, Cancel(k) \/ Killer(k) \/ Interrupted(k)
      PROVE  ~Idle /\ (status' = status \/ status' = "cancelled")
  <2>1. ~Cancel(k)
    BY <1>1 DEF Cancel, Cancellable
  <2> QED
    BY <1>6, <2>1 DEF Killer, GraceEnds, ProcessGone, WaitTimeout, WaitExpired,
       Drained, DrainFails, DrainTimeout, DrainExpired, GiveUp, Finish,
       Interrupted, stateVars, Idle
<1>7. CASE UNCHANGED vars
  BY <1>7 DEF vars, stateVars, Idle
<1> QED
  BY <1>3, <1>4, <1>5, <1>6, <1>7 DEF Next, OS, Overruled

\* The variables of a background task keep to their types.
THEOREM BackgroundTypeCorrect == Spec => []TypeOK
<1>1. Inv => TypeOK
  BY DEF Inv
<1> QED
  BY <1>1, InvInit, InvNext, PTL DEF Spec

\* A task reported as cancelled has no shell running and no monitor at work,
\* for any number of overlapping and interrupted kills.
THEOREM CancelCorrect == Spec => []CancelledIsOver
<1>1. Inv => CancelledIsOver
  BY DEF Inv
<1> QED
  BY <1>1, InvInit, InvNext, PTL DEF Spec

\* The report of a task stands: only a kill that was under way when the task
\* ended by itself overrules it.
THEOREM ReportCorrect == Spec => ReportStands
<1>1. Inv /\ [Next]_vars =>
        [/\ status \in Reported => (status' = status \/ Overruled)
         /\ Settled => Settled']_vars
  BY ReportKept
<1> QED
  BY <1>1, InvInit, InvNext, PTL DEF Spec, ReportStands

-----------------------------------------------------------------------------
(***************************************************************************)
(* The results in the list, for every size, bound and tool.                *)
(***************************************************************************)
Returned == [tool : Tools, turn : 1 .. MaxTurns]

\* The returns there were, by turn; what is left of them, and what a compaction
\* dropped and an overflow stripped.
ReturnsOK ==
    /\ all \in Seq(Returned) /\ Len(all) <= MaxReturns
    /\ turn \in 1 .. MaxTurns
    /\ spoken \in BOOLEAN /\ head \in 0 .. Len(list) /\ (~spoken => head = 0)
    /\ stripped \subseteq Ids /\ dropped \subseteq 1 .. Len(all)
    /\ \A m \in 1 .. Len(all) : all[m].turn <= turn
    /\ \A m, n \in 1 .. Len(all) : m < n => all[m].turn <= all[n].turn

\* A list of returns there were, in their order.
Paired(l) ==
    /\ l \in Seq(Return)
    /\ \A i, j \in 1 .. Len(l) : i < j => l[i].id < l[j].id
    /\ \A i \in 1 .. Len(l) :
          /\ l[i].id \in 1 .. Len(all) /\ l[i].id \notin dropped
          /\ l[i].tool = all[l[i].id].tool /\ l[i].turn = all[l[i].id].turn

\* The return a reference names, and of the same tool.
Target(l, i, j) ==
    /\ j > i /\ l[j].id = l[i].to /\ l[j].tool = l[i].tool
    /\ l[j].v = l[i].v /\ l[j].kind # "cleared"

Lead(l) ==
    \A i \in 1 .. Len(l) : l[i].kind = "ref" =>
        IF l[i].to \in dropped THEN i <= head
        ELSE \E j \in 1 .. Len(l) : Target(l, i, j)

\* Returns of the tool of return n after it, up to the last turn.
Since(n) ==
    {m \in 1 .. Len(all) : m > n /\ all[m].turn < turn /\ all[m].tool = all[n].tool}

Recent(n) ==
    all[n].turn = turn \/ all[n].tool \in OtherTools \/ Cardinality(Since(n)) < Keep

Readable(l) ==
    \A i \in 1 .. Len(l) :
        l[i].kind = "cleared" => l[i].id \in stripped \/ ~Recent(l[i].id)

ResultsInv == ReturnsOK /\ Paired(list) /\ Lead(list) /\ Readable(list)

\* k has the returns of l, in whatever form.
Same(l, k) ==
    /\ k \in Seq(Return) /\ Len(k) = Len(l)
    /\ \A i \in 1 .. Len(l) : /\ k[i].id = l[i].id /\ k[i].tool = l[i].tool
                              /\ k[i].v = l[i].v /\ k[i].turn = l[i].turn

\* What has the returns of a paired list is paired.
LEMMA PairedSame ==
    ASSUME NEW l, Paired(l), NEW k, Same(l, k)
    PROVE  Paired(k)
BY DEF Paired, Same

\* The facts about one element of a list of returns.
LEMMA ReturnType ==
    ASSUME NEW l \in Seq(Return)
    PROVE  /\ Len(l) \in Nat /\ DOMAIN l = 1 .. Len(l)
           /\ \A i \in 1 .. Len(l) :
                 /\ l[i] \in Return
                 /\ l[i].id \in Ids /\ l[i].tool \in Tools /\ l[i].v \in Values
                 /\ l[i].turn \in 1 .. MaxTurns /\ l[i].to \in Ids \cup {0}
                 /\ l[i].kind \in {"full", "spilled", "ref", "cleared"}
<1>1. \A i \in 1 .. Len(l) : l[i] \in Return
  BY ElementOfSeq
<1> QED
  BY <1>1, LenProperties DEF Return

\* A list element by element made of another is a list of returns.
LEMMA RewriteType ==
    ASSUME NEW l \in Seq(Return), NEW k, k \in [1 .. Len(l) -> Return]
    PROVE  k \in Seq(Return) /\ Len(k) = Len(l) /\ DOMAIN k = 1 .. Len(k)
<1>1. Len(l) \in Nat
  BY LenProperties
<1> QED
  BY <1>1, SeqDef, LenProperties

\* What the processors make of one return is a return.
LEMMA FormType ==
    ASSUME NEW r \in Return, NEW s \in Return
    PROVE  /\ Reference(r, s) \in Return /\ Cleared(r) \in Return /\ Spilled(r) \in Return
           /\ Reference(r, s).id = r.id /\ Reference(r, s).tool = r.tool
           /\ Reference(r, s).v = r.v /\ Reference(r, s).turn = r.turn
           /\ Reference(r, s).kind = "ref" /\ Reference(r, s).to = s.id
           /\ Cleared(r).id = r.id /\ Cleared(r).tool = r.tool
           /\ Cleared(r).v = r.v /\ Cleared(r).turn = r.turn
           /\ Cleared(r).kind = "cleared"
           /\ Spilled(r).id = r.id /\ Spilled(r).tool = r.tool
           /\ Spilled(r).v = r.v /\ Spilled(r).turn = r.turn
           /\ Spilled(r).kind = "spilled" /\ Spilled(r).to = r.to
<1>1. Reference(r, s) \in Return
  BY DEF Reference, Return
<1>2. Cleared(r) \in Return
  BY DEF Cleared, Return
<1>3. Spilled(r) \in Return
  BY DEF Spilled, Return
<1>4. /\ Reference(r, s).id = r.id /\ Reference(r, s).tool = r.tool
      /\ Reference(r, s).v = r.v /\ Reference(r, s).turn = r.turn
      /\ Reference(r, s).kind = "ref" /\ Reference(r, s).to = s.id
  BY DEF Reference, Return
<1>5. /\ Cleared(r).id = r.id /\ Cleared(r).tool = r.tool
      /\ Cleared(r).v = r.v /\ Cleared(r).turn = r.turn
      /\ Cleared(r).kind = "cleared"
  BY DEF Cleared, Return
<1>6. /\ Spilled(r).id = r.id /\ Spilled(r).tool = r.tool
      /\ Spilled(r).v = r.v /\ Spilled(r).turn = r.turn
      /\ Spilled(r).kind = "spilled" /\ Spilled(r).to = r.to
  BY DEF Spilled, Return
<1> QED
  BY <1>1, <1>2, <1>3, <1>4, <1>5, <1>6

\* The latest copy of a candidate is at it or behind it, and has the same key.
LEMMA LatestCopyType ==
    ASSUME NEW l \in Seq(Return), NEW i \in 1 .. Len(l), Candidate(l[i])
    PROVE  /\ LatestCopy(l, i) \in 1 .. Len(l) /\ LatestCopy(l, i) >= i
           /\ Candidate(l[LatestCopy(l, i)]) /\ SameKey(l[i], l[LatestCopy(l, i)])
           /\ LatestCopy(l, LatestCopy(l, i)) = LatestCopy(l, i)
<1>1. Len(l) \in Nat /\ DOMAIN l = 1 .. Len(l)
  BY ReturnType
<1> DEFINE C == Copies(l, i)
           k == LatestCopy(l, i)
<1>2. C \in SUBSET (1 .. Len(l)) /\ i \in C
  BY <1>1 DEF Copies, SameKey
<1>3. k \in C /\ \A x \in C : k >= x
  <2>1. \E y \in C : \A x \in C : y >= x
    <3> HIDE DEF C
    <3> QED
      BY <1>1, <1>2, GreatestIsOne
  <2> QED
    BY <2>1 DEF LatestCopy
<1>4. k \in 1 .. Len(l) /\ Candidate(l[k]) /\ SameKey(l[i], l[k])
  BY <1>1, <1>3 DEF Copies
<1>5. Copies(l, k) = C
  BY <1>4 DEF Copies, SameKey
<1>6. LatestCopy(l, k) = k
  BY <1>5 DEF LatestCopy
<1> QED
  BY <1>2, <1>3, <1>4, <1>6

\* dedup_tool_results: references lead to returns that stay as they are.
LEMMA DedupKeeps ==
    ASSUME NEW l, Paired(l), Lead(l), Readable(l)
    PROVE  /\ Len(Dedup(l)) = Len(l)
           /\ Paired(Dedup(l)) /\ Lead(Dedup(l)) /\ Readable(Dedup(l))
<1> DEFINE Refers(i) == /\ i \in Older(l) /\ Candidate(l[i])
                        /\ LatestCopy(l, i) # i /\ Durable(l, LatestCopy(l, i))
           k == Dedup(l)
<1>1. l \in Seq(Return)
  BY DEF Paired
<1>2. /\ Len(l) \in Nat /\ DOMAIN l = 1 .. Len(l)
      /\ \A i \in 1 .. Len(l) : l[i] \in Return
  BY <1>1, ReturnType
<1>3. k = [i \in 1 .. Len(l) |->
              IF Refers(i) THEN Reference(l[i], l[LatestCopy(l, i)]) ELSE l[i]]
  BY <1>2 DEF Dedup
<1>4. \A i \in 1 .. Len(l) : Refers(i) =>
          /\ LatestCopy(l, i) \in 1 .. Len(l) /\ LatestCopy(l, i) > i
          /\ l[LatestCopy(l, i)] \in Return
          /\ l[i].tool = l[LatestCopy(l, i)].tool /\ l[i].v = l[LatestCopy(l, i)].v
          /\ l[LatestCopy(l, i)].kind \in {"full", "spilled"}
          /\ ~Refers(LatestCopy(l, i))
  <2> SUFFICES ASSUME NEW i \in 1 .. Len(l), Refers(i)
               PROVE  /\ LatestCopy(l, i) \in 1 .. Len(l) /\ LatestCopy(l, i) > i
                      /\ l[LatestCopy(l, i)] \in Return
                      /\ l[i].tool = l[LatestCopy(l, i)].tool
                      /\ l[i].v = l[LatestCopy(l, i)].v
                      /\ l[LatestCopy(l, i)].kind \in {"full", "spilled"}
                      /\ ~Refers(LatestCopy(l, i))
    BY Zenon
  <2>1. /\ LatestCopy(l, i) \in 1 .. Len(l) /\ LatestCopy(l, i) >= i
        /\ Candidate(l[LatestCopy(l, i)]) /\ SameKey(l[i], l[LatestCopy(l, i)])
        /\ LatestCopy(l, LatestCopy(l, i)) = LatestCopy(l, i)
    BY <1>1, LatestCopyType
  <2>2. LatestCopy(l, i) > i
    BY <1>2, <2>1
  <2>3. ~Refers(LatestCopy(l, i))
    BY <2>1
  <2> QED
    BY <1>2, <2>1, <2>2, <2>3 DEF SameKey, Candidate
<1> HIDE DEF Refers, k
<1>5. \A i \in 1 .. Len(l) :
          /\ k[i] \in Return
          /\ k[i].id = l[i].id /\ k[i].tool = l[i].tool
          /\ k[i].v = l[i].v /\ k[i].turn = l[i].turn
          /\ Refers(i) => k[i].kind = "ref" /\ k[i].to = l[LatestCopy(l, i)].id
          /\ ~Refers(i) => k[i] = l[i]
  <2> SUFFICES ASSUME NEW i \in 1 .. Len(l)
               PROVE  /\ k[i] \in Return
                      /\ k[i].id = l[i].id /\ k[i].tool = l[i].tool
                      /\ k[i].v = l[i].v /\ k[i].turn = l[i].turn
                      /\ Refers(i) => k[i].kind = "ref" /\ k[i].to = l[LatestCopy(l, i)].id
                      /\ ~Refers(i) => k[i] = l[i]
    BY Zenon
  <2>1. CASE Refers(i)
    <3> DEFINE s == l[LatestCopy(l, i)]
    <3>1. s \in Return /\ l[i] \in Return
      BY <1>2, <1>4, <2>1
    <3>2. k[i] = Reference(l[i], s)
      BY <1>3, <2>1
    <3> HIDE DEF s
    <3>3. /\ k[i] \in Return
          /\ k[i].id = l[i].id /\ k[i].tool = l[i].tool
          /\ k[i].v = l[i].v /\ k[i].turn = l[i].turn
          /\ k[i].kind = "ref" /\ k[i].to = s.id
      BY <3>1, <3>2, FormType
    <3> QED
      BY <2>1, <3>3 DEF s
  <2>2. CASE ~Refers(i)
    BY <1>2, <1>3, <2>2
  <2> QED
    BY <2>1, <2>2
<1>6. k \in [1 .. Len(l) -> Return]
  BY <1>3, <1>5
<1>7. k \in Seq(Return) /\ Len(k) = Len(l)
  BY <1>1, <1>6, RewriteType
<1>8. Paired(k)
  <2>1. Same(l, k)
    BY <1>5, <1>7 DEF Same
  <2> QED
    BY <2>1, PairedSame
<1>9. Lead(k)
  <2> SUFFICES ASSUME NEW i \in 1 .. Len(l), k[i].kind = "ref"
               PROVE  IF k[i].to \in dropped THEN i <= head
                      ELSE \E j \in 1 .. Len(l) : Target(k, i, j)
    BY <1>7 DEF Lead
  <2>1. CASE Refers(i)
    <3> DEFINE j == LatestCopy(l, i)
    <3>1. /\ j \in 1 .. Len(l) /\ j > i /\ l[i].tool = l[j].tool /\ l[i].v = l[j].v
          /\ l[j].kind \in {"full", "spilled"} /\ ~Refers(j)
      BY <1>4, <2>1
    <3>2. k[i].to = l[j].id
      BY <1>5, <2>1
    <3> HIDE DEF j
    <3>3. k[j] = l[j] /\ k[i].tool = l[i].tool /\ k[i].v = l[i].v
      BY <1>5, <3>1
    <3>4. Target(k, i, j)
      BY <3>1, <3>2, <3>3 DEF Target
    <3>5. k[i].to \notin dropped
      BY <3>1, <3>2 DEF Paired
    <3> QED
      BY <3>1, <3>4, <3>5
  <2>2. CASE ~Refers(i)
    <3>1. k[i] = l[i]
      BY <1>5, <2>2
    <3>2. CASE k[i].to \in dropped
      BY <3>1, <3>2 DEF Lead
    <3>3. CASE k[i].to \notin dropped
      <4>1. PICK j \in 1 .. Len(l) : Target(l, i, j)
        BY <3>1, <3>3 DEF Lead
      <4>2. Target(k, i, j)
        <5>1. k[j].kind # "cleared"
          BY <1>5, <4>1 DEF Target
        <5> QED
          BY <1>5, <3>1, <4>1, <5>1 DEF Target
      <4> QED
        BY <3>3, <4>2
    <3> QED
      BY <3>2, <3>3
  <2> QED
    BY <2>1, <2>2
<1>10. Readable(k)
  <2> SUFFICES ASSUME NEW i \in 1 .. Len(l), k[i].kind = "cleared"
               PROVE  k[i].id \in stripped \/ ~Recent(k[i].id)
    BY <1>7 DEF Readable
  <2>1. k[i] = l[i]
    BY <1>5
  <2> QED
    BY <2>1 DEF Readable
<1> QED
  BY <1>7, <1>8, <1>9, <1>10 DEF k

\* Who is later of a tool is counted, and is among the returns since.
LEMMA LaterCounted ==
    ASSUME NEW l, Paired(l), ReturnsOK, NEW i \in 1 .. Len(l)
    PROVE  /\ IsFiniteSet(LaterOfTool(l, i)) /\ Cardinality(LaterOfTool(l, i)) \in Nat
           /\ IsFiniteSet(Since(l[i].id)) /\ Cardinality(Since(l[i].id)) \in Nat
           /\ Cardinality(LaterOfTool(l, i)) <= Cardinality(Since(l[i].id))
<1>1. l \in Seq(Return) /\ all \in Seq(Returned)
  BY DEF Paired, ReturnsOK
<1>2. Len(l) \in Nat /\ DOMAIN l = 1 .. Len(l) /\ Len(all) \in Nat
  BY <1>1, ReturnType, LenProperties
<1> DEFINE L == LaterOfTool(l, i)
           S == Since(l[i].id)
           f == [j \in L |-> l[j].id]
<1>3. IsFiniteSet(S)
  <2>1. S \in SUBSET (1 .. Len(all)) /\ IsFiniteSet(1 .. Len(all))
    BY <1>2, FS_Interval DEF Since
  <2> HIDE DEF S
  <2> QED
    BY <2>1, FS_Subset
<1>4. \A j \in L : /\ j \in 1 .. Len(l) /\ j > i /\ l[j].turn < turn
                   /\ l[j].tool = l[i].tool
  BY <1>2 DEF LaterOfTool, Older
<1>5. \A j \in L : l[j].id \in S
  <2> SUFFICES ASSUME NEW j \in L PROVE l[j].id \in S
    OBVIOUS
  <2>1. /\ j \in 1 .. Len(l) /\ i < j /\ l[j].turn < turn /\ l[j].tool = l[i].tool
    BY <1>2, <1>4
  <2>2. /\ l[i].id < l[j].id /\ l[j].id \in 1 .. Len(all)
        /\ l[j].tool = all[l[j].id].tool /\ l[i].tool = all[l[i].id].tool
        /\ l[j].turn = all[l[j].id].turn /\ l[i].id \in Nat
    BY <2>1 DEF Paired
  <2> QED
    BY <2>1, <2>2 DEF Since
<1>6. \A j, h \in L : l[j].id = l[h].id => j = h
  <2> SUFFICES ASSUME NEW j \in L, NEW h \in L, j # h PROVE l[j].id # l[h].id
    OBVIOUS
  <2>1. j \in 1 .. Len(l) /\ h \in 1 .. Len(l)
    BY <1>4
  <2>2. (j < h \/ h < j) /\ l[j].id \in Nat /\ l[h].id \in Nat
    BY <1>2, <2>1 DEF Paired
  <2> QED
    BY <2>1, <2>2 DEF Paired
<1>7. f \in Injection(L, S)
  <2> HIDE DEF L, S
  <2>1. f \in [L -> S] /\ \A j, h \in L : f[j] = f[h] => j = h
    BY <1>5, <1>6
  <2> QED
    BY <2>1 DEF Injection, IsInjective
<1> HIDE DEF L, S, f
<1>8. IsFiniteSet(L) /\ Cardinality(L) <= Cardinality(S)
  BY <1>3, <1>7, FS_Injection
<1>9. Cardinality(L) \in Nat /\ Cardinality(S) \in Nat
  BY <1>3, <1>8, FS_CardinalityType
<1> QED
  BY <1>3, <1>8, <1>9 DEF L, S

\* Earlier returns of a tool are evicted first.
LEMMA EvictedEarlier ==
    ASSUME NEW l, Paired(l), ReturnsOK, NEW i \in 1 .. Len(l), NEW j \in 1 .. Len(l),
           i < j, l[i].tool = l[j].tool, Evicted(l, j)
    PROVE  Evicted(l, i)
<1>1. l \in Seq(Return)
  BY DEF Paired
<1>2. Len(l) \in Nat /\ DOMAIN l = 1 .. Len(l) /\ turn \in Nat
  BY <1>1, ReturnType DEF ReturnsOK
<1>3. l[j].turn < turn /\ l[j].tool \in Compactable
      /\ Cardinality(LaterOfTool(l, j)) >= Keep
  BY DEF Evicted, Older
<1>4. l[i].turn <= l[j].turn
  BY DEF Paired, ReturnsOK
<1>5. l[i].turn \in Nat /\ l[j].turn \in Nat
  BY <1>1, ReturnType
<1>6. i \in Older(l)
  BY <1>2, <1>3, <1>4, <1>5 DEF Older
<1> DEFINE I == LaterOfTool(l, i)
           J == LaterOfTool(l, j)
<1>7. J \in SUBSET I
  BY <1>2 DEF LaterOfTool, Older
<1>8. IsFiniteSet(I) /\ Cardinality(I) \in Nat /\ Cardinality(J) \in Nat
  BY LaterCounted
<1>9. Cardinality(J) <= Cardinality(I)
  <2> HIDE DEF I, J
  <2> QED
    BY <1>7, <1>8, FS_Subset
<1>10. Keep \in Nat
  BY ToolResultsAssumption
<1>11. Cardinality(I) >= Keep
  <2>1. Cardinality(J) >= Keep
    BY <1>3
  <2> HIDE DEF I, J
  <2> QED
    BY <1>8, <1>9, <1>10, <2>1
<1> QED
  BY <1>3, <1>6, <1>11 DEF Evicted

\* Clearing some returns of a list: no references lose what they lead to, if with a
\* return those before it of its tool are cleared, and none that is recent is.
LEMMA ClearKeeps ==
    ASSUME NEW l, Paired(l), Lead(l), Readable(l), NEW C, NEW k,
           k = [i \in DOMAIN l |-> IF i \in C THEN Cleared(l[i]) ELSE l[i]],
           \A i, j \in 1 .. Len(l) :
               i < j /\ l[i].tool = l[j].tool /\ j \in C => i \in C
    PROVE  /\ Len(k) = Len(l) /\ Paired(k) /\ Lead(k)
           /\ (\A i \in 1 .. Len(l) : i \in C => ~Recent(l[i].id)) => Readable(k)
<1>1. l \in Seq(Return)
  BY DEF Paired
<1>2. /\ Len(l) \in Nat /\ DOMAIN l = 1 .. Len(l)
      /\ \A i \in 1 .. Len(l) : l[i] \in Return
  BY <1>1, ReturnType
<1>3. \A i \in 1 .. Len(l) :
          /\ k[i] \in Return
          /\ k[i].id = l[i].id /\ k[i].tool = l[i].tool
          /\ k[i].v = l[i].v /\ k[i].turn = l[i].turn
          /\ i \in C => k[i].kind = "cleared"
          /\ i \notin C => k[i] = l[i]
  <2> SUFFICES ASSUME NEW i \in 1 .. Len(l)
               PROVE  /\ k[i] \in Return
                      /\ k[i].id = l[i].id /\ k[i].tool = l[i].tool
                      /\ k[i].v = l[i].v /\ k[i].turn = l[i].turn
                      /\ i \in C => k[i].kind = "cleared"
                      /\ i \notin C => k[i] = l[i]
    BY Zenon
  <2>1. CASE i \in C
    <3>1. k[i] = Cleared(l[i]) /\ l[i] \in Return
      BY <1>2, <2>1
    <3> QED
      BY <2>1, <3>1, FormType
  <2>2. CASE i \notin C
    BY <1>2, <2>2
  <2> QED
    BY <2>1, <2>2
<1>4. k \in [1 .. Len(l) -> Return]
  BY <1>2, <1>3
<1>5. k \in Seq(Return) /\ Len(k) = Len(l)
  BY <1>1, <1>4, RewriteType
<1>6. Paired(k)
  <2>1. Same(l, k)
    BY <1>3, <1>5 DEF Same
  <2> QED
    BY <2>1, PairedSame
<1>7. Lead(k)
  <2> SUFFICES ASSUME NEW i \in 1 .. Len(l), k[i].kind = "ref"
               PROVE  IF k[i].to \in dropped THEN i <= head
                      ELSE \E j \in 1 .. Len(l) : Target(k, i, j)
    BY <1>5 DEF Lead
  <2>1. i \notin C /\ k[i] = l[i]
    BY <1>3
  <2>2. CASE k[i].to \in dropped
    BY <2>1, <2>2 DEF Lead
  <2>3. CASE k[i].to \notin dropped
    <3>1. PICK j \in 1 .. Len(l) : Target(l, i, j)
      BY <2>1, <2>3 DEF Lead
    <3>2. i < j /\ l[i].tool = l[j].tool
      BY <1>2, <3>1 DEF Target
    <3>3. j \notin C
      BY <2>1, <3>2
    <3>4. Target(k, i, j)
      BY <1>3, <2>1, <3>1, <3>3 DEF Target
    <3> QED
      BY <2>3, <3>4
  <2> QED
    BY <2>2, <2>3
<1>8. ASSUME \A i \in 1 .. Len(l) : i \in C => ~Recent(l[i].id)
      PROVE  Readable(k)
  <2> SUFFICES ASSUME NEW i \in 1 .. Len(l), k[i].kind = "cleared"
               PROVE  k[i].id \in stripped \/ ~Recent(k[i].id)
    BY <1>5 DEF Readable
  <2>1. CASE i \in C
    BY <1>3, <1>8, <2>1
  <2>2. CASE i \notin C
    <3>1. k[i] = l[i]
      BY <1>3, <2>2
    <3> QED
      BY <3>1 DEF Readable
  <2> QED
    BY <2>1, <2>2
<1> QED
  BY <1>5, <1>6, <1>7, <1>8

\* evict_old_tool_results clears nothing recent, and no reference before what it names.
LEMMA EvictKeeps ==
    ASSUME NEW l, Paired(l), Lead(l), Readable(l), ReturnsOK
    PROVE  /\ Len(Evict(l)) = Len(l)
           /\ Paired(Evict(l)) /\ Lead(Evict(l)) /\ Readable(Evict(l))
<1> DEFINE C == {i \in 1 .. Len(l) : Evicted(l, i)}
           k == Evict(l)
<1>1. l \in Seq(Return)
  BY DEF Paired
<1>2. DOMAIN l = 1 .. Len(l)
  BY <1>1, ReturnType
<1>3. k = [i \in DOMAIN l |-> IF i \in C THEN Cleared(l[i]) ELSE l[i]]
  BY <1>2 DEF Evict
<1>4. \A i, j \in 1 .. Len(l) : i < j /\ l[i].tool = l[j].tool /\ j \in C => i \in C
  BY EvictedEarlier
<1>5. ASSUME NEW i \in 1 .. Len(l), i \in C PROVE ~Recent(l[i].id)
  <2> DEFINE n == l[i].id
  <2>1. Evicted(l, i)
    BY <1>5
  <2>2. l[i].turn < turn /\ l[i].tool \in Compactable
        /\ Cardinality(LaterOfTool(l, i)) >= Keep
    BY <2>1 DEF Evicted, Older
  <2>3. all[n].turn = l[i].turn /\ all[n].tool = l[i].tool
    BY DEF Paired
  <2>4. l[i].turn \in Nat /\ turn \in Nat /\ Keep \in Nat /\ l[i].tool \notin OtherTools
    BY <1>1, <2>2, ReturnType, ToolResultsAssumption DEF ReturnsOK
  <2>5. /\ Cardinality(LaterOfTool(l, i)) \in Nat /\ Cardinality(Since(n)) \in Nat
        /\ Cardinality(LaterOfTool(l, i)) <= Cardinality(Since(n))
    BY LaterCounted
  <2> HIDE DEF n
  <2>6. ~(Cardinality(Since(n)) < Keep)
    BY <2>2, <2>4, <2>5
  <2> QED
    BY <2>2, <2>3, <2>4, <2>6 DEF Recent, n
<1> HIDE DEF C, k
<1>6. \A i \in 1 .. Len(l) : i \in C => ~Recent(l[i].id)
  BY <1>5
<1>7. Len(k) = Len(l) /\ Paired(k) /\ Lead(k) /\ Readable(k)
  BY <1>3, <1>4, <1>6, ClearKeeps
<1> QED
  BY <1>7 DEF k

\* What _spill_largest_first has found after each candidate.
Spills(run, l, bad) ==
    /\ run[0] = [sum |-> Total(l), left |-> Candidates(l), out |-> {}]
    /\ \A n \in 1 .. Len(l) : run[n] = SpillNext(l, bad, run[n - 1])
    /\ SpilledOf(l, bad) = run[Len(l)].out

\* It goes through the candidates one by one.
LEMMA SpillSteps ==
    ASSUME NEW l \in Seq(Return), NEW bad
    PROVE  \E run : Spills(run, l, bad)
<1> DEFINE Step(g, n) == IF n = 0 THEN [sum |-> Total(l), left |-> Candidates(l), out |-> {}]
                         ELSE SpillNext(l, bad, g[n - 1])
           Runs(g, n) == g = [i \in 0 .. n |-> Step(g, i)]
           good == {n \in 0 .. Len(l) : \E g : Runs(g, n)}
<1>1. Len(l) \in Nat
  BY LenProperties
<1>2. 0 \in good
  <2> DEFINE zero == [sum |-> Total(l), left |-> Candidates(l), out |-> {}]
             g == [i \in 0 .. 0 |-> zero]
  <2>1. \A i \in 0 .. 0 : Step(g, i) = zero
    OBVIOUS
  <2>2. Runs(g, 0)
    <3> HIDE DEF Step, zero
    <3> QED
      BY <2>1
  <2>3. 0 \in 0 .. Len(l)
    BY <1>1
  <2> HIDE DEF Runs, g
  <2> QED
    BY <2>2, <2>3
<1>3. ASSUME NEW n \in 1 .. Len(l), n - 1 \in good
      PROVE  n \in good
  <2>1. PICK g : Runs(g, n - 1)
    BY <1>3
  <2> DEFINE f == [i \in 0 .. n |-> IF i = n THEN Step(g, n) ELSE g[i]]
  <2>2. ASSUME NEW i \in 0 .. n PROVE f[i] = Step(f, i)
    <3>1. CASE i = n
      <4>1. f[i - 1] = g[i - 1]
        BY <3>1, <1>1
      <4>2. f[i] = Step(g, n)
        BY <3>1
      <4> QED
        BY <3>1, <4>1, <4>2, <1>1
    <3>2. CASE i # n
      <4>1. f[i] = g[i] /\ i \in 0 .. n - 1
        BY <3>2, <1>1
      <4>2. i # 0 => f[i - 1] = g[i - 1]
        BY <3>2, <1>1
      <4>3. g[i] = Step(g, i)
        <5> HIDE DEF Step
        <5> QED
          BY <2>1, <4>1
      <4> HIDE DEF f
      <4> QED
        BY <4>1, <4>2, <4>3
    <3> QED
      BY <3>1, <3>2
  <2>3. Runs(f, n)
    <3> HIDE DEF Step
    <3> QED
      BY <2>2
  <2>4. n \in 0 .. Len(l)
    BY <1>1
  <2> HIDE DEF Runs, f
  <2> QED
    BY <2>3, <2>4
<1>4. \E g : Runs(g, Len(l))
  <2> HIDE DEF good
  <2>1. Len(l) \in good
    BY <1>1, <1>2, <1>3, UpTo
  <2> QED
    BY <2>1 DEF good
<1> DEFINE run == CHOOSE g : Runs(g, Len(l))
<1>5. Runs(run, Len(l))
  <2> HIDE DEF Runs
  <2> QED
    BY <1>4
<1>6. SpilledOf(l, bad) = run[Len(l)].out
  BY DEF SpilledOf
<1>7. \A i \in 0 .. Len(l) : run[i] = Step(run, i)
  <2> HIDE DEF run, Step
  <2> QED
    BY <1>5
<1> HIDE DEF run
<1>8. run[0] = [sum |-> Total(l), left |-> Candidates(l), out |-> {}]
  <2>1. run[0] = Step(run, 0)
    <3> HIDE DEF Step
    <3> QED
      BY <1>1, <1>7
  <2> QED
    BY <2>1
<1>9. \A n \in 1 .. Len(l) : run[n] = SpillNext(l, bad, run[n - 1])
  BY <1>1, <1>7
<1>10. Spills(run, l, bad)
  BY <1>6, <1>8, <1>9 DEF Spills
<1> QED
  BY <1>10

\* Only what is there in full is spilled.
LEMMA SpilledInFull ==
    ASSUME NEW l \in Seq(Return), NEW bad
    PROVE  \A i \in SpilledOf(l, bad) : l[i].kind = "full"
<1>1. Len(l) \in Nat
  BY LenProperties
<1>2. PICK run : Spills(run, l, bad)
  BY SpillSteps
<1> DEFINE InFull(s) == \A i \in s.out : l[i].kind = "full"
           good == {n \in 0 .. Len(l) : InFull(run[n])}
<1>3. 0 \in good
  BY <1>1, <1>2 DEF Spills
<1>4. ASSUME NEW n \in 1 .. Len(l), n - 1 \in good
      PROVE  n \in good
  <2> DEFINE s == run[n - 1]
             i == Largest(l, s.left)
  <2>1. InFull(s)
    BY <1>4
  <2>2. run[n] = SpillNext(l, bad, s)
    BY <1>2 DEF Spills
  <2> HIDE DEF s
  <2>3. InFull(SpillNext(l, bad, s))
    <3>1. CASE s.left = {}
      BY <2>1, <3>1 DEF SpillNext
    <3>2. CASE s.left # {} /\ StillOver(s.sum) /\ MaySpill(l[i]) /\ i \notin bad
      <4>1. SpillNext(l, bad, s).out = s.out \cup {i} /\ l[i].kind = "full"
        BY <3>2 DEF SpillNext, MaySpill
      <4> QED
        BY <2>1, <4>1
    <3>3. CASE s.left # {} /\ ~(StillOver(s.sum) /\ MaySpill(l[i]) /\ i \notin bad)
      <4>1. SpillNext(l, bad, s) = [s EXCEPT !.left = @ \ {i}]
        BY <3>3 DEF SpillNext
      <4>2. SpillNext(l, bad, s).out = s.out
        BY <4>1
      <4> QED
        BY <2>1, <4>2
    <3> QED
      BY <3>1, <3>2, <3>3
  <2>4. n \in 0 .. Len(l)
    BY <1>1
  <2> HIDE DEF InFull
  <2> QED
    BY <2>2, <2>3, <2>4
<1>5. Len(l) \in good
  <2> HIDE DEF good
  <2> QED
    BY <1>1, <1>3, <1>4, UpTo
<1> QED
  BY <1>2, <1>5 DEF Spills

\* enforce_request_size spills what is there in full.
LEMMA EnforceKeeps ==
    ASSUME NEW l, Paired(l), Lead(l), Readable(l), NEW bad
    PROVE  /\ Len(Enforce(l, bad)) = Len(l)
           /\ Paired(Enforce(l, bad)) /\ Lead(Enforce(l, bad))
           /\ Readable(Enforce(l, bad))
<1> DEFINE S == SpilledOf(l, bad)
           k == Enforce(l, bad)
<1>1. l \in Seq(Return)
  BY DEF Paired
<1>2. /\ Len(l) \in Nat /\ DOMAIN l = 1 .. Len(l)
      /\ \A i \in 1 .. Len(l) : l[i] \in Return
  BY <1>1, ReturnType
<1>3. \A i \in S : l[i].kind = "full"
  BY <1>1, SpilledInFull
<1>4. k = [i \in 1 .. Len(l) |-> IF i \in S THEN Spilled(l[i]) ELSE l[i]]
  BY <1>2 DEF Enforce
<1> HIDE DEF S, k
<1>5. \A i \in 1 .. Len(l) :
          /\ k[i] \in Return
          /\ k[i].id = l[i].id /\ k[i].tool = l[i].tool
          /\ k[i].v = l[i].v /\ k[i].turn = l[i].turn
          /\ k[i].kind \in {"ref", "cleared"} => k[i] = l[i]
          /\ k[i].kind = "cleared" <=> l[i].kind = "cleared"
  <2> SUFFICES ASSUME NEW i \in 1 .. Len(l)
               PROVE  /\ k[i] \in Return
                      /\ k[i].id = l[i].id /\ k[i].tool = l[i].tool
                      /\ k[i].v = l[i].v /\ k[i].turn = l[i].turn
                      /\ k[i].kind \in {"ref", "cleared"} => k[i] = l[i]
                      /\ k[i].kind = "cleared" <=> l[i].kind = "cleared"
    BY Zenon
  <2>1. CASE i \in S
    <3>1. k[i] = Spilled(l[i]) /\ l[i] \in Return /\ l[i].kind = "full"
      BY <1>2, <1>3, <1>4, <2>1
    <3>2. \A r \in Return :
             /\ Spilled(r) \in Return /\ Spilled(r).id = r.id
             /\ Spilled(r).tool = r.tool /\ Spilled(r).v = r.v
             /\ Spilled(r).turn = r.turn /\ Spilled(r).kind = "spilled"
      BY FormType, Zenon
    <3> QED
      BY <3>1, <3>2
  <2>2. CASE i \notin S
    BY <1>2, <1>4, <2>2
  <2> QED
    BY <2>1, <2>2
<1>6. k \in [1 .. Len(l) -> Return]
  BY <1>4, <1>5
<1>7. k \in Seq(Return) /\ Len(k) = Len(l)
  BY <1>1, <1>6, RewriteType
<1>8. Paired(k)
  <2>1. Same(l, k)
    BY <1>5, <1>7 DEF Same
  <2> QED
    BY <2>1, PairedSame
<1>9. Lead(k)
  <2> SUFFICES ASSUME NEW i \in 1 .. Len(l), k[i].kind = "ref"
               PROVE  IF k[i].to \in dropped THEN i <= head
                      ELSE \E j \in 1 .. Len(l) : Target(k, i, j)
    BY <1>7 DEF Lead
  <2>1. k[i] = l[i]
    BY <1>5
  <2>2. CASE k[i].to \in dropped
    BY <2>1, <2>2 DEF Lead
  <2>3. CASE k[i].to \notin dropped
    <3>1. PICK j \in 1 .. Len(l) : Target(l, i, j)
      BY <2>1, <2>3 DEF Lead
    <3>2. Target(k, i, j)
      BY <1>5, <2>1, <3>1 DEF Target
    <3> QED
      BY <2>3, <3>2
  <2> QED
    BY <2>2, <2>3
<1>10. Readable(k)
  BY <1>5, <1>7 DEF Readable
<1> QED
  BY <1>7, <1>8, <1>9, <1>10 DEF k

\* The processors keep the invariant.
LEMMA RequestKeeps ==
    ASSUME ResultsInv, Request PROVE ResultsInv'
<1> DEFINE l == Evict(Dedup(list))
<1>1. Len(l) = Len(list) /\ Paired(l) /\ Lead(l) /\ Readable(l)
  <2> DEFINE d == Dedup(list)
  <2>1. Len(d) = Len(list) /\ Paired(d) /\ Lead(d) /\ Readable(d) /\ ReturnsOK
    BY DedupKeeps DEF ResultsInv
  <2> HIDE DEF d
  <2>2. Len(Evict(d)) = Len(d) /\ Paired(Evict(d)) /\ Lead(Evict(d)) /\ Readable(Evict(d))
    BY <2>1, EvictKeeps
  <2> QED
    BY <2>1, <2>2 DEF d
<1>2. PICK bad : list' = Enforce(l, bad)
  BY DEF Request
<1> HIDE DEF l
<1> DEFINE k == Enforce(l, bad)
<1>3. Len(k) = Len(l) /\ Paired(k) /\ Lead(k) /\ Readable(k)
  BY <1>1, EnforceKeeps
<1>4. /\ list' = k /\ turn' = turn /\ spoken' = spoken /\ head' = head /\ all' = all
      /\ stripped' = stripped /\ dropped' = dropped
  BY <1>2 DEF Request
<1>5. Len(k) = Len(list)
  BY <1>1, <1>3
<1> HIDE DEF k
<1>6. ReturnsOK'
  BY <1>4, <1>5 DEF ResultsInv, ReturnsOK
<1>7. Paired(list)'
  BY <1>3, <1>4 DEF Paired
<1>8. Lead(list)'
  BY <1>3, <1>4 DEF Lead, Target
<1>9. Readable(list)'
  BY <1>3, <1>4 DEF Readable, Recent, Since
<1> QED
  BY <1>6, <1>7, <1>8, <1>9 DEF ResultsInv

\* An overflow clears all results, recent or not.
LEMMA OverflowKeeps ==
    ASSUME ResultsInv, Overflow PROVE ResultsInv'
<1> DEFINE k == Strip(list)
<1>1. Paired(list) /\ Lead(list) /\ Readable(list) /\ list \in Seq(Return)
  BY DEF ResultsInv, Paired
<1>2. Len(list) \in Nat /\ DOMAIN list = 1 .. Len(list)
  BY <1>1, ReturnType
<1>3. k = [i \in DOMAIN list |-> IF i \in DOMAIN list THEN Cleared(list[i]) ELSE list[i]]
  BY DEF Strip
<1>4. DOMAIN k = 1 .. Len(list)
  BY <1>2 DEF Strip
<1> HIDE DEF k
<1>5. Paired(k) /\ Lead(k)
  BY <1>1, <1>2, <1>3, ClearKeeps
<1>6. /\ list' = k /\ turn' = turn /\ spoken' = spoken /\ head' = head /\ all' = all
      /\ stripped' = stripped \cup {list[i].id : i \in 1 .. Len(list)}
      /\ dropped' = dropped
  BY <1>2 DEF Overflow, Positions, k
<1>7. Len(k) = Len(list)
  BY <1>2, <1>4, <1>5, LenProperties DEF Paired
<1>8. \A i \in 1 .. Len(list) : list[i].id \in Ids /\ k[i].id = list[i].id
  <2>1. ASSUME NEW i \in 1 .. Len(list) PROVE list[i].id \in Ids /\ k[i].id = list[i].id
    <3>1. list[i] \in Return /\ list[i].id \in Ids
      BY <1>1, ReturnType
    <3>2. k[i] = Cleared(list[i])
      BY <1>2, <1>3
    <3>3. Cleared(list[i]).id = list[i].id
      BY <3>1, FormType
    <3> QED
      BY <3>1, <3>2, <3>3
  <2> QED
    BY <2>1
<1>9. ReturnsOK'
  <2>1. stripped' \subseteq Ids
    BY <1>6, <1>8 DEF ResultsInv, ReturnsOK
  <2> QED
    BY <1>6, <1>7, <2>1 DEF ResultsInv, ReturnsOK, Ids
<1>10. Paired(list)'
  BY <1>5, <1>6 DEF Paired
<1>11. Lead(list)'
  BY <1>5, <1>6 DEF Lead, Target
<1>12. Readable(list)'
  BY <1>6, <1>7, <1>8 DEF Readable
<1> QED
  BY <1>9, <1>10, <1>11, <1>12 DEF ResultsInv

\* A new return is behind all others, and not of an earlier turn.
LEMMA ToolReturnsKeeps ==
    ASSUME ResultsInv, NEW tool \in Tools, NEW v \in Values, ToolReturns(tool, v)
    PROVE  ResultsInv'
<1> DEFINE x == [tool |-> tool, turn |-> turn]
<1>1. PICK kind \in {"full", "spilled"} :
          list' = Append(list, [id |-> Len(all) + 1, tool |-> tool, v |-> v,
                                turn |-> turn, kind |-> kind, to |-> 0])
  BY DEF ToolReturns
<1> DEFINE r == [id |-> Len(all) + 1, tool |-> tool, v |-> v,
                 turn |-> turn, kind |-> kind, to |-> 0]
<1>2. /\ Len(all) < MaxReturns /\ all' = Append(all, x)
      /\ turn' = turn /\ spoken' = spoken /\ head' = head
      /\ stripped' = stripped /\ dropped' = dropped
  BY DEF ToolReturns
<1>3. /\ ReturnsOK /\ Paired(list) /\ Lead(list) /\ Readable(list)
      /\ list \in Seq(Return) /\ all \in Seq(Returned) /\ turn \in 1 .. MaxTurns
      /\ MaxReturns \in Nat
  BY ToolResultsAssumption DEF ResultsInv, Paired, ReturnsOK
<1>4. Len(list) \in Nat /\ Len(all) \in Nat /\ DOMAIN list = 1 .. Len(list)
  BY <1>3, LenProperties
<1>5. x \in Returned /\ x.tool = tool /\ x.turn = turn
  BY <1>3 DEF Returned
<1>6. r \in Return
  <2>1. Len(all) + 1 \in Ids
    BY <1>2, <1>3, <1>4 DEF Ids
  <2>2. kind \in {"full", "spilled", "ref", "cleared"}
    OBVIOUS
  <2> QED
    BY <1>3, <2>1, <2>2 DEF Return
<1>7. /\ r.id = Len(all) + 1 /\ r.tool = tool /\ r.turn = turn
      /\ r.kind \in {"full", "spilled"}
  OBVIOUS
<1> HIDE DEF x, r
<1>8. /\ list' \in Seq(Return) /\ Len(list') = Len(list) + 1
      /\ \A i \in 1 .. Len(list) : list'[i] = list[i]
      /\ list'[Len(list) + 1] = r
  BY <1>1, <1>3, <1>6, AppendProperties DEF r
<1>9. /\ all' \in Seq(Returned) /\ Len(all') = Len(all) + 1
      /\ \A m \in 1 .. Len(all) : all'[m] = all[m]
      /\ all'[Len(all) + 1] = x
  BY <1>2, <1>3, <1>5, AppendProperties
<1>10. \A i \in 1 .. Len(list) + 1 : i = Len(list) + 1 \/ i \in 1 .. Len(list)
  BY <1>4
<1>11. \A m \in 1 .. Len(all) + 1 : m = Len(all) + 1 \/ m \in 1 .. Len(all)
  BY <1>4
<1>12. ReturnsOK'
  <2>1. ASSUME NEW m \in 1 .. Len(all'), NEW n \in 1 .. Len(all'), m < n
        PROVE  all'[m].turn <= all'[n].turn
    <3>1. m \in 1 .. Len(all) /\ all'[m] = all[m] /\ all[m].turn <= turn
      BY <1>3, <1>4, <1>9, <1>11, <2>1 DEF ReturnsOK
    <3>2. CASE n = Len(all) + 1
      BY <1>5, <1>9, <3>1, <3>2
    <3>3. CASE n \in 1 .. Len(all)
      BY <1>3, <1>9, <2>1, <3>1, <3>3 DEF ReturnsOK
    <3> QED
      BY <1>9, <1>11, <3>2, <3>3
  <2>2. ASSUME NEW m \in 1 .. Len(all') PROVE all'[m].turn <= turn
    <3>1. CASE m = Len(all) + 1
      BY <1>3, <1>5, <1>9, <3>1
    <3>2. CASE m \in 1 .. Len(all)
      BY <1>3, <1>9, <3>2 DEF ReturnsOK
    <3> QED
      BY <1>9, <1>11, <3>1, <3>2
  <2>3. head \in 0 .. Len(list') /\ Len(all') <= MaxReturns
    BY <1>2, <1>3, <1>4, <1>8, <1>9 DEF ReturnsOK
  <2> QED
    BY <1>2, <1>3, <1>9, <2>1, <2>2, <2>3 DEF ReturnsOK, Ids
<1>13. Paired(list)'
  <2>1. ASSUME NEW i \in 1 .. Len(list)
        PROVE  /\ list'[i] = list[i]
               /\ list[i].id \in 1 .. Len(all) /\ list[i].id \notin dropped
               /\ list[i].tool = all[list[i].id].tool /\ list[i].turn = all[list[i].id].turn
               /\ all'[list[i].id] = all[list[i].id]
    BY <1>3, <1>8, <1>9 DEF Paired
  <2>2. Len(all) + 1 \notin dropped
    BY <1>3, <1>4 DEF ReturnsOK
  <2>3. ASSUME NEW i \in 1 .. Len(list')
        PROVE  /\ list'[i].id \in 1 .. Len(all') /\ list'[i].id \notin dropped'
               /\ list'[i].tool = all'[list'[i].id].tool
               /\ list'[i].turn = all'[list'[i].id].turn
    <3>1. CASE i = Len(list) + 1
      <4>1. Len(all) + 1 \in 1 .. Len(all')
        BY <1>4, <1>9
      <4> QED
        BY <1>2, <1>5, <1>7, <1>8, <1>9, <2>2, <3>1, <4>1
    <3>2. CASE i \in 1 .. Len(list)
      <4>1. list[i].id \in 1 .. Len(all')
        BY <1>4, <1>9, <2>1, <3>2
      <4> QED
        BY <1>2, <2>1, <3>2, <4>1
    <3> QED
      BY <1>8, <1>10, <3>1, <3>2
  <2>4. ASSUME NEW i \in 1 .. Len(list'), NEW j \in 1 .. Len(list'), i < j
        PROVE  list'[i].id < list'[j].id
    <3>1. i \in 1 .. Len(list)
      BY <1>4, <1>8, <1>10, <2>4
    <3>2. CASE j = Len(list) + 1
      <4>1. list'[i].id \in 1 .. Len(all)
        BY <2>1, <3>1
      <4> QED
        BY <1>4, <1>7, <1>8, <3>2, <4>1
    <3>3. CASE j \in 1 .. Len(list)
      BY <1>3, <1>8, <2>4, <3>1, <3>3 DEF Paired
    <3> QED
      BY <1>8, <1>10, <3>2, <3>3
  <2> QED
    BY <1>8, <2>3, <2>4 DEF Paired
<1>14. Lead(list)'
  <2> SUFFICES ASSUME NEW i \in 1 .. Len(list'), list'[i].kind = "ref"
               PROVE  IF list'[i].to \in dropped' THEN i <= head'
                      ELSE \E j \in 1 .. Len(list') : Target(list, i, j)'
    BY DEF Lead
  <2>1. i \in 1 .. Len(list) /\ list'[i] = list[i]
    BY <1>7, <1>8, <1>10
  <2>2. CASE list[i].to \in dropped
    BY <1>2, <1>3, <2>1, <2>2 DEF Lead
  <2>3. CASE list[i].to \notin dropped
    <3>1. PICK j \in 1 .. Len(list) : Target(list, i, j)
      BY <1>3, <2>1, <2>3 DEF Lead
    <3>2. Target(list, i, j)' /\ j \in 1 .. Len(list')
      BY <1>4, <1>8, <2>1, <3>1 DEF Target
    <3> QED
      BY <1>2, <2>1, <2>3, <3>2
  <2> QED
    BY <2>2, <2>3
<1>15. Readable(list)'
  <2> SUFFICES ASSUME NEW i \in 1 .. Len(list'), list'[i].kind = "cleared"
               PROVE  list'[i].id \in stripped' \/ ~Recent(list[i].id)'
    BY DEF Readable
  <2>1. i \in 1 .. Len(list) /\ list'[i] = list[i]
    BY <1>7, <1>8, <1>10
  <2>0. PICK n : n = list[i].id
    OBVIOUS
  <2>2. n \in 1 .. Len(all) /\ (n \in stripped \/ ~Recent(n))
    BY <1>3, <2>0, <2>1 DEF Readable, Paired
  <2>3. ASSUME NEW m PROVE m \in Since(n)' <=> m \in Since(n)
    <3>1. CASE m = Len(all) + 1
      <4>1. ~(all'[m].turn < turn')
        BY <1>2, <1>3, <1>5, <1>9, <3>1
      <4>2. m \notin 1 .. Len(all)
        BY <1>4, <3>1
      <4> QED
        BY <4>1, <4>2 DEF Since
    <3>2. CASE m # Len(all) + 1
      BY <1>2, <1>4, <1>9, <1>11, <2>2, <3>2 DEF Since
    <3> QED
      BY <3>1, <3>2
  <2>4. Since(n)' = Since(n)
    BY <2>3
  <2>5. Recent(n)' <=> Recent(n)
    BY <1>2, <1>9, <2>2, <2>4 DEF Recent
  <2> QED
    <3>1. list'[i].id = n
      BY <2>0, <2>1
    <3>2. n \in stripped' \/ ~Recent(n)'
      BY <1>2, <2>2, <2>5
    <3> QED
      BY <3>1, <3>2 DEF Recent, Since
<1> QED
  BY <1>12, <1>13, <1>14, <1>15 DEF ResultsInv

\* The head is pinned where nothing has been dropped before it.
LEMMA FirstTextKeeps ==
    ASSUME ResultsInv, FirstText PROVE ResultsInv'
<1>1. /\ ~spoken /\ spoken' = TRUE /\ head' = Len(list) /\ list' = list /\ turn' = turn
      /\ all' = all /\ stripped' = stripped /\ dropped' = dropped
  BY DEF FirstText
<1>2. Len(list) \in Nat /\ head = 0
  BY <1>1, LenProperties DEF ResultsInv, ReturnsOK, Paired
<1>3. ReturnsOK' /\ Paired(list)' /\ Readable(list)'
  BY <1>1, <1>2 DEF ResultsInv, ReturnsOK, Paired, Readable, Recent, Since
<1>4. Lead(list)'
  BY <1>1, <1>2 DEF ResultsInv, Lead, Target
<1> QED
  BY <1>3, <1>4 DEF ResultsInv

\* A new turn makes no return more recent.
LEMMA NewPromptKeeps ==
    ASSUME ResultsInv, NewPrompt PROVE ResultsInv'
<1>1. /\ turn' = turn + 1 /\ turn < MaxTurns /\ spoken' = spoken /\ head' = head
      /\ list' = list /\ all' = all /\ stripped' = stripped /\ dropped' = dropped
  BY DEF NewPrompt
<1>2. /\ all \in Seq(Returned) /\ Len(all) \in Nat /\ turn \in Nat /\ MaxTurns \in Nat
      /\ turn >= 1
  BY LenProperties, ToolResultsAssumption DEF ResultsInv, ReturnsOK
<1>3. \A m \in 1 .. Len(all) : all[m].turn \in Nat /\ all[m].turn <= turn
  <2>1. ASSUME NEW m \in 1 .. Len(all) PROVE all[m].turn \in Nat
    <3>1. all[m] \in Returned
      BY <1>2, ElementOfSeq
    <3> QED
      BY <3>1 DEF Returned
  <2> QED
    BY <2>1 DEF ResultsInv, ReturnsOK
<1>4. ReturnsOK'
  <2>1. turn' \in 1 .. MaxTurns
    BY <1>1, <1>2
  <2>2. \A m \in 1 .. Len(all) : all[m].turn <= turn + 1
    BY <1>2, <1>3
  <2> QED
    BY <1>1, <2>1, <2>2 DEF ResultsInv, ReturnsOK
<1>5. Paired(list)' /\ Lead(list)'
  BY <1>1 DEF ResultsInv, Paired, Lead, Target
<1>6. ASSUME NEW n \in 1 .. Len(all), Recent(n)' PROVE Recent(n)
  <2> DEFINE S == Since(n)
             P == {m \in 1 .. Len(all) : /\ m > n /\ all[m].turn < turn + 1
                                         /\ all[m].tool = all[n].tool}
  <2>1. all[n].turn # turn'
    BY <1>1, <1>2, <1>3
  <2>2. S \in SUBSET P /\ P \in SUBSET (1 .. Len(all))
    BY <1>2, <1>3 DEF Since
  <2>3. Since(n)' = P
    BY <1>1 DEF Since
  <2> HIDE DEF S, P
  <2>4. IsFiniteSet(P) /\ Cardinality(P) \in Nat
    <3>1. IsFiniteSet(1 .. Len(all))
      BY <1>2, FS_Interval
    <3>2. IsFiniteSet(P)
      BY <2>2, <3>1, FS_Subset
    <3> QED
      BY <3>2, FS_CardinalityType
  <2>5. Cardinality(S) \in Nat /\ Cardinality(S) <= Cardinality(P)
    BY <2>2, <2>4, FS_Subset, FS_CardinalityType
  <2>6. CASE Cardinality(P) < Keep
    <3>1. Cardinality(S) < Keep
      BY <2>4, <2>5, <2>6, ToolResultsAssumption
    <3> QED
      BY <3>1 DEF Recent, S
  <2>7. CASE all[n].tool \in OtherTools
    BY <2>7 DEF Recent
  <2>8. Cardinality(P) < Keep \/ all[n].tool \in OtherTools
    <3>1. \/ (all[n].turn = turn)' \/ (all[n].tool \in OtherTools)'
          \/ Cardinality(Since(n)') < Keep
      BY <1>6 DEF Recent
    <3> QED
      BY <1>1, <2>1, <2>3, <3>1
  <2> QED
    BY <2>6, <2>7, <2>8
<1>7. Readable(list)'
  <2> SUFFICES ASSUME NEW i \in 1 .. Len(list), list[i].kind = "cleared"
               PROVE  list[i].id \in stripped \/ ~Recent(list[i].id)'
    BY <1>1 DEF Readable
  <2>1. PICK n : n = list[i].id
    OBVIOUS
  <2>2. n \in 1 .. Len(all) /\ (n \in stripped \/ ~Recent(n))
    BY <2>1 DEF ResultsInv, Readable, Paired
  <2>3. n \in stripped \/ ~Recent(n)'
    BY <1>6, <2>2
  <2>4. n = list'[i].id
    BY <1>1, <2>1
  <2> QED
    BY <2>1, <2>3, <2>4 DEF Recent, Since
<1> QED
  BY <1>4, <1>5, <1>7 DEF ResultsInv

\* A compaction drops whole turns behind the head, and so no return that a later one
\* leads to.
LEMMA CompactKeeps ==
    ASSUME ResultsInv, NEW t, Compact(t) PROVE ResultsInv'
<1> DEFINE k == Among(list, Stays(t))
<1>1. /\ t \in 2 .. turn /\ list' = k
      /\ dropped' = dropped \cup {r.id : r \in ToSet(list) \ Stays(t)}
      /\ turn' = turn /\ spoken' = spoken /\ head' = head /\ all' = all
      /\ stripped' = stripped
  BY DEF Compact
<1>2. /\ ReturnsOK /\ Paired(list) /\ Lead(list) /\ Readable(list)
      /\ list \in Seq(Return)
  BY DEF ResultsInv, Paired
<1>3. /\ Len(list) \in Nat /\ DOMAIN list = 1 .. Len(list)
      /\ \A i \in 1 .. Len(list) : list[i].id \in Nat /\ list[i].turn \in Nat
      /\ head \in 0 .. Len(list) /\ t \in Nat
  <2>1. \A i \in 1 .. Len(list) : list[i].id \in Nat /\ list[i].turn \in Nat
    BY <1>2, ReturnType DEF Ids
  <2> QED
    BY <1>1, <1>2, <2>1, ReturnType DEF ReturnsOK
\* Who stays, and who goes.
<1>4. \A i \in 1 .. Len(list) :
          list[i] \in Stays(t) <=> i <= head \/ list[i].turn >= t
  <2> SUFFICES ASSUME NEW i \in 1 .. Len(list), list[i] \in Stays(t)
               PROVE  i <= head \/ list[i].turn >= t
    BY <1>3 DEF Stays, Positions
  <2>1. PICK j \in 1 .. Len(list) : list[i] = list[j] /\ (j <= head \/ list[j].turn >= t)
    BY <1>3 DEF Stays, Positions
  <2>2. i = j
    <3>1. ~(i < j) /\ ~(j < i)
      BY <1>2, <1>3, <2>1 DEF Paired
    <3> QED
      BY <3>1
  <2> QED
    BY <2>1, <2>2
<1>5. \A n : n \in dropped' <=>
          n \in dropped \/ \E j \in 1 .. Len(list) : n = list[j].id /\ list[j] \notin Stays(t)
  <2>1. ToSet(list) = {list[j] : j \in 1 .. Len(list)}
    BY <1>3 DEF ToSet
  <2> QED
    BY <1>1, <2>1
\* Where those who stay are.
<1>6. /\ k \in Seq(Return)
      /\ \A a \in 1 .. Len(k) :
            k[a] \in Stays(t) /\ \E i \in 1 .. Len(list) : k[a] = list[i]
      /\ \A i \in 1 .. Len(list) :
            list[i] \in Stays(t) => \E a \in 1 .. Len(k) : k[a] = list[i]
  BY <1>2, AmongPicks
<1>7. \A a, b \in 1 .. Len(k) : a < b =>
          \E i, j \in 1 .. Len(list) : i < j /\ k[a] = list[i] /\ k[b] = list[j]
  BY <1>2, AmongInOrder
<1>8. head <= Len(k) /\ \A i \in 1 .. head : k[i] = list[i]
  <2>1. \A i \in 1 .. head : list[i] \in Stays(t)
    BY <1>3, <1>4
  <2> QED
    BY <1>2, <1>3, <2>1, AmongBegins
<1> HIDE DEF k
<1>9. Len(k) \in Nat
  BY <1>6, LenProperties
<1>10. \A a, b \in 1 .. Len(k) : a < b => k[a].id < k[b].id
  <2> SUFFICES ASSUME NEW a \in 1 .. Len(k), NEW b \in 1 .. Len(k), a < b
               PROVE  k[a].id < k[b].id
    OBVIOUS
  <2>1. PICK i \in 1 .. Len(list), j \in 1 .. Len(list) :
            i < j /\ k[a] = list[i] /\ k[b] = list[j]
    BY <1>7
  <2> QED
    BY <1>2, <2>1 DEF Paired
\* Where an early one is, it stays.
<1>11. ASSUME NEW a \in 1 .. Len(k), NEW i \in 1 .. Len(list), k[a] = list[i], i <= head
       PROVE  a <= head
  <2>1. i \in 1 .. head /\ i \in 1 .. Len(k) /\ k[i] = list[i]
    BY <1>3, <1>8, <1>9, <1>11
  <2>2. a = i
    <3>1. ~(a < i) /\ ~(i < a)
      BY <1>3, <1>10, <1>11, <2>1
    <3> QED
      BY <2>1, <3>1
  <2> QED
    BY <1>11, <2>2
<1>12. ReturnsOK'
  <2>1. dropped' \subseteq 1 .. Len(all)
    <3> SUFFICES ASSUME NEW n \in dropped' PROVE n \in 1 .. Len(all)
      OBVIOUS
    <3>1. CASE n \in dropped
      BY <1>2, <3>1 DEF ReturnsOK
    <3>2. CASE \E j \in 1 .. Len(list) : n = list[j].id
      BY <1>2, <3>2 DEF Paired
    <3> QED
      BY <1>5, <3>1, <3>2
  <2>2. head \in 0 .. Len(k)
    BY <1>3, <1>8, <1>9
  <2> QED
    BY <1>1, <1>2, <2>1, <2>2 DEF ReturnsOK
<1>13. Paired(list)'
  <2>1. ASSUME NEW a \in 1 .. Len(k)
        PROVE  /\ k[a].id \in 1 .. Len(all) /\ k[a].id \notin dropped'
               /\ k[a].tool = all[k[a].id].tool /\ k[a].turn = all[k[a].id].turn
    <3>1. PICK i \in 1 .. Len(list) : k[a] = list[i]
      BY <1>6
    <3>2. list[i] \in Stays(t)
      BY <1>6, <3>1
    <3>3. ASSUME NEW j \in 1 .. Len(list), list[i].id = list[j].id PROVE i = j
      <4>1. ~(i < j) /\ ~(j < i)
        BY <1>2, <1>3, <3>3 DEF Paired
      <4> QED
        BY <4>1
    <3>4. list[i].id \notin dropped'
      BY <1>2, <1>5, <3>2, <3>3 DEF Paired
    <3> QED
      BY <1>2, <3>1, <3>4 DEF Paired
  <2> QED
    BY <1>1, <1>6, <1>10, <2>1 DEF Paired
<1>14. Lead(list)'
  <2> SUFFICES ASSUME NEW a \in 1 .. Len(k), k[a].kind = "ref"
               PROVE  IF k[a].to \in dropped' THEN a <= head
                      ELSE \E b \in 1 .. Len(k) : Target(k, a, b)
    BY <1>1 DEF Lead, Target
  <2>1. PICK i \in 1 .. Len(list) : k[a] = list[i]
    BY <1>6
  <2>2. CASE list[i].to \in dropped
    <3>1. i <= head
      BY <1>2, <2>1, <2>2 DEF Lead
    <3>2. a <= head /\ k[a].to \in dropped'
      BY <1>5, <1>11, <2>1, <2>2, <3>1
    <3> QED
      BY <3>2
  <2>3. CASE list[i].to \notin dropped
    <3>1. PICK j \in 1 .. Len(list) : Target(list, i, j)
      BY <1>2, <2>1, <2>3 DEF Lead
    <3>2. i < j /\ list[j].id = list[i].to
      BY <1>3, <3>1 DEF Target
    <3>3. list[i].turn <= list[j].turn
      BY <1>2, <3>2 DEF Paired, ReturnsOK
    <3>4. list[i] \in Stays(t)
      BY <1>6, <2>1
    <3>5. CASE list[j] \in Stays(t)
      <4>1. PICK b \in 1 .. Len(k) : k[b] = list[j]
        BY <1>6, <3>5
      <4>2. a < b
        <5>1. k[a].id < k[b].id
          BY <1>2, <2>1, <3>2, <4>1 DEF Paired
        <5>2. ~(b < a) /\ a # b
          BY <1>3, <1>10, <2>1, <4>1, <5>1
        <5> QED
          BY <5>2
      <4>3. Target(k, a, b)
        BY <2>1, <3>1, <4>1, <4>2 DEF Target
      <4>4. k[a].to \notin dropped'
        <5>1. ASSUME NEW h \in 1 .. Len(list), list[h].id = list[j].id PROVE h = j
          <6>1. ~(h < j) /\ ~(j < h)
            BY <1>2, <1>3, <5>1 DEF Paired
          <6> QED
            BY <6>1
        <5> QED
          BY <1>5, <2>1, <2>3, <3>2, <3>5, <5>1
      <4> QED
        BY <4>3, <4>4
    <3>6. CASE list[j] \notin Stays(t)
      <4>1. list[j].turn < t
        BY <1>3, <1>4, <3>6
      <4>2. i <= head
        BY <1>3, <1>4, <3>3, <3>4, <4>1
      <4>3. a <= head /\ k[a].to \in dropped'
        BY <1>5, <1>11, <2>1, <3>2, <3>6, <4>2
      <4> QED
        BY <4>3
    <3> QED
      BY <3>5, <3>6
  <2> QED
    BY <2>2, <2>3
<1>15. Readable(list)'
  <2> SUFFICES ASSUME NEW a \in 1 .. Len(k), k[a].kind = "cleared"
               PROVE  k[a].id \in stripped \/ ~Recent(k[a].id)
    BY <1>1 DEF Readable, Recent, Since
  <2>1. PICK i \in 1 .. Len(list) : k[a] = list[i]
    BY <1>6
  <2> QED
    BY <1>2, <2>1 DEF Readable
<1> QED
  BY <1>12, <1>13, <1>14, <1>15 DEF ResultsInv

\* The invariant holds in every state.
LEMMA ResultsInvariant == ResultsSpec => []ResultsInv
<1>1. ResultsInit => ResultsInv
  <2> SUFFICES ASSUME ResultsInit PROVE ResultsInv
    OBVIOUS
  <2>1. ReturnsOK
    <3>1. all = <<>> /\ list = <<>> /\ Len(<<>>) = 0 /\ all \in Seq(Returned)
      BY EmptySeq DEF ResultsInit
    <3>2. turn \in 1 .. MaxTurns /\ MaxReturns \in Nat
      BY ToolResultsAssumption DEF ResultsInit
    <3>3. /\ spoken = FALSE /\ head = 0 /\ Len(list) = 0 /\ Len(all) = 0
          /\ stripped = {} /\ dropped = {}
      BY <3>1 DEF ResultsInit
    <3>4. head \in 0 .. Len(list) /\ Len(all) <= MaxReturns /\ 1 .. Len(all) = {}
      BY <3>2, <3>3
    <3> QED
      BY <3>1, <3>2, <3>3, <3>4 DEF ReturnsOK
  <2> QED
    BY <2>1 DEF ResultsInit, ResultsInv, Paired, Lead, Readable
<1>2. ResultsInv /\ [ResultsNext]_resultsVars => ResultsInv'
  <2> SUFFICES ASSUME ResultsInv, [ResultsNext]_resultsVars PROVE ResultsInv'
    OBVIOUS
  <2>1. CASE UNCHANGED resultsVars
    BY <2>1 DEF resultsVars, ResultsInv, ReturnsOK, Paired, Lead, Target, Readable,
       Recent, Since
  <2> QED
    BY <2>1, ToolReturnsKeeps, FirstTextKeeps, NewPromptKeeps, RequestKeeps,
       OverflowKeeps, CompactKeeps DEF ResultsNext
<1> QED
  BY <1>1, <1>2, PTL DEF ResultsSpec

\* The variables keep to their types, and the returns to the order of their calls.
THEOREM ResultsTypeCorrect == ResultsSpec => []ResultsTypeOK
<1>1. ResultsInv => ResultsTypeOK
  <2> SUFFICES ASSUME ResultsInv PROVE ResultsTypeOK
    OBVIOUS
  <2>1. DOMAIN list = 1 .. Len(list) /\ Len(all) \in Nat
    BY LenProperties DEF ResultsInv, ReturnsOK, Paired
  <2>2. MaxReturns \in Nat /\ Len(all) <= MaxReturns
    BY ToolResultsAssumption DEF ResultsInv, ReturnsOK
  <2>3. dropped \subseteq Ids
    BY <2>1, <2>2 DEF ResultsInv, ReturnsOK, Ids
  <2> QED
    BY <2>1, <2>3 DEF ResultsInv, ReturnsOK, Paired, ResultsTypeOK, Positions
<1> QED
  BY <1>1, ResultsInvariant, PTL

\* References can be followed through evictions, spills and compactions, for every
\* number of results, sizes and Keep.
THEOREM ResultsLead == ResultsSpec => []RefsLead
<1>1. ResultsInv => RefsLead
  <2> SUFFICES ASSUME ResultsInv PROVE RefsLead
    OBVIOUS
  <2>1. DOMAIN list = 1 .. Len(list)
    BY LenProperties DEF ResultsInv, Paired
  <2> QED
    BY <2>1 DEF ResultsInv, Lead, Target, RefsLead, Positions
<1> QED
  BY <1>1, ResultsInvariant, PTL

\* Recent results are there to read unless an overflow stripped them, for every Keep.
THEOREM ResultsReadable == ResultsSpec => []RecentReadable
<1>1. ResultsInv => RecentReadable
  <2> SUFFICES ASSUME ResultsInv PROVE RecentReadable
    OBVIOUS
  <2>1. DOMAIN list = 1 .. Len(list) /\ DOMAIN all = 1 .. Len(all)
    BY LenProperties DEF ResultsInv, ReturnsOK, Paired
  <2> QED
    BY <2>1 DEF ResultsInv, Readable, Recent, Since, RecentReadable, Positions
<1> QED
  BY <1>1, ResultsInvariant, PTL

=============================================================================
