---------------------------- MODULE Compaction ----------------------------
(***************************************************************************)
(* When the conversation is compacted: the pressure check that runs before *)
(* every model request (proactive_window_processor), the recovery from a   *)
(* context overflow, and /compact.  All three share one summarizer with a  *)
(* circuit breaker, and one pair of runtime fields (the guard) that keeps  *)
(* the provider's token counts from before a compaction out of the check.  *)
(*                                                                         *)
(* A message keeps its kind, its weight in the local estimate, and the     *)
(* input tokens the provider reported with it (0: none).  "true" is not in *)
(* the program: it says that the report measured the list as it is now,    *)
(* which a compaction ends for every message it keeps.  A turn is one      *)
(* segment and its retries; the other ways a turn goes on are in Turn.     *)
(***************************************************************************)
EXTENDS SequencesExt

CONSTANTS
    Budget,      \* resolve_compaction_budget: the context window
    Threshold,   \* int(budget * compaction_ratio)
    Overhead,    \* what the provider counts and the local estimate does not
    MinSavings,  \* min_proactive_savings, in percent
    ThrashWindow,\* proactive_thrash_window
    Trip,        \* _COMPACTION_BREAKER_TRIP
    ProbeEvery,  \* _COMPACTION_BREAKER_PROBE_EVERY
    Weights,     \* what a tool return adds to the local estimate
    Transcripts, \* what /resume may load
    MaxLen,      \* bound: messages of a list
    MaxSkips,    \* bound: failures and skips of the summarizer
    None         \* no guard, no compaction under way

ASSUME CompactionAssumption ==
    /\ Budget \in Nat /\ Threshold \in Nat /\ Overhead \in Nat
    /\ MinSavings \in Nat /\ ThrashWindow \in Nat \ {0}
    /\ Trip \in Nat \ {0} /\ ProbeEvery \in Nat \ {0}
    /\ Weights \subseteq Nat \ {0}
    /\ MaxLen \in Nat /\ MaxSkips \in Nat
    /\ None \notin Nat

VARIABLES
    list,       \* the messages the next request is made of
    history,    \* turn_state.current_history: the list a failed segment leaves
    pc,         \* where the turn, or the command, is
    job,        \* the compaction under way: who asked, where the tail starts
    recovered,  \* turn_state.overflow_recovery_attempted
    applied,    \* runtime.compaction_applied_this_turn
    estimate,   \* runtime.post_compaction_token_estimate
    counted,    \* runtime.message_count_at_last_compaction
    skips,      \* runtime.compaction_skip_count
    lowYields,  \* runtime.consecutive_low_yield_proactive_compactions
    \* Not in the program:
    blocked,    \* compactions without the summarizer since it last failed
    disturbed   \* a turn failed, or the list or process was replaced, since
                \* the last compaction

turnVars  == <<list, history, pc, job, recovered, applied>>
guardVars == <<estimate, counted>>
vars == <<turnVars, guardVars, skips, lowYields, blocked, disturbed>>

-----------------------------------------------------------------------------
Msg == [k : {"user", "say", "call", "ret"}, w : Nat, report : Nat, true : BOOLEAN]

ASSUME TranscriptsAssumption == Transcripts \subseteq Seq(Msg)

User       == [k |-> "user", w |-> 1, report |-> 0, true |-> FALSE]
Return(w)  == [k |-> "ret", w |-> w, report |-> 0, true |-> FALSE]
Resp(k, n) == [k |-> k, w |-> 1, report |-> n, true |-> n > 0]
Outdated(m) == [m EXCEPT !.true = FALSE]
OutdatedAll(msgs) == [i \in DOMAIN msgs |-> Outdated(msgs[i])]

\* estimate_message_tokens
Local(msgs) ==
    LET sum[i \in 0..Len(msgs)] == IF i = 0 THEN 0 ELSE sum[i - 1] + msgs[i].w
    IN  sum[Len(msgs)]

Reporting(msgs) == {i \in DOMAIN msgs : msgs[i].report > 0}
\* latest_response_input_tokens
Reported(msgs) ==
    IF Reporting(msgs) = {} THEN 0 ELSE msgs[Max(Reporting(msgs))].report

\* What the list weighs by the best measure there is of it as it stands.
Pressure(msgs) ==
    LET at == Reporting(msgs)
    IN  IF at # {} /\ msgs[Max(at)].true
        THEN Max({Local(msgs), Reported(msgs)}) ELSE Local(msgs)

-----------------------------------------------------------------------------
(***************************************************************************)
(* The check.                                                              *)
(***************************************************************************)
\* Seeded fault: any response with a usage clears the guard.
FreshAnywhere(from) == Reporting(list)

\* The responses that came after the compaction the guard is from.
Fresh(from) == {i \in Reporting(list) : i > from}

GuardLifted == ~applied /\ counted # None /\ Fresh(counted) # {}

\* max(local, reported), with the guard's estimate for the report.
Count ==
    Max({Local(list),
         IF applied THEN 0
         ELSE IF estimate # None /\ ~GuardLifted THEN estimate
         ELSE Reported(list)})

\* find_first_run_end + 1.
HeadEnd(msgs) == LET texts == {i \in DOMAIN msgs : msgs[i].k = "say"}
                 IN  IF texts = {} THEN 1 ELSE Min(texts)
\* The turn starts past the head; which of them the tail budget selects is
\* left open.
TailStarts(msgs) == {i \in DOMAIN msgs : msgs[i].k = "user" /\ i > HeadEnd(msgs) + 1}

Paused == lowYields >= ThrashWindow

\* One run of the processor up to the summarizer.
Check ==
    /\ pc = "check"
    /\ IF GuardLifted THEN estimate' = None /\ counted' = None
                      ELSE UNCHANGED guardVars
    /\ \/ /\ Count <= Threshold \/ Paused \/ TailStarts(list) = {}
          /\ pc' = "request"
          /\ job' = None
       \/ /\ Count > Threshold /\ ~Paused
          /\ pc' = "compact"
          /\ \E s \in TailStarts(list) : 
                job' = [by |-> "check", tail |-> s, count |-> Count]
    /\ UNCHANGED <<list, history, recovered, applied, skips, lowYields,
                   blocked, disturbed>>

-----------------------------------------------------------------------------
(***************************************************************************)
(* One compaction: breaker, summarizer, assembly, commit.                  *)
(***************************************************************************)
SinceTrip == skips - Trip

\* Seeded fault: the breaker lets the call through at the moment it trips.
ProbesAtTrip == skips < Trip \/ SinceTrip % ProbeEvery = 0

\* _summarization_gate_open, with a model configured.
GateOpen == skips < Trip \/ (SinceTrip # 0 /\ SinceTrip % ProbeEvery = 0)

\* What stays beside the marker: the todo snapshot, if a plan is active, and the
\* calls of search_tools among the dropped messages, each with its result (here
\* one at most; a response that is written anew has no usage).
Crumbs  == {<<>>} \cup {<<Resp("call", 0), Return(w)>> : w \in Weights}
Besides == {snapshot \o crumbs : snapshot \in {<<>>, <<User>>}, crumbs \in Crumbs}

\* compact_messages: the list with everything between head and tail in one
\* marker; /compact has neither head nor tail.
Compacted(beside) ==
    IF job.by = "command" THEN <<User>> \o beside
    ELSE OutdatedAll(SubSeq(list, 1, HeadEnd(list))) \o <<User>> \o beside
           \o OutdatedAll(SubSeq(list, job.tail, Len(list)))

LowYield(after) == (job.count - Local(after)) * 100 < MinSavings * job.count

\* _record_proactive_outcome counts; recovery and /compact start over.
LowYieldsAfter(after) ==
    IF job.by = "check" /\ LowYield(after) THEN lowYields + 1 ELSE 0

\* commit_compaction
Commit(msgs) ==
    /\ applied' = TRUE
    /\ estimate' = Local(msgs)
    /\ counted' = Len(msgs)
    /\ disturbed' = FALSE

\* The compacted list goes back to whoever asked for it.
Delivered(msgs) ==
    /\ Commit(msgs)
    /\ lowYields' = LowYieldsAfter(msgs)
    /\ job' = None
    /\ CASE job.by = "check"   -> /\ list' = msgs
                                  /\ pc' = "request"
                                  /\ UNCHANGED history
         [] job.by = "recover" -> /\ list' = msgs
                                  /\ history' = msgs
                                  /\ pc' = "check"
         [] OTHER              -> /\ list' = Append(msgs, Resp("say", 0))
                                  /\ history' = list'
                                  /\ pc' = "idle"
    /\ UNCHANGED recovered

Deliver == \E beside \in Besides : Delivered(Compacted(beside))

Summarized ==
    /\ pc = "compact" /\ GateOpen
    /\ skips' = 0
    /\ blocked' = 0
    /\ Deliver

\* It raises, or returns nothing: a static marker instead.
SummarizerFails ==
    /\ pc = "compact" /\ GateOpen
    /\ skips' = skips + 1
    /\ blocked' = 0
    /\ Deliver

Blocked ==
    /\ pc = "compact" /\ ~GateOpen
    /\ skips' = skips + 1
    /\ blocked' = blocked + 1
    /\ Deliver

\* _build_interrupted_turn_result: the history and an abort marker.
Aborted == Append(history, User)

\* Ctrl-C while the summarizer runs: nothing is committed.  A turn ends, a
\* recovery's interrupt leaves run_turn as an exception, a command is over.
Cancelled ==
    /\ pc = "compact" /\ GateOpen
    /\ list' = IF job.by = "check" THEN Aborted ELSE history
    /\ history' = list'
    /\ pc' = "idle"
    /\ job' = None
    /\ disturbed' = (disturbed \/ job.by # "command")
    /\ UNCHANGED <<recovered, applied, guardVars, skips, lowYields, blocked>>

-----------------------------------------------------------------------------
(***************************************************************************)
(* The turn around it.                                                     *)
(***************************************************************************)
\* Seeded fault: the count of low yields is taken for a field of the turn.
LowYieldsLost == lowYields' = 0

\* reset_for_turn leaves the count of low yields alone.
LowYieldsKept == UNCHANGED lowYields

Submit ==
    /\ pc = "idle"
    /\ Len(list) < MaxLen /\ skips < MaxSkips
    /\ list' = Append(list, User)
    /\ pc' = "check"
    /\ applied' = FALSE
    /\ recovered' = FALSE
    /\ LowYieldsKept
    /\ UNCHANGED <<history, job, guardVars, skips, blocked, disturbed>>

\* What the provider counts for this request; some report no usage.
Usages == {0, Local(list) + Overhead}

Answer(n) ==
    /\ pc = "request"
    /\ list' = Append(list, Resp("say", n))
    /\ history' = list'
    /\ pc' = "idle"
    /\ UNCHANGED <<job, recovered, applied, guardVars, skips, lowYields,
                   blocked, disturbed>>

CallTool(n, w) ==
    /\ pc = "request"
    /\ Len(list) + 2 <= MaxLen /\ skips < MaxSkips
    /\ list' = list \o <<Resp("call", n), Return(w)>>
    /\ pc' = "check"
    /\ UNCHANGED <<history, job, recovered, applied, guardVars, skips,
                   lowYields, blocked, disturbed>>

\* What recovery works on: the history and the prompt, without what the
\* failed segment added.
Recoverable == Append(history, User)
Stripped == [i \in DOMAIN Recoverable |->
                IF Recoverable[i].k = "ret"
                THEN [Recoverable[i] EXCEPT !.w = 1] ELSE Recoverable[i]]

\* recover_overflow_history, path 1: without tool returns it fits.
OverflowStrip ==
    /\ pc = "request" /\ ~recovered
    /\ Local(Stripped) <= Budget
    /\ list' = OutdatedAll(Stripped)
    /\ history' = OutdatedAll(Stripped)
    /\ Commit(Stripped)
    /\ lowYields' = 0
    /\ recovered' = TRUE
    /\ pc' = "check"
    /\ UNCHANGED <<job, skips, blocked>>

\* Path 2: the stripped list is compacted.
OverflowCompact ==
    /\ pc = "request" /\ ~recovered
    /\ Local(Stripped) > Budget
    /\ list' = OutdatedAll(Stripped)
    /\ recovered' = TRUE
    /\ \E s \in TailStarts(Stripped) :
          job' = [by |-> "recover", tail |-> s, count |-> Local(Stripped)]
    /\ pc' = "compact"
    /\ UNCHANGED <<history, applied, guardVars, skips, lowYields, blocked, disturbed>>

\* A network error, a timeout, Ctrl-C, or an overflow recovery cannot help:
\* what the segment added to the list is dropped.
SegmentFails ==
    /\ pc = "request"
    /\ list' \in {history, Aborted}
    /\ history' = list'
    /\ pc' = "idle"
    /\ disturbed' = TRUE
    /\ UNCHANGED <<job, recovered, applied, guardVars, skips,
                   lowYields, blocked>>

-----------------------------------------------------------------------------
(***************************************************************************)
(* Commands between turns.                                                 *)
(***************************************************************************)
Command(msgs) ==
    /\ pc = "idle"
    /\ list' = msgs
    /\ history' = msgs
    /\ UNCHANGED <<pc, recovered, applied, skips, blocked>>

CmdCompact ==
    /\ pc = "idle" /\ list # <<>> /\ skips < MaxSkips
    /\ pc' = "compact"
    /\ job' = [by |-> "command", tail |-> 0, count |-> 0]
    /\ UNCHANGED <<list, history, recovered, applied, guardVars, skips,
                   lowYields, blocked, disturbed>>

\* /new and /clear: only the guard is cleared.
CmdNew ==
    /\ Command(<<>>)
    /\ estimate' = None
    /\ counted' = None
    /\ UNCHANGED <<job, lowYields, disturbed>>

CmdResume(t) ==
    /\ Command(t)
    /\ disturbed' = TRUE
    /\ UNCHANGED <<job, guardVars, lowYields>>

\* The process ends and a new one resumes the session.
Restart ==
    /\ pc = "idle"
    /\ recovered' = FALSE
    /\ applied' = FALSE
    /\ estimate' = None
    /\ counted' = None
    /\ skips' = 0
    /\ lowYields' = 0
    /\ blocked' = 0
    /\ disturbed' = TRUE
    /\ UNCHANGED <<list, history, pc, job>>

-----------------------------------------------------------------------------
Init ==
    /\ list = <<>>
    /\ history = <<>>
    /\ pc = "idle"
    /\ job = None
    /\ recovered = FALSE
    /\ applied = FALSE
    /\ estimate = None
    /\ counted = None
    /\ skips = 0
    /\ lowYields = 0
    /\ blocked = 0
    /\ disturbed = FALSE

Next ==
    \/ Check \/ Summarized \/ SummarizerFails \/ Blocked \/ Cancelled
    \/ Submit
    \/ \E n \in Usages : Answer(n) \/ \E w \in Weights : CallTool(n, w)
    \/ OverflowStrip \/ OverflowCompact \/ SegmentFails
    \/ CmdCompact \/ CmdNew \/ Restart
    \/ \E t \in Transcripts : CmdResume(t)

Spec == Init /\ [][Next]_vars

-----------------------------------------------------------------------------
(***************************************************************************)
(* Properties.                                                             *)
(***************************************************************************)
\* The control and its counters keep to their types, and outside of a turn the
\* list is the one a failed turn would go back to.
TypeOK ==
    /\ pc \in {"idle", "check", "request", "compact"}
    /\ pc = "compact" => job.by \in {"check", "recover", "command"}
    /\ recovered \in BOOLEAN /\ applied \in BOOLEAN
    /\ skips \in Nat /\ lowYields \in 0..ThrashWindow /\ blocked \in Nat
    /\ disturbed \in BOOLEAN
    /\ pc = "idle" => list = history

\* The check weighs the list it is given: never by a report from before the
\* last compaction (which would compact again at once), and never by less than
\* the list's own report, except in the turn that compacted, which goes by the
\* local estimate.  That holds as long as nothing took the list or the guard
\* away since that compaction; a failed turn, /resume and a restart do.
CountIsPressure ==
    pc = "check" /\ ~disturbed =>
        /\ Count <= Pressure(list)
        /\ applied \/ Count >= Pressure(list)

\* With the breaker open the summarizer is neither hammered nor given up:
\* between two failures at least ProbeEvery - 1 compactions do without it, and
\* never more than ProbeEvery in a row do, whoever asks for them.
ProbesKeepCadence ==
    /\ blocked <= ProbeEvery
    /\ pc = "compact" /\ GateOpen /\ skips >= Trip => blocked >= ProbeEvery - 1

\* A pause is not lifted by the turns it holds up: compaction that low yields
\* have paused stays paused through turns, their failures and /resume, until the
\* user runs /compact or starts over (/new, /clear), a request overflows, or
\* the process ends.
PausedUntilHelped ==
    [][Paused /\ ~Paused' =>
          \/ pc = "compact" /\ job.by # "check"
          \/ pc = "request" /\ recovered'
          \/ CmdNew \/ Restart]_vars

\* What docs/specs/compaction.md:204 says of the count of low yields, a field that
\* outlives turns ("cleared explicitly by /new and /clear"), and the hint that
\* orchestrate.py:552 gives while compaction is paused ("/new for a fresh
\* session"): compaction works again after /new.  It does not: the commands clear
\* the guard and leave the count.
NewLiftsPause == [][CmdNew => ~Paused']_vars

=============================================================================
