----------------------------- MODULE ToolCallCap -----------------------------
(***************************************************************************)
(* The cap on tool calls per model response: wrap_tool_execute of          *)
(* co_cli/tools/lifecycle.py, driven by the turn loop.                     *)
(*                                                                         *)
(* The capability does not see responses.  It counts calls under the       *)
(* SDK's ctx.run_step and starts a new count when that number differs from *)
(* the one it counted under last.  The SDK's number starts at 0 in every   *)
(* run (segment) and grows by one with each model request; the calls a     *)
(* segment resumes after approval run before its first request, at 0.  The *)
(* two runtime fields outlive segments and turns (CoRuntimeState).         *)
(*                                                                         *)
(* Calls are the numbers of a response's calls after duplicates have been  *)
(* dropped (_dedup_tool_call_parts).  They run in parallel, but counting   *)
(* and checking one call is a single step: there is no await before the    *)
(* handler.                                                                *)
(***************************************************************************)
EXTENDS Integers, FiniteSets

CONSTANTS
    Cap,         \* MAX_TOOL_CALLS_PER_MODEL_TURN
    MaxIssue,    \* bound: calls in one response
    MaxStep,     \* bound: model requests in one segment
    MaxSegments  \* bound: segments over all turns

ASSUME CapAssumption ==
    /\ Cap \in Nat \ {0}
    /\ MaxIssue \in Nat /\ MaxStep \in Nat /\ MaxSegments \in Nat

Calls == 1..MaxIssue

VARIABLES
    limitStep,  \* runtime.tool_call_limit_run_step
    count,      \* runtime.tool_calls_in_model_turn
    pc,         \* "idle" between turns, "request", "tools", "collect"
    step,       \* ctx.run_step of the running segment
    issued,     \* calls of the response whose calls run
    asking,     \* of these, the ones whose handler raises ApprovalRequired
    todo,       \* calls the segment has yet to start
    deferred,   \* calls that wait for approval
    approved,   \* _TurnState.tool_approval_decisions: the approved calls
    resumed     \* calls of the response the decisions are for

\* What happened, for the properties only.
VARIABLES
    ranHere,    \* handlers entered at this step of this segment
    rejected,   \* calls of the batch turned away
    earlier,    \* the segment counted calls at an earlier step
    segments    \* segments started

runtime == <<limitStep, count>>
turnVars == <<issued, asking, deferred, approved, resumed>>
capVars == <<runtime, pc, step, todo, turnVars, ranHere, rejected, earlier,
          segments>>

CapInit ==
    /\ limitStep = -1 /\ count = 0
    /\ pc = "idle" /\ step = 0
    /\ issued = {} /\ asking = {} /\ todo = {} /\ deferred = {}
    /\ approved = {} /\ resumed = {}
    /\ ranHere = 0 /\ rejected = {} /\ earlier = FALSE /\ segments = 0

-----------------------------------------------------------------------------
\* A new SDK run whose first batch is S.
StartSegment(S) ==
    /\ segments < MaxSegments
    /\ segments' = segments + 1
    /\ step' = 0
    /\ todo' = S
    /\ pc' = IF S = {} THEN "request" ELSE "tools"
    /\ ranHere' = 0 /\ rejected' = {} /\ earlier' = FALSE

\* run_turn: reset_for_turn leaves the two fields of the cap alone.
StartTurn ==
    /\ pc = "idle"
    /\ StartSegment({})
    /\ issued' = {} /\ asking' = {} /\ deferred' = {}
    /\ approved' = {} /\ resumed' = {}
    /\ UNCHANGED runtime

\* Calls declared to need approval (G) are deferred unseen.
Started(S, G) == S \ G

\* The model answers with the calls S.  The tools of those in G are declared
\* to need approval, the handlers of those in A ask for it themselves.
Respond(S, G, A) ==
    /\ pc = "request" /\ step < MaxStep
    /\ step' = step + 1
    /\ issued' = S /\ asking' = A
    /\ todo' = Started(S, G) /\ deferred' = G
    /\ pc' = "tools"
    /\ ranHere' = 0 /\ rejected' = {}
    /\ earlier' = (earlier \/ ranHere > 0 \/ rejected # {})
    /\ UNCHANGED <<runtime, approved, resumed, segments>>

\* Seeded fault: the count is never started over.
CountedNever == count + 1

\* The count with the call that is being wrapped.
Counted == IF step # limitStep THEN 1 ELSE count + 1

\* Seeded fault: the check is against the count before this call.
OverLate(n) == n - 1 > Cap

Over(n) == n > Cap

\* wrap_tool_execute.  A handler that asks does so only in the segment that
\* issued the call; in the one that resumes it (step 0) it is approved.
Wrap(c) ==
    /\ pc = "tools" /\ c \in todo
    /\ todo' = todo \ {c}
    /\ limitStep' = step
    /\ count' = Counted
    /\ \/ /\ Over(Counted)
          /\ rejected' = rejected \cup {c}
          /\ UNCHANGED <<ranHere, deferred>>
       \/ /\ ~Over(Counted)
          /\ ranHere' = ranHere + 1
          /\ deferred' = IF c \in asking /\ step > 0
                         THEN deferred \cup {c} ELSE deferred
          /\ UNCHANGED rejected
    /\ UNCHANGED <<pc, step, issued, asking, approved, resumed, earlier,
                   segments>>

\* All calls are back: the next request, or the segment completes with
\* deferred calls and the decisions it carried are consumed.
EndBatch ==
    /\ pc = "tools" /\ todo = {}
    /\ pc' = IF deferred = {} THEN "request" ELSE "collect"
    /\ approved' = IF deferred = {} THEN approved ELSE {}
    /\ UNCHANGED <<runtime, step, issued, asking, todo, deferred, resumed,
                   ranHere, rejected, earlier, segments>>

\* _run_approval_loop: the approved calls run in a segment of their own.
Resume(ok) ==
    /\ pc = "collect"
    /\ approved' = ok /\ deferred' = {} /\ resumed' = issued
    /\ StartSegment(ok)
    /\ UNCHANGED <<runtime, issued, asking>>

\* The request is rejected or too long and run_turn starts over: with the
\* decisions of the segment that failed, if it carried any.
Retry ==
    /\ pc = "request"
    /\ StartSegment(approved)
    /\ issued' = resumed
    /\ UNCHANGED <<runtime, asking, deferred, approved, resumed>>

\* The turn ends: an answer, an error, an interrupt in the middle of a batch.
EndTurn ==
    /\ pc # "idle"
    /\ pc' = "idle"
    /\ todo' = {}
    /\ UNCHANGED <<runtime, step, turnVars, ranHere, rejected, earlier,
                   segments>>

CapNext ==
    \/ StartTurn
    \/ \E S \in SUBSET Calls : \E G \in SUBSET S : \E A \in SUBSET (S \ G) :
          S # {} /\ Respond(S, G, A)
    \/ \E c \in Calls : Wrap(c)
    \/ EndBatch
    \/ \E ok \in SUBSET deferred : Resume(ok)
    \/ Retry \/ EndTurn

CapSpec == CapInit /\ [][CapNext]_capVars

-----------------------------------------------------------------------------
(***************************************************************************)
(* Properties.                                                             *)
(***************************************************************************)
\* The variables keep to their types: a call is started, waits, or neither,
\* and the calls a segment works on are those of the response it is for.
CapTypeOK ==
    /\ limitStep \in Int /\ count \in Nat
    /\ pc \in {"idle", "request", "tools", "collect"}
    /\ step \in Nat
    /\ issued \subseteq Calls /\ asking \subseteq Calls
    /\ todo \subseteq issued \ deferred /\ deferred \subseteq issued
    /\ resumed \subseteq Calls /\ approved \subseteq resumed
    /\ ranHere \in Nat /\ rejected \subseteq issued
    /\ earlier \in BOOLEAN /\ segments \in Nat

\* No step of a segment starts more handlers than the cap, whatever the count
\* was left at by earlier segments and turns.
StepCapped == ranHere <= Cap

\* Where the count can be off: a call is turned away before the cap's worth of
\* handlers ran only in the first batch that its segment counts (the count of
\* an earlier segment or turn went on).  From then on the segment's steps are
\* numbers the counter has not seen.
CarryOnlyAtStart == (rejected # {} /\ ranHere < Cap) => ~earlier

=============================================================================
