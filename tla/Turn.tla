-------------------------------- MODULE Turn --------------------------------
(***************************************************************************)
(* One foreground turn: run_turn of co_cli/context/orchestrate.py with the *)
(* segments, the approval loop and the recovery paths it drives.           *)
(*                                                                         *)
(* A segment is one agent.run_stream_events call of the SDK.  Inside it    *)
(* the SDK works on its own copy "run" of the history: before each model   *)
(* request the history processors may replace it (Preflight), the model    *)
(* answers with text or with tool calls, calls that need no approval run   *)
(* at once, and a call that needs approval ends the segment.  What a       *)
(* segment did reaches the turn only when the segment completes; when it   *)
(* fails, "run" is dropped and the turn restarts from "history".           *)
(***************************************************************************)
EXTENDS History

CONSTANTS
    Histories,      \* message lists the REPL may hold when the turn starts
    ReformatBudget, \* _TurnState.tool_reformat_budget
    MaxTokenChoices,\* max_tokens of the model settings, 0 when there are none
    Ceiling,        \* _LENGTH_RETRY_CEILING
    MaxCalls,       \* bound: tool calls of one turn that are told apart
    HasTodos,       \* the session has active todos (snapshot after a marker)
    NoResult        \* no segment, or no turn, has a result yet

ASSUME TurnAssumption ==
    /\ Histories \subseteq Seq(Msg)
    /\ ReformatBudget \in Nat
    /\ MaxTokenChoices \subseteq Nat
    /\ Ceiling \in Nat
    /\ MaxCalls \in Nat
    /\ HasTodos \in BOOLEAN
    /\ NoResult \notin [msgs : Seq(Msg), pending : SUBSET Nat, cut : BOOLEAN]

\* A history holds at most one unanswered call, its last message: a turn that fails
\* may leave one, and no other turn starts until it is gone.
ASSUME HistoriesAssumption == \A h \in Histories : Dangling(h) => ~Dangling(Front(h))

Calls    == 1..MaxCalls
Prompt   == M("prompt", {0})
Reflect  == M("reflect", {})
Abort    == M("abort", {})
Answered == M("text", {})

VARIABLES
    entry,         \* message_history as the caller passed it
    pc,            \* where run_turn is
    input,         \* current_input is not None
    history,       \* current_history
    run,           \* the SDK's message list in the running segment
    budget,        \* tool_reformat_budget
    overflowTried, \* overflow_recovery_attempted
    latest,        \* latest_result: its messages, deferred calls, length flag
    decisions,     \* tool_approval_decisions; nothing pending when None
    filter,        \* deps.runtime.resume_tool_names is set
    maxTokens,     \* active_settings["max_tokens"], 0 when absent
    compacted,     \* deps.runtime.compaction_applied_this_turn
    issued,        \* how many tool calls the model has made
    result         \* the TurnResult

\* What happened in the world, for the properties only.
VARIABLES
    ran,           \* how often each call was executed (2: more than once)
    fresh,         \* calls executed in the running segment
    committed,     \* calls executed in segments that completed
    gated,         \* calls the SDK deferred for approval
    granted        \* calls the user (or a session rule) approved

turnVars  == <<input, history, budget, overflowTried, latest, decisions,
               maxTokens>>
segVars   == <<run, fresh>>
ghostVars == <<ran, committed, gated, granted>>
vars == <<entry, pc, filter, compacted, issued, result, turnVars, segVars,
          ghostVars>>

\* The SDK's copy goes when the segment ends, however it ends.
DropSegment == run' = <<>> /\ fresh' = {}

NoDecisions == [pending |-> {}, ok |-> {}]

Init ==
    /\ entry \in Histories
    /\ pc = "start"
    /\ input = TRUE
    /\ history = entry
    /\ run = <<>>
    /\ budget = ReformatBudget
    /\ overflowTried = FALSE
    /\ latest = NoResult
    /\ decisions = NoDecisions
    /\ filter = FALSE
    /\ maxTokens \in MaxTokenChoices
    /\ compacted = FALSE
    /\ issued = 0
    /\ result = NoResult
    /\ ran = [c \in Calls |-> 0]
    /\ fresh = {} /\ committed = {} /\ gated = {} /\ granted = {}

\* Seeded fault: recovery forgets the prompt in flight.
WithPromptLost == history

\* _history_with_pending_user_input
WithPrompt == IF input THEN Append(history, Prompt) ELSE history

\* The count stops at 2: the properties ask for once or more than once.
Execute(S) == ran' = [c \in Calls |-> IF c \in S /\ ran[c] < 2
                                      THEN ran[c] + 1 ELSE ran[c]]

-----------------------------------------------------------------------------
(***************************************************************************)
(* A segment.                                                              *)
(***************************************************************************)
IsResponse(m) == m.k \in TextKinds \cup CallKinds

\* The SDK resumes deferred calls at the last response of the list; calls
\* the list already answers after it are skipped, and the decisions must name
\* exactly the others.
Resumable(h, pending) ==
    \E i \in DOMAIN h :
        /\ HasCall(h[i])
        /\ \A j \in i + 1 .. Len(h) : ~IsResponse(h[j])
        /\ pending = h[i].of \ Covered(SubSeq(h, i + 1, Len(h)))

\* A segment with no decisions.  A prompt after an unanswered call is refused
\* by the SDK (Escape).  The SDK joins the adjacent requests of the list it is
\* given, and so do the later segments of the turn: what is joined keeps its parts
\* in their order, and the list here names them one by one (History).
StartFresh ==
    /\ pc = "start" /\ decisions.pending = {}
    /\ ~Dangling(history)
    /\ run' = IF input THEN Append(history, Prompt) ELSE history
    /\ fresh' = {}
    /\ pc' = "preflight"
    /\ UNCHANGED <<entry, filter, compacted, issued, result, turnVars,
                   ghostVars>>

\* Seeded fault: denied calls run too.
ToRunDenied(d) == d.pending

\* Of the decided calls, those that run.
ToRun(d) == d.ok

\* A segment that carries decisions runs the approved calls first; denied
\* ones get a return that says so.
StartResume ==
    /\ pc = "start" /\ decisions.pending # {}
    /\ Resumable(history, decisions.pending)
    /\ run' = Append(history, M("ret", decisions.pending))
    /\ Execute(ToRun(decisions))
    /\ fresh' = ToRun(decisions)
    /\ pc' = "preflight"
    /\ UNCHANGED <<entry, filter, compacted, issued, result, turnVars,
                   committed, gated, granted>>

\* The history processors before a model request: proactive compaction may
\* replace the list, and the SDK keeps what they return.
Preflight ==
    /\ pc = "preflight"
    /\ pc' = "request"
    /\ \/ UNCHANGED <<run, compacted>>
       \/ /\ run' \in Compactions(run, HasTodos)
          /\ compacted' = TRUE
    /\ UNCHANGED <<entry, filter, issued, result, fresh, turnVars, ghostVars>>

\* The segment completes: latest_result is set, the decisions are consumed.
Complete(msgs, pending, cut, done) ==
    /\ latest' = [msgs |-> msgs, pending |-> pending, cut |-> cut]
    /\ decisions' = NoDecisions
    /\ committed' = committed \cup done
    /\ DropSegment
    /\ pc' = "collect"
    /\ UNCHANGED <<entry, filter, compacted, result, input, history, budget,
                   overflowTried, maxTokens, granted>>

\* The model answers in text; "cut" when it stopped at the output limit.
Answer(cut) ==
    /\ pc = "request"
    /\ Complete(Append(run, Answered), {}, cut, fresh)
    /\ UNCHANGED <<issued, ran, gated>>

\* The model calls tools that need no approval; they run at once.
AutoCalls(kind, n) ==
    /\ pc = "request"
    /\ issued + n <= MaxCalls
    /\ LET S == issued + 1 .. issued + n
       IN  /\ run' = run \o <<M(kind, S), M("ret", S)>>
           /\ Execute(S)
           /\ fresh' = fresh \cup S
    /\ issued' = issued + n
    /\ pc' = "preflight"
    /\ UNCHANGED <<entry, filter, compacted, result, turnVars, committed,
                   gated, granted>>

\* The model calls a tools that run at once and g > 0 that need approval: the
\* former are answered, then the segment ends with the latter deferred.
GatedCalls(kind, a, g) ==
    /\ pc = "request"
    /\ issued + a + g <= MaxCalls
    /\ LET A == issued + 1 .. issued + a
           G == issued + a + 1 .. issued + a + g
           answered == IF A = {} THEN <<>> ELSE <<M("ret", A)>>
       IN  /\ Complete(run \o <<M(kind, A \cup G)>> \o answered, G, FALSE,
                       fresh \cup A)
           /\ Execute(A)
           /\ gated' = gated \cup G
    /\ issued' = issued + a + g

\* The model goes on calling: there is no request limit (orchestrate passes None).
\* Calls past MaxCalls are not told apart, nor are their messages.
CallOn ==
    /\ pc = "request" /\ issued = MaxCalls
    /\ pc' = "preflight"
    /\ UNCHANGED <<entry, filter, compacted, issued, result, turnVars, segVars,
                   ghostVars>>

\* It asks for one more approval: _run_approval_loop starts the next segment on the
\* list of the one that ended, with decisions that are not told apart either.
DeferOn ==
    /\ pc = "request" /\ issued = MaxCalls
    /\ latest' = [msgs |-> run, pending |-> {}, cut |-> FALSE]
    /\ decisions' = NoDecisions
    /\ committed' = committed \cup fresh
    /\ filter' = FALSE
    /\ input' = FALSE
    /\ history' = run
    /\ DropSegment
    /\ pc' = "start"
    /\ UNCHANGED <<entry, compacted, issued, result, budget, overflowTried,
                   maxTokens, ran, gated, granted>>

-----------------------------------------------------------------------------
(***************************************************************************)
(* Between segments.                                                       *)
(***************************************************************************)
\* _run_approval_loop: collect a decision for every deferred call, then
\* resume.
Decide ==
    /\ pc = "collect" /\ latest.pending # {}
    /\ filter' = TRUE
    /\ \E ok \in SUBSET latest.pending :
          /\ decisions' = [pending |-> latest.pending, ok |-> ok]
          /\ granted' = granted \cup ok
    /\ input' = FALSE
    /\ history' = latest.msgs
    /\ pc' = "start"
    /\ UNCHANGED <<entry, compacted, issued, result, budget, overflowTried,
                   latest, maxTokens, segVars, ran, committed, gated>>

\* _length_retry_settings: the answer was cut and the limit can be raised.
CanBoost == /\ latest.cut
            /\ maxTokens # 0 /\ maxTokens < Ceiling

\* Seeded fault: the approval loop leaves the tool filter on.
EndApprovalsFiltered == UNCHANGED filter /\ history' = latest.msgs

\* _run_approval_loop ends, run_turn adopts the messages.
EndApprovals == filter' = FALSE /\ history' = latest.msgs

LengthRetry ==
    /\ pc = "collect" /\ latest.pending = {} /\ CanBoost
    /\ EndApprovals
    /\ maxTokens' = Min({2 * maxTokens, Ceiling})
    /\ input' = FALSE
    /\ pc' = "start"
    /\ UNCHANGED <<entry, compacted, issued, result, budget, overflowTried,
                   latest, decisions, segVars, ghostVars>>

Return(outcome, interrupted, msgs) ==
    /\ result' = [outcome |-> outcome, interrupted |-> interrupted,
                  compacted |-> compacted, msgs |-> msgs]
    /\ DropSegment
    /\ pc' = "done"

Finish ==
    /\ pc = "collect" /\ latest.pending = {} /\ ~CanBoost
    /\ EndApprovals
    /\ Return("continue", FALSE, latest.msgs)
    /\ UNCHANGED <<entry, compacted, issued, input, budget, overflowTried,
                   latest, decisions, maxTokens, ghostVars>>

-----------------------------------------------------------------------------
(***************************************************************************)
(* The exception handlers of run_turn.                                     *)
(***************************************************************************)
\* Seeded fault: the results of completed segments are ignored.
HistoryOnly == history

\* What _build_error_turn_result and _build_interrupted_turn_result start
\* from.
LatestOrHistory == IF latest = NoResult THEN history ELSE latest.msgs

ErrorResult == Return("error", FALSE, LatestOrHistory)

\* Seeded fault: the one-shot flag is not consulted.
MayRecoverAgain == TRUE

MayRecover == ~overflowTried

\* Seeded fault: the attempt is not noted.
AttemptUnnoted == UNCHANGED overflowTried

\* Set before the attempt, so that none follows one that fails.
NoteAttempt == overflowTried' = TRUE

\* The first overflow, and the list fits once every tool return is stripped.
OverflowStrip ==
    /\ pc = "request" /\ MayRecover
    /\ NoteAttempt
    /\ history' = WithPrompt
    /\ input' = FALSE
    /\ compacted' = TRUE
    /\ DropSegment
    /\ pc' = "start"
    /\ UNCHANGED <<entry, filter, issued, result, budget, latest,
                   decisions, maxTokens, ghostVars>>

\* The first overflow, and the stripped list has to be summarized: the
\* handler awaits the summarizer.
OverflowSummarize ==
    /\ pc = "request" /\ MayRecover
    /\ NoteAttempt
    /\ Compactions(WithPrompt, HasTodos) # {}
    /\ DropSegment
    /\ pc' = "recovering"
    /\ UNCHANGED <<entry, filter, compacted, issued, result, input,
                   history, budget, latest, decisions, maxTokens, ghostVars>>

Recover ==
    /\ pc = "recovering"
    /\ history' \in Compactions(WithPrompt, HasTodos)
    /\ input' = FALSE
    /\ compacted' = TRUE
    /\ pc' = "start"
    /\ UNCHANGED <<entry, filter, issued, result, budget, overflowTried,
                   latest, decisions, maxTokens, segVars, ghostVars>>

\* A second overflow, or no boundary to cut at.
OverflowFatal ==
    /\ pc = "request"
    /\ ~MayRecover \/ Compactions(WithPrompt, HasTodos) = {}
    /\ overflowTried' = TRUE
    /\ ErrorResult
    /\ UNCHANGED <<entry, filter, compacted, issued, input, history,
                   budget, latest, decisions, maxTokens, ghostVars>>

MayReformulate == budget > 0

\* _apply_400_reformulation, then a pause before the retry.
Reject400 ==
    /\ pc = "request" /\ MayReformulate
    /\ budget' = budget - 1
    /\ history' = Append(history, Reflect)
    /\ input' = FALSE
    /\ DropSegment
    /\ pc' = "backoff"
    /\ UNCHANGED <<entry, filter, compacted, issued, result,
                   overflowTried, latest, decisions, maxTokens, ghostVars>>

Backoff ==
    /\ pc = "backoff"
    /\ pc' = "start"
    /\ UNCHANGED <<entry, filter, compacted, issued, result, turnVars,
                   segVars, ghostVars>>

\* A 400 with no budget left, another HTTP error, a network error, the segment
\* timeout (which also covers tools), malformed model output.
ProviderError ==
    /\ pc \in {"preflight", "request"}
    /\ ErrorResult
    /\ UNCHANGED <<entry, filter, compacted, issued, turnVars, ghostVars>>

\* Seeded fault: the unanswered call is kept.
InterruptedKeeping == Append(LatestOrHistory, Abort)

\* _build_interrupted_turn_result
Interrupted == Append(DropDangling(LatestOrHistory), Abort)

\* KeyboardInterrupt or CancelledError inside the try block.
Interrupt ==
    /\ pc \in {"start", "preflight", "request", "collect"}
    /\ Return("continue", TRUE, Interrupted)
    /\ UNCHANGED <<entry, filter, compacted, issued, turnVars, ghostVars>>

\* run_turn raises: an exception no handler names, a list the SDK refuses, or
\* an interrupt that arrives while a handler itself is awaiting.
Escape ==
    /\ pc \in {"start", "preflight", "request", "collect", "recovering",
               "backoff"}
    /\ DropSegment
    /\ pc' = "raised"
    /\ UNCHANGED <<entry, filter, compacted, issued, result, turnVars,
                   ghostVars>>

-----------------------------------------------------------------------------
Next ==
    \/ StartFresh \/ StartResume \/ Preflight
    \/ \E cut \in BOOLEAN : Answer(cut)
    \/ \E kind \in CallKinds, n \in 1..MaxCalls : AutoCalls(kind, n)
    \/ \E kind \in CallKinds, a \in 0..MaxCalls, g \in 1..MaxCalls :
          GatedCalls(kind, a, g)
    \/ CallOn \/ DeferOn
    \/ Decide \/ LengthRetry \/ Finish
    \/ OverflowStrip \/ OverflowSummarize \/ Recover \/ OverflowFatal
    \/ Reject400 \/ Backoff \/ ProviderError \/ Interrupt \/ Escape

\* Every wait of run_turn ends: the summarizer and the pause are finite, a prompt
\* is answered or broken off.  Which way it ends is left open.  And a segment is
\* under LLM_SEGMENT_TIMEOUT_SECS with all its requests and tools, so one that goes
\* on and on is broken off with an error.
Spec == Init /\ [][Next]_vars /\ WF_vars(Next) /\ WF_vars(ProviderError)

-----------------------------------------------------------------------------
(***************************************************************************)
(* Properties.                                                             *)
(***************************************************************************)
Position == {"start", "preflight", "request", "collect", "recovering",
             "backoff", "done", "raised"}

Contract == INSTANCE TurnContract
    WITH hist   <- entry,
         status <- CASE pc = "done"   -> "returned"
                     [] pc = "raised" -> "raised"
                     [] OTHER         -> "running",
         result <- result

Segment == [msgs : Seq(Msg), pending : SUBSET Calls, cut : BOOLEAN]

\* The variables of run_turn keep to their types.
TypeOK ==
    /\ entry \in Histories
    /\ pc \in Position
    /\ input \in BOOLEAN
    /\ history \in Seq(Msg)
    /\ run \in Seq(Msg)
    /\ budget \in 0..ReformatBudget
    /\ overflowTried \in BOOLEAN
    /\ latest \in Segment \cup {NoResult}
    /\ decisions \in [pending : SUBSET Calls, ok : SUBSET Calls]
    /\ filter \in BOOLEAN
    /\ maxTokens \in Nat
    /\ compacted \in BOOLEAN
    /\ issued \in 0..MaxCalls
    /\ result \in Contract!Result \cup {NoResult}
    /\ ran \in [Calls -> 0..2]
    /\ fresh \subseteq Calls /\ committed \subseteq Calls
    /\ gated \subseteq Calls /\ granted \subseteq Calls

\* run_turn keeps its promise to the REPL (TurnContract): what it returns has the
\* history it was given in front, message for message as they were made, unless it
\* reports a compaction, whatever segments failed, were retried or were interrupted
\* on the way.
ImplementsContract == Contract!Spec

\* A turn comes back to the REPL unless the model asks for approvals without end:
\* nothing bounds the approval loop, but the segment timeout ends a segment that
\* calls tools for ever, and the reformulation budget, the one-shot overflow recovery
\* and the output ceiling bound the retries of the loop in run_turn.
Terminates == <>[][~DeferOn]_vars => <>(pc \in {"done", "raised"})

\* A call that _run_approval_loop deferred runs only if it was approved, also
\* when decisions outlive the segment that carried them.
OnlyApprovedRun == \A c \in gated : ran[c] > 0 => c \in granted

\* The answer to the user is never built without the user's prompt: through
\* approvals, compaction, overflow recovery and length retries the prompt
\* stays in the list, itself or behind a marker, unless a 400 was reformulated.
PromptAnswered ==
    (pc = "done" /\ result.outcome = "continue" /\ ~result.interrupted
        /\ budget = ReformatBudget) => 0 \in Covered(result.msgs)

\* What tools did in a completed segment is on record in the result, itself or
\* behind a marker, also when a later segment fails or is interrupted.
EffectsRecorded == pc = "done" => committed \subseteq Covered(result.msgs)

\* The tool surface is narrowed (_approval_resume_filter) exactly while a
\* segment resumes approvals: no retry of run_turn starts an ordinary segment
\* with the narrowed surface, or a resume with the full one.
FilterOnlyInResume == pc = "start" => (filter <=> decisions.pending # {})

\* When a segment starts with decisions, the list still holds the calls they
\* are for, so the SDK accepts the resume: recovery from an overflow never
\* compacts the pending calls away.  (After a 400 reformulation it can, because
\* the reflection opens a group of its own behind the calls.)
ResumeAccepted ==
    (pc = "start" /\ decisions.pending # {} /\ budget = ReformatBudget)
        => Resumable(history, decisions.pending)

\* A call with effects runs once: approvals, length retries, failures and
\* interrupts execute none a second time.  The exception is an approved call
\* whose resume then overflowed or met a 400, for the retry still carries its
\* decision.
RerunOnlyByRetry ==
    \A c \in Calls : ran[c] > 1 =>
        c \in granted /\ (overflowTried \/ budget < ReformatBudget)

=============================================================================
