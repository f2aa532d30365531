----------------------------- MODULE TurnProofs -----------------------------
(***************************************************************************)
(* Theorems about run_turn for every set of starting histories, every      *)
(* reformulation budget and output ceiling, and any number of tool calls.  *)
(***************************************************************************)
EXTENDS Turn, HistoryTheorems

\* The messages the loop adds, and the None of the decisions, have their types.
LEMMA Constants ==
    /\ Prompt \in Msg /\ Reflect \in Msg /\ Abort \in Msg /\ Answered \in Msg
    /\ NoDecisions \in [pending : SUBSET Calls, ok : SUBSET Calls]
    /\ \A S \in SUBSET Calls, k \in Kinds : M(k, S) \in Msg
<1>1. SUBSET Calls \subseteq SUBSET Nat
  BY TurnAssumption DEF Calls
<1> QED
  BY <1>1, MsgType DEF Prompt, Reflect, Abort, Answered, NoDecisions, Kinds,
     CarrierKinds, TextKinds, CallKinds

\* The calls of one answer are calls within the bound.
LEMMA CallRange ==
    ASSUME NEW i \in 0..MaxCalls, NEW a \in Nat, NEW b \in Nat, b <= MaxCalls
    PROVE  i + a + 1 .. b \subseteq Calls
BY TurnAssumption DEF Calls

\* The recorded list, with the prompt in flight behind it.
LEMMA WithPromptType ==
    ASSUME history \in Seq(Msg)
    PROVE  WithPrompt \in Seq(Msg)
BY Constants, AppendProperties DEF WithPrompt

\* What the result builders start from.
LEMMA LatestType ==
    ASSUME history \in Seq(Msg), latest \in Segment \cup {NoResult}
    PROVE  LatestOrHistory \in Seq(Msg)
BY DEF LatestOrHistory, Segment

\* The contract speaks of the same messages.
LEMMA ContractMsg == Contract!Msg = Msg
BY DEF Contract!Msg, Contract!Kinds, Contract!CarrierKinds,
   Contract!TextKinds, Contract!CallKinds, Msg, Kinds, CarrierKinds, TextKinds,
   CallKinds

\* Returning leaves a result of the right shape.
LEMMA ReturnType ==
    ASSUME NEW outcome \in {"continue", "error"}, NEW int \in BOOLEAN,
           NEW msgs \in Seq(Msg), compacted \in BOOLEAN,
           Return(outcome, int, msgs)
    PROVE  result' \in Contract!Result /\ pc' = "done"
           /\ run' = <<>> /\ fresh' = {}
BY ContractMsg DEF Return, DropSegment, Contract!Result, Contract!Outcomes

-----------------------------------------------------------------------------
USE DEF vars, turnVars, segVars, ghostVars

\* Between two segments there is a result to look at.
IType == TypeOK /\ (pc = "collect" => latest \in Segment)

\* The types hold initially.
LEMMA InitType == Init => IType
<1> SUFFICES ASSUME Init PROVE IType
  OBVIOUS
<1>1. /\ history \in Seq(Msg) /\ entry \in Histories
      /\ run \in Seq(Msg)
  BY TurnAssumption DEF Init
<1>2. decisions \in [pending : SUBSET Calls, ok : SUBSET Calls]
  BY Constants DEF Init
<1>3. ran \in [Calls -> 0..2]
  BY DEF Init
<1>4. /\ budget \in 0..ReformatBudget /\ maxTokens \in Nat
      /\ issued \in 0..MaxCalls
  BY TurnAssumption DEF Init
<1>5. /\ pc \in Position /\ input \in BOOLEAN /\ overflowTried \in BOOLEAN
      /\ filter \in BOOLEAN /\ compacted \in BOOLEAN
      /\ latest = NoResult /\ result = NoResult
      /\ fresh = {} /\ committed = {} /\ gated = {} /\ granted = {}
  BY DEF Init, Position
<1>6. pc # "collect"
  BY DEF Init
<1> QED
  BY <1>1, <1>2, <1>3, <1>4, <1>5, <1>6 DEF IType, TypeOK

\* Every step keeps the types.
LEMMA NextType == IType /\ [Next]_vars => IType'
<1> SUFFICES ASSUME IType, [Next]_vars PROVE IType'
  OBVIOUS
<1> USE TurnAssumption DEF IType, TypeOK, Position
<1>1. CASE StartFresh
  <2>1. run' \in Seq(Msg)
    BY <1>1, Constants, AppendProperties DEF StartFresh
  <2> QED
    BY <1>1, <2>1 DEF StartFresh
<1>2. CASE StartResume
  <2>1. run' \in Seq(Msg)
    BY <1>2, Constants, AppendProperties DEF StartResume, Kinds
  <2>2. ran' \in [Calls -> 0..2]
    BY <1>2 DEF StartResume, Execute
  <2>3. fresh' \subseteq Calls
    BY <1>2 DEF StartResume, ToRun
  <2> QED
    BY <1>2, <2>1, <2>2, <2>3 DEF StartResume
<1>3. CASE Preflight
  <2>1. run' \in Seq(Msg) /\ compacted' \in BOOLEAN
    BY <1>3, CompactionType DEF Preflight
  <2> QED
    BY <1>3, <2>1 DEF Preflight
<1>4. ASSUME NEW cut \in BOOLEAN, Answer(cut) PROVE IType'
  <2>1. Append(run, Answered) \in Seq(Msg)
    BY Constants, AppendProperties
  <2>2. latest' \in Segment
    BY <1>4, <2>1 DEF Answer, Complete, Segment
  <2>3. run' = <<>> /\ fresh' = {}
    BY <1>4 DEF Answer, Complete, DropSegment
  <2> QED
    BY <1>4, <2>2, <2>3, Constants DEF Answer, Complete
<1>5. ASSUME NEW kind \in CallKinds, NEW n \in 1..MaxCalls, AutoCalls(kind, n)
      PROVE  IType'
  <2> DEFINE S == issued + 1 .. issued + n
  <2>1. S \subseteq Calls
    BY <1>5 DEF AutoCalls, Calls
  <2>2. M(kind, S) \in Msg /\ M("ret", S) \in Msg
    BY <2>1, Constants DEF Kinds
  <2>3. run' \in Seq(Msg)
    <3> HIDE DEF S
    <3>1. <<M(kind, S), M("ret", S)>> \in Seq(Msg)
      BY <2>2
    <3>2. run' = run \o <<M(kind, S), M("ret", S)>>
      BY <1>5 DEF AutoCalls, S
    <3> QED
      BY <3>1, <3>2, ConcatProperties
  <2>4. ran' \in [Calls -> 0..2]
    BY <1>5 DEF AutoCalls, Execute
  <2> QED
    BY <1>5, <2>1, <2>3, <2>4 DEF AutoCalls
<1>6. ASSUME NEW kind \in CallKinds, NEW a \in 0..MaxCalls,
             NEW g \in 1..MaxCalls, GatedCalls(kind, a, g)
      PROVE  IType'
  <2> DEFINE A == issued + 1 .. issued + a
             G == issued + a + 1 .. issued + a + g
             answered == IF A = {} THEN <<>> ELSE <<M("ret", A)>>
             msgs == run \o <<M(kind, A \cup G)>> \o answered
  <2>1. A \subseteq Calls /\ G \subseteq Calls
    BY <1>6 DEF GatedCalls, Calls
  <2>2. M(kind, A \cup G) \in Msg /\ M("ret", A) \in Msg
    BY <2>1, Constants DEF Kinds
  <2>3. Complete(msgs, G, FALSE, fresh \cup A) /\ Execute(A)
        /\ gated' = gated \cup G
    BY <1>6 DEF GatedCalls
  <2>4. issued' = issued + a + g /\ issued + a + g <= MaxCalls
    BY <1>6 DEF GatedCalls
  <2> HIDE DEF A, G
  <2>5. msgs \in Seq(Msg)
    <3>1. <<M(kind, A \cup G)>> \in Seq(Msg) /\ answered \in Seq(Msg)
      BY <2>2
    <3> QED
      BY <3>1, ConcatProperties
  <2>6. latest' \in Segment
    <3> HIDE DEF msgs
    <3> QED
      BY <2>1, <2>3, <2>5 DEF Complete, Segment
  <2>7. ran' \in [Calls -> 0..2]
    BY <2>3 DEF Execute
  <2>8. run' = <<>> /\ fresh' = {} /\ pc' = "collect"
        /\ decisions' = NoDecisions /\ committed' = committed \cup (fresh \cup A)
        /\ UNCHANGED <<entry, filter, compacted, result, input, history,
                       budget, overflowTried, maxTokens, granted>>
    BY <2>3 DEF Complete, DropSegment
  <2> QED
    BY <2>1, <2>3, <2>4, <2>6, <2>7, <2>8, Constants
<1>7. CASE Decide
  <2>1. latest \in Segment
    BY <1>7 DEF Decide
  <2>2. latest.pending \subseteq Calls /\ latest.msgs \in Seq(Msg)
    BY <2>1 DEF Segment
  <2>3. PICK ok \in SUBSET latest.pending :
           /\ decisions' = [pending |-> latest.pending, ok |-> ok]
           /\ granted' = granted \cup ok
    BY <1>7 DEF Decide
  <2>4. /\ decisions' \in [pending : SUBSET Calls, ok : SUBSET Calls]
        /\ granted' \subseteq Calls
    BY <2>2, <2>3
  <2> QED
    BY <1>7, <2>2, <2>4 DEF Decide
<1>8. CASE LengthRetry
  <2>1. latest.msgs \in Seq(Msg)
    BY <1>8 DEF LengthRetry, Segment
  <2>2. maxTokens' \in Nat
    <3>1. Min({2 * maxTokens, Ceiling}) \in {2 * maxTokens, Ceiling}
      BY DEF Min
    <3> QED
      BY <1>8, <3>1 DEF LengthRetry
  <2> QED
    BY <1>8, <2>1, <2>2 DEF LengthRetry, EndApprovals
<1>9. CASE Finish
  <2>1. latest.msgs \in Seq(Msg)
    BY <1>9 DEF Finish, Segment
  <2>2. result' \in Contract!Result /\ pc' = "done" /\ run' = <<>> /\ fresh' = {}
    BY <1>9, <2>1, ReturnType DEF Finish
  <2> QED
    <3>1. filter' \in BOOLEAN /\ history' \in Seq(Msg)
      BY <1>9, <2>1 DEF Finish, EndApprovals
    <3> QED
      BY <1>9, <2>2, <3>1 DEF Finish
<1>10. WithPrompt \in Seq(Msg)
  BY WithPromptType
<1>11. CASE OverflowStrip
  <2>1. /\ overflowTried' \in BOOLEAN /\ input' \in BOOLEAN
        /\ compacted' \in BOOLEAN /\ history' \in Seq(Msg)
    BY <1>10, <1>11 DEF OverflowStrip, NoteAttempt
  <2>2. run' = <<>> /\ fresh' = {} /\ pc' = "start"
    BY <1>11 DEF OverflowStrip, NoteAttempt, DropSegment
  <2> QED
    BY <1>11, <2>1, <2>2 DEF OverflowStrip, NoteAttempt
<1>12. CASE OverflowSummarize
  BY <1>12 DEF OverflowSummarize, NoteAttempt, DropSegment
<1>13. CASE Recover
  <2>1. history' \in Seq(Msg)
    BY <1>10, <1>13, CompactionType DEF Recover
  <2> QED
    BY <1>13, <2>1 DEF Recover
<1>14. LatestOrHistory \in Seq(Msg)
  BY LatestType
<1>15. CASE OverflowFatal
  <2>1. result' \in Contract!Result /\ pc' = "done" /\ run' = <<>> /\ fresh' = {}
    BY <1>14, <1>15, ReturnType DEF OverflowFatal, ErrorResult
  <2> QED
    BY <1>15, <2>1 DEF OverflowFatal
<1>16. CASE Reject400
  <2>1. history' \in Seq(Msg)
    BY <1>16, Constants, AppendProperties DEF Reject400
  <2>2. budget' \in 0..ReformatBudget
    BY <1>16 DEF Reject400, MayReformulate
  <2> QED
    <3>1. run' = <<>> /\ fresh' = {} /\ pc' = "backoff" /\ input' \in BOOLEAN
      BY <1>16 DEF Reject400, DropSegment
    <3> QED
      BY <1>16, <2>1, <2>2, <3>1 DEF Reject400
<1>17. CASE Backoff
  BY <1>17 DEF Backoff
<1>18. CASE ProviderError
  <2>1. result' \in Contract!Result /\ pc' = "done" /\ run' = <<>> /\ fresh' = {}
    BY <1>14, <1>18, ReturnType DEF ProviderError, ErrorResult
  <2> QED
    BY <1>18, <2>1 DEF ProviderError
<1>19. CASE Interrupt
  <2>1. Interrupted \in Seq(Msg)
    BY <1>14, DropDanglingType, Constants, AppendProperties DEF Interrupted
  <2>2. result' \in Contract!Result /\ pc' = "done" /\ run' = <<>> /\ fresh' = {}
    BY <1>19, <2>1, ReturnType DEF Interrupt
  <2> QED
    BY <1>19, <2>2 DEF Interrupt
<1>20. CASE Escape
  BY <1>20 DEF Escape, DropSegment
<1>21. CASE UNCHANGED vars
  BY <1>21
<1>22. CASE CallOn
  BY <1>22 DEF CallOn
<1>23. CASE DeferOn
  <2>1. latest' \in Segment
    BY <1>23 DEF DeferOn, Segment
  <2>2. /\ run' = <<>> /\ fresh' = {} /\ decisions' = NoDecisions
        /\ committed' = committed \cup fresh /\ filter' = FALSE /\ input' = FALSE
        /\ history' = run /\ pc' = "start"
        /\ UNCHANGED <<entry, compacted, issued, result, budget, overflowTried,
                       maxTokens, ran, gated, granted>>
    BY <1>23 DEF DeferOn, DropSegment
  <2>3. decisions' \in [pending : SUBSET Calls, ok : SUBSET Calls]
    BY <2>2, Constants
  <2>4. run' \in Seq(Msg)
    BY <2>2
  <2>5. committed' \subseteq Calls /\ fresh' \subseteq Calls
    BY <2>2
  <2>6. history' \in Seq(Msg) /\ input' \in BOOLEAN /\ filter' \in BOOLEAN
    BY <2>2
  <2> QED
    BY <2>1, <2>2, <2>3, <2>4, <2>5, <2>6
<1> QED
  BY <1>1, <1>2, <1>3, <1>4, <1>5, <1>6, <1>7, <1>8, <1>9, <1>11, <1>12, <1>13,
     <1>15, <1>16, <1>17, <1>18, <1>19, <1>20, <1>21, <1>22, <1>23 DEF Next

\* The variables of run_turn keep to their types.
THEOREM TurnTypeCorrect == Spec => []TypeOK
<1>1. Spec => []IType
  BY InitType, NextType, PTL DEF Spec
<1> QED
  BY <1>1, PTL DEF IType

-----------------------------------------------------------------------------
(***************************************************************************)
(* The tool filter.  Between collecting decisions and the end of the       *)
(* approval loop the filter and the decisions are set and cleared by       *)
(* different statements; what keeps them together is that a segment that   *)
(* completes consumes the decisions, and that the loop is left only with   *)
(* the filter cleared.                                                     *)
(***************************************************************************)
FilterInv ==
    /\ pc \in {"start", "preflight", "request", "recovering", "backoff"}
          => (filter <=> decisions.pending # {})
    /\ pc = "collect" => decisions = NoDecisions

LEMMA FilterStep == FilterInv /\ [Next]_vars => FilterInv'
<1> SUFFICES ASSUME FilterInv, [Next]_vars PROVE FilterInv'
  OBVIOUS
<1> USE DEF FilterInv
<1>1. CASE StartFresh
  BY <1>1 DEF StartFresh
<1>2. CASE StartResume
  BY <1>2 DEF StartResume
<1>3. CASE Preflight
  BY <1>3 DEF Preflight
<1>4. ASSUME NEW cut \in BOOLEAN, Answer(cut) PROVE FilterInv'
  BY <1>4 DEF Answer, Complete
<1>5. ASSUME NEW kind \in CallKinds, NEW n \in 1..MaxCalls, AutoCalls(kind, n)
      PROVE  FilterInv'
  BY <1>5 DEF AutoCalls
<1>6. ASSUME NEW kind \in CallKinds, NEW a \in 0..MaxCalls,
             NEW g \in 1..MaxCalls, GatedCalls(kind, a, g)
      PROVE  FilterInv'
  BY <1>6 DEF GatedCalls, Complete
<1>7. CASE Decide
  BY <1>7 DEF Decide
<1>8. CASE LengthRetry
  BY <1>8 DEF LengthRetry, EndApprovals, NoDecisions
<1>9. CASE Finish \/ OverflowFatal \/ ProviderError \/ Interrupt \/ Escape
  <2>1. pc' \in {"done", "raised"}
    BY <1>9 DEF Finish, OverflowFatal, ProviderError, Interrupt, Escape,
       ErrorResult, Return
  <2> QED
    BY <2>1
<1>10. CASE OverflowStrip
  BY <1>10 DEF OverflowStrip
<1>11. CASE OverflowSummarize
  BY <1>11 DEF OverflowSummarize
<1>12. CASE Recover
  BY <1>12 DEF Recover
<1>13. CASE Reject400
  BY <1>13 DEF Reject400
<1>14. CASE Backoff
  BY <1>14 DEF Backoff
<1>15. CASE UNCHANGED vars
  BY <1>15
<1>16. CASE CallOn
  BY <1>16 DEF CallOn
<1>17. CASE DeferOn
  BY <1>17 DEF DeferOn, NoDecisions
<1> QED
  BY <1>1, <1>2, <1>3, <1>4, <1>5, <1>6, <1>7, <1>8, <1>9, <1>10, <1>11, <1>12,
     <1>13, <1>14, <1>15, <1>16, <1>17 DEF Next

\* The tool surface is narrowed exactly while a segment resumes approvals.
THEOREM FilterCorrect == Spec => []FilterOnlyInResume
<1>1. Init => FilterInv
  BY DEF Init, FilterInv, NoDecisions
<1>2. FilterInv => FilterOnlyInResume
  BY DEF FilterInv, FilterOnlyInResume
<1> QED
  BY <1>1, <1>2, FilterStep, PTL DEF Spec

-----------------------------------------------------------------------------
(***************************************************************************)
(* Approvals.  Decisions may outlive the segment that carried them, so     *)
(* that they name only approved calls has to be kept separately from what  *)
(* has run; that a call not made yet has not run keeps the calls that need *)
(* approval apart from those that run at once.                             *)
(***************************************************************************)
ApprovalInv ==
    /\ gated \subseteq 1..issued
    /\ granted \subseteq 1..issued
    /\ latest # NoResult => latest.pending \subseteq 1..issued
    /\ \A c \in Calls : ran[c] > 0 => c <= issued
    /\ decisions.ok \subseteq granted
    /\ OnlyApprovedRun

\* A completed segment is never mistaken for none.
LEMMA NoResultIsNone == NoResult \notin Segment
<1>1. \A S \in SUBSET Calls : S \in SUBSET Nat
  BY TurnAssumption DEF Calls
<1> QED
  BY <1>1, TurnAssumption DEF Segment

\* Running calls runs those and no others.
LEMMA ExecuteRuns ==
    ASSUME TypeOK, NEW S, Execute(S)
    PROVE  \A c \in Calls : ran'[c] > 0 => c \in S \/ ran[c] > 0
BY DEF Execute, TypeOK

LEMMA ApprovalStep == IType /\ ApprovalInv /\ [Next]_vars => ApprovalInv'
<1> SUFFICES ASSUME IType, ApprovalInv, [Next]_vars PROVE ApprovalInv'
  OBVIOUS
<1> TypeOK /\ issued \in Nat /\ gated \subseteq Calls
  BY TurnAssumption DEF IType, TypeOK
<1>1. CASE StartResume
  <2>1. \A c \in Calls : ran'[c] > 0 => c \in granted \/ ran[c] > 0
    BY <1>1, ExecuteRuns DEF StartResume, ToRun, ApprovalInv
  <2> QED
    BY <1>1, <2>1 DEF StartResume, ApprovalInv, OnlyApprovedRun
<1>2. ASSUME NEW cut \in BOOLEAN, Answer(cut) PROVE ApprovalInv'
  <2>1. latest'.pending = {} /\ decisions'.ok = {}
    BY <1>2 DEF Answer, Complete, NoDecisions
  <2> QED
    BY <1>2, <2>1 DEF Answer, Complete, ApprovalInv, OnlyApprovedRun
<1>3. ASSUME NEW kind \in CallKinds, NEW n \in 1..MaxCalls, AutoCalls(kind, n)
      PROVE  ApprovalInv'
  <2>1. \A c \in Calls :
           ran'[c] > 0 => c \in issued + 1 .. issued + n \/ ran[c] > 0
    BY <1>3, ExecuteRuns DEF AutoCalls
  <2>2. issued' = issued + n
        /\ UNCHANGED <<gated, granted, latest, decisions>>
    BY <1>3 DEF AutoCalls
  <2> QED
    BY <2>1, <2>2 DEF ApprovalInv, OnlyApprovedRun
<1>4. ASSUME NEW kind \in CallKinds, NEW a \in 0..MaxCalls,
             NEW g \in 1..MaxCalls, GatedCalls(kind, a, g)
      PROVE  ApprovalInv'
  <2>1. \A c \in Calls :
           ran'[c] > 0 => c \in issued + 1 .. issued + a \/ ran[c] > 0
    BY <1>4, ExecuteRuns DEF GatedCalls
  <2>2. /\ issued' = issued + a + g
        /\ gated' = gated \cup (issued + a + 1 .. issued + a + g)
        /\ latest'.pending = issued + a + 1 .. issued + a + g
        /\ decisions'.ok = {}
        /\ granted' = granted
    BY <1>4 DEF GatedCalls, Complete, NoDecisions
  <2>3. a \in Nat /\ g \in Nat
    BY TurnAssumption
  <2>4. issued \in Nat /\ issued' \in Nat /\ issued' = issued + a + g
    BY <2>2, <2>3
  <2>5. gated' \subseteq 1..issued' /\ granted' \subseteq 1..issued'
    BY <2>2, <2>3, <2>4 DEF ApprovalInv
  <2>6. latest'.pending \subseteq 1..issued'
    BY <2>2, <2>3, <2>4
  <2>7. \A c \in Calls : ran'[c] > 0 => c <= issued'
    BY <2>1, <2>3, <2>4 DEF ApprovalInv, Calls
  <2>8. gated' \subseteq Calls
    <3>1. issued + a + g <= MaxCalls
      BY <1>4 DEF GatedCalls
    <3>2. issued + a + 1 .. issued + a + g \subseteq Calls
      BY <2>3, <2>4, <3>1, TurnAssumption DEF Calls
    <3> QED
      BY <2>2, <3>2
  <2>9. OnlyApprovedRun'
    <3> SUFFICES ASSUME NEW c \in gated', ran'[c] > 0 PROVE c \in granted'
      BY DEF OnlyApprovedRun
    <3>1. c \in Calls
      BY <2>8
    <3>2. CASE c \in gated
      BY <2>1, <2>2, <2>3, <3>1, <3>2 DEF ApprovalInv, OnlyApprovedRun
    <3>3. CASE c \in issued + a + 1 .. issued + a + g
      BY <2>1, <2>3, <3>1, <3>3 DEF ApprovalInv
    <3> QED
      BY <2>2, <3>2, <3>3
  <2> QED
    BY <2>2, <2>5, <2>6, <2>7, <2>9 DEF ApprovalInv
<1>5. CASE Decide
  <2>1. latest.pending \subseteq 1..issued
    BY <1>5, NoResultIsNone DEF Decide, IType, ApprovalInv
  <2>2. PICK ok \in SUBSET latest.pending :
           /\ decisions' = [pending |-> latest.pending, ok |-> ok]
           /\ granted' = granted \cup ok
    BY <1>5 DEF Decide
  <2>3. decisions'.ok = ok
    BY <2>2
  <2>4. UNCHANGED <<issued, latest, ran, gated>>
    BY <1>5 DEF Decide
  <2> QED
    BY <2>1, <2>2, <2>3, <2>4 DEF ApprovalInv, OnlyApprovedRun
<1>6. CASE UNCHANGED <<issued, latest, decisions, ran, gated, granted>>
  BY <1>6 DEF ApprovalInv, OnlyApprovedRun
<1>7. CASE StartFresh \/ Preflight \/ LengthRetry \/ Finish \/ OverflowStrip
        \/ OverflowSummarize \/ Recover \/ OverflowFatal \/ Reject400
        \/ Backoff \/ ProviderError \/ Interrupt \/ Escape \/ UNCHANGED vars
  BY <1>6, <1>7 DEF StartFresh, Preflight, LengthRetry, Finish, OverflowStrip,
     OverflowSummarize, Recover, OverflowFatal, Reject400, Backoff,
     ProviderError, Interrupt, Escape
<1>8. CASE CallOn
  BY <1>6, <1>8 DEF CallOn
<1>9. CASE DeferOn
  <2>1. /\ latest'.pending = {} /\ decisions'.ok = {}
        /\ UNCHANGED <<issued, ran, gated, granted>>
    BY <1>9 DEF DeferOn, NoDecisions
  <2> QED
    BY <2>1 DEF ApprovalInv, OnlyApprovedRun
<1> QED
  BY <1>1, <1>2, <1>3, <1>4, <1>5, <1>7, <1>8, <1>9 DEF Next

\* A call that was deferred for approval runs only if it was approved.
THEOREM ApprovalCorrect == Spec => []OnlyApprovedRun
<1>1. Init => ApprovalInv
  BY DEF Init, ApprovalInv, OnlyApprovedRun, NoDecisions
<1>2. ApprovalInv => OnlyApprovedRun
  BY DEF ApprovalInv
<1> QED
  BY <1>1, <1>2, InitType, NextType, ApprovalStep, PTL DEF Spec

-----------------------------------------------------------------------------
(***************************************************************************)
(* Effects.  What a segment ran reaches the record when the segment        *)
(* completes, and the list it started from holds what was done before; a   *)
(* compaction moves it behind a marker.  An interrupt takes the last       *)
(* message away if it is a call that nothing has answered, so of such a    *)
(* call nothing may have run.                                              *)
(***************************************************************************)
\* What the lists of a turn keep of the history it was given (used again for the
\* contract, below): until a compaction is noted they start with it, and each holds
\* at most one unanswered call, at its end.
ContractInv ==
    /\ FrontSettled(history)
    /\ pc \in {"preflight", "request"} => ~Dangling(run)
    /\ latest # NoResult => FrontSettled(latest.msgs)
    /\ (pc = "collect" /\ latest.pending = {}) =>
          latest.msgs # <<>> /\ Last(latest.msgs) = Answered
    /\ ~compacted =>
          /\ Extends(history, entry)
          /\ pc \in {"preflight", "request"} => Extends(run, entry)
          /\ latest # NoResult => Extends(latest.msgs, entry)

\* What was done is behind some message of every list that may be returned.
RecordInv ==
    /\ committed \cup fresh \subseteq 1..issued
    /\ decisions.ok \subseteq decisions.pending
    /\ pc \in {"start", "preflight", "request", "recovering", "backoff"}
          => committed \subseteq Covered(history)
    /\ pc \in {"preflight", "request"} => committed \cup fresh \subseteq Covered(run)
    /\ latest = NoResult => committed = {}
    /\ latest # NoResult =>
          /\ committed \subseteq Covered(latest.msgs)
          /\ Dangling(latest.msgs) => Last(latest.msgs).of \cap committed = {}
    /\ EffectsRecorded

\* The list a segment ends with when calls wait for approval: the calls A of the
\* response ran, the calls G wait.
WithDeferred(h, kind, A, G) ==
    IF A = {} THEN Append(h, M(kind, A \cup G))
    ELSE Append(Append(h, M(kind, A \cup G)), M("ret", A))

\* The response and the returns of a segment with waiting calls.
LEMMA DeferredMsgs ==
    ASSUME NEW kind \in CallKinds, NEW A \in SUBSET Calls, NEW G \in SUBSET Calls
    PROVE  M(kind, A \cup G) \in Msg /\ M("ret", A) \in Msg
BY Constants DEF Kinds

\* It is the concatenation that GatedCalls writes.
LEMMA WithDeferredIs ==
    ASSUME NEW h \in Seq(Msg), NEW kind \in CallKinds,
           NEW A \in SUBSET Calls, NEW G \in SUBSET Calls
    PROVE  h \o <<M(kind, A \cup G)>> \o (IF A = {} THEN <<>> ELSE <<M("ret", A)>>)
             = WithDeferred(h, kind, A, G)
<1> DEFINE call == M(kind, A \cup G)
           ret == M("ret", A)
           two == Append(h, call)
<1>1. call \in Msg /\ ret \in Msg
  BY DeferredMsgs
<1>2. WithDeferred(h, kind, A, G) = IF A = {} THEN two ELSE Append(two, ret)
  BY DEF WithDeferred
<1> HIDE DEF call, ret
<1>3. h \o <<call>> = two /\ two \in Seq(Msg)
  BY <1>1, AppendIsConcat, AppendPieces
<1> HIDE DEF two
<1>4. two \o (IF A = {} THEN <<>> ELSE <<ret>>) = IF A = {} THEN two ELSE Append(two, ret)
  BY <1>1, <1>3, ConcatEmptySeq, AppendIsConcat
<1>5. h \o <<call>> \o (IF A = {} THEN <<>> ELSE <<ret>>) = WithDeferred(h, kind, A, G)
  BY <1>2, <1>3, <1>4
<1> QED
  BY <1>5 DEF call, ret

\* In the list a segment with waiting calls ends with, what ran is on record, and the
\* response is the last message only if nothing ran.
LEMMA DeferredPieces ==
    ASSUME NEW h \in Seq(Msg), NEW kind \in CallKinds,
           NEW A \in SUBSET Calls, NEW G \in SUBSET Calls
    PROVE  /\ WithDeferred(h, kind, A, G) \in Seq(Msg)
           /\ Covered(h) \cup A \subseteq Covered(WithDeferred(h, kind, A, G))
           /\ A = {} => Last(WithDeferred(h, kind, A, G)).of = G
           /\ A # {} => ~Dangling(WithDeferred(h, kind, A, G))
<1> DEFINE call == M(kind, A \cup G)
           ret == M("ret", A)
           two == Append(h, call)
<1>1. call \in Msg /\ ret \in Msg
  BY DeferredMsgs
<1>0. WithDeferred(h, kind, A, G) = IF A = {} THEN two ELSE Append(two, ret)
  BY DEF WithDeferred
<1>2. call.of = A \cup G /\ ret.of = A /\ ~HasCall(ret)
  BY DEF M, HasCall, CallKinds
<1> HIDE DEF call, ret
<1>3. /\ two \in Seq(Msg) /\ Last(two) = call
      /\ Covered(h) \cup A \cup G \subseteq Covered(two)
  BY <1>0, <1>1, <1>2, AppendPieces
<1> HIDE DEF two
<1>4. CASE A = {}
  BY <1>0, <1>1, <1>2, <1>3, <1>4
<1>5. CASE A # {}
  <2>1. /\ Append(two, ret) \in Seq(Msg) /\ Append(two, ret) # <<>>
        /\ Covered(two) \subseteq Covered(Append(two, ret))
        /\ Last(Append(two, ret)) = ret
    BY <1>0, <1>1, <1>3, AppendPieces
  <2>2. ~Dangling(Append(two, ret))
    BY <1>2, <2>1 DEF Dangling
  <2> QED
    BY <1>0, <1>1, <1>3, <1>5, <2>1, <2>2
<1> QED
  BY <1>4, <1>5

\* It starts with the list the segment had, and leaves at most one call unanswered.
LEMMA DeferredExtends ==
    ASSUME NEW h \in Seq(Msg), NEW kind \in CallKinds,
           NEW A \in SUBSET Calls, NEW G \in SUBSET Calls
    PROVE  /\ \A e \in Seq(Msg) : Extends(h, e) => Extends(WithDeferred(h, kind, A, G), e)
           /\ ~Dangling(h) => FrontSettled(WithDeferred(h, kind, A, G))
<1> DEFINE call == M(kind, A \cup G)
           ret == M("ret", A)
           two == Append(h, call)
<1>1. call \in Msg /\ ret \in Msg
  BY DeferredMsgs
<1>0. WithDeferred(h, kind, A, G) = IF A = {} THEN two ELSE Append(two, ret)
  BY DEF WithDeferred
<1> HIDE DEF call, ret
<1>2. two \in Seq(Msg) /\ Front(two) = h
  BY <1>0, <1>1, AppendPieces
<1>3. \A e \in Seq(Msg) : Extends(h, e) => Extends(two, e)
  BY <1>0, <1>1, ExtendsAppend
<1> HIDE DEF two
<1>4. \A e \in Seq(Msg) : Extends(h, e) => Extends(Append(two, ret), e)
  BY <1>0, <1>1, <1>2, <1>3, ExtendsAppend
<1>5. ~Dangling(h) => FrontSettled(WithDeferred(h, kind, A, G))
  BY <1>0, <1>1, <1>2, DeferredPieces DEF FrontSettled
<1> QED
  BY <1>0, <1>1, <1>3, <1>4, <1>5

\* The calls that wait are those the list does not answer.
LEMMA DeferredWaiting ==
    ASSUME NEW h \in Seq(Msg), NEW kind \in CallKinds,
           NEW A \in SUBSET Calls, NEW G \in SUBSET Calls, A \cap G = {}
    PROVE  Undecided(WithDeferred(h, kind, A, G), G)
<1> DEFINE call == M(kind, A \cup G)
           ret == M("ret", A)
           two == Append(h, call)
           n == Len(h) + 1
<1>1. call \in Msg /\ ret \in Msg
  BY DeferredMsgs
<1>0. WithDeferred(h, kind, A, G) = IF A = {} THEN two ELSE Append(two, ret)
  BY DEF WithDeferred
<1>2. /\ call.of = A \cup G /\ HasCall(call)
      /\ ret.of = A /\ ret.k = "ret"
  BY DEF M, HasCall
<1> HIDE DEF call, ret
<1>3. /\ two \in Seq(Msg) /\ Len(two) = n /\ n \in Nat /\ n >= 1
      /\ two[n] = call
  BY <1>0, <1>1, AppendPieces, LenProperties DEF Last
<1> HIDE DEF two, n
<1>4. CASE A = {}
  BY <1>0, <1>1, <1>2, <1>3, <1>4 DEF Undecided
<1>5. CASE A # {}
  <2> DEFINE w == Append(two, ret)
  <2>1. Len(w) = n + 1 /\ w[n] = call /\ w[n + 1] = ret
    <3>1. Len(w) = Len(two) + 1 /\ Last(w) = ret /\ \A i \in 1 .. Len(two) : w[i] = two[i]
      BY <1>0, <1>1, <1>3, AppendPieces
    <3> QED
      BY <1>3, <3>1 DEF Last
  <2> HIDE DEF w
  <2>2. n + 1 .. Len(w) = {n + 1}
    BY <1>3, <2>1
  <2>3. n \in 1 .. Len(w)
    BY <1>3, <2>1
  <2>4. UNION {w[j].of : j \in n + 1 .. Len(w)} = A
    BY <1>2, <2>1, <2>2
  <2>5. Undecided(w, G)
    BY <1>2, <2>1, <2>2, <2>3, <2>4 DEF Undecided
  <2> QED
    BY <1>0, <1>1, <1>5, <2>5 DEF w
<1> QED
  BY <1>4, <1>5

\* The answer behind a list.
LEMMA AnsweredPieces ==
    ASSUME NEW h \in Seq(Msg)
    PROVE  /\ Append(h, Answered) \in Seq(Msg) /\ Append(h, Answered) # <<>>
           /\ Covered(h) \subseteq Covered(Append(h, Answered))
           /\ Last(Append(h, Answered)) = Answered
           /\ ~HasCall(Answered) /\ ~Dangling(Append(h, Answered))
<1>1. ~HasCall(Answered)
  BY DEF Answered, M, HasCall, CallKinds
<1> QED
  BY <1>1, Constants, AppendPieces DEF Dangling

\* With the prompt in flight a list stands for no less.
LEMMA WithPromptCovers ==
    ASSUME history \in Seq(Msg) PROVE Covered(history) \subseteq Covered(WithPrompt)
BY Constants, AppendPieces DEF WithPrompt

\* What a failed or interrupted turn returns starts from has the effects.
LEMMA LatestCovers ==
    ASSUME IType, RecordInv
    PROVE  /\ committed \subseteq Covered(LatestOrHistory)
           /\ committed \subseteq Covered(Interrupted)
<1>1. LatestOrHistory \in Seq(Msg)
  BY LatestType DEF IType, TypeOK
<1>2. committed \subseteq Covered(LatestOrHistory)
  BY DEF RecordInv, LatestOrHistory
<1>3. committed \subseteq Covered(DropDangling(LatestOrHistory))
  <2>1. CASE latest = NoResult
    BY <2>1 DEF RecordInv
  <2>2. CASE latest # NoResult
    <3>1. LatestOrHistory = latest.msgs
      BY <2>2 DEF LatestOrHistory
    <3>2. Dangling(latest.msgs) => Last(latest.msgs).of \cap committed = {}
      BY <2>2 DEF RecordInv
    <3> QED
      BY <1>1, <1>2, <3>1, <3>2, DropCovers
  <2> QED
    BY <2>1, <2>2
<1>4. Covered(DropDangling(LatestOrHistory)) \subseteq Covered(Interrupted)
  BY <1>1, DropDanglingType, Constants, AppendPieces DEF Interrupted
<1> QED
  BY <1>2, <1>3, <1>4

\* Every step keeps what was done on record.
LEMMA RecordStep ==
    IType /\ ApprovalInv /\ ContractInv /\ RecordInv /\ [Next]_vars => RecordInv'
<1> SUFFICES ASSUME IType, ApprovalInv, ContractInv, RecordInv, [Next]_vars
             PROVE  RecordInv'
  OBVIOUS
<1>t. /\ history \in Seq(Msg) /\ run \in Seq(Msg) /\ issued \in Nat
      /\ committed \subseteq Calls /\ fresh \subseteq Calls /\ HasTodos \in BOOLEAN
      /\ decisions.ok \subseteq Calls /\ decisions.pending \subseteq Calls
  BY TurnAssumption DEF IType, TypeOK
<1>p. /\ pc = "preflight" => pc # "start" /\ pc # "request" /\ pc # "done"
      /\ pc = "request" => pc # "start" /\ pc # "done"
  OBVIOUS
<1>1. CASE StartFresh
  <2>1. Covered(history) \subseteq Covered(run')
    BY <1>t, <1>1, Constants, AppendPieces DEF StartFresh
  <2> QED
    BY <1>1, <2>1 DEF StartFresh, RecordInv, EffectsRecorded
<1>2. CASE StartResume
  <2>1. Covered(history) \cup decisions.pending \subseteq Covered(run')
    <3>1. M("ret", decisions.pending) \in Msg
      BY <1>t, Constants DEF Kinds
    <3>2. M("ret", decisions.pending).of = decisions.pending
      BY DEF M
    <3> QED
      BY <1>t, <1>2, <3>1, <3>2, AppendPieces DEF StartResume
  <2>2. decisions.ok \subseteq 1..issued
    BY DEF ApprovalInv
  <2> QED
    BY <1>2, <2>1, <2>2 DEF StartResume, ToRun, RecordInv, EffectsRecorded
<1>3. CASE Preflight
  <2>1. Covered(run) \subseteq Covered(run')
    BY <1>t, <1>3, CompactionCovers DEF Preflight
  <2> QED
    BY <1>3, <2>1 DEF Preflight, RecordInv, EffectsRecorded
<1>4. ASSUME NEW cut \in BOOLEAN, Answer(cut) PROVE RecordInv'
  <2>1. /\ latest' = [msgs |-> Append(run, Answered), pending |-> {}, cut |-> cut]
        /\ committed' = committed \cup fresh /\ fresh' = {} /\ pc' = "collect"
        /\ decisions' = NoDecisions /\ issued' = issued /\ pc = "request"
    BY <1>4 DEF Answer, Complete, DropSegment
  <2>2. committed' \subseteq Covered(latest'.msgs) /\ ~Dangling(latest'.msgs)
    BY <1>t, <2>1, AnsweredPieces DEF RecordInv
  <2>3. latest' # NoResult
    <3>1. latest' \in Segment
      BY <1>t, <2>1, AnsweredPieces DEF Segment
    <3> QED
      BY <3>1, NoResultIsNone
  <2> QED
    BY <2>1, <2>2, <2>3 DEF RecordInv, EffectsRecorded, NoDecisions
<1>5. ASSUME NEW kind \in CallKinds, NEW n \in 1..MaxCalls, AutoCalls(kind, n)
      PROVE  RecordInv'
  <2> DEFINE S == issued + 1 .. issued + n
             both == <<M(kind, S), M("ret", S)>>
  <2>0. n \in Nat /\ issued' = issued + n
    BY <1>5, TurnAssumption DEF AutoCalls
  <2>1. S \subseteq Calls /\ S \subseteq 1..issued' /\ 1..issued \subseteq 1..issued'
    BY <1>t, <1>5, <2>0, TurnAssumption DEF AutoCalls, Calls
  <2>2. run' = run \o both /\ fresh' = fresh \cup S /\ pc' = "preflight" /\ pc = "request"
        /\ UNCHANGED <<history, committed, latest, decisions, result>>
    BY <1>5 DEF AutoCalls
  <2> HIDE DEF S
  <2>3. M(kind, S) \in Msg /\ M("ret", S) \in Msg /\ M(kind, S).of = S
    BY <2>1, Constants DEF Kinds, M
  <2>4. both \in Seq(Msg) /\ S \subseteq Covered(both)
    <3>1. both \in Seq(Msg) /\ 1 \in DOMAIN both /\ both[1].of = S
      BY <2>3
    <3> QED
      BY <3>1 DEF Covered
  <2> HIDE DEF both
  <2>5. Covered(run) \cup S \subseteq Covered(run')
    BY <1>t, <2>2, <2>4, ConcatCovers
  <2>6. committed' \cup fresh' \subseteq 1..issued'
    BY <2>1, <2>2 DEF RecordInv
  <2>7. committed' \cup fresh' \subseteq Covered(run')
    BY <2>2, <2>5 DEF RecordInv
  <2> QED
    BY <2>2, <2>6, <2>7 DEF RecordInv, EffectsRecorded
<1>6. ASSUME NEW kind \in CallKinds, NEW a \in 0..MaxCalls,
             NEW g \in 1..MaxCalls, GatedCalls(kind, a, g)
      PROVE  RecordInv'
  <2> DEFINE A == issued + 1 .. issued + a
             G == issued + a + 1 .. issued + a + g
             msgs == WithDeferred(run, kind, A, G)
  <2>0. a \in Nat /\ g \in Nat /\ issued' = issued + a + g /\ issued + a + g <= MaxCalls
    BY <1>6, TurnAssumption DEF GatedCalls
  <2>1. /\ A \subseteq Calls /\ G \subseteq Calls
        /\ A \subseteq 1..issued' /\ 1..issued \subseteq 1..issued'
        /\ G \cap (1..issued) = {} /\ G \cap A = {}
    BY <1>t, <2>0, TurnAssumption DEF Calls
  <2>2. /\ latest' = [msgs |-> msgs, pending |-> G, cut |-> FALSE]
        /\ committed' = committed \cup (fresh \cup A) /\ fresh' = {} /\ pc' = "collect"
        /\ decisions' = NoDecisions /\ pc = "request"
    <3>1. run \in Seq(Msg) /\ A \in SUBSET Calls /\ G \in SUBSET Calls
      BY <1>t, <2>1
    <3>2. run \o <<M(kind, A \cup G)>> \o (IF A = {} THEN <<>> ELSE <<M("ret", A)>>) = msgs
      BY <3>1, WithDeferredIs
    <3> QED
      BY <1>6, <3>2 DEF GatedCalls, Complete, DropSegment
  <2> HIDE DEF A, G
  <2>3. /\ msgs \in Seq(Msg) /\ Covered(run) \cup A \subseteq Covered(msgs)
        /\ A = {} => Last(msgs).of = G
        /\ A # {} => ~Dangling(msgs)
    <3>1. run \in Seq(Msg) /\ A \in SUBSET Calls /\ G \in SUBSET Calls
      BY <1>t, <2>1
    <3> QED
      BY <3>1, DeferredPieces
  <2> HIDE DEF msgs
  <2>4. latest' # NoResult
    <3>1. latest' \in Segment
      BY <2>1, <2>2, <2>3 DEF Segment
    <3> QED
      BY <3>1, NoResultIsNone
  <2>5. committed' \subseteq Covered(latest'.msgs) /\ committed' \subseteq 1..issued'
    BY <2>1, <2>2, <2>3 DEF RecordInv
  <2>6. Dangling(latest'.msgs) => Last(latest'.msgs).of \cap committed' = {}
    <3>1. A = {} => committed' \subseteq 1..issued
      BY <2>2 DEF RecordInv
    <3> QED
      BY <2>1, <2>2, <2>3, <3>1
  <2> QED
    BY <2>2, <2>4, <2>5, <2>6 DEF RecordInv, EffectsRecorded, NoDecisions
<1>7. CASE Decide
  <2>1. latest # NoResult
    BY <1>7, NoResultIsNone DEF Decide, IType
  <2>2. decisions'.ok \subseteq decisions'.pending
    BY <1>7 DEF Decide
  <2>3. /\ history' = latest.msgs /\ pc' = "start"
        /\ UNCHANGED <<issued, latest, committed, fresh>>
    BY <1>7 DEF Decide
  <2> QED
    BY <2>1, <2>2, <2>3 DEF RecordInv, EffectsRecorded
<1>8. CASE LengthRetry
  <2>1. latest # NoResult
    BY <1>8, NoResultIsNone DEF LengthRetry, IType
  <2> QED
    BY <1>8, <2>1 DEF LengthRetry, EndApprovals, RecordInv, EffectsRecorded
<1>9. CASE Finish
  <2>1. latest # NoResult
    BY <1>9, NoResultIsNone DEF Finish, IType
  <2>2. result'.msgs = latest.msgs /\ pc' = "done" /\ fresh' = {}
        /\ UNCHANGED <<issued, latest, decisions, committed>>
    BY <1>9 DEF Finish, Return, DropSegment
  <2> QED
    BY <2>1, <2>2 DEF RecordInv, EffectsRecorded
<1>10. CASE OverflowStrip
  <2>1. Covered(history) \subseteq Covered(history')
    BY <1>t, <1>10, WithPromptCovers DEF OverflowStrip
  <2> QED
    BY <1>10, <2>1 DEF OverflowStrip, DropSegment, RecordInv, EffectsRecorded
<1>11. CASE OverflowSummarize
  BY <1>11 DEF OverflowSummarize, DropSegment, RecordInv, EffectsRecorded
<1>12. CASE Recover
  <2>1. Covered(history) \subseteq Covered(history')
    BY <1>t, <1>12, WithPromptType, WithPromptCovers, CompactionCovers DEF Recover
  <2> QED
    BY <1>12, <2>1 DEF Recover, RecordInv, EffectsRecorded
<1>13. CASE OverflowFatal \/ ProviderError \/ Interrupt
  <2>1. /\ result'.msgs = LatestOrHistory \/ result'.msgs = Interrupted
        /\ pc' = "done" /\ fresh' = {}
        /\ UNCHANGED <<issued, latest, decisions, committed>>
    BY <1>13 DEF OverflowFatal, ProviderError, Interrupt, ErrorResult, Return, DropSegment
  <2>2. committed \subseteq Covered(result'.msgs)
    BY <2>1, LatestCovers
  <2> QED
    BY <2>1, <2>2 DEF RecordInv, EffectsRecorded
<1>14. CASE Reject400
  <2>1. Covered(history) \subseteq Covered(history')
    BY <1>t, <1>14, Constants, AppendPieces DEF Reject400
  <2> QED
    BY <1>14, <2>1 DEF Reject400, DropSegment, RecordInv, EffectsRecorded
<1>15. CASE Backoff
  BY <1>15 DEF Backoff, RecordInv, EffectsRecorded
<1>16. CASE Escape
  BY <1>16 DEF Escape, DropSegment, RecordInv, EffectsRecorded
<1>17. CASE UNCHANGED vars
  BY <1>17 DEF RecordInv, EffectsRecorded
<1>18. CASE CallOn
  BY <1>18 DEF CallOn, RecordInv, EffectsRecorded
<1>19. CASE DeferOn
  <2>1. /\ latest' = [msgs |-> run, pending |-> {}, cut |-> FALSE]
        /\ committed' = committed \cup fresh /\ fresh' = {} /\ history' = run
        /\ decisions' = NoDecisions /\ issued' = issued /\ pc = "request" /\ pc' = "start"
    BY <1>19 DEF DeferOn, DropSegment
  <2>2. committed' \subseteq Covered(run) /\ ~Dangling(latest'.msgs)
    BY <2>1 DEF RecordInv, ContractInv
  <2>3. latest' # NoResult
    <3>1. latest' \in Segment
      BY <1>t, <2>1 DEF Segment
    <3> QED
      BY <3>1, NoResultIsNone
  <2> QED
    BY <2>1, <2>2, <2>3 DEF RecordInv, EffectsRecorded, NoDecisions
<1> QED
  BY <1>1, <1>2, <1>3, <1>4, <1>5, <1>6, <1>7, <1>8, <1>9, <1>10, <1>11, <1>12,
     <1>13, <1>14, <1>15, <1>16, <1>17, <1>18, <1>19 DEF Next

-----------------------------------------------------------------------------
(***************************************************************************)
(* The prompt.  It is in flight until some segment completes or recovery   *)
(* puts it into the list; decisions are collected only after that, so a    *)
(* segment that resumes them has no prompt of its own to add.              *)
(***************************************************************************)
PromptInv ==
    /\ decisions.pending # {} => ~input
    /\ budget = ReformatBudget =>
          /\ pc \in {"start", "preflight", "request", "recovering", "backoff"}
                => input \/ 0 \in Covered(history)
          /\ pc \in {"preflight", "request"} => 0 \in Covered(run)
          /\ pc = "collect" => 0 \in Covered(latest.msgs)
    /\ PromptAnswered

\* With the prompt in flight a list stands for the prompt.
LEMMA WithPromptHasPrompt ==
    ASSUME history \in Seq(Msg), input \/ 0 \in Covered(history)
    PROVE  0 \in Covered(WithPrompt)
<1>1. Prompt.of = {0}
  BY DEF Prompt, M
<1> QED
  BY <1>1, Constants, AppendPieces DEF WithPrompt

\* Every step keeps the prompt in flight or on record.
LEMMA PromptStep == IType /\ PromptInv /\ [Next]_vars => PromptInv'
<1> SUFFICES ASSUME IType, PromptInv, [Next]_vars PROVE PromptInv'
  OBVIOUS
<1>t. /\ history \in Seq(Msg) /\ run \in Seq(Msg) /\ HasTodos \in BOOLEAN
      /\ budget \in 0..ReformatBudget /\ ReformatBudget \in Nat
      /\ decisions.pending \subseteq Calls
  BY TurnAssumption DEF IType, TypeOK
<1>r. \A outcome, int, msgs : Return(outcome, int, msgs) =>
         /\ pc' = "done" /\ result'.outcome = outcome
         /\ result'.interrupted = int /\ result'.msgs = msgs
  BY DEF Return
<1>1. CASE StartFresh
  <2>1. run' = WithPrompt
    BY <1>1 DEF StartFresh, WithPrompt
  <2>2. budget = ReformatBudget => 0 \in Covered(run')
    BY <1>t, <1>1, <2>1, WithPromptHasPrompt DEF StartFresh, PromptInv
  <2> QED
    BY <1>1, <2>2 DEF StartFresh, PromptInv, PromptAnswered
<1>2. CASE StartResume
  <2>1. M("ret", decisions.pending) \in Msg
    BY <1>t, Constants DEF Kinds
  <2>2. Covered(history) \subseteq Covered(run')
    BY <1>t, <1>2, <2>1, AppendPieces DEF StartResume
  <2> QED
    BY <1>2, <2>2 DEF StartResume, PromptInv, PromptAnswered
<1>3. CASE Preflight
  <2>1. Covered(run) \subseteq Covered(run')
    BY <1>t, <1>3, CompactionCovers DEF Preflight
  <2> QED
    BY <1>3, <2>1 DEF Preflight, PromptInv, PromptAnswered
<1>4. ASSUME NEW cut \in BOOLEAN, Answer(cut) PROVE PromptInv'
  <2>1. /\ latest'.msgs = Append(run, Answered) /\ decisions'.pending = {}
        /\ budget' = budget /\ pc = "request" /\ pc' = "collect"
    BY <1>4 DEF Answer, Complete, NoDecisions
  <2>2. Covered(run) \subseteq Covered(latest'.msgs)
    BY <1>t, <2>1, AnsweredPieces
  <2> QED
    BY <2>1, <2>2 DEF PromptInv, PromptAnswered
<1>5. ASSUME NEW kind \in CallKinds, NEW n \in 1..MaxCalls, AutoCalls(kind, n)
      PROVE  PromptInv'
  <2> DEFINE S == issued + 1 .. issued + n
             both == <<M(kind, S), M("ret", S)>>
  <2>1. S \subseteq Calls
    BY <1>5, TurnAssumption DEF IType, TypeOK, AutoCalls, Calls
  <2>2. run' = run \o both /\ pc' = "preflight" /\ pc = "request"
        /\ UNCHANGED <<history, input, budget, latest, decisions, result>>
    BY <1>5 DEF AutoCalls
  <2> HIDE DEF S
  <2>3. both \in Seq(Msg)
    BY <2>1, Constants DEF Kinds
  <2> HIDE DEF both
  <2>4. Covered(run) \subseteq Covered(run')
    BY <1>t, <2>2, <2>3, ConcatCovers
  <2> QED
    BY <2>2, <2>4 DEF PromptInv, PromptAnswered
<1>6. ASSUME NEW kind \in CallKinds, NEW a \in 0..MaxCalls,
             NEW g \in 1..MaxCalls, GatedCalls(kind, a, g)
      PROVE  PromptInv'
  <2> DEFINE A == issued + 1 .. issued + a
             G == issued + a + 1 .. issued + a + g
  <2>1. A \in SUBSET Calls /\ G \in SUBSET Calls
    BY <1>6, TurnAssumption DEF IType, TypeOK, GatedCalls, Calls
  <2>2. /\ latest'.msgs = WithDeferred(run, kind, A, G) /\ decisions'.pending = {}
        /\ budget' = budget /\ pc = "request" /\ pc' = "collect"
    BY <1>t, <1>6, <2>1, WithDeferredIs DEF GatedCalls, Complete, NoDecisions
  <2> HIDE DEF A, G
  <2>3. Covered(run) \subseteq Covered(WithDeferred(run, kind, A, G))
    BY <1>t, <2>1, DeferredPieces
  <2>4. Covered(run) \subseteq Covered(latest'.msgs)
    BY <2>2, <2>3
  <2> QED
    BY <2>2, <2>4 DEF PromptInv, PromptAnswered
<1>7. CASE Decide
  BY <1>7 DEF Decide, PromptInv, PromptAnswered
<1>8. CASE LengthRetry
  BY <1>8 DEF LengthRetry, EndApprovals, PromptInv, PromptAnswered
<1>9. CASE Finish
  <2>1. result'.msgs = latest.msgs /\ pc' = "done" /\ pc = "collect"
        /\ UNCHANGED <<input, budget, decisions>>
    BY <1>9 DEF Finish, Return
  <2> QED
    BY <2>1 DEF PromptInv, PromptAnswered
<1>10. CASE OverflowStrip
  <2>1. budget = ReformatBudget => 0 \in Covered(history')
    BY <1>t, <1>10, WithPromptHasPrompt DEF OverflowStrip, PromptInv
  <2> QED
    BY <1>10, <2>1 DEF OverflowStrip, PromptInv, PromptAnswered
<1>11. CASE OverflowSummarize
  BY <1>11 DEF OverflowSummarize, PromptInv, PromptAnswered
<1>12. CASE Recover
  <2>1. Covered(WithPrompt) \subseteq Covered(history')
    BY <1>t, <1>12, WithPromptType, CompactionCovers DEF Recover
  <2>2. budget = ReformatBudget => 0 \in Covered(history')
    BY <1>t, <1>12, <2>1, WithPromptHasPrompt DEF Recover, PromptInv
  <2> QED
    BY <1>12, <2>2 DEF Recover, PromptInv, PromptAnswered
<1>13. CASE OverflowFatal \/ ProviderError \/ Interrupt
  <2>1. /\ result'.outcome = "error" \/ result'.interrupted
        /\ pc' = "done"
        /\ UNCHANGED <<input, budget, decisions>>
    BY <1>13, <1>r DEF OverflowFatal, ProviderError, Interrupt, ErrorResult
  <2> QED
    BY <2>1 DEF PromptInv, PromptAnswered
<1>14. CASE Reject400
  <2>1. budget' # ReformatBudget
    BY <1>t, <1>14 DEF Reject400
  <2>2. decisions' = decisions /\ ~input' /\ pc' = "backoff"
    BY <1>14 DEF Reject400
  <2> QED
    BY <2>1, <2>2 DEF PromptInv, PromptAnswered
<1>15. CASE Backoff
  BY <1>15 DEF Backoff, PromptInv, PromptAnswered
<1>16. CASE Escape
  BY <1>16 DEF Escape, PromptInv, PromptAnswered
<1>17. CASE UNCHANGED vars
  BY <1>17 DEF PromptInv, PromptAnswered
<1>18. CASE CallOn
  BY <1>18 DEF CallOn, PromptInv, PromptAnswered
<1>19. CASE DeferOn
  <2>1. /\ history' = run /\ ~input' /\ decisions'.pending = {} /\ budget' = budget
        /\ pc = "request" /\ pc' = "start"
    BY <1>19 DEF DeferOn, NoDecisions
  <2> QED
    BY <2>1 DEF PromptInv, PromptAnswered
<1> QED
  BY <1>1, <1>2, <1>3, <1>4, <1>5, <1>6, <1>7, <1>8, <1>9, <1>10, <1>11, <1>12,
     <1>13, <1>14, <1>15, <1>16, <1>17, <1>18, <1>19 DEF Next

\* An answer to the user is never built without the user's prompt, unless a 400 was
\* reformulated.
THEOREM PromptCorrect == Spec => []PromptAnswered
<1>1. Init => PromptInv
  BY DEF Init, PromptInv, PromptAnswered, NoDecisions
<1>2. PromptInv => PromptAnswered
  BY DEF PromptInv
<1> QED
  BY <1>1, <1>2, InitType, NextType, PromptStep, PTL DEF Spec

-----------------------------------------------------------------------------
(***************************************************************************)
(* Calls that run again.  A decision is used up by the segment that        *)
(* completes with it; only overflow recovery and the reformulation of a    *)
(* 400 go back to a segment with a decision whose call has run.            *)
(***************************************************************************)
Retried == overflowTried \/ budget < ReformatBudget

RerunInv ==
    /\ pc = "start" => \A c \in decisions.ok : ran[c] > 0 => Retried
    /\ pc \in {"recovering", "backoff"} => Retried
    /\ pc = "collect" => \A c \in latest.pending : ran[c] = 0
    /\ RerunOnlyByRetry

\* Calls the model just made run for the first time.
LEMMA ExecuteNew ==
    ASSUME TypeOK, NEW S, Execute(S), \A c \in Calls : c \in S => ran[c] = 0
    PROVE  \A c \in Calls : ran'[c] > 1 => ran[c] > 1
BY DEF Execute, TypeOK

\* Every step runs a call again only after a retry.
LEMMA RerunStep ==
    IType /\ FilterInv /\ ApprovalInv /\ RerunInv /\ [Next]_vars => RerunInv'
<1> SUFFICES ASSUME IType, FilterInv, ApprovalInv, RerunInv, [Next]_vars PROVE RerunInv'
  OBVIOUS
<1>t. /\ TypeOK /\ issued \in Nat /\ ran \in [Calls -> 0..2]
      /\ budget \in 0..ReformatBudget /\ ReformatBudget \in Nat
      /\ decisions.ok \subseteq Calls /\ decisions.ok \subseteq granted
  BY TurnAssumption DEF IType, TypeOK, ApprovalInv
<1>1. CASE StartResume
  <2>1. \A c \in Calls : ran'[c] > 1 => (c \in decisions.ok /\ ran[c] > 0) \/ ran[c] > 1
    BY <1>t, <1>1 DEF StartResume, ToRun, Execute
  <2>2. UNCHANGED <<granted, overflowTried, budget>> /\ pc = "start" /\ pc' = "preflight"
    BY <1>1 DEF StartResume
  <2>3. RerunOnlyByRetry'
    BY <1>t, <2>1, <2>2 DEF RerunInv, RerunOnlyByRetry, Retried
  <2> QED
    BY <2>2, <2>3 DEF RerunInv
<1>2. ASSUME NEW cut \in BOOLEAN, Answer(cut) PROVE RerunInv'
  BY <1>2 DEF Answer, Complete, RerunInv, RerunOnlyByRetry
<1>3. ASSUME NEW kind \in CallKinds, NEW n \in 1..MaxCalls, AutoCalls(kind, n)
      PROVE  RerunInv'
  <2> DEFINE S == issued + 1 .. issued + n
  <2>1. /\ Execute(S) /\ pc' = "preflight"
        /\ UNCHANGED <<granted, overflowTried, budget>>
    BY <1>3 DEF AutoCalls
  <2>2. \A c \in Calls : c \in S => ran[c] = 0
    BY <1>t DEF ApprovalInv
  <2>3. \A c \in Calls : ran'[c] > 1 => ran[c] > 1
    BY <1>t, <2>1, <2>2, ExecuteNew
  <2> QED
    BY <2>1, <2>3 DEF RerunInv, RerunOnlyByRetry
<1>4. ASSUME NEW kind \in CallKinds, NEW a \in 0..MaxCalls,
             NEW g \in 1..MaxCalls, GatedCalls(kind, a, g)
      PROVE  RerunInv'
  <2> DEFINE A == issued + 1 .. issued + a
             G == issued + a + 1 .. issued + a + g
  <2>0. a \in Nat /\ g \in Nat /\ issued + a + g <= MaxCalls
    BY <1>4, TurnAssumption DEF GatedCalls
  <2>1. /\ Execute(A) /\ pc' = "collect" /\ latest'.pending = G
        /\ UNCHANGED <<granted, overflowTried, budget>>
    BY <1>4 DEF GatedCalls, Complete
  <2>2. \A c \in Calls : c \in A \cup G => ran[c] = 0
    BY <1>t, <2>0 DEF ApprovalInv
  <2>3. \A c \in Calls : ran'[c] > 1 => ran[c] > 1
    BY <1>t, <2>1, <2>2, ExecuteNew
  <2>4. G \subseteq Calls /\ G \cap A = {}
    BY <1>t, <2>0, TurnAssumption DEF Calls
  <2>5. \A c \in G : ran'[c] = 0
    <3>1. \A c \in Calls : c \notin A => ran'[c] = ran[c]
      BY <1>t, <2>1 DEF Execute
    <3> QED
      BY <2>2, <2>4, <3>1
  <2> QED
    BY <2>1, <2>3, <2>5 DEF RerunInv, RerunOnlyByRetry
<1>5. CASE Decide
  <2>1. /\ decisions'.ok \subseteq latest.pending /\ granted \subseteq granted'
        /\ UNCHANGED <<ran, overflowTried, budget>>
        /\ pc = "collect" /\ pc' = "start"
    BY <1>5 DEF Decide
  <2>2. \A c \in decisions'.ok : ran'[c] = 0
    BY <2>1 DEF RerunInv
  <2> QED
    BY <2>1, <2>2 DEF RerunInv, RerunOnlyByRetry
<1>6. CASE OverflowStrip \/ OverflowSummarize
  <2>1. overflowTried' /\ UNCHANGED <<ran, granted, budget>>
        /\ pc' \in {"start", "recovering"}
    BY <1>6 DEF OverflowStrip, OverflowSummarize, NoteAttempt
  <2> QED
    BY <2>1 DEF RerunInv, RerunOnlyByRetry, Retried
<1>7. CASE Reject400
  <2>1. budget' < ReformatBudget /\ budget' <= budget
    BY <1>t, <1>7 DEF Reject400
  <2>2. UNCHANGED <<ran, granted, overflowTried>> /\ pc' = "backoff"
    BY <1>7 DEF Reject400
  <2> QED
    BY <1>t, <2>1, <2>2 DEF RerunInv, RerunOnlyByRetry, Retried
<1>8. CASE LengthRetry
  <2>1. /\ decisions'.ok = {} /\ pc' = "start"
        /\ UNCHANGED <<ran, granted, overflowTried, budget>>
    BY <1>8 DEF LengthRetry, FilterInv, NoDecisions
  <2> QED
    BY <2>1 DEF RerunInv, RerunOnlyByRetry
<1>9. CASE Recover \/ Backoff
  BY <1>9 DEF Recover, Backoff, RerunInv, RerunOnlyByRetry, Retried
<1>10. CASE OverflowFatal
  <2>1. pc' = "done" /\ overflowTried' /\ UNCHANGED <<ran, granted, budget>>
    BY <1>10 DEF OverflowFatal, ErrorResult, Return
  <2> QED
    BY <2>1 DEF RerunInv, RerunOnlyByRetry
<1>11. CASE StartFresh \/ Preflight \/ Finish \/ ProviderError \/ Interrupt \/ Escape
  <2>1. pc' \in {"preflight", "request", "done", "raised"}
        /\ UNCHANGED <<ran, granted, overflowTried, budget>>
    BY <1>11 DEF StartFresh, Preflight, Finish, ProviderError, Interrupt, Escape,
       ErrorResult, Return
  <2> QED
    BY <2>1 DEF RerunInv, RerunOnlyByRetry
<1>12. CASE UNCHANGED vars
  BY <1>12 DEF RerunInv, RerunOnlyByRetry, Retried
<1>13. CASE CallOn
  BY <1>13 DEF CallOn, RerunInv, RerunOnlyByRetry
<1>14. CASE DeferOn
  <2>1. decisions'.ok = {} /\ pc' = "start" /\ UNCHANGED <<ran, granted, overflowTried, budget>>
    BY <1>14 DEF DeferOn, NoDecisions
  <2> QED
    BY <2>1 DEF RerunInv, RerunOnlyByRetry, Retried
<1> QED
  BY <1>1, <1>2, <1>3, <1>4, <1>5, <1>6, <1>7, <1>8, <1>9, <1>10, <1>11, <1>12, <1>13, <1>14 DEF Next

\* A call with effects runs once, except an approved one whose resume overflowed or
\* met a 400.
THEOREM RerunCorrect == Spec => []RerunOnlyByRetry
<1>1. Init => FilterInv /\ ApprovalInv /\ RerunInv
  BY DEF Init, FilterInv, ApprovalInv, OnlyApprovedRun, RerunInv, RerunOnlyByRetry,
     NoDecisions
<1>2. RerunInv => RerunOnlyByRetry
  BY DEF RerunInv
<1> QED
  BY <1>1, <1>2, InitType, NextType, FilterStep, ApprovalStep, RerunStep, PTL DEF Spec

-----------------------------------------------------------------------------
(***************************************************************************)
(* The contract.  Every list the turn works on starts with the history it  *)
(* was given until a compaction is noted, and holds at most one unanswered *)
(* call, so that taking the last message away is enough for an interrupt.  *)
(***************************************************************************)
\* A message that is no call leaves nothing unanswered behind it.
LEMMA AppendSettles ==
    ASSUME NEW h \in Seq(Msg), NEW m \in Msg, ~HasCall(m)
    PROVE  ~Dangling(Append(h, m)) /\ FrontSettled(Append(h, m))
BY AppendPieces DEF Dangling, FrontSettled

\* What the turn itself puts behind a list is no call.
LEMMA OwnMessages ==
    /\ ~HasCall(Prompt) /\ ~HasCall(Reflect) /\ ~HasCall(Abort) /\ ~HasCall(Answered)
    /\ \A S : ~HasCall(M("ret", S))
BY DEF Prompt, Reflect, Abort, Answered, M, HasCall, CallKinds

\* The list with the prompt in flight starts as it did and holds no second call.
LEMMA WithPromptKeeps ==
    ASSUME history \in Seq(Msg), FrontSettled(history)
    PROVE  /\ FrontSettled(WithPrompt)
           /\ \A e \in Seq(Msg) : Extends(history, e) => Extends(WithPrompt, e)
<1>1. CASE input
  BY <1>1, Constants, OwnMessages, AppendSettles, ExtendsAppend DEF WithPrompt
<1>2. CASE ~input
  BY <1>2 DEF WithPrompt
<1> QED
  BY <1>1, <1>2

\* Every step keeps the start of the lists, and the one call at their end.
LEMMA ContractInvStep == IType /\ ContractInv /\ [Next]_vars => ContractInv'
<1> SUFFICES ASSUME IType, ContractInv, [Next]_vars PROVE ContractInv'
  OBVIOUS
<1>t. /\ history \in Seq(Msg) /\ run \in Seq(Msg) /\ HasTodos \in BOOLEAN
      /\ entry \in Seq(Msg) /\ issued \in Nat /\ decisions.pending \subseteq Calls
  BY TurnAssumption DEF IType, TypeOK
<1>e. entry' = entry
  BY DEF Next, StartFresh, StartResume, Preflight, Answer, AutoCalls, GatedCalls,
     Complete, Decide, LengthRetry, Finish, OverflowStrip, OverflowSummarize, Recover,
     OverflowFatal, Reject400, Backoff, ProviderError, Interrupt, Escape, CallOn, DeferOn
<1>1. CASE StartFresh
  <2>1. ~Dangling(run')
    BY <1>t, <1>1, Constants, OwnMessages, AppendSettles DEF StartFresh
  <2>2. Extends(history, entry) => Extends(run', entry)
    BY <1>t, <1>1, Constants, ExtendsAppend DEF StartFresh
  <2> QED
    BY <1>1, <2>1, <2>2 DEF StartFresh, ContractInv
<1>2. CASE StartResume
  <2>1. M("ret", decisions.pending) \in Msg /\ run' = Append(history, M("ret", decisions.pending))
    BY <1>t, <1>2, Constants DEF StartResume, Kinds
  <2>2. ~Dangling(run')
    BY <1>t, <2>1, OwnMessages, AppendSettles
  <2>3. Extends(history, entry) => Extends(run', entry)
    BY <1>t, <2>1, ExtendsAppend
  <2> QED
    BY <1>2, <2>2, <2>3 DEF StartResume, ContractInv
<1>3. CASE Preflight
  <2>1. CASE UNCHANGED <<run, compacted>>
    BY <1>3, <2>1 DEF Preflight, ContractInv
  <2>2. CASE run' \in Compactions(run, HasTodos) /\ compacted' = TRUE
    <3>1. ~Dangling(run')
      BY <1>t, <1>3, <2>2, CompactionLast DEF Preflight, ContractInv, Dangling
    <3> QED
      BY <1>3, <2>2, <3>1 DEF Preflight, ContractInv
  <2> QED
    BY <1>3, <2>1, <2>2 DEF Preflight
<1>4. ASSUME NEW cut \in BOOLEAN, Answer(cut) PROVE ContractInv'
  <2>1. /\ latest'.msgs = Append(run, Answered) /\ pc' = "collect" /\ pc = "request"
        /\ UNCHANGED <<history, compacted, entry>>
    BY <1>4 DEF Answer, Complete
  <2>2. /\ latest'.msgs # <<>> /\ Last(latest'.msgs) = Answered /\ FrontSettled(latest'.msgs)
    BY <1>t, <2>1, AnsweredPieces DEF FrontSettled
  <2>3. Extends(run, entry) => Extends(latest'.msgs, entry)
    BY <1>t, <2>1, Constants, ExtendsAppend
  <2> QED
    BY <2>1, <2>2, <2>3 DEF ContractInv
<1>5. ASSUME NEW kind \in CallKinds, NEW n \in 1..MaxCalls, AutoCalls(kind, n)
      PROVE  ContractInv'
  <2> DEFINE S == issued + 1 .. issued + n
             both == <<M(kind, S), M("ret", S)>>
  <2>1. S \subseteq Calls
    BY <1>5, TurnAssumption DEF IType, TypeOK, AutoCalls, Calls
  <2>2. run' = run \o both /\ pc' = "preflight" /\ pc = "request"
        /\ UNCHANGED <<history, latest, compacted, entry>>
    BY <1>5 DEF AutoCalls
  <2> HIDE DEF S
  <2>3. both \in Seq(Msg) /\ Len(both) = 2 /\ ~HasCall(both[2])
    BY <2>1, Constants, OwnMessages DEF Kinds
  <2> HIDE DEF both
  <2>4. ~Dangling(run')
    <3>1. /\ Len(run) \in Nat /\ Len(run') = Len(run) + 2
          /\ run'[Len(run) + 2] = both[2]
      <4>1. Len(run) \in Nat
        BY <1>t, LenProperties
      <4>2. /\ Len(run') = Len(run) + Len(both)
            /\ \A i \in 1 .. Len(run) + Len(both) :
                  run'[i] = IF i <= Len(run) THEN run[i] ELSE both[i - Len(run)]
        BY <1>t, <2>2, <2>3, ConcatProperties
      <4> QED
        BY <2>3, <4>1, <4>2
    <3> QED
      BY <2>3, <3>1 DEF Dangling, Last
  <2>5. Extends(run, entry) => Extends(run', entry)
    BY <1>t, <2>2, <2>3, ExtendsMore
  <2> QED
    BY <2>2, <2>4, <2>5 DEF ContractInv
<1>6. ASSUME NEW kind \in CallKinds, NEW a \in 0..MaxCalls,
             NEW g \in 1..MaxCalls, GatedCalls(kind, a, g)
      PROVE  ContractInv'
  <2> DEFINE A == issued + 1 .. issued + a
             G == issued + a + 1 .. issued + a + g
  <2>1. A \in SUBSET Calls /\ G \in SUBSET Calls /\ G # {}
    <3>1. a \in Nat /\ g \in Nat /\ issued + a + g <= MaxCalls /\ g >= 1
      BY <1>6, TurnAssumption DEF GatedCalls
    <3>2. issued + a + 1 \in G
      BY <1>t, <3>1
    <3>3. A \subseteq Calls /\ G \subseteq Calls
      BY <1>t, <3>1, TurnAssumption DEF Calls
    <3> QED
      BY <3>2, <3>3
  <2>2. /\ latest'.msgs = WithDeferred(run, kind, A, G) /\ latest'.pending = G
        /\ pc' = "collect" /\ pc = "request"
        /\ UNCHANGED <<history, compacted, entry>>
    BY <1>t, <1>6, <2>1, WithDeferredIs DEF GatedCalls, Complete
  <2> HIDE DEF A, G
  <2>3. FrontSettled(latest'.msgs) /\ (Extends(run, entry) => Extends(latest'.msgs, entry))
    BY <1>t, <2>1, <2>2, DeferredExtends DEF ContractInv
  <2> QED
    BY <2>1, <2>2, <2>3 DEF ContractInv
<1>7. CASE Decide \/ LengthRetry
  <2>1. /\ history' = latest.msgs /\ pc' = "start" /\ latest # NoResult
        /\ UNCHANGED <<latest, compacted>>
    BY <1>7, NoResultIsNone DEF Decide, LengthRetry, EndApprovals, IType
  <2> QED
    BY <1>e, <2>1 DEF ContractInv
<1>8. CASE Finish
  <2>1. /\ history' = latest.msgs /\ pc' = "done" /\ latest # NoResult
        /\ UNCHANGED <<latest, compacted>>
    BY <1>8, NoResultIsNone DEF Finish, EndApprovals, Return, IType
  <2> QED
    BY <1>e, <2>1 DEF ContractInv
<1>9. CASE OverflowStrip
  <2>1. history' = WithPrompt /\ compacted' /\ pc' = "start" /\ latest' = latest
    BY <1>9 DEF OverflowStrip
  <2>2. FrontSettled(history')
    BY <1>t, <2>1, WithPromptKeeps DEF ContractInv
  <2> QED
    BY <2>1, <2>2 DEF ContractInv
<1>10. CASE Recover
  <2>1. history' \in Compactions(WithPrompt, HasTodos) /\ compacted' /\ pc' = "start"
        /\ latest' = latest
    BY <1>10 DEF Recover
  <2>2. WithPrompt \in Seq(Msg) /\ FrontSettled(WithPrompt)
    BY <1>t, WithPromptType, WithPromptKeeps DEF ContractInv
  <2>3. FrontSettled(history')
    BY <1>t, <2>1, <2>2, CompactionSettled
  <2> QED
    BY <2>1, <2>3 DEF ContractInv
<1>11. CASE Reject400
  <2>1. history' = Append(history, Reflect) /\ pc' = "backoff"
        /\ UNCHANGED <<latest, compacted>>
    BY <1>11 DEF Reject400
  <2>2. FrontSettled(history') /\ (Extends(history, entry) => Extends(history', entry))
    BY <1>t, <2>1, Constants, OwnMessages, AppendSettles, ExtendsAppend
  <2> QED
    BY <1>e, <2>1, <2>2 DEF ContractInv
<1>12. CASE OverflowSummarize \/ OverflowFatal \/ Backoff \/ ProviderError \/ Interrupt
             \/ Escape
  <2>1. /\ pc' \in {"recovering", "start", "done", "raised"}
        /\ UNCHANGED <<history, latest, compacted>>
    BY <1>12 DEF OverflowSummarize, OverflowFatal, Backoff, ProviderError, Interrupt,
       Escape, ErrorResult, Return
  <2> QED
    BY <1>e, <2>1 DEF ContractInv
<1>13. CASE UNCHANGED vars
  BY <1>13 DEF ContractInv
<1>14. CASE CallOn
  BY <1>14 DEF CallOn, ContractInv
<1>15. CASE DeferOn
  <2>1. /\ latest'.msgs = run /\ history' = run /\ pc = "request" /\ pc' = "start"
        /\ compacted' = compacted
    BY <1>15 DEF DeferOn
  <2>2. FrontSettled(run)
    BY <2>1 DEF ContractInv, FrontSettled
  <2> QED
    BY <1>e, <2>1, <2>2 DEF ContractInv
<1> QED
  BY <1>1, <1>2, <1>3, <1>4, <1>5, <1>6, <1>7, <1>8, <1>9, <1>10, <1>11, <1>12,
     <1>13, <1>14, <1>15 DEF Next

\* It holds of the lists a turn starts with.
LEMMA ContractInit == Init => ContractInv
<1> SUFFICES ASSUME Init PROVE ContractInv
  OBVIOUS
<1>1. entry \in Histories /\ history = entry /\ history \in Seq(Msg)
  BY TurnAssumption DEF Init
<1>2. FrontSettled(history)
  BY <1>1, HistoriesAssumption DEF FrontSettled
<1>3. Extends(history, entry)
  BY <1>1, LenProperties DEF Extends
<1> QED
  BY <1>2, <1>3 DEF Init, ContractInv

\* What tools did in a completed segment is on record in the result, itself or behind
\* a marker, also when a later segment fails or is interrupted.
THEOREM EffectsCorrect == Spec => []EffectsRecorded
<1>1. Init => ApprovalInv
  BY DEF Init, ApprovalInv, OnlyApprovedRun, NoDecisions
<1>2. Init => RecordInv
  BY DEF Init, RecordInv, EffectsRecorded, NoDecisions
<1>3. RecordInv => EffectsRecorded
  BY DEF RecordInv
<1> QED
  BY <1>1, <1>2, <1>3, InitType, NextType, ApprovalStep,
     ContractInit, ContractInvStep, RecordStep, PTL DEF Spec

\* The contract speaks of the same operations on lists.
LEMMA ContractAllows ==
    ASSUME NEW h, NEW r
    PROVE  Contract!Allowed(h, r) <=>
             /\ r.interrupted => r.outcome = "continue"
             /\ ~r.compacted =>
                   IsPrefix(IF r.interrupted THEN DropDangling(h) ELSE h, r.msgs)
             /\ (r.outcome = "continue" /\ ~r.interrupted) =>
                   r.msgs # <<>> /\ Last(r.msgs).k \in TextKinds \ CallKinds
             /\ r.interrupted =>
                   /\ r.msgs # <<>> /\ Last(r.msgs).k = "abort"
                   /\ ~Dangling(Front(r.msgs))
BY DEF Contract!Allowed, Contract!IsPrefix, Contract!DropDangling, Contract!Dangling,
   Contract!Last, Contract!Front, Contract!HasCall, Contract!TextKinds,
   Contract!CallKinds, IsPrefix, DropDangling, Dangling, Last, Front, HasCall,
   TextKinds, CallKinds

\* A turn that completes, fails or is interrupted returns what the contract allows.
LEMMA ReturnAllowed ==
    ASSUME IType, ContractInv, NEW outcome \in {"continue", "error"}, NEW int \in BOOLEAN,
           NEW msgs, Return(outcome, int, msgs), compacted' = compacted,
           \/ /\ outcome = "continue" /\ ~int /\ msgs = latest.msgs
              /\ pc = "collect" /\ latest.pending = {}
           \/ outcome = "error" /\ ~int /\ msgs = LatestOrHistory
           \/ outcome = "continue" /\ int /\ msgs = Interrupted
    PROVE  result' \in Contract!Result /\ Contract!Allowed(entry, result')
<1>1. /\ history \in Seq(Msg) /\ entry \in Seq(Msg) /\ compacted \in BOOLEAN
      /\ LatestOrHistory \in Seq(Msg) /\ DropDangling(LatestOrHistory) \in Seq(Msg)
  BY TurnAssumption, LatestType, DropDanglingType DEF IType, TypeOK
<1>2. FrontSettled(LatestOrHistory) /\ (~compacted => Extends(LatestOrHistory, entry))
  BY DEF ContractInv, LatestOrHistory
<1>3. /\ result'.outcome = outcome /\ result'.interrupted = int
      /\ result'.compacted = compacted /\ result'.msgs = msgs
  BY DEF Return
<1>4. CASE outcome = "continue" /\ ~int /\ msgs = latest.msgs
             /\ pc = "collect" /\ latest.pending = {}
  <2>1. latest # NoResult /\ msgs = LatestOrHistory
    BY <1>4, NoResultIsNone DEF IType, LatestOrHistory
  <2>2. msgs \in Seq(Msg) /\ (~compacted => IsPrefix(entry, msgs))
    BY <1>1, <1>2, <2>1, ExtendsIsPrefix
  <2>3. msgs # <<>> /\ Last(msgs).k \in TextKinds \ CallKinds
    BY <1>4 DEF ContractInv, Answered, M, TextKinds, CallKinds
  <2>4. result' \in Contract!Result
    BY <1>1, <2>2, ReturnType
  <2> QED
    BY <1>3, <1>4, <2>2, <2>3, <2>4, ContractAllows
<1>5. CASE outcome = "error" /\ ~int /\ msgs = LatestOrHistory
  <2>1. ~compacted => IsPrefix(entry, msgs)
    BY <1>1, <1>2, <1>5, ExtendsIsPrefix
  <2>2. result' \in Contract!Result
    BY <1>1, <1>5, ReturnType
  <2> QED
    BY <1>3, <1>5, <2>1, <2>2, ContractAllows
<1>6. CASE outcome = "continue" /\ int /\ msgs = Interrupted
  <2>1. /\ msgs \in Seq(Msg) /\ msgs # <<>> /\ Last(msgs) = Abort
        /\ Front(msgs) = DropDangling(LatestOrHistory)
    BY <1>1, <1>6, Constants, AppendPieces DEF Interrupted
  <2>2. ~Dangling(DropDangling(LatestOrHistory))
    BY <1>2 DEF FrontSettled, DropDangling
  <2>3. ~compacted => IsPrefix(DropDangling(entry), msgs)
    <3>1. SUFFICES ASSUME ~compacted PROVE IsPrefix(DropDangling(entry), msgs)
      OBVIOUS
    <3>2. Extends(DropDangling(LatestOrHistory), DropDangling(entry))
      BY <1>1, <1>2, <3>1, ExtendsDropped
    <3>3. DropDangling(entry) \in Seq(Msg)
      BY <1>1, DropDanglingType
    <3>4. Extends(msgs, DropDangling(entry))
      BY <1>1, <1>6, <3>2, <3>3, Constants, ExtendsAppend DEF Interrupted
    <3> QED
      BY <2>1, <3>3, <3>4, ExtendsIsPrefix
  <2>4. result' \in Contract!Result
    BY <1>1, <2>1, ReturnType
  <2>5. Last(msgs).k = "abort"
    BY <2>1 DEF Abort, M
  <2> QED
    BY <1>3, <1>6, <2>1, <2>2, <2>3, <2>4, <2>5, ContractAllows
<1> QED
  BY <1>4, <1>5, <1>6

\* Every step is a step of the contract, or none of its business.
LEMMA RefinementStep ==
    IType /\ ContractInv /\ [Next]_vars => [Contract!Next]_Contract!vars
<1> SUFFICES ASSUME IType, ContractInv, [Next]_vars
             PROVE  [Contract!Next]_Contract!vars
  OBVIOUS
<1> DEFINE Running == {"start", "preflight", "request", "collect", "recovering", "backoff"}
<1>1. ASSUME entry' = entry, result' = result, pc' = pc \/ (pc \in Running /\ pc' \in Running)
      PROVE  [Contract!Next]_Contract!vars
  BY <1>1 DEF Contract!vars
<1>2. ASSUME entry' = entry, pc \in Running, pc' = "done",
             result' \in Contract!Result, Contract!Allowed(entry, result')
      PROVE  [Contract!Next]_Contract!vars
  BY <1>2 DEF Contract!Next, Contract!Return
<1>3. ASSUME entry' = entry, pc \in Running, pc' = "raised", result' = result
      PROVE  [Contract!Next]_Contract!vars
  BY <1>3 DEF Contract!Next, Contract!Raise
<1>4. CASE StartFresh \/ StartResume \/ Preflight
  BY <1>1, <1>4 DEF StartFresh, StartResume, Preflight
<1>5. CASE \/ \E cut \in BOOLEAN : Answer(cut)
           \/ \E kind \in CallKinds, n \in 1..MaxCalls : AutoCalls(kind, n)
           \/ \E kind \in CallKinds, a \in 0..MaxCalls, g \in 1..MaxCalls :
                 GatedCalls(kind, a, g)
  <2>1. entry' = entry /\ result' = result /\ pc \in Running /\ pc' \in Running
    BY <1>5 DEF Answer, AutoCalls, GatedCalls, Complete
  <2> QED
    BY <1>1, <2>1
<1>6. CASE Decide \/ LengthRetry \/ OverflowStrip \/ OverflowSummarize \/ Recover
             \/ Reject400 \/ Backoff
  BY <1>1, <1>6 DEF Decide, LengthRetry, OverflowStrip, OverflowSummarize, Recover,
     Reject400, Backoff
<1>7. CASE Finish
  <2>1. result' \in Contract!Result /\ Contract!Allowed(entry, result')
    BY <1>7, ReturnAllowed DEF Finish
  <2> QED
    BY <1>2, <1>7, <2>1 DEF Finish, Return
<1>8. CASE OverflowFatal \/ ProviderError
  <2>1. result' \in Contract!Result /\ Contract!Allowed(entry, result')
    BY <1>8, ReturnAllowed DEF OverflowFatal, ProviderError, ErrorResult
  <2> QED
    BY <1>2, <1>8, <2>1 DEF OverflowFatal, ProviderError, ErrorResult, Return
<1>9. CASE Interrupt
  <2>1. result' \in Contract!Result /\ Contract!Allowed(entry, result')
    BY <1>9, ReturnAllowed DEF Interrupt
  <2> QED
    BY <1>2, <1>9, <2>1 DEF Interrupt, Return
<1>10. CASE Escape
  BY <1>3, <1>10 DEF Escape
<1>11. CASE UNCHANGED vars
  BY <1>1, <1>11
<1>12. CASE CallOn \/ DeferOn
  BY <1>1, <1>12 DEF CallOn, DeferOn
<1> QED
  BY <1>4, <1>5, <1>6, <1>7, <1>8, <1>9, <1>10, <1>11, <1>12 DEF Next

\* run_turn keeps the promise the REPL builds on: what it returns extends the history
\* it was given unless it reports a compaction, and ends in an answer or a marker.
THEOREM ContractCorrect == Spec => ImplementsContract
<1>1. Init => Contract!Init
  <2>1. Init => entry \in Seq(Contract!Msg)
    BY TurnAssumption, ContractMsg DEF Init
  <2> QED
    BY <2>1 DEF Init, Contract!Init
<1> QED
  BY <1>1, InitType, NextType, ContractInit, ContractInvStep, RefinementStep, PTL
     DEF Spec, ImplementsContract, Contract!Spec

-----------------------------------------------------------------------------
(***************************************************************************)
(* Resumes.  A decision belongs to calls at the end of the list, behind    *)
(* which nothing but returns was put; a segment that has decisions has no  *)
(* prompt to put there, and what compaction cuts lies before them.         *)
(***************************************************************************)
ResumeInv ==
    /\ decisions.pending # {} => ~input
    /\ (pc \in {"start", "preflight", "request", "recovering", "backoff"}
          /\ decisions.pending # {} /\ budget = ReformatBudget)
       => Undecided(history, decisions.pending)
    /\ (pc = "collect" /\ latest.pending # {}) => Undecided(latest.msgs, latest.pending)

\* The SDK accepts a resume for the calls that wait.
LEMMA WaitingResumes ==
    ASSUME NEW h \in Seq(Msg), NEW pending, Undecided(h, pending)
    PROVE  Resumable(h, pending)
<1>1. PICK i \in 1 .. Len(h) :
         /\ HasCall(h[i])
         /\ \A j \in i + 1 .. Len(h) : h[j].k = "ret"
         /\ pending = h[i].of \ UNION {h[j].of : j \in i + 1 .. Len(h)}
  BY DEF Undecided
<1>2. Len(h) \in Nat /\ DOMAIN h = 1 .. Len(h)
  BY LenProperties
<1> DEFINE rest == SubSeq(h, i + 1, Len(h))
<1>3. /\ rest \in Seq(Msg) /\ Len(rest) = Len(h) - i
      /\ \A j \in 1 .. Len(h) - i : rest[j] = h[i + j]
  <2>1. i + 1 \in Nat \ {0} /\ Len(h) \in Int
    BY <1>2
  <2>2. /\ rest \in Seq(Msg)
        /\ Len(rest) = IF i + 1 <= Len(h) THEN Len(h) - (i + 1) + 1 ELSE 0
        /\ \A j \in 1 .. Len(h) - (i + 1) + 1 : rest[j] = h[i + 1 + j - 1]
    BY <1>2, <2>1, PieceType
  <2> HIDE DEF rest
  <2>3. Len(rest) = Len(h) - i
    <3>1. i \in Nat /\ i <= Len(h) /\ Len(h) \in Nat
      BY <1>2
    <3>2. CASE i + 1 <= Len(h)
      <4>1. Len(rest) = Len(h) - (i + 1) + 1
        BY <2>2, <3>2
      <4> QED
        BY <3>1, <4>1
    <3>3. CASE i = Len(h)
      <4>1. ~(i + 1 <= Len(h)) /\ Len(h) - i = 0
        BY <3>1, <3>3
      <4> QED
        BY <2>2, <4>1
    <3>4. i + 1 <= Len(h) \/ i = Len(h)
      BY <3>1
    <3> QED
      BY <3>2, <3>3, <3>4
  <2>4. \A j \in 1 .. Len(h) - i : rest[j] = h[i + j]
    <3> SUFFICES ASSUME NEW j \in 1 .. Len(h) - i PROVE rest[j] = h[i + j]
      OBVIOUS
    <3>1. j \in 1 .. Len(h) - (i + 1) + 1 /\ i + 1 + j - 1 = i + j
      BY <1>2
    <3>2. rest[j] = h[i + 1 + j - 1]
      BY <2>2, <3>1
    <3> QED
      BY <3>1, <3>2
  <2> QED
    BY <2>2, <2>3, <2>4
<1> HIDE DEF rest
<1>4. DOMAIN rest = 1 .. Len(h) - i
  BY <1>3, LenProperties
<1>5. Covered(rest) = UNION {h[j].of : j \in i + 1 .. Len(h)}
  <2>1. ASSUME NEW j \in 1 .. Len(h) - i
        PROVE  rest[j].of \in {h[k].of : k \in i + 1 .. Len(h)}
    <3>1. i + j \in i + 1 .. Len(h) /\ rest[j] = h[i + j]
      BY <1>2, <1>3
    <3> QED
      BY <3>1
  <2>2. ASSUME NEW k \in i + 1 .. Len(h)
        PROVE  h[k].of \in {rest[j].of : j \in 1 .. Len(h) - i}
    <3>1. k - i \in 1 .. Len(h) - i /\ i + (k - i) = k
      BY <1>2
    <3>2. rest[k - i] = h[k]
      BY <1>3, <3>1
    <3> QED
      BY <3>1, <3>2
  <2>3. {rest[j].of : j \in 1 .. Len(h) - i} = {h[k].of : k \in i + 1 .. Len(h)}
    BY <2>1, <2>2
  <2> QED
    BY <1>4, <2>3 DEF Covered
<1>6. \A j \in i + 1 .. Len(h) : ~IsResponse(h[j])
  BY <1>1 DEF IsResponse, TextKinds, CallKinds
<1> QED
  BY <1>1, <1>2, <1>5, <1>6 DEF Resumable, rest

\* Every step keeps the calls a decision is for where the SDK looks for them.
LEMMA ResumeStep == IType /\ FilterInv /\ ResumeInv /\ [Next]_vars => ResumeInv'
<1> SUFFICES ASSUME IType, FilterInv, ResumeInv, [Next]_vars PROVE ResumeInv'
  OBVIOUS
<1>t. /\ history \in Seq(Msg) /\ run \in Seq(Msg) /\ HasTodos \in BOOLEAN
      /\ issued \in Nat /\ budget \in 0..ReformatBudget /\ ReformatBudget \in Nat
  BY TurnAssumption DEF IType, TypeOK
<1>1. CASE StartFresh \/ StartResume \/ Preflight \/ OverflowSummarize \/ Backoff
  <2>1. /\ pc \in {"start", "preflight", "request", "recovering", "backoff"}
        /\ pc' # "collect" /\ UNCHANGED <<history, decisions, input, budget>>
    BY <1>1 DEF StartFresh, StartResume, Preflight, OverflowSummarize, Backoff
  <2> QED
    BY <2>1 DEF ResumeInv
<1>2. ASSUME NEW cut \in BOOLEAN, Answer(cut) PROVE ResumeInv'
  <2>1. latest'.pending = {} /\ decisions'.pending = {}
    BY <1>2 DEF Answer, Complete, NoDecisions
  <2> QED
    BY <2>1 DEF ResumeInv
<1>3. ASSUME NEW kind \in CallKinds, NEW n \in 1..MaxCalls, AutoCalls(kind, n)
      PROVE  ResumeInv'
  <2>1. pc = "request" /\ pc' = "preflight" /\ UNCHANGED <<history, decisions, input, budget>>
    BY <1>3 DEF AutoCalls
  <2> QED
    BY <2>1 DEF ResumeInv
<1>4. ASSUME NEW kind \in CallKinds, NEW a \in 0..MaxCalls,
             NEW g \in 1..MaxCalls, GatedCalls(kind, a, g)
      PROVE  ResumeInv'
  <2> DEFINE A == issued + 1 .. issued + a
             G == issued + a + 1 .. issued + a + g
  <2>1. A \in SUBSET Calls /\ G \in SUBSET Calls /\ A \cap G = {}
    <3>1. a \in Nat /\ g \in Nat /\ issued + a + g <= MaxCalls
      BY <1>4, TurnAssumption DEF GatedCalls
    <3>2. A \subseteq Calls /\ G \subseteq Calls /\ A \cap G = {}
      BY <1>t, <3>1, TurnAssumption DEF Calls
    <3> QED
      BY <3>2
  <2>2. /\ latest'.msgs = WithDeferred(run, kind, A, G) /\ latest'.pending = G
        /\ decisions'.pending = {}
    BY <1>t, <1>4, <2>1, WithDeferredIs DEF GatedCalls, Complete, NoDecisions
  <2> HIDE DEF A, G
  <2>3. Undecided(latest'.msgs, latest'.pending)
    BY <1>t, <2>1, <2>2, DeferredWaiting
  <2> QED
    BY <2>2, <2>3 DEF ResumeInv
<1>5. CASE Decide
  <2>1. /\ pc = "collect" /\ latest.pending # {} /\ ~input' /\ history' = latest.msgs
        /\ decisions'.pending = latest.pending /\ pc' = "start"
    BY <1>5 DEF Decide
  <2> QED
    BY <2>1 DEF ResumeInv
<1>6. CASE OverflowStrip
  <2>1. /\ pc = "request" /\ pc' = "start" /\ history' = WithPrompt /\ ~input'
        /\ UNCHANGED <<decisions, budget>>
    BY <1>6 DEF OverflowStrip
  <2>2. decisions.pending # {} => history' = history
    BY <2>1 DEF ResumeInv, WithPrompt
  <2> QED
    BY <2>1, <2>2 DEF ResumeInv
<1>7. CASE Recover
  <2>1. /\ pc = "recovering" /\ pc' = "start" /\ ~input'
        /\ history' \in Compactions(WithPrompt, HasTodos)
        /\ UNCHANGED <<decisions, budget>>
    BY <1>7 DEF Recover
  <2>2. decisions.pending # {} => WithPrompt = history
    BY DEF ResumeInv, WithPrompt
  <2>3. (decisions.pending # {} /\ budget = ReformatBudget)
            => Undecided(history', decisions.pending)
    BY <1>t, <2>1, <2>2, CompactionWaiting DEF ResumeInv
  <2> QED
    BY <2>1, <2>3 DEF ResumeInv
<1>8. CASE Reject400
  <2>1. budget' # ReformatBudget /\ ~input' /\ pc' = "backoff"
    BY <1>t, <1>8 DEF Reject400
  <2> QED
    BY <2>1 DEF ResumeInv
<1>9. CASE LengthRetry
  BY <1>9 DEF LengthRetry, FilterInv, NoDecisions, ResumeInv
<1>10. CASE Finish \/ OverflowFatal \/ ProviderError \/ Interrupt \/ Escape
  <2>1. pc' \in {"done", "raised"} /\ UNCHANGED <<decisions, input>>
    BY <1>10 DEF Finish, OverflowFatal, ProviderError, Interrupt, Escape,
       ErrorResult, Return
  <2> QED
    BY <2>1 DEF ResumeInv
<1>11. CASE UNCHANGED vars
  BY <1>11 DEF ResumeInv
<1>12. CASE CallOn
  BY <1>12 DEF CallOn, ResumeInv
<1>13. CASE DeferOn
  <2>1. decisions'.pending = {} /\ pc' = "start"
    BY <1>13 DEF DeferOn, NoDecisions
  <2> QED
    BY <2>1 DEF ResumeInv
<1> QED
  BY <1>1, <1>2, <1>3, <1>4, <1>5, <1>6, <1>7, <1>8, <1>9, <1>10, <1>11, <1>12, <1>13 DEF Next

\* When a segment starts with decisions the list still ends in the calls they are for,
\* also after recovery from an overflow compacted it; unless a 400 was reformulated.
THEOREM ResumeCorrect == Spec => []ResumeAccepted
<1>1. Init => FilterInv /\ ResumeInv
  BY DEF Init, FilterInv, ResumeInv, NoDecisions
<1>2. IType /\ ResumeInv => ResumeAccepted
  BY WaitingResumes DEF IType, TypeOK, ResumeInv, ResumeAccepted
<1> QED
  BY <1>1, <1>2, InitType, NextType, FilterStep, ResumeStep, PTL DEF Spec

=============================================================================
