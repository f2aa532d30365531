---------------------------- MODULE TurnContract ----------------------------
(***************************************************************************)
(* What run_turn promises its caller, the REPL: a turn takes the history   *)
(* the REPL owns and either hands back one TurnResult or raises, in which  *)
(* case the REPL keeps the history it had.  A turn that reports no         *)
(* compaction keeps every message of that history, in its place in front   *)
(* of what the turn made.                                                  *)
(*                                                                         *)
(* The promise is about messages as they were made.  It is not about their *)
(* number: the list handed back is one of Joinings(msgs), and with adjacent*)
(* requests in the history it is shorter.  What that does to the REPL's    *)
(* count of saved messages is in Session.                                  *)
(***************************************************************************)
EXTENDS History

CONSTANT NoResult   \* the turn has not returned

Outcomes == {"continue", "error"}

Result == [outcome : Outcomes, interrupted : BOOLEAN,
           compacted : BOOLEAN, msgs : Seq(Msg)]

\* r may answer a turn that started from the history h.  "compacted" is
\* runtime.compaction_applied_this_turn as the caller reads it afterwards.
Allowed(h, r) ==
    /\ r.interrupted => r.outcome = "continue"
    \* Without compaction the history it was given is in front.
    /\ ~r.compacted =>
          IsPrefix(IF r.interrupted THEN DropDangling(h) ELSE h, r.msgs)
    \* A turn that completed ends in the model's answer.
    /\ (r.outcome = "continue" /\ ~r.interrupted) =>
          r.msgs # <<>> /\ Last(r.msgs).k \in TextKinds \ CallKinds
    \* An interrupted turn ends in the abort marker, and no tool call is left
    \* unanswered right before it.
    /\ r.interrupted =>
          /\ r.msgs # <<>> /\ Last(r.msgs).k = "abort"
          /\ ~Dangling(Front(r.msgs))

-----------------------------------------------------------------------------
VARIABLES hist,     \* the history the REPL passed in
          status,   \* "running", "returned" or "raised"
          result    \* the TurnResult, once returned

vars == <<hist, status, result>>

Init == /\ hist \in Seq(Msg)
        /\ status = "running"
        /\ result = NoResult

Return == /\ status = "running"
          /\ status' = "returned"
          /\ result' \in Result
          /\ Allowed(hist, result')
          /\ UNCHANGED hist

Raise == /\ status = "running"
         /\ status' = "raised"
         /\ UNCHANGED <<hist, result>>

Next == Return \/ Raise

Spec == Init /\ [][Next]_vars

=============================================================================
