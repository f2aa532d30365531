--------------------------- MODULE CompactionProofs ---------------------------
(***************************************************************************)
(* The breaker, the pause and the count of Compaction, for every threshold,*)
(* window, cadence and list.                                               *)
(***************************************************************************)
EXTENDS Compaction, SequenceTheorems, TLAPS

Lists == INSTANCE HistoryTheorems

-----------------------------------------------------------------------------
(***************************************************************************)
(* Remainders, by which the breaker keeps its cadence.                     *)
(***************************************************************************)
\* Quotient and remainder.
LEMMA Division ==
  ASSUME NEW a \in Nat, NEW P \in Nat \ {0}
  PROVE  a = P * (a \div P) + (a % P) /\ a \div P \in Nat /\ a % P \in 0..P-1
  BY Z3

\* Multiples less than P apart are in order.
LEMMA MultiplesApart ==
  ASSUME NEW x \in Nat, NEW y \in Nat, NEW P \in Nat \ {0}, P * x < P * y + P
  PROVE  x <= y
<1> SUFFICES ASSUME x >= y + 1 PROVE FALSE
  OBVIOUS
<1>1. P * x >= P * (y + 1)
  BY Z3
<1>2. P * (y + 1) = P * y + P
  BY Z3
<1> QED
  BY <1>1, <1>2

\* A number has one remainder.
LEMMA OneRemainder ==
  ASSUME NEW x \in Nat, NEW y \in Nat, NEW r \in Nat, NEW s \in Nat,
         NEW P \in Nat \ {0}, r < P, s < P, P * x + r = P * y + s
  PROVE  r = s
<1>1. P * x \in Nat /\ P * y \in Nat
  BY Z3
<1>2. P * x < P * y + P /\ P * y < P * x + P
  BY <1>1
<1>3. x = y
  BY <1>2, MultiplesApart
<1> QED
  BY <1>1, <1>3

\* From a number that is no multiple to the one before.
LEMMA BeforeOther ==
  ASSUME NEW a \in Nat \ {0}, NEW P \in Nat \ {0}, a % P # 0
  PROVE  ((a - 1) % P) + 1 = a % P
<1> DEFINE q  == a \div P
           r  == a % P
           q1 == (a - 1) \div P
           r1 == (a - 1) % P
<1>1. a = P * q + r /\ q \in Nat /\ r \in 0..P-1
  BY Division, Zenon
<1>2. a - 1 \in Nat
  OBVIOUS
<1>3. a - 1 = P * q1 + r1 /\ q1 \in Nat /\ r1 \in 0..P-1
  BY <1>2, Division, Zenon
<1>4. r # 0
  OBVIOUS
<1> HIDE DEF q, r, q1, r1
<1>5. P * q + (r - 1) = P * q1 + r1
  BY <1>1, <1>3, Z3
<1>6. r - 1 = r1
  BY <1>1, <1>3, <1>4, <1>5, OneRemainder
<1> QED
  BY <1>1, <1>3, <1>6 DEF r, r1

\* From a multiple to the one before.
LEMMA BeforeMultiple ==
  ASSUME NEW a \in Nat \ {0}, NEW P \in Nat \ {0}, a % P = 0
  PROVE  (a - 1) % P = P - 1 /\ a >= P
  BY Z3

-----------------------------------------------------------------------------
(***************************************************************************)
(* The invariant.                                                          *)
(***************************************************************************)
\* Where the breaker is in its cadence: from the trip on every ProbeEvery-th
\* compaction probes, and the others have done without the summarizer.
Cadence ==
    blocked = IF skips <= Trip THEN 0
              ELSE IF SinceTrip <= ProbeEvery THEN SinceTrip
              ELSE (SinceTrip - 1) % ProbeEvery

\* The check began its compaction before it would have been paused.
NotPaused == pc = "compact" /\ job.by = "check" => ~Paused

IInv == TypeOK /\ Cadence /\ NotPaused

\* Whether the summarizer is called, by where the breaker is.
LEMMA Gate ==
  ASSUME IInv
  PROVE  /\ GateOpen /\ skips > Trip =>
                /\ SinceTrip \in Nat \ {0} /\ SinceTrip % ProbeEvery = 0
                /\ SinceTrip >= ProbeEvery /\ blocked >= ProbeEvery - 1
         /\ ~GateOpen =>
                /\ skips >= Trip
                /\ SinceTrip # 0 => SinceTrip % ProbeEvery # 0
         /\ blocked <= ProbeEvery
<1> USE CompactionAssumption
<1>1. skips \in Nat /\ SinceTrip = skips - Trip
  BY DEF IInv, TypeOK, SinceTrip
<1>2. skips > Trip => SinceTrip \in Nat \ {0}
  BY <1>1
<1>3. ASSUME GateOpen, skips > Trip
      PROVE  /\ SinceTrip % ProbeEvery = 0 /\ SinceTrip >= ProbeEvery
             /\ blocked >= ProbeEvery - 1
  <2>1. SinceTrip % ProbeEvery = 0
    BY <1>1, <1>3 DEF GateOpen
  <2>2. (SinceTrip - 1) % ProbeEvery = ProbeEvery - 1 /\ SinceTrip >= ProbeEvery
    BY <1>2, <1>3, <2>1, BeforeMultiple
  <2> QED
    BY <1>1, <1>3, <2>1, <2>2 DEF IInv, Cadence
<1>4. ~GateOpen => /\ skips >= Trip
                   /\ SinceTrip # 0 => SinceTrip % ProbeEvery # 0
  BY <1>1 DEF GateOpen
<1>5. blocked <= ProbeEvery
  <2>1. CASE skips <= Trip \/ SinceTrip <= ProbeEvery
    BY <1>1, <2>1 DEF IInv, Cadence
  <2>2. CASE ~(skips <= Trip) /\ ~(SinceTrip <= ProbeEvery)
    <3>1. SinceTrip - 1 \in Nat
      BY <1>1, <2>2
    <3>2. (SinceTrip - 1) % ProbeEvery \in 0..ProbeEvery-1
      BY <3>1, Division
    <3>3. blocked = (SinceTrip - 1) % ProbeEvery
      BY <2>2 DEF IInv, Cadence
    <3> QED
      BY <3>2, <3>3
  <2> QED
    BY <2>1, <2>2
<1> QED
  BY <1>2, <1>3, <1>4, <1>5

\* No low yield and no failure are always in range.
LEMMA Zeros == 0 \in 0..ThrashWindow /\ 0 \in Nat /\ 0 <= Trip
  BY CompactionAssumption

\* The initial state satisfies the invariant.
LEMMA InvInit == Init => IInv
<1> SUFFICES ASSUME Init PROVE IInv
  OBVIOUS
<1> QED
  BY Zeros DEF Init, IInv, TypeOK, Cadence, NotPaused

-----------------------------------------------------------------------------
\* What a delivery does to the control, whoever asked for the compaction.
LEMMA DeliveryControl ==
  ASSUME IInv, pc = "compact", NEW msgs, Delivered(msgs)
  PROVE  /\ pc' \in {"request", "check", "idle"}
         /\ pc' = "idle" => list' = history'
         /\ applied' = TRUE /\ disturbed' = FALSE
         /\ recovered' \in BOOLEAN
         /\ lowYields' \in 0..ThrashWindow
<1>1. job.by \in {"check", "recover", "command"} /\ recovered \in BOOLEAN
      /\ lowYields \in 0..ThrashWindow
  BY DEF IInv, TypeOK
<1>2. applied' = TRUE /\ disturbed' = FALSE /\ recovered' = recovered
  BY DEF Delivered, Commit
<1>3. pc' \in {"request", "check", "idle"} /\ (pc' = "idle" => list' = history')
  <2>1. CASE job.by = "check"
    BY <2>1 DEF Delivered
  <2>2. CASE job.by = "recover"
    BY <2>2 DEF Delivered
  <2>3. CASE job.by = "command"
    BY <2>3 DEF Delivered
  <2> QED
    BY <1>1, <2>1, <2>2, <2>3
<1>4. lowYields' \in 0..ThrashWindow
  <2>1. lowYields' \in {0, lowYields + 1}
        /\ (lowYields' # 0 => job.by = "check")
    BY DEF Delivered, LowYieldsAfter
  <2>2. job.by = "check" => lowYields < ThrashWindow
    BY <1>1, CompactionAssumption DEF IInv, NotPaused, Paused
  <2> QED
    BY <1>1, <2>1, <2>2, CompactionAssumption
<1> QED
  BY <1>1, <1>2, <1>3, <1>4

\* A compaction keeps the invariant.
LEMMA CompactionKeeps ==
  ASSUME IInv, Summarized \/ SummarizerFails \/ Blocked PROVE IInv'
<1> USE CompactionAssumption
<1>1. pc = "compact" /\ \E msgs : Delivered(msgs)
  BY DEF Summarized, SummarizerFails, Blocked, Deliver
<1>2. skips \in Nat /\ blocked \in Nat /\ SinceTrip = skips - Trip
      /\ SinceTrip' = skips' - Trip
  BY DEF IInv, TypeOK, SinceTrip
<1>3. skips' \in Nat /\ blocked' \in Nat
  BY <1>2 DEF Summarized, SummarizerFails, Blocked
<1>4. TypeOK' /\ NotPaused'
  BY <1>1, <1>3, DeliveryControl DEF TypeOK, NotPaused
<1>5. Cadence'
  <2>1. CASE Summarized
    BY <2>1 DEF Summarized, Cadence
  <2>2. CASE SummarizerFails
    <3>1. GateOpen /\ skips' = skips + 1 /\ blocked' = 0
      BY <2>2 DEF SummarizerFails
    <3>2. CASE skips < Trip
      BY <1>2, <3>1, <3>2 DEF Cadence
    <3>3. CASE skips = Trip
      BY <1>2, <3>1, <3>3 DEF GateOpen
    <3>4. CASE skips > Trip
      <4>1. SinceTrip % ProbeEvery = 0 /\ SinceTrip >= ProbeEvery
        BY <3>1, <3>4, Gate
      <4>2. SinceTrip' - 1 = SinceTrip /\ ~(SinceTrip' <= ProbeEvery)
            /\ ~(skips' <= Trip)
        BY <1>2, <3>1, <3>4, <4>1
      <4> QED
        BY <3>1, <4>1, <4>2 DEF Cadence
    <3> QED
      BY <1>2, <3>2, <3>3, <3>4
  <2>3. CASE Blocked
    <3>1. ~GateOpen /\ skips' = skips + 1 /\ blocked' = blocked + 1
      BY <2>3 DEF Blocked
    <3>2. /\ skips >= Trip /\ SinceTrip' = SinceTrip + 1
          /\ ~(skips' <= Trip)
          /\ SinceTrip # 0 => SinceTrip % ProbeEvery # 0
      BY <1>2, <3>1, Gate
    <3>3. CASE SinceTrip < ProbeEvery
      BY <1>2, <3>1, <3>2, <3>3 DEF IInv, Cadence
    <3>4. CASE SinceTrip = ProbeEvery
      <4>1. ProbeEvery % ProbeEvery = 0
        BY Z3
      <4> QED
        BY <3>2, <3>4, <4>1
    <3>5. CASE SinceTrip > ProbeEvery
      <4>1. SinceTrip \in Nat \ {0} /\ SinceTrip % ProbeEvery # 0
        BY <1>2, <3>2, <3>5
      <4>2. ((SinceTrip - 1) % ProbeEvery) + 1 = SinceTrip % ProbeEvery
        BY <4>1, BeforeOther
      <4>3. blocked = (SinceTrip - 1) % ProbeEvery
        BY <1>2, <3>2, <3>5 DEF IInv, Cadence
      <4>4. SinceTrip' - 1 = SinceTrip /\ ~(SinceTrip' <= ProbeEvery)
        BY <1>2, <3>2, <3>5
      <4> QED
        BY <3>1, <3>2, <4>2, <4>3, <4>4 DEF Cadence
    <3> QED
      BY <1>2, <3>2, <3>3, <3>4, <3>5
  <2> QED
    BY <2>1, <2>2, <2>3
<1> QED
  BY <1>4, <1>5 DEF IInv

\* The steps that leave the breaker alone, and all counters but those an
\* overflow or a new process resets.
LEMMA OthersKeep ==
  ASSUME IInv, [Next]_vars, ~(Summarized \/ SummarizerFails \/ Blocked)
  PROVE  IInv'
<1> USE DEF guardVars, turnVars
<1>1. CASE Check
  <2>1. TypeOK' /\ NotPaused'
    BY <1>1 DEF Check, IInv, TypeOK, NotPaused, Paused
  <2> QED
    BY <1>1, <2>1 DEF Check, IInv, Cadence, SinceTrip
<1>2. CASE Cancelled
  BY <1>2 DEF Cancelled, IInv, TypeOK, NotPaused, Cadence, SinceTrip
<1>3. CASE Submit
  BY <1>3 DEF Submit, LowYieldsKept, IInv, TypeOK, NotPaused, Cadence, SinceTrip
<1>4. ASSUME NEW n, Answer(n) PROVE IInv'
  BY <1>4 DEF Answer, IInv, TypeOK, NotPaused, Cadence, SinceTrip
<1>5. ASSUME NEW n, NEW w, CallTool(n, w) PROVE IInv'
  BY <1>5 DEF CallTool, IInv, TypeOK, NotPaused, Cadence, SinceTrip
<1>6. CASE OverflowStrip
  BY <1>6, Zeros
  DEF OverflowStrip, Commit, IInv, TypeOK, NotPaused, Cadence, SinceTrip
<1>7. CASE OverflowCompact
  BY <1>7 DEF OverflowCompact, IInv, TypeOK, NotPaused, Cadence, SinceTrip
<1>8. CASE SegmentFails
  BY <1>8 DEF SegmentFails, IInv, TypeOK, NotPaused, Cadence, SinceTrip
<1>9. CASE CmdCompact
  BY <1>9 DEF CmdCompact, IInv, TypeOK, NotPaused, Cadence, SinceTrip
<1>10. CASE CmdNew
  BY <1>10 DEF CmdNew, Command, IInv, TypeOK, NotPaused, Cadence, SinceTrip
<1>11. ASSUME NEW t \in Transcripts, CmdResume(t) PROVE IInv'
  BY <1>11 DEF CmdResume, Command, IInv, TypeOK, NotPaused, Cadence, SinceTrip
<1>12. CASE Restart
  BY <1>12, Zeros
  DEF Restart, IInv, TypeOK, NotPaused, Cadence, SinceTrip
<1>13. CASE UNCHANGED vars
  BY <1>13 DEF vars, IInv, TypeOK, NotPaused, Paused, Cadence, SinceTrip
<1> QED
  BY <1>1, <1>2, <1>3, <1>4, <1>5, <1>6, <1>7, <1>8, <1>9, <1>10, <1>11,
     <1>12, <1>13 DEF Next

\* The invariant holds in every state.
LEMMA Invariant == Spec => []IInv
<1>1. IInv /\ [Next]_vars => IInv'
  BY CompactionKeeps, OthersKeep
<1> QED
  BY InvInit, <1>1, PTL DEF Spec

-----------------------------------------------------------------------------
\* Control and counters keep to their types: in particular the low yields never
\* count past the window.
THEOREM TypeCorrect == Spec => []TypeOK
<1>1. IInv => TypeOK
  BY DEF IInv
<1> QED
  BY <1>1, Invariant, PTL

\* The breaker neither hammers the summarizer nor gives it up, for every Trip and
\* ProbeEvery.
THEOREM ProbesKeep == Spec => []ProbesKeepCadence
<1>1. IInv => ProbesKeepCadence
  <2> SUFFICES ASSUME IInv PROVE ProbesKeepCadence
    OBVIOUS
  <2>1. GateOpen /\ skips >= Trip => skips > Trip
    BY CompactionAssumption DEF IInv, TypeOK, GateOpen, SinceTrip
  <2> QED
    BY <2>1, Gate DEF ProbesKeepCadence
<1> QED
  BY <1>1, Invariant, PTL

\* A step that ends the pause is a recovery, a command or a new process.
LEMMA UnpausingStep ==
  ASSUME IInv, [Next]_vars, Paused, ~Paused'
  PROVE  \/ pc = "compact" /\ job.by # "check"
         \/ pc = "request" /\ recovered'
         \/ CmdNew \/ Restart
<1>1. lowYields' # lowYields
  BY DEF Paused
<1>2. CASE Summarized \/ SummarizerFails \/ Blocked
  BY <1>2 DEF IInv, NotPaused, Summarized, SummarizerFails, Blocked
<1>3. CASE OverflowStrip
  BY <1>3 DEF OverflowStrip
<1>4. CASE CmdNew \/ Restart
  BY <1>4
<1>5. CASE \/ Check \/ Cancelled \/ Submit \/ OverflowCompact \/ SegmentFails
           \/ \E n \in Usages : Answer(n) \/ \E w \in Weights : CallTool(n, w)
           \/ CmdCompact \/ \E t \in Transcripts : CmdResume(t)
           \/ UNCHANGED vars
  BY <1>1, <1>5 DEF Check, Cancelled, Submit, LowYieldsKept, OverflowCompact,
     SegmentFails, Answer, CallTool, CmdCompact, CmdResume, vars
<1> QED
  BY <1>2, <1>3, <1>4, <1>5 DEF Next

\* Nothing but a command of the user, an overflow or a new process ends the pause.
THEOREM PauseStands == Spec => PausedUntilHelped
<1>1. ASSUME IInv, [Next]_vars
      PROVE  [Paused /\ ~Paused' =>
                 \/ pc = "compact" /\ job.by # "check"
                 \/ pc = "request" /\ recovered'
                 \/ CmdNew \/ Restart]_vars
  BY <1>1, UnpausingStep
<1> QED
  BY <1>1, Invariant, PTL DEF Spec, PausedUntilHelped

-----------------------------------------------------------------------------
(***************************************************************************)
(* What a list weighs.                                                     *)
(***************************************************************************)
\* What Local adds up of the first messages of a list, for every number of them.
Sums(sum, s) ==
    /\ sum \in [0 .. Len(s) -> Nat]
    /\ sum[0] = 0
    /\ \A i \in 1 .. Len(s) : sum[i] = sum[i - 1] + s[i].w
    /\ Local(s) = sum[Len(s)]

\* Local adds up the weights of a list, message by message.
LEMMA LocalSteps ==
    ASSUME NEW s \in Seq(Msg)
    PROVE  \E sum : Sums(sum, s)
<1> DEFINE Step(g, i) == IF i = 0 THEN 0 ELSE g[i - 1] + s[i].w
           Runs(g, n) == g = [i \in 0 .. n |-> Step(g, i)]
           good == {n \in 0 .. Len(s) : \E g : Runs(g, n)}
<1>1. Len(s) \in Nat /\ \A i \in 1 .. Len(s) : s[i].w \in Nat
  <2>1. \A i \in 1 .. Len(s) : s[i] \in Msg
    BY ElementOfSeq
  <2> QED
    BY <2>1, LenProperties DEF Msg
<1>2. 0 \in good
  <2>1. Runs([i \in 0 .. 0 |-> 0], 0)
    OBVIOUS
  <2>2. 0 \in 0 .. Len(s)
    BY <1>1
  <2> HIDE DEF Runs
  <2> QED
    BY <2>1, <2>2
<1>3. ASSUME NEW n \in 1 .. Len(s), n - 1 \in good
      PROVE  n \in good
  <2>1. PICK g : Runs(g, n - 1)
    BY <1>3
  <2> DEFINE f == [i \in 0 .. n |-> IF i = n THEN Step(g, n) ELSE g[i]]
  <2>2. ASSUME NEW i \in 0 .. n PROVE f[i] = Step(f, i)
    <3>1. CASE i = n
      <4>1. f[i - 1] = g[i - 1]
        BY <3>1, <1>1
      <4> QED
        BY <3>1, <4>1, <1>1
    <3>2. CASE i # n
      <4>1. f[i] = g[i] /\ i \in 0 .. n - 1
        BY <3>2, <1>1
      <4>2. i # 0 => f[i - 1] = g[i - 1]
        BY <3>2, <1>1
      <4>3. g[i] = Step(g, i)
        BY <2>1, <4>1
      <4> QED
        BY <4>1, <4>2, <4>3
    <3> QED
      BY <3>1, <3>2
  <2>3. Runs(f, n)
    <3> HIDE DEF Step
    <3> QED
      BY <2>2
  <2>4. n \in 0 .. Len(s)
    BY <1>1
  <2> HIDE DEF Runs, f
  <2> QED
    BY <2>3, <2>4
<1>4. \E g : Runs(g, Len(s))
  <2> HIDE DEF good
  <2>1. Len(s) \in good
    BY <1>1, <1>2, <1>3, Lists!UpTo
  <2> QED
    BY <2>1 DEF good
<1> DEFINE sum == CHOOSE g : Runs(g, Len(s))
<1>5. Runs(sum, Len(s))
  <2> HIDE DEF Runs
  <2> QED
    BY <1>4
<1>6. Local(s) = sum[Len(s)]
  BY DEF Local
<1>7. sum[0] = 0 /\ \A i \in 1 .. Len(s) : sum[i] = Step(sum, i)
  <2> HIDE DEF sum
  <2>1. \A i \in 0 .. Len(s) : sum[i] = Step(sum, i)
    <3> HIDE DEF Step
    <3> QED
      BY <1>5
  <2>2. sum[0] = Step(sum, 0)
    BY <1>1, <2>1
  <2> QED
    BY <1>1, <2>1, <2>2
<1>8. \A i \in 0 .. Len(s) : sum[i] \in Nat
  <2> DEFINE typed == {i \in 0 .. Len(s) : sum[i] \in Nat}
  <2> HIDE DEF sum
  <2>1. 0 \in typed
    BY <1>1, <1>7
  <2>2. ASSUME NEW i \in 1 .. Len(s), i - 1 \in typed
        PROVE  i \in typed
    <3>1. sum[i - 1] \in Nat /\ s[i].w \in Nat
      BY <1>1, <2>2
    <3>2. sum[i] = sum[i - 1] + s[i].w
      BY <1>1, <1>7
    <3> QED
      BY <1>1, <3>1, <3>2
  <2> HIDE DEF typed
  <2>3. \A i \in 0 .. Len(s) : i \in typed
    BY <1>1, <2>1, <2>2, Lists!UpTo
  <2> QED
    BY <2>3 DEF typed
<1>9. sum \in [0 .. Len(s) -> Nat]
  <2> HIDE DEF sum, Step
  <2> QED
    BY <1>5, <1>8
<1>10. \A i \in 1 .. Len(s) : sum[i] = sum[i - 1] + s[i].w
  <2> HIDE DEF sum
  <2> QED
    BY <1>1, <1>7
<1> HIDE DEF sum
<1>11. Sums(sum, s)
  BY <1>6, <1>7, <1>9, <1>10 DEF Sums
<1> QED
  BY <1>11

\* Lists of the same weights weigh the same.
LEMMA LocalSame ==
    ASSUME NEW s \in Seq(Msg), NEW t \in Seq(Msg), Len(s) = Len(t),
           \A i \in 1 .. Len(s) : s[i].w = t[i].w
    PROVE  Local(s) = Local(t)
<1>1. Len(s) \in Nat
  BY LenProperties
<1>2. PICK a : Sums(a, s)
  BY LocalSteps
<1>3. PICK b : Sums(b, t)
  BY LocalSteps
<1> DEFINE good == {n \in 0 .. Len(s) : a[n] = b[n]}
<1>4. 0 \in good
  BY <1>1, <1>2, <1>3 DEF Sums
<1>5. ASSUME NEW n \in 1 .. Len(s), n - 1 \in good
      PROVE  n \in good
  BY <1>1, <1>2, <1>3, <1>5 DEF Sums
<1>6. Len(s) \in good
  <2> HIDE DEF good
  <2> QED
    BY <1>1, <1>4, <1>5, Lists!UpTo
<1> QED
  BY <1>2, <1>3, <1>6 DEF Sums

\* A list weighs a number, and with one more message it weighs as much more.
LEMMA LocalAppend ==
    ASSUME NEW s \in Seq(Msg), NEW m \in Msg
    PROVE  Local(s) \in Nat /\ Local(Append(s, m)) = Local(s) + m.w
<1> DEFINE t == Append(s, m)
<1>1. /\ Len(s) \in Nat /\ t \in Seq(Msg) /\ Len(t) = Len(s) + 1
      /\ \A i \in 1 .. Len(s) : t[i] = s[i]
      /\ t[Len(s) + 1] = m
  BY LenProperties, AppendProperties
<1> HIDE DEF t
<1>2. PICK a : Sums(a, s)
  BY LocalSteps
<1>3. PICK b : Sums(b, t)
  BY <1>1, LocalSteps
<1> DEFINE good == {n \in 0 .. Len(s) : a[n] = b[n]}
<1>4. 0 \in good
  BY <1>1, <1>2, <1>3 DEF Sums
<1>5. ASSUME NEW n \in 1 .. Len(s), n - 1 \in good
      PROVE  n \in good
  <2>1. n \in 1 .. Len(t) /\ t[n] = s[n]
    BY <1>1
  <2> QED
    BY <1>1, <1>2, <1>3, <1>5, <2>1 DEF Sums
<1>6. Len(s) \in good
  <2> HIDE DEF good
  <2> QED
    BY <1>1, <1>4, <1>5, Lists!UpTo
<1>7. Len(s) \in 0 .. Len(s) /\ Len(t) \in 1 .. Len(t) /\ Len(t) - 1 = Len(s)
  BY <1>1
<1>8. Local(s) = a[Len(s)] /\ a[Len(s)] \in Nat
  BY <1>2, <1>7 DEF Sums
<1>9. Local(t) = b[Len(s)] + m.w
  BY <1>1, <1>3, <1>7 DEF Sums
<1> QED
  BY <1>6, <1>8, <1>9 DEF t

\* The larger of two numbers.
LEMMA MaxOfTwo ==
    ASSUME NEW a \in Int, NEW b \in Int
    PROVE  Max({a, b}) = IF a >= b THEN a ELSE b
<1>1. \E x \in {a, b} : \A y \in {a, b} : x >= y
  OBVIOUS
<1>2. Max({a, b}) \in {a, b} /\ \A y \in {a, b} : Max({a, b}) >= y
  BY <1>1 DEF Max
<1> QED
  BY <1>2

-----------------------------------------------------------------------------
(***************************************************************************)
(* What the check counts.                                                  *)
(***************************************************************************)
\* The last response that reports a usage measured the list as it is.
LastTrue(msgs) ==
    \A i \in Reporting(msgs) :
        (\A j \in Reporting(msgs) : j <= i) => msgs[i].true

\* The reports that measured the list as it is are those past the first n messages.
TrueFrom(msgs, n) ==
    \A i \in Reporting(msgs) : msgs[i].true = (i > n)

\* The guard, when there is one, is from the last compaction: an estimate and a
\* length of the list it left.
Measured(msgs, weight, length) ==
    IF weight = None THEN LastTrue(msgs)
    ELSE /\ length <= Len(msgs) /\ weight <= Local(msgs)
         /\ TrueFrom(msgs, length)

\* Between the strip and the compaction of a recovery the guard is from another
\* list.
Told ==
    ~disturbed /\ ~(pc = "compact" /\ job.by = "recover") =>
        Measured(list, estimate, counted)

IsGuard(weight, length) ==
    /\ weight \in Nat \cup {None} /\ length \in Nat \cup {None}
    /\ (weight = None) <=> (length = None)
Guard == IsGuard(estimate, counted)

\* A compaction under way cuts the list it was begun on.
InHand ==
    pc = "compact" => IF job.by = "command" THEN list = history
                      ELSE job.tail \in TailStarts(list)

ListsOK == list \in Seq(Msg) /\ history \in Seq(Msg)

\* The messages a turn adds are messages.
LEMMA MessageTypes ==
    ASSUME NEW k \in {"say", "call"}, NEW n \in Nat
    PROVE  /\ User \in Msg /\ User.report = 0 /\ User.true = FALSE
           /\ Return(n) \in Msg /\ Return(n).report = 0
           /\ Resp(k, n) \in Msg /\ Resp(k, n).report = n
           /\ Resp(k, n).report > 0 => Resp(k, n).true
<1>1. User \in Msg /\ User.report = 0 /\ User.true = FALSE
  BY DEF User, Msg
<1>2. Return(n) \in Msg /\ Return(n).report = 0
  BY DEF Return, Msg
<1>3. (n > 0) \in BOOLEAN
  OBVIOUS
<1>4. Resp(k, n) \in Msg
  <2> DEFINE b == n > 0
  <2>1. b \in BOOLEAN
    BY <1>3
  <2>2. Resp(k, n) = [k |-> k, w |-> 1, report |-> n, true |-> b]
    BY DEF Resp
  <2> HIDE DEF b
  <2>3. k \in {"user", "say", "call", "ret"}
    OBVIOUS
  <2> QED
    BY <2>1, <2>2, <2>3 DEF Msg
<1>5. Resp(k, n).report = n /\ (Resp(k, n).true = (n > 0))
  BY DEF Resp
<1> QED
  BY <1>1, <1>2, <1>4, <1>5

\* A message behind the list whose report, if it has one, is of the list as it is,
\* leaves the guard right.
LEMMA MeasuredAppend ==
    ASSUME NEW s \in Seq(Msg), NEW m \in Msg, m.report > 0 => m.true,
           NEW weight, NEW length, IsGuard(weight, length),
           Measured(s, weight, length)
    PROVE  Append(s, m) \in Seq(Msg) /\ Measured(Append(s, m), weight, length)
<1> DEFINE t == Append(s, m)
<1>1. /\ Len(s) \in Nat /\ t \in Seq(Msg) /\ Len(t) = Len(s) + 1
      /\ \A i \in 1 .. Len(s) : t[i] = s[i]
      /\ t[Len(s) + 1] = m /\ DOMAIN t = 1 .. Len(t) /\ DOMAIN s = 1 .. Len(s)
  BY LenProperties, AppendProperties
<1>2. Local(s) \in Nat /\ Local(t) = Local(s) + m.w
  BY LocalAppend
<1>3. m.w \in Nat /\ m.report \in Nat /\ m.true \in BOOLEAN
  BY DEF Msg
<1> HIDE DEF t
<1>4. \A i \in Reporting(t) : i \in Reporting(s) \/ (i = Len(s) + 1 /\ m.true)
  BY <1>1 DEF Reporting
<1>5. \A i \in Reporting(s) : i \in Reporting(t) /\ t[i] = s[i] /\ i \in 1 .. Len(s)
  <2> SUFFICES ASSUME NEW i \in Reporting(s)
               PROVE  i \in Reporting(t) /\ t[i] = s[i] /\ i \in 1 .. Len(s)
    OBVIOUS
  <2>1. i \in 1 .. Len(s) /\ s[i].report > 0
    BY <1>1 DEF Reporting
  <2>2. i \in 1 .. Len(t) /\ t[i] = s[i]
    BY <1>1, <2>1
  <2> QED
    BY <1>1, <2>1, <2>2 DEF Reporting
<1>6. CASE weight = None
  <2>1. LastTrue(s)
    BY <1>6 DEF Measured
  <2>2. ASSUME NEW i \in Reporting(t), \A j \in Reporting(t) : j <= i
        PROVE  t[i].true
    <3>1. CASE i \in Reporting(s)
      BY <1>5, <2>1, <2>2, <3>1 DEF LastTrue
    <3>2. CASE i = Len(s) + 1 /\ m.true
      BY <1>1, <3>2
    <3> QED
      BY <1>4, <3>1, <3>2
  <2> QED
    BY <1>1, <1>6, <2>2 DEF Measured, LastTrue, t
<1>7. CASE weight # None
  <2>1. /\ length <= Len(s) /\ weight <= Local(s) /\ TrueFrom(s, length)
        /\ length \in Nat /\ weight \in Nat
    BY <1>7 DEF Measured, IsGuard
  <2>2. length <= Len(t) /\ weight <= Local(t)
    BY <1>1, <1>2, <1>3, <2>1
  <2>3. ASSUME NEW i \in Reporting(t) PROVE t[i].true = (i > length)
    <3>1. CASE i \in Reporting(s)
      BY <1>5, <2>1, <3>1 DEF TrueFrom
    <3>2. CASE i = Len(s) + 1 /\ m.true
      <4>1. t[i].true = TRUE
        BY <1>1, <1>3, <3>2
      <4>2. i > length
        BY <1>1, <2>1, <3>2
      <4> QED
        BY <4>1, <4>2
    <3> QED
      BY <1>4, <3>1, <3>2
  <2> QED
    BY <1>1, <1>7, <2>2, <2>3 DEF Measured, TrueFrom, t
<1> QED
  BY <1>6, <1>7

\* What the check counts by a right guard.
LEMMA CountOfMeasured ==
    ASSUME list \in Seq(Msg), Guard, Measured(list, estimate, counted), applied \in BOOLEAN
    PROVE  /\ Count <= Pressure(list)
           /\ applied \/ Count >= Pressure(list)
<1> DEFINE l == Local(list)
           at == Reporting(list)
<1>1. l \in Nat
  BY LocalAppend, MessageTypes
<1>2. at \in SUBSET (1 .. Len(list)) /\ Len(list) \in Nat
  BY LenProperties DEF Reporting
<1> HIDE DEF l, at
<1>3. \A n \in Nat : Max({l, n}) = IF l >= n THEN l ELSE n
  BY <1>1, MaxOfTwo
<1>4. CASE applied
  <2>1. Count = Max({l, 0})
    BY <1>4 DEF Count, l
  <2>2. Count = l
    BY <1>1, <1>3, <2>1
  <2>3. l <= Pressure(list)
    <3>1. CASE at # {} /\ list[Max(at)].true
      <4>1. Reported(list) = list[Max(at)].report /\ Pressure(list) = Max({l, Reported(list)})
        BY <3>1 DEF Pressure, Reported, at, l
      <4>2. Max(at) \in at
        BY <1>2, <3>1, Lists!GreatestIsOne DEF Max
      <4>3. Reported(list) \in Nat
        <5>1. list[Max(at)] \in Msg
          BY <1>2, <4>2, ElementOfSeq
        <5> QED
          BY <4>1, <5>1 DEF Msg
      <4> QED
        BY <1>1, <1>3, <4>1, <4>3
    <3>2. CASE ~(at # {} /\ list[Max(at)].true)
      <4>1. Pressure(list) = l
        BY <3>2 DEF Pressure, at, l
      <4> QED
        BY <1>1, <4>1
    <3> QED
      BY <3>1, <3>2
  <2> QED
    BY <1>4, <2>2, <2>3
<1>5. CASE ~applied /\ at = {}
  <2>1. Reported(list) = 0 /\ Pressure(list) = l /\ ~GuardLifted
    BY <1>5 DEF Reported, Pressure, GuardLifted, Fresh, at, l
  <2>2. Count = Max({l, IF estimate # None THEN estimate ELSE 0})
    BY <1>5, <2>1 DEF Count, l
  <2>3. estimate # None => estimate \in Nat /\ estimate <= l
    BY DEF Guard, IsGuard, Measured, l
  <2>4. Count = l
    BY <1>1, <1>3, <2>2, <2>3
  <2> QED
    BY <1>1, <2>1, <2>4
<1>6. CASE ~applied /\ at # {}
  <2> DEFINE k == Max(at)
  <2>1. k \in at /\ \A j \in at : k >= j
    BY <1>2, <1>6, Lists!GreatestIsOne DEF Max
  <2>2. list[k] \in Msg
    BY <1>2, <2>1, ElementOfSeq
  <2>3. list[k].report \in Nat /\ list[k].true \in BOOLEAN
    BY <2>2 DEF Msg
  <2>4. /\ Reported(list) = list[k].report
        /\ Pressure(list) = IF list[k].true THEN Max({l, list[k].report}) ELSE l
    BY <1>6 DEF Reported, Pressure, at, l
  <2> HIDE DEF k
  <2>5. k \in Nat /\ \A j \in at : j \in Nat /\ j <= k
    BY <1>2, <2>1
  <2>6. CASE estimate = None
    <3>1. list[k].true
      BY <2>1, <2>5, <2>6 DEF Measured, LastTrue, at
    <3>2. Count = Max({l, list[k].report})
      BY <1>6, <2>4, <2>6 DEF Count, l
    <3> QED
      BY <1>1, <1>3, <2>3, <2>4, <3>1, <3>2
  <2>7. CASE estimate # None
    <3>1. /\ counted \in Nat /\ estimate \in Nat /\ counted # None
          /\ estimate <= l /\ list[k].true = (k > counted)
      BY <2>1, <2>7, CompactionAssumption DEF Guard, IsGuard, Measured, TrueFrom, at, l
    <3>2. CASE k > counted
      <4>1. GuardLifted
        BY <1>6, <2>1, <3>1, <3>2 DEF GuardLifted, Fresh, at
      <4>2. Count = Max({l, list[k].report})
        BY <1>6, <2>4, <4>1 DEF Count, l
      <4>3. Pressure(list) = Max({l, list[k].report})
        BY <2>4, <3>1, <3>2
      <4> QED
        BY <1>1, <1>3, <2>3, <4>2, <4>3
    <3>3. CASE ~(k > counted)
      <4>1. ~GuardLifted
        BY <2>5, <3>1, <3>3 DEF GuardLifted, Fresh, at
      <4>2. Count = Max({l, estimate})
        BY <1>6, <2>7, <4>1 DEF Count, l
      <4>3. Pressure(list) = l
        BY <2>4, <3>1, <3>3
      <4> QED
        BY <1>1, <1>3, <3>1, <4>2, <4>3
    <3> QED
      BY <3>2, <3>3
  <2> QED
    BY <2>6, <2>7
<1> QED
  BY <1>4, <1>5, <1>6

\* The messages no report of which is of the list as it is.
Quiet == {m \in Msg : m.true = FALSE}

\* Lists of such messages are lists of messages, and TRUE of none of them.
LEMMA QuietLists ==
    ASSUME NEW s \in Seq(Quiet)
    PROVE  /\ s \in Seq(Msg) /\ Len(s) \in Nat
           /\ \A i \in Reporting(s) : i \in 1 .. Len(s) /\ s[i].true = FALSE
           /\ TrueFrom(s, Len(s))
<1>1. Len(s) \in Nat /\ DOMAIN s = 1 .. Len(s) /\ \A i \in 1 .. Len(s) : s[i] \in Quiet
  BY LenProperties, ElementOfSeq
<1>2. s \in Seq(Msg)
  <2>1. \A i \in 1 .. Len(s) : s[i] \in Msg
    BY <1>1 DEF Quiet
  <2> QED
    BY <1>1, <2>1
<1>3. \A i \in Reporting(s) : i \in 1 .. Len(s) /\ s[i].true = FALSE
  BY <1>1 DEF Reporting, Quiet
<1>4. TrueFrom(s, Len(s))
  <2> SUFFICES ASSUME NEW i \in Reporting(s)
               PROVE  s[i].true = (i > Len(s))
    BY DEF TrueFrom
  <2>1. i \in 1 .. Len(s) /\ s[i].true = FALSE
    BY <1>3
  <2>2. (i > Len(s)) = FALSE
    BY <1>1, <2>1
  <2> QED
    BY <2>1, <2>2, Zenon
<1> QED
  BY <1>1, <1>2, <1>3, <1>4

\* Outdating a message leaves the rest of it.
LEMMA OutdatedType ==
    ASSUME NEW m \in Msg
    PROVE  Outdated(m) \in Quiet /\ Outdated(m).w = m.w /\ Outdated(m).k = m.k
BY DEF Outdated, Quiet, Msg

\* Outdating a list leaves its length, its kinds and its weights.
LEMMA OutdatedLists ==
    ASSUME NEW s \in Seq(Msg)
    PROVE  /\ OutdatedAll(s) \in Seq(Quiet) /\ Len(OutdatedAll(s)) = Len(s)
           /\ \A i \in 1 .. Len(s) : /\ OutdatedAll(s)[i].w = s[i].w
                                     /\ OutdatedAll(s)[i].k = s[i].k
           /\ Local(OutdatedAll(s)) = Local(s)
<1>1. Len(s) \in Nat /\ DOMAIN s = 1 .. Len(s) /\ \A i \in 1 .. Len(s) : s[i] \in Msg
  BY LenProperties, ElementOfSeq
<1> DEFINE t == OutdatedAll(s)
<1>2. t = [i \in 1 .. Len(s) |-> Outdated(s[i])]
  BY <1>1 DEF OutdatedAll
<1>3. \A i \in 1 .. Len(s) : /\ t[i] \in Quiet /\ t[i].w = s[i].w /\ t[i].k = s[i].k
  BY <1>1, <1>2, OutdatedType
<1>4. t \in [1 .. Len(s) -> Quiet]
  <2> HIDE DEF t
  <2> QED
    BY <1>2, <1>3
<1> HIDE DEF t
<1>5. t \in Seq(Quiet) /\ Len(t) = Len(s)
  BY <1>1, <1>4, SeqDef, LenProperties
<1>6. t \in Seq(Msg)
  BY <1>5, QuietLists
<1>7. Local(t) = Local(s)
  BY <1>3, <1>5, <1>6, LocalSame
<1> QED
  BY <1>3, <1>5, <1>7 DEF t

\* What stays beside the marker are messages without a report.
LEMMA BesidesType ==
    ASSUME NEW beside \in Besides
    PROVE  beside \in Seq(Quiet)
<1>1. User \in Quiet /\ \A w \in Nat : Return(w) \in Quiet
  BY DEF User, Return, Quiet, Msg
<1>2. Resp("call", 0) \in Quiet
  <2>1. Resp("call", 0) \in Msg
    BY MessageTypes
  <2>2. Resp("call", 0).true = (0 > 0)
    BY DEF Resp
  <2>3. (0 > 0) = FALSE
    OBVIOUS
  <2>4. Resp("call", 0).true = FALSE
    BY <2>2, <2>3, Zenon
  <2> QED
    BY <2>1, <2>4 DEF Quiet
<1> DEFINE r == Resp("call", 0)
<1> HIDE DEF r
<1>3. \A crumbs \in Crumbs : crumbs \in Seq(Quiet)
  <2> SUFFICES ASSUME NEW crumbs \in Crumbs PROVE crumbs \in Seq(Quiet)
    OBVIOUS
  <2>1. CASE crumbs = <<>>
    BY <2>1
  <2>2. ASSUME NEW w \in Weights, crumbs = <<r, Return(w)>> PROVE crumbs \in Seq(Quiet)
    <3>1. r \in Quiet /\ Return(w) \in Quiet
      BY <1>1, <1>2, CompactionAssumption DEF r
    <3> QED
      BY <2>2, <3>1
  <2> QED
    BY <2>1, <2>2 DEF Crumbs, r
<1>4. PICK snapshot \in {<<>>, <<User>>}, crumbs \in Crumbs : beside = snapshot \o crumbs
  BY DEF Besides
<1>5. snapshot \in Seq(Quiet)
  <2>1. <<>> \in Seq(Quiet) /\ <<User>> \in Seq(Quiet)
    BY <1>1
  <2> QED
    BY <1>4, <2>1
<1> QED
  BY <1>3, <1>4, <1>5, ConcatProperties

\* The compacted list holds messages, none of which still measures the list.
LEMMA CompactedType ==
    ASSUME list \in Seq(Msg), job.by = "command" \/ job.tail \in TailStarts(list),
           NEW beside \in Besides
    PROVE  Compacted(beside) \in Seq(Quiet)
<1>1. <<User>> \in Seq(Quiet)
  <2>1. User \in Quiet
    BY MessageTypes DEF Quiet
  <2> QED
    BY <2>1
<1>m. beside \in Seq(Quiet) /\ <<User>> \o beside \in Seq(Quiet)
  BY <1>1, BesidesType, ConcatProperties
<1>2. CASE job.by = "command"
  BY <1>m, <1>2 DEF Compacted
<1>3. CASE job.by # "command"
  <2> DEFINE texts == {i \in DOMAIN list : list[i].k = "say"}
             head  == HeadEnd(list)
  <2>1. Len(list) \in Nat /\ DOMAIN list = 1 .. Len(list)
    BY LenProperties
  <2>2. head \in Nat \ {0}
    <3>1. CASE texts = {}
      BY <3>1 DEF HeadEnd
    <3>2. CASE texts # {}
      <4>1. texts \in SUBSET Nat /\ \A i \in texts : i \in Nat \ {0}
        BY <2>1
      <4> HIDE DEF texts
      <4>2. Min(texts) \in texts
        <5>1. \E x \in texts : \A y \in texts : x =< y
          BY <3>2, <4>1, Lists!LeastIsOne
        <5> QED
          BY <5>1 DEF Min
      <4> QED
        BY <3>2, <4>1, <4>2 DEF HeadEnd, texts
    <3> QED
      BY <3>1, <3>2
  <2>3. job.tail \in 1 .. Len(list) /\ job.tail > head + 1
    BY <1>3, <2>1 DEF TailStarts
  <2> HIDE DEF head
  <2>4. SubSeq(list, 1, head) \in Seq(Msg)
    BY <2>1, <2>2, <2>3, Lists!CutType
  <2>5. SubSeq(list, job.tail, Len(list)) \in Seq(Msg)
    BY <2>1, <2>3, Lists!CutType
  <2> DEFINE a == OutdatedAll(SubSeq(list, 1, head))
             c == OutdatedAll(SubSeq(list, job.tail, Len(list)))
  <2>6. a \in Seq(Quiet) /\ c \in Seq(Quiet)
    BY <2>4, <2>5, OutdatedLists
  <2>7. Compacted(beside) = a \o <<User>> \o beside \o c
    BY <1>3 DEF Compacted, head
  <2> HIDE DEF a, c
  <2>8. a \o <<User>> \in Seq(Quiet)
    BY <1>1, <2>6, ConcatProperties
  <2>9. a \o <<User>> \o beside \in Seq(Quiet)
    BY <1>m, <2>8, ConcatProperties
  <2> QED
    BY <2>6, <2>7, <2>9, ConcatProperties
<1> QED
  BY <1>2, <1>3

-----------------------------------------------------------------------------
(***************************************************************************)
(* Each step keeps the lists, the guard and what it measures.              *)
(***************************************************************************)
\* What the guard is about.
Kept == ListsOK /\ Guard /\ InHand /\ Told

\* A list out of the sight of the guard: nothing is claimed of it.
LEMMA Unclaimed ==
    ASSUME ListsOK', Guard', InHand', disturbed' = TRUE
    PROVE  Kept'
BY DEF Kept, Told

\* The check drops a guard only for a report from after it.
LEMMA CheckKeeps ==
    ASSUME Kept, Check PROVE Kept'
<1>1. /\ pc = "check" /\ list' = list /\ history' = history /\ disturbed' = disturbed
      /\ pc' = "request" \/ (pc' = "compact" /\ job'.by = "check"
                              /\ job'.tail \in TailStarts(list))
  BY DEF Check
<1>2. ListsOK' /\ Guard'
  BY <1>1 DEF Check, Kept, ListsOK, Guard, IsGuard, guardVars
<1>3. InHand'
  BY <1>1 DEF InHand
<1>4. ASSUME ~disturbed PROVE Measured(list, estimate', counted')
  <2>1. Measured(list, estimate, counted)
    BY <1>1, <1>4 DEF Kept, Told
  <2>2. CASE GuardLifted
    <3>1. estimate' = None /\ counted # None
      BY <2>2 DEF Check, GuardLifted
    <3>2. counted \in Nat /\ estimate # None
      BY <3>1 DEF Kept, Guard, IsGuard
    <3>3. PICK j \in Reporting(list) : j > counted
      BY <2>2 DEF GuardLifted, Fresh
    <3>4. TrueFrom(list, counted)
      BY <2>1, <3>2 DEF Measured
    <3>5. \A i \in Reporting(list) : i \in Nat
      BY LenProperties DEF Kept, ListsOK, Reporting
    <3>6. ASSUME NEW i \in Reporting(list), \A h \in Reporting(list) : h <= i
          PROVE  list[i].true
      <4>1. i > counted
        BY <3>2, <3>3, <3>5, <3>6
      <4> QED
        BY <3>4, <4>1 DEF TrueFrom
    <3> QED
      BY <3>1, <3>6 DEF Measured, LastTrue
  <2>3. CASE ~GuardLifted
    <3>1. estimate' = estimate /\ counted' = counted
      BY <2>3 DEF Check, guardVars
    <3> QED
      BY <2>1, <3>1
  <2> QED
    BY <2>2, <2>3
<1>5. Told'
  BY <1>1, <1>4 DEF Told, Kept
<1> QED
  BY <1>2, <1>3, <1>5 DEF Kept

\* A compaction leaves a list and the guard of that list.
LEMMA DeliverKeeps ==
    ASSUME Kept, TypeOK, pc = "compact", NEW beside \in Besides,
           Delivered(Compacted(beside))
    PROVE  Kept'
<1> DEFINE c == Compacted(beside)
           r == Resp("say", 0)
<1>1. job.by \in {"check", "recover", "command"}
  BY DEF TypeOK
<1>2. c \in Seq(Quiet)
  BY CompactedType DEF Kept, ListsOK, InHand
<1>3. c \in Seq(Msg) /\ Len(c) \in Nat /\ TrueFrom(c, Len(c))
  BY <1>2, QuietLists
<1>4. Local(c) \in Nat
  BY <1>3, LocalAppend, MessageTypes
<1>5. estimate' = Local(c) /\ counted' = Len(c)
  BY DEF Delivered, Commit
<1>6. \/ list' = c /\ (history' = c \/ history' = history)
      \/ list' = Append(c, r) /\ history' = Append(c, r)
  BY <1>1 DEF Delivered
<1>7. pc' # "compact"
  BY <1>1 DEF Delivered
<1> HIDE DEF c
<1>8. r \in Msg /\ r.report = 0
  BY MessageTypes
<1> HIDE DEF r
<1>9. estimate' # None /\ counted' # None /\ Local(c) # None
  BY <1>3, <1>4, <1>5, CompactionAssumption
<1>10. Guard'
  BY <1>3, <1>4, <1>5, <1>9 DEF Guard, IsGuard
<1>11. Measured(c, estimate', counted')
  BY <1>3, <1>4, <1>5, <1>9 DEF Measured
<1>12. Append(c, r) \in Seq(Msg) /\ Measured(Append(c, r), estimate', counted')
  BY <1>3, <1>8, <1>10, <1>11, MeasuredAppend DEF Guard, IsGuard
<1>13. ListsOK'
  BY <1>3, <1>6, <1>12 DEF ListsOK, Kept
<1>14. Told'
  BY <1>6, <1>11, <1>12 DEF Told
<1> QED
  BY <1>7, <1>10, <1>13, <1>14 DEF Kept, InHand

\* A message behind the list keeps what the guard says of it.
LEMMA GrowthKeeps ==
    ASSUME Kept, ~disturbed, pc # "compact", NEW m \in Msg, m.report > 0 => m.true
    PROVE  Measured(Append(list, m), estimate, counted)
<1>1. list \in Seq(Msg) /\ IsGuard(estimate, counted) /\ Measured(list, estimate, counted)
  BY DEF Kept, Told, ListsOK, Guard
<1> QED
  BY <1>1, MeasuredAppend

\* A prompt and an answer grow the list.
LEMMA SubmitKeeps ==
    ASSUME Kept, Submit PROVE Kept'
<1>1. /\ pc = "idle" /\ pc' = "check" /\ list' = Append(list, User)
      /\ history' = history /\ estimate' = estimate /\ counted' = counted
      /\ disturbed' = disturbed
  BY DEF Submit, guardVars
<1>2. User \in Msg /\ User.report = 0
  BY MessageTypes
<1>3. list' \in Seq(Msg)
  BY <1>1, <1>2, AppendProperties DEF Kept, ListsOK
<1>4. ~disturbed => Measured(Append(list, User), estimate, counted)
  BY <1>1, <1>2, GrowthKeeps
<1>5. Told'
  BY <1>1, <1>4 DEF Told
<1>6. Guard'
  BY <1>1 DEF Kept, Guard
<1> QED
  BY <1>1, <1>3, <1>5, <1>6 DEF Kept, ListsOK, InHand

\* What a provider reports is a number.
LEMMA UsageType ==
    ASSUME list \in Seq(Msg), NEW n \in Usages
    PROVE  n \in Nat
<1>1. User \in Msg
  BY MessageTypes
<1>2. Local(list) \in Nat
  BY <1>1, LocalAppend
<1> QED
  BY <1>2, CompactionAssumption DEF Usages

\* So does the model's answer.
LEMMA AnswerKeeps ==
    ASSUME Kept, NEW n \in Usages, Answer(n) PROVE Kept'
<1> DEFINE m == Resp("say", n)
<1>1. /\ pc = "request" /\ pc' = "idle" /\ list' = Append(list, m)
      /\ history' = Append(list, m) /\ estimate' = estimate /\ counted' = counted
      /\ disturbed' = disturbed
  BY DEF Answer, guardVars
<1>2. n \in Nat
  BY UsageType DEF Kept, ListsOK
<1>3. m \in Msg /\ (m.report > 0 => m.true)
  BY <1>2, MessageTypes
<1> HIDE DEF m
<1>4. list' \in Seq(Msg)
  BY <1>1, <1>3, AppendProperties DEF Kept, ListsOK
<1>5. ~disturbed => Measured(Append(list, m), estimate, counted)
  BY <1>1, <1>3, GrowthKeeps
<1>6. Told'
  BY <1>1, <1>5 DEF Told
<1>7. Guard'
  BY <1>1 DEF Kept, Guard
<1> QED
  BY <1>1, <1>4, <1>6, <1>7 DEF Kept, ListsOK, InHand

\* A tool call and its return are two messages behind the list.
LEMMA CallToolKeeps ==
    ASSUME Kept, NEW n \in Usages, NEW w \in Weights, CallTool(n, w) PROVE Kept'
<1> DEFINE m == Resp("call", n)
           r == Return(w)
<1>1. /\ pc = "request" /\ pc' = "check" /\ list' = list \o <<m, r>>
      /\ history' = history /\ estimate' = estimate /\ counted' = counted
      /\ disturbed' = disturbed
  BY DEF CallTool, guardVars
<1>2. n \in Nat /\ w \in Nat
  BY UsageType, CompactionAssumption DEF Kept, ListsOK
<1>3. /\ m \in Msg /\ (m.report > 0 => m.true)
      /\ r \in Msg /\ r.report = 0
  BY <1>2, MessageTypes
<1> HIDE DEF m, r
<1>4. Append(list, m) \in Seq(Msg)
  BY <1>3, AppendProperties DEF Kept, ListsOK
<1>5. list' = Append(Append(list, m), r)
  <2>1. list \in Seq(Msg) /\ <<m>> \in Seq(Msg) /\ <<m, r>> = Append(<<m>>, r)
    BY <1>3 DEF Kept, ListsOK
  <2>2. list \o Append(<<m>>, r) = Append(list \o <<m>>, r)
    BY <1>3, <2>1, Lists!AppendToConcat
  <2>3. list \o <<m>> = Append(list, m)
    BY <1>3, <2>1, AppendIsConcat
  <2> QED
    BY <1>1, <2>1, <2>2, <2>3
<1>6. list' \in Seq(Msg)
  BY <1>3, <1>4, <1>5, AppendProperties
<1>7. ASSUME ~disturbed PROVE Measured(list', estimate, counted)
  <2>1. Measured(Append(list, m), estimate, counted)
    BY <1>1, <1>3, <1>7, GrowthKeeps
  <2>2. IsGuard(estimate, counted)
    BY DEF Kept, Guard
  <2>3. r.report > 0 => r.true
    BY <1>3
  <2> QED
    BY <1>3, <1>4, <1>5, <2>1, <2>2, <2>3, MeasuredAppend
<1>8. Told'
  BY <1>1, <1>7 DEF Told
<1>9. Guard'
  BY <1>1 DEF Kept, Guard
<1> QED
  BY <1>1, <1>6, <1>8, <1>9 DEF Kept, ListsOK, InHand

\* The history with a message behind it is a list of messages, and so is it with its
\* tool returns cut.
LEMMA RecoverableType ==
    ASSUME history \in Seq(Msg)
    PROVE  /\ Recoverable \in Seq(Msg) /\ Aborted \in Seq(Msg)
           /\ Stripped \in Seq(Msg)
<1>1. Recoverable \in Seq(Msg) /\ Aborted \in Seq(Msg)
  BY MessageTypes, AppendProperties DEF Recoverable, Aborted
<1> DEFINE s == Recoverable
           Cut(m) == IF m.k = "ret" THEN [m EXCEPT !.w = 1] ELSE m
<1> HIDE DEF s
<1>2. Len(s) \in Nat /\ DOMAIN s = 1 .. Len(s) /\ \A i \in 1 .. Len(s) : s[i] \in Msg
  BY <1>1, LenProperties, ElementOfSeq DEF s
<1>3. \A m \in Msg : Cut(m) \in Msg
  BY DEF Msg
<1>4. Stripped = [i \in 1 .. Len(s) |-> Cut(s[i])]
  BY <1>2 DEF Stripped, s
<1>5. Stripped \in [1 .. Len(s) -> Msg]
  <2> HIDE DEF Cut
  <2>1. \A i \in 1 .. Len(s) : Cut(s[i]) \in Msg
    BY <1>2, <1>3
  <2> QED
    BY <1>4, <2>1
<1>6. Stripped \in Seq(Msg)
  BY <1>2, <1>5, SeqDef
<1> QED
  BY <1>1, <1>6

\* A recovery that only strips leaves a guard of the list it leaves.
LEMMA StripKeeps ==
    ASSUME Kept, OverflowStrip PROVE Kept'
<1> DEFINE s == Stripped
           c == OutdatedAll(s)
<1>1. s \in Seq(Msg)
  BY RecoverableType DEF Kept, ListsOK
<1>2. /\ list' = c /\ history' = c /\ estimate' = Local(s) /\ counted' = Len(s)
      /\ pc' = "check"
  BY DEF OverflowStrip, Commit
<1> HIDE DEF s
<1>3. c \in Seq(Quiet) /\ Len(c) = Len(s) /\ Local(c) = Local(s)
  BY <1>1, OutdatedLists
<1> HIDE DEF c
<1>4. c \in Seq(Msg) /\ Len(c) \in Nat /\ TrueFrom(c, Len(c))
  BY <1>3, QuietLists
<1>5. Local(c) \in Nat
  BY <1>4, LocalAppend, MessageTypes
<1>6. estimate' = Local(c) /\ counted' = Len(c) /\ Local(c) # None /\ Len(c) # None
  BY <1>2, <1>3, <1>4, <1>5, CompactionAssumption
<1>7. Guard'
  BY <1>4, <1>5, <1>6 DEF Guard, IsGuard
<1>8. Measured(c, estimate', counted')
  BY <1>4, <1>5, <1>6 DEF Measured
<1> QED
  BY <1>2, <1>4, <1>7, <1>8 DEF Kept, ListsOK, InHand, Told

\* A recovery that goes on to compact does so on the list it stripped.
LEMMA OverflowCompactKeeps ==
    ASSUME Kept, OverflowCompact PROVE Kept'
<1> DEFINE s == Stripped
           c == OutdatedAll(s)
<1>1. s \in Seq(Msg)
  BY RecoverableType DEF Kept, ListsOK
<1>2. /\ list' = c /\ history' = history /\ estimate' = estimate /\ counted' = counted
      /\ pc' = "compact" /\ job'.by = "recover" /\ job'.tail \in TailStarts(s)
  BY DEF OverflowCompact, guardVars
<1> HIDE DEF s
<1>3. /\ c \in Seq(Quiet) /\ Len(c) = Len(s)
      /\ \A i \in 1 .. Len(s) : c[i].k = s[i].k
  BY <1>1, OutdatedLists
<1> HIDE DEF c
<1>4. c \in Seq(Msg)
  BY <1>3, QuietLists
<1>5. TailStarts(c) = TailStarts(s)
  <2>1. DOMAIN s = 1 .. Len(s) /\ DOMAIN c = 1 .. Len(s)
    BY <1>1, <1>3, <1>4, LenProperties
  <2>2. HeadEnd(c) = HeadEnd(s)
    <3>1. {i \in DOMAIN c : c[i].k = "say"} = {i \in DOMAIN s : s[i].k = "say"}
      BY <1>3, <2>1
    <3> QED
      BY <3>1 DEF HeadEnd
  <2> QED
    BY <1>3, <2>1, <2>2 DEF TailStarts
<1>6. Guard' /\ Told'
  BY <1>2 DEF Kept, Guard, Told
<1>7. InHand'
  BY <1>2, <1>5 DEF InHand
<1> QED
  BY <1>2, <1>4, <1>6, <1>7 DEF Kept, ListsOK

\* A step that gives the list up, or takes it back to the history a command began
\* on.
LEMMA CancelledKeeps ==
    ASSUME Kept, TypeOK, Cancelled PROVE Kept'
<1>1. /\ pc = "compact" /\ pc' = "idle" /\ estimate' = estimate /\ counted' = counted
      /\ list' \in {Aborted, history} /\ history' = list'
      /\ disturbed' = (disturbed \/ job.by # "command")
      /\ job.by = "command" => list' = history
  BY DEF Cancelled, guardVars
<1>2. list' \in Seq(Msg) /\ history' \in Seq(Msg)
  BY <1>1, RecoverableType DEF Kept, ListsOK
<1>3. ASSUME ~disturbed' PROVE list' = list /\ ~disturbed /\ job.by = "command"
  BY <1>1, <1>3 DEF Kept, InHand
<1>4. Told'
  BY <1>1, <1>3 DEF Kept, Told
<1> QED
  BY <1>1, <1>2, <1>4 DEF Kept, ListsOK, Guard, InHand

\* The other steps drop the list and the guard, replace the list out of the guard's
\* sight, or leave both.
LEMMA OtherKeeps ==
    ASSUME Kept, TypeOK,
           \/ SegmentFails \/ CmdCompact \/ CmdNew \/ Restart \/ UNCHANGED vars
           \/ \E t \in Transcripts : CmdResume(t)
    PROVE  Kept'
<1>1. CASE SegmentFails
  <2>1. /\ list' \in {history, Aborted} /\ history' = list' /\ pc' = "idle"
        /\ disturbed' = TRUE /\ estimate' = estimate /\ counted' = counted
    BY <1>1 DEF SegmentFails, guardVars
  <2>2. list' \in Seq(Msg) /\ history' \in Seq(Msg)
    BY <2>1, RecoverableType DEF Kept, ListsOK
  <2> QED
    BY <2>1, <2>2, Unclaimed DEF Kept, ListsOK, Guard, InHand
<1>2. CASE CmdCompact
  <2>1. /\ pc = "idle" /\ pc' = "compact" /\ job'.by = "command"
        /\ list' = list /\ history' = history /\ list = history
        /\ disturbed' = disturbed /\ estimate' = estimate /\ counted' = counted
    BY <1>2 DEF CmdCompact, guardVars, TypeOK
  <2> QED
    BY <2>1 DEF Kept, ListsOK, Guard, InHand, Told
<1>3. CASE CmdNew
  <2>1. /\ list' = <<>> /\ history' = <<>> /\ pc' = pc /\ pc = "idle"
        /\ estimate' = None /\ counted' = None
    BY <1>3 DEF CmdNew, Command
  <2>2. LastTrue(<<>>)
    BY DEF LastTrue, Reporting
  <2>3. Measured(<<>>, None, None)
    BY <2>2 DEF Measured
  <2> QED
    BY <2>1, <2>3 DEF Kept, ListsOK, Guard, IsGuard, InHand, Told
<1>4. CASE Restart
  <2>1. /\ list' = list /\ history' = history /\ pc' = pc /\ pc = "idle"
        /\ estimate' = None /\ counted' = None /\ disturbed' = TRUE
    BY <1>4 DEF Restart
  <2> QED
    BY <2>1, Unclaimed DEF Kept, ListsOK, Guard, IsGuard, InHand
<1>5. CASE UNCHANGED vars
  BY <1>5 DEF vars, turnVars, guardVars, Kept, ListsOK, Guard, InHand, Told
<1>6. ASSUME NEW t \in Transcripts, CmdResume(t) PROVE Kept'
  <2>1. /\ list' = t /\ history' = t /\ pc' = pc /\ pc = "idle"
        /\ estimate' = estimate /\ counted' = counted /\ disturbed' = TRUE
    BY <1>6 DEF CmdResume, Command, guardVars
  <2>2. t \in Seq(Msg)
    BY TranscriptsAssumption
  <2> QED
    BY <2>1, <2>2, Unclaimed DEF Kept, ListsOK, Guard, InHand
<1> QED
  BY <1>1, <1>2, <1>3, <1>4, <1>5, <1>6

\* An empty list without a guard is measured as it is.
LEMMA KeptInit == Init => Kept
<1> SUFFICES ASSUME Init PROVE Kept
  OBVIOUS
<1>1. LastTrue(<<>>)
  BY DEF LastTrue, Reporting
<1> QED
  BY <1>1 DEF Init, Kept, ListsOK, Guard, IsGuard, InHand, Told, Measured

\* The lists, the guard and what it measures are kept by every step.
LEMMA KeptInvariant == Spec => []Kept
<1>1. TypeOK /\ Kept /\ [Next]_vars => Kept'
  <2> SUFFICES ASSUME TypeOK, Kept, [Next]_vars PROVE Kept'
    OBVIOUS
  <2>1. CASE Summarized \/ SummarizerFails \/ Blocked
    BY <2>1, DeliverKeeps DEF Summarized, SummarizerFails, Blocked, Deliver
  <2>2. CASE \E n \in Usages : Answer(n) \/ \E w \in Weights : CallTool(n, w)
    BY <2>2, AnswerKeeps, CallToolKeeps
  <2>3. CASE Check \/ Cancelled \/ Submit \/ OverflowStrip \/ OverflowCompact
    BY <2>3, CheckKeeps, CancelledKeeps, SubmitKeeps, StripKeeps, OverflowCompactKeeps
  <2>4. CASE \/ SegmentFails \/ CmdCompact \/ CmdNew \/ Restart \/ UNCHANGED vars
             \/ \E t \in Transcripts : CmdResume(t)
    BY <2>4, OtherKeeps
  <2> QED
    BY <2>1, <2>2, <2>3, <2>4 DEF Next
<1> QED
  BY KeptInit, TypeCorrect, <1>1, PTL DEF Spec

\* The check weighs the list it is given by what measures it as it is, for every
\* budget, overhead, weight of a tool return and list of transcripts.
THEOREM CountRight == Spec => []CountIsPressure
<1>1. TypeOK /\ Kept => CountIsPressure
  BY CountOfMeasured DEF TypeOK, Kept, ListsOK, Told, CountIsPressure
<1> QED
  BY <1>1, TypeCorrect, KeptInvariant, PTL

=============================================================================
