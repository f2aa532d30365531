---------------------------- MODULE SessionProofs ----------------------------
(***************************************************************************)
(* Proofs about Session, for any number of files, turns, processes and     *)
(* faults: what the transcript and the list of the REPL have to do with    *)
(* each other.                                                             *)
(*                                                                         *)
(* The argument is one of lists.  What a turn returns continues the list   *)
(* it was given, but for a call that an interrupt replaces (Continues),    *)
(* and stands for what the list and the turn stand for (Kept).  What a     *)
(* save writes behind the lines the file has is then the rest of the list, *)
(* whatever it was before.  A list that comes back joined stands for the   *)
(* same turns but continues nothing: what waited to be saved may be        *)
(* passed over, and what is in the file stays there (Saved).               *)
(***************************************************************************)
EXTENDS Session, HistoryTheorems

-----------------------------------------------------------------------------
(***************************************************************************)
(* What a turn returns.                                                    *)
(***************************************************************************)
\* g starts with h, but for a call at the end of h that was cut off.
Continues(g, h) ==
    /\ Len(h) <= Len(g)
    /\ \A i \in 1 .. Len(h) :
          g[i] = h[i] \/ (i = Len(h) /\ Dangling(h) /\ g[i].k = "abort")

\* h still stands for every turn of A: none is behind a call that nothing
\* answered, which an interrupt would take away.
Kept(h, A) ==
    /\ A \subseteq Covered(h)
    /\ Dangling(h) => Last(h).of \cap A = {}

\* g is h with messages of turn t behind it, the last of them e.
Grown(g, h, t, e) ==
    /\ g \in Seq(Msg) /\ g # <<>> /\ Last(g) = e
    /\ Covered(g) = Covered(h) \cup {t}
    /\ Extends(g, h) /\ Len(h) + 2 <= Len(g)

\* The messages of turns are messages.
LEMMA TurnMessages ==
    ASSUME NEW t \in Nat
    PROVE  /\ M("prompt", {t}) \in Msg /\ M("text", {t}) \in Msg
           /\ M("call", {t}) \in Msg /\ M("abort", {t}) \in Msg
           /\ M("ret", {t}) \in Msg /\ M("text", {}) \in Msg
BY MsgType DEF Kinds, CarrierKinds, TextKinds, CallKinds

\* A list with two messages of the turn behind it.
LEMMA TwoBehind ==
    ASSUME NEW h \in Seq(Msg), NEW t \in Nat,
           NEW p \in Msg, p.of = {t}, NEW e \in Msg, e.of = {t}
    PROVE  Grown(h \o <<p, e>>, h, t, e)
<1> DEFINE f == Append(h, p)
           g == h \o <<p, e>>
<1>1. <<p, e>> = Append(<<p>>, e) /\ <<p>> \in Seq(Msg)
  OBVIOUS
<1>2. f = h \o <<p>>
  BY AppendIsConcat
<1>3. g = Append(f, e)
  BY <1>1, <1>2, AppendToConcat
<1> HIDE DEF g
<1>4. f \in Seq(Msg) /\ Len(f) = Len(h) + 1 /\ \A i \in 1 .. Len(h) : f[i] = h[i]
  BY AppendPieces
<1>5. Covered(f) = Covered(h) \cup {t}
  BY CoveredAppend
<1> HIDE DEF f
<1>6. /\ g \in Seq(Msg) /\ g # <<>> /\ Last(g) = e
      /\ Len(g) = Len(f) + 1 /\ \A i \in 1 .. Len(f) : g[i] = f[i]
  BY <1>3, <1>4, AppendPieces
<1>7. Covered(g) = Covered(h) \cup {t}
  <2>1. Covered(g) = Covered(f) \cup {t}
    BY <1>3, <1>4, CoveredAppend
  <2> QED
    BY <1>5, <2>1
<1>8. Len(h) \in Nat
  BY LenProperties
<1>9. Extends(g, h) /\ Len(h) + 2 <= Len(g)
  BY <1>4, <1>6, <1>8 DEF Extends
<1> QED
  BY <1>6, <1>7, <1>9 DEF Grown, g

\* The lists that a turn makes behind the one it was given.
LEMMA GrownLists ==
    ASSUME NEW h \in Seq(Msg), NEW t \in Nat
    PROVE  /\ Grown(h \o Answer(t), h, t, M("text", {t}))
           /\ Grown(h \o Approved(t), h, t, M("text", {t}))
           /\ Grown(h \o Stalled(t), h, t, M("call", {t}))
           /\ Grown(h \o Refused(t), h, t, M("abort", {t}))
<1> DEFINE p == M("prompt", {t})
           c == M("call", {t})
           r == M("ret", {t})
           e == M("text", {t})
           a == M("abort", {t})
<1>1. /\ p \in Msg /\ c \in Msg /\ r \in Msg /\ e \in Msg /\ a \in Msg
      /\ p.of = {t} /\ c.of = {t} /\ r.of = {t} /\ e.of = {t} /\ a.of = {t}
  BY TurnMessages DEF M
<1>2. /\ Answer(t) = <<p, e>> /\ Stalled(t) = <<p, c>> /\ Refused(t) = <<p, a>>
      /\ Approved(t) = <<p, c, r, e>>
  BY DEF Answer, Stalled, Refused, Approved
<1> HIDE DEF p, c, r, e, a
<1>3. Grown(h \o <<p, e>>, h, t, e) /\ Grown(h \o <<p, c>>, h, t, c) /\ Grown(h \o <<p, a>>, h, t, a)
  BY <1>1, TwoBehind
<1>4. Grown(h \o <<p, c, r, e>>, h, t, e)
  <2> DEFINE f == h \o <<p, c>>
             g == f \o <<r, e>>
  <2>1. f \in Seq(Msg) /\ Covered(f) = Covered(h) \cup {t} /\ Extends(f, h) /\ Len(h) + 2 <= Len(f)
    BY <1>3 DEF Grown
  <2>2. h \o <<p, c, r, e>> = g
    <3>1. <<p, c, r, e>> = <<p, c>> \o <<r, e>>
      BY <1>1
    <3>2. <<p, c>> \in Seq(Msg) /\ <<r, e>> \in Seq(Msg)
      BY <1>1
    <3> QED
      BY <3>1, <3>2, ConcatAssociative
  <2> HIDE DEF f
  <2>3. Grown(g, f, t, e)
    BY <1>1, <2>1, TwoBehind
  <2> HIDE DEF g
  <2>4. Len(h) \in Nat /\ Len(f) \in Nat /\ Len(g) \in Nat
    BY <2>1, <2>3, LenProperties DEF Grown
  <2>5. Extends(g, h) /\ Len(h) + 2 <= Len(g)
    BY <2>1, <2>3, <2>4 DEF Grown, Extends
  <2>6. Grown(g, h, t, e)
    BY <2>1, <2>3, <2>5 DEF Grown
  <2> QED
    BY <2>2, <2>6
<1> QED
  BY <1>2, <1>3, <1>4 DEF p, c, r, e, a

\* A list that has another one in front continues it.
LEMMA ExtendsContinues ==
    ASSUME NEW g, NEW h, Extends(g, h)
    PROVE  Continues(g, h)
BY DEF Extends, Continues

\* An interrupted turn puts the abort marker behind the list or in place of its
\* unanswered call.
LEMMA AbortBehind ==
    ASSUME NEW h \in Seq(Msg), NEW e \in Msg, e.k = "abort"
    PROVE  LET g == Append(DropDangling(h), e)
           IN  /\ g \in Seq(Msg)
               /\ Covered(g) \subseteq Covered(h) \cup e.of
               /\ Covered(DropDangling(h)) \subseteq Covered(g)
               /\ g # <<>> /\ Last(g) = e
               /\ Continues(g, h)
<1> DEFINE d == DropDangling(h)
           g == Append(d, e)
<1>1. Len(h) \in Nat
  BY LenProperties
<1>2. d \in Seq(Msg)
  BY DropDanglingType
<1>3. Covered(d) \subseteq Covered(h)
  <2>1. CASE Dangling(h)
    <3>1. d = SubSeq(h, 1, Len(h) - 1)
      BY <2>1 DEF DropDangling, Front
    <3>2. Len(h) - 1 \in Int /\ Len(h) - 1 <= Len(h)
      BY <1>1
    <3> HIDE DEF d
    <3> QED
      BY <3>1, <3>2, CoveredCut
  <2>2. CASE ~Dangling(h)
    BY <2>2 DEF DropDangling
  <2> QED
    BY <2>1, <2>2
<1>4. CASE Dangling(h)
  <2>1. d = Front(h) /\ h # <<>>
    BY <1>4 DEF DropDangling, Dangling
  <2>2. /\ Len(h) > 0 /\ Len(d) = Len(h) - 1
        /\ \A i \in 1 .. Len(h) - 1 : d[i] = h[i]
    BY <2>1, FrontPieces
  <2> HIDE DEF d
  <2>3. /\ g \in Seq(Msg) /\ g # <<>> /\ Last(g) = e
        /\ Len(g) = Len(d) + 1 /\ \A i \in 1 .. Len(d) : g[i] = d[i]
    BY <1>2, AppendPieces
  <2>4. Covered(g) = Covered(d) \cup e.of
    BY <1>2, CoveredAppend
  <2> HIDE DEF g
  <2>5. g[Len(h)] = e
    BY <1>1, <2>2, <2>3 DEF Last
  <2>6. ASSUME NEW i \in 1 .. Len(h) PROVE i = Len(h) \/ i \in 1 .. Len(h) - 1
    BY <1>1
  <2>7. Len(h) <= Len(g)
    BY <1>1, <2>2, <2>3
  <2>8. Continues(g, h)
    BY <1>4, <2>2, <2>3, <2>5, <2>6, <2>7 DEF Continues
  <2> QED
    BY <1>3, <2>3, <2>4, <2>8 DEF g, d
<1>5. CASE ~Dangling(h)
  <2>1. d = h
    BY <1>5 DEF DropDangling
  <2> HIDE DEF d
  <2>2. /\ g \in Seq(Msg) /\ g # <<>> /\ Last(g) = e
        /\ Len(g) = Len(h) + 1 /\ \A i \in 1 .. Len(h) : g[i] = h[i]
    BY <2>1, AppendPieces
  <2>3. Covered(g) = Covered(d) \cup e.of
    BY <1>2, CoveredAppend
  <2> HIDE DEF g
  <2>4. Continues(g, h)
    BY <1>1, <2>2 DEF Continues
  <2> QED
    BY <1>3, <2>2, <2>3, <2>4 DEF g, d
<1> QED
  BY <1>4, <1>5

\* The ways a turn ends, one by one.
LEMMA ResultCases ==
    ASSUME NEW h, NEW t, NEW r \in TurnResults(h, t)
    PROVE  /\ r.interrupted \in BOOLEAN /\ r.compacted \in BOOLEAN
           /\ \/ r.msgs = h \o Answer(t) /\ r.sent = Len(h)
              \/ r.msgs = h \o Approved(t) /\ r.sent = Len(h) + 2
              \/ r.outcome = "error" /\ r.msgs = h /\ r.sent = 0
              \/ r.outcome = "error" /\ r.msgs = h \o Stalled(t) /\ r.sent = Len(h)
              \/ /\ r.interrupted /\ r.sent = 0
                 /\ r.msgs = Append(DropDangling(h), M("abort", {t}))
              \/ r.interrupted /\ r.msgs = h \o Refused(t) /\ r.sent = Len(h)
              \/ /\ r.outcome = "error" /\ r.compacted /\ r.sent = 0
                 /\ r.msgs = Append(h, M("prompt", {t}))
              \/ /\ r.compacted /\ r.sent = Len(r.msgs)
                 /\ r.msgs \in Compactions(h \o Answer(t), FALSE)
<1> DEFINE text == h \o Answer(t)
           done == h \o Approved(t)
           call == h \o Stalled(t)
           cut  == Append(DropDangling(h), M("abort", {t}))
           asked == Append(h, M("prompt", {t}))
           refused == h \o Refused(t)
<1>1. \/ r = R("continue", FALSE, FALSE, Len(h), text)
      \/ r = R("continue", FALSE, FALSE, Len(h) + 2, done)
      \/ r = R("error", FALSE, FALSE, 0, h)
      \/ r = R("error", FALSE, FALSE, Len(h), call)
      \/ r = R("continue", TRUE, FALSE, 0, cut)
      \/ r = R("continue", TRUE, FALSE, Len(h), refused)
      \/ r = R("continue", FALSE, TRUE, Len(h), text)
      \/ r = R("error", FALSE, TRUE, 0, asked)
      \/ \E c \in Compactions(text, FALSE) : r = R("continue", FALSE, TRUE, Len(c), c)
      \/ r = R("error", FALSE, TRUE, 0, h)
  BY Zenon DEF TurnResults
<1> HIDE DEF text, done, call, cut, asked, refused
<1>3. ASSUME NEW o, NEW i, NEW c, NEW s, NEW ms, r = R(o, i, c, s, ms)
      PROVE  r.outcome = o /\ r.interrupted = i /\ r.compacted = c /\ r.sent = s /\ r.msgs = ms
  BY <1>3 DEF R
<1>4. CASE r = R("continue", FALSE, FALSE, Len(h), text)
  BY <1>3, <1>4 DEF text
<1>5. CASE r = R("continue", FALSE, FALSE, Len(h) + 2, done)
  BY <1>3, <1>5 DEF done
<1>6. CASE r = R("error", FALSE, FALSE, 0, h) \/ r = R("error", FALSE, TRUE, 0, h)
  BY <1>3, <1>6
<1>7. CASE r = R("error", FALSE, FALSE, Len(h), call)
  BY <1>3, <1>7 DEF call
<1>8. CASE r = R("continue", TRUE, FALSE, 0, cut)
  BY <1>3, <1>8 DEF cut
<1>9. CASE r = R("continue", TRUE, FALSE, Len(h), refused)
  BY <1>3, <1>9 DEF refused
<1>10. CASE r = R("continue", FALSE, TRUE, Len(h), text)
  BY <1>3, <1>10 DEF text
<1>11. CASE r = R("error", FALSE, TRUE, 0, asked)
  BY <1>3, <1>11 DEF asked
<1>12. CASE \E c \in Compactions(text, FALSE) : r = R("continue", FALSE, TRUE, Len(c), c)
  <2>1. PICK c \in Compactions(text, FALSE) : r = R("continue", FALSE, TRUE, Len(c), c)
    BY <1>12
  <2> QED
    BY <1>3, <2>1, ZenonT(40) DEF text
<1> QED
  BY <1>1, <1>4, <1>5, <1>6, <1>7, <1>8, <1>9, <1>10, <1>11, <1>12

\* The turn was answered.
Answers(r) == r.outcome = "continue" /\ ~r.interrupted

\* What a turn returns is a list of messages that stands for nothing but what the
\* list it was given and the turn stand for; without a compaction it starts with that
\* list, and ends in the answer if there is one.
LEMMA ResultPieces ==
    ASSUME NEW h \in Seq(Msg), NEW t \in Nat, NEW r \in TurnResults(h, t)
    PROVE  /\ r.msgs \in Seq(Msg)
           /\ r.compacted \in BOOLEAN
           /\ r.sent \in Nat /\ r.sent <= Len(r.msgs)
           /\ Covered(r.msgs) \subseteq Covered(h) \cup {t}
           /\ ~r.compacted =>
                 /\ Continues(r.msgs, h)
                 /\ Answers(r) => t \in Last(r.msgs).of /\ Len(h) < Len(r.msgs)
<1> DEFINE text == h \o Answer(t)
           done == h \o Approved(t)
           call == h \o Stalled(t)
           refused == h \o Refused(t)
           cut  == Append(DropDangling(h), M("abort", {t}))
           asked == Append(h, M("prompt", {t}))
           Fine(g, s) == /\ g \in Seq(Msg) /\ Covered(g) \subseteq Covered(h) \cup {t}
                         /\ s \in Nat /\ s <= Len(g)
<1>0. /\ M("prompt", {t}) \in Msg /\ M("abort", {t}) \in Msg
      /\ \A k : M(k, {t}).of = {t} /\ M(k, {t}).k = k
  BY TurnMessages DEF M
<1>1. Len(h) \in Nat
  BY LenProperties
<1>2. ASSUME NEW g, NEW e, Grown(g, h, t, e)
      PROVE  /\ Fine(g, Len(h)) /\ Fine(g, Len(h) + 2) /\ Continues(g, h)
             /\ Len(h) < Len(g) /\ Last(g) = e
  <2>1. Len(g) \in Nat
    BY <1>2, LenProperties DEF Grown
  <2> QED
    BY <1>1, <1>2, <2>1, ExtendsContinues DEF Grown
<1>3. /\ Fine(text, Len(h)) /\ Continues(text, h) /\ Len(h) < Len(text) /\ t \in Last(text).of
  BY <1>0, <1>2, GrownLists, ZenonT(40)
<1>4. /\ Fine(done, Len(h) + 2) /\ Continues(done, h) /\ Len(h) < Len(done) /\ t \in Last(done).of
  BY <1>0, <1>2, GrownLists, ZenonT(40)
<1>5. Fine(call, Len(h)) /\ Continues(call, h) /\ Fine(refused, Len(h)) /\ Continues(refused, h)
  BY <1>2, GrownLists
<1>6. Fine(cut, 0) /\ Continues(cut, h)
  <2> DEFINE e == M("abort", {t})
  <2>1. e \in Msg /\ e.of = {t} /\ e.k = "abort"
    BY <1>0
  <2> HIDE DEF e
  <2> DEFINE g == Append(DropDangling(h), e)
  <2>2. g \in Seq(Msg) /\ Covered(g) \subseteq Covered(h) \cup e.of /\ Continues(g, h)
    BY <2>1, AbortBehind
  <2>3. cut = g
    BY DEF e
  <2> HIDE DEF g, cut
  <2>4. Len(g) \in Nat
    BY <2>2, LenProperties
  <2> QED
    BY <2>1, <2>2, <2>3, <2>4
<1>7. Fine(asked, 0)
  <2> DEFINE e == M("prompt", {t})
  <2>1. e \in Msg /\ e.of = {t}
    BY <1>0
  <2> HIDE DEF e
  <2> DEFINE g == Append(h, e)
  <2>2. g \in Seq(Msg) /\ Covered(g) = Covered(h) \cup e.of
    BY <2>1, AppendPieces, CoveredAppend
  <2>3. asked = g
    BY DEF e
  <2> HIDE DEF g, asked
  <2>4. Len(g) \in Nat
    BY <2>2, LenProperties
  <2> QED
    BY <2>1, <2>2, <2>3, <2>4
<1>8. Fine(h, 0) /\ Continues(h, h)
  BY <1>1 DEF Continues
<1>9. ASSUME NEW c \in Compactions(text, FALSE) PROVE Fine(c, Len(c))
  <2> HIDE DEF text
  <2>1. c \in Seq(Msg)
    BY <1>3, CompactionType
  <2>2. \A m \in Range(c) : m \in Range(text) \/ m.of \subseteq Covered(text)
    BY <1>3, CompactionRange
  <2>3. \A g : Covered(g) = UNION {m.of : m \in Range(g)}
    BY CoveredRange
  <2>4. Covered(c) \subseteq Covered(text)
    BY <2>2, <2>3
  <2> QED
    BY <1>3, <2>1, <2>4, LenProperties
<1>10. r.compacted \in BOOLEAN
  BY ResultCases
<1>11. \/ r.msgs = text /\ r.sent = Len(h)
       \/ r.msgs = done /\ r.sent = Len(h) + 2
       \/ r.outcome = "error" /\ r.msgs = h /\ r.sent = 0
       \/ r.outcome = "error" /\ r.msgs = call /\ r.sent = Len(h)
       \/ r.interrupted /\ r.msgs = cut /\ r.sent = 0
       \/ r.interrupted /\ r.msgs = refused /\ r.sent = Len(h)
       \/ r.compacted /\ r.msgs = asked /\ r.sent = 0
       \/ r.compacted /\ r.msgs \in Compactions(text, FALSE) /\ r.sent = Len(r.msgs)
  BY ResultCases
<1>12. Answers(r) => r.outcome # "error" /\ ~r.interrupted
  BY DEF Answers
<1> HIDE DEF text, done, call, refused, cut, asked
<1>13. /\ Fine(r.msgs, r.sent)
       /\ ~r.compacted =>
             /\ Continues(r.msgs, h)
             /\ Answers(r) => t \in Last(r.msgs).of /\ Len(h) < Len(r.msgs)
  <2> HIDE DEF Fine
  <2> QED
    BY <1>3, <1>4, <1>5, <1>6, <1>7, <1>8, <1>9, <1>11, <1>12
<1> QED
  BY <1>10, <1>13

\* The turns that A answers, and this one when it is answered, are kept.
LEMMA ResultKept ==
    ASSUME NEW h \in Seq(Msg), NEW A, NEW t \in Nat, NEW r \in TurnResults(h, t),
           Kept(h, A), t \notin A
    PROVE  Kept(r.msgs, IF Answers(r) THEN A \cup {t} ELSE A)
<1> DEFINE text == h \o Answer(t)
           done == h \o Approved(t)
           call == h \o Stalled(t)
           refused == h \o Refused(t)
           cut  == Append(DropDangling(h), M("abort", {t}))
           asked == Append(h, M("prompt", {t}))
           B == A \cup {t}
<1>0. /\ M("prompt", {t}) \in Msg /\ M("abort", {t}) \in Msg
      /\ \A k : M(k, {t}).of = {t} /\ M(k, {t}).k = k
  BY TurnMessages DEF M
<1>1. ~HasCall(M("text", {t})) /\ ~HasCall(M("abort", {t})) /\ ~HasCall(M("prompt", {t}))
  BY <1>0 DEF HasCall, CallKinds
<1>2. A \subseteq Covered(h) /\ (Dangling(h) => Last(h).of \cap A = {})
  BY DEF Kept
<1>3. ASSUME NEW g, NEW e, Grown(g, h, t, e), ~HasCall(e)
      PROVE  Kept(g, B) /\ Kept(g, A)
  BY <1>2, <1>3 DEF Grown, Kept, Dangling
<1>4. Kept(text, B) /\ Kept(done, B) /\ Kept(refused, A) /\ Kept(text, A) /\ Kept(done, A)
  BY <1>1, <1>3, GrownLists
<1>5. Kept(call, A)
  <2>1. Covered(call) = Covered(h) \cup {t} /\ Last(call) = M("call", {t})
    BY GrownLists DEF Grown
  <2> HIDE DEF call
  <2> QED
    BY <1>0, <1>2, <2>1 DEF Kept
<1>6. Kept(cut, A)
  <2>1. Covered(DropDangling(h)) \subseteq Covered(cut) /\ Last(cut) = M("abort", {t})
    BY <1>0, AbortBehind
  <2>2. Covered(h) \subseteq
          Covered(DropDangling(h)) \cup (IF Dangling(h) THEN Last(h).of ELSE {})
    BY DropCovers
  <2> HIDE DEF cut
  <2>3. A \subseteq Covered(cut)
    BY <1>2, <2>1, <2>2
  <2>4. ~Dangling(cut)
    BY <1>1, <2>1 DEF Dangling
  <2> QED
    BY <2>3, <2>4 DEF Kept
<1>7. Kept(asked, A)
  <2>1. Last(asked) = M("prompt", {t}) /\ Covered(h) \subseteq Covered(asked)
    BY <1>0, AppendPieces
  <2> HIDE DEF asked
  <2> QED
    BY <1>1, <1>2, <2>1 DEF Kept, Dangling
<1>8. ASSUME NEW c \in Compactions(text, FALSE) PROVE Kept(c, B)
  <2>1. text \in Seq(Msg) /\ Last(text) = M("text", {t})
    BY GrownLists DEF Grown
  <2> HIDE DEF text
  <2>2. Covered(text) \subseteq Covered(c) /\ Last(c) = Last(text)
    BY <2>1, CompactionCovers, CompactionLast
  <2>3. B \subseteq Covered(c)
    BY <1>4, <2>2 DEF Kept
  <2> QED
    BY <1>1, <2>1, <2>2, <2>3 DEF Kept, Dangling
<1>9. \/ r.msgs = text \/ r.msgs = done
      \/ r.outcome = "error" /\ r.msgs = h
      \/ r.outcome = "error" /\ r.msgs = call
      \/ r.interrupted /\ r.msgs = cut
      \/ r.interrupted /\ r.msgs = refused
      \/ r.outcome = "error" /\ r.msgs = asked
      \/ r.msgs \in Compactions(text, FALSE)
  BY ResultCases, Zenon
<1>10. Answers(r) => r.outcome # "error" /\ ~r.interrupted
  BY DEF Answers
<1>11. \A g : Kept(g, B) => Kept(g, A)
  BY DEF Kept
<1> HIDE DEF text, done, call, refused, cut, asked, B
<1>12. Kept(r.msgs, IF Answers(r) THEN B ELSE A)
  BY <1>4, <1>5, <1>6, <1>7, <1>8, <1>9, <1>10, <1>11
<1> QED
  BY <1>12 DEF B

\* The list that is handed back stands for what the turn's list does, joined or not.
LEMMA HandedPieces ==
    ASSUME NEW h \in Seq(Msg), NEW t \in Nat, NEW r \in TurnResults(h, t), NEW ms \in Handed(r)
    PROVE  /\ ms \in Seq(Msg) /\ Covered(ms) = Covered(r.msgs)
           /\ \A A : Kept(r.msgs, A) => Kept(ms, A)
<1>1. r.msgs \in Seq(Msg) /\ r.sent \in Nat /\ r.sent <= Len(r.msgs)
  BY ResultPieces
<1>2. PICK B \in SUBSET Joinable(SubSeq(r.msgs, 1, r.sent)) : ms = Join(r.msgs, B)
  BY DEF Handed
<1>3. B \in SUBSET Joinable(r.msgs)
  BY <1>1, <1>2, JoinablePrefix
<1>4. /\ ms \in Seq(Msg) /\ Covered(ms) = Covered(r.msgs)
      /\ Dangling(ms) => Dangling(r.msgs) /\ Last(ms) = Last(r.msgs)
  BY <1>1, <1>2, <1>3, JoinPieces
<1> QED
  BY <1>4 DEF Kept

\* What stands behind the first n messages of a list.
LEMMA RestCovers ==
    ASSUME NEW h \in Seq(Msg), NEW n \in Nat, NEW x
    PROVE  x \in Covered(SubSeq(h, n + 1, Len(h))) <=> \E i \in n + 1 .. Len(h) : x \in h[i].of
<1> DEFINE s == SubSeq(h, n + 1, Len(h))
<1>1. Len(h) \in Nat
  BY LenProperties
<1>2. /\ s \in Seq(Msg)
      /\ Len(s) = IF n + 1 <= Len(h) THEN Len(h) - (n + 1) + 1 ELSE 0
      /\ \A i \in 1 .. Len(h) - (n + 1) + 1 : s[i] = h[(n + 1) + i - 1]
  BY <1>1, PieceType
<1>3. DOMAIN s = 1 .. Len(s)
  BY <1>2, LenProperties
<1> HIDE DEF s
<1>4. ASSUME NEW i \in 1 .. Len(s)
      PROVE  i + n \in n + 1 .. Len(h) /\ s[i] = h[i + n]
  <2>1. i \in 1 .. Len(h) - (n + 1) + 1 /\ (n + 1) + i - 1 = i + n
    BY <1>1, <1>2
  <2> QED
    BY <1>1, <1>2, <2>1
<1>5. ASSUME NEW i \in n + 1 .. Len(h)
      PROVE  i - n \in 1 .. Len(s) /\ s[i - n] = h[i]
  <2>1. i - n \in 1 .. Len(h) - (n + 1) + 1 /\ (n + 1) + (i - n) - 1 = i /\ n + 1 <= Len(h)
    BY <1>1
  <2> QED
    BY <1>1, <1>2, <2>1
<1>6. ASSUME x \in Covered(s) PROVE \E i \in n + 1 .. Len(h) : x \in h[i].of
  <2>1. PICK i \in 1 .. Len(s) : x \in s[i].of
    BY <1>3, <1>6 DEF Covered
  <2> QED
    BY <1>4, <2>1
<1>7. ASSUME NEW i \in n + 1 .. Len(h), x \in h[i].of PROVE x \in Covered(s)
  BY <1>3, <1>5, <1>7 DEF Covered
<1> QED
  BY <1>6, <1>7 DEF s

\* What waited to be saved before a turn that did not compact waits in its list, the
\* turn itself too when it was answered.
LEMMA ResultRest ==
    ASSUME NEW h \in Seq(Msg), NEW A, NEW t \in Nat, NEW r \in TurnResults(h, t),
           Kept(h, A), ~r.compacted, NEW n \in Nat, n <= Len(h), NEW x,
           \/ x \in A /\ x \in Covered(SubSeq(h, n + 1, Len(h)))
           \/ x = t /\ Answers(r)
    PROVE  x \in Covered(SubSeq(r.msgs, n + 1, Len(r.msgs)))
<1> DEFINE g == r.msgs
<1>1. /\ g \in Seq(Msg) /\ Continues(g, h)
      /\ Answers(r) => t \in Last(g).of /\ Len(h) < Len(g)
  BY ResultPieces
<1> HIDE DEF g
<1>2. Len(h) \in Nat /\ Len(g) \in Nat /\ Len(h) <= Len(g)
  BY <1>1, LenProperties DEF Continues
<1>3. CASE x = t /\ Answers(r)
  <2>1. t \in g[Len(g)].of /\ Len(g) \in n + 1 .. Len(g)
    BY <1>1, <1>2, <1>3 DEF Last
  <2> QED
    BY <1>1, <1>3, <2>1, RestCovers DEF g
<1>4. CASE x \in A /\ x \in Covered(SubSeq(h, n + 1, Len(h)))
  <2>1. PICK i \in n + 1 .. Len(h) : x \in h[i].of
    BY <1>4, RestCovers
  <2>2. i \in 1 .. Len(h) /\ i \in n + 1 .. Len(g)
    BY <1>2
  <2>3. g[i] = h[i]
    <3>1. ~(i = Len(h) /\ Dangling(h))
      BY <1>4, <2>1 DEF Kept, Last
    <3> QED
      BY <1>1, <2>2, <3>1 DEF Continues
  <2> QED
    BY <1>1, <2>1, <2>2, <2>3, RestCovers DEF g
<1> QED
  BY <1>3, <1>4

-----------------------------------------------------------------------------
(***************************************************************************)
(* What a file holds.                                                      *)
(***************************************************************************)
\* A list of messages is a list of lines, and no message is torn.
LEMMA LineType ==
    /\ \A h \in Seq(Msg) : h \in Seq(Line)
    /\ Torn \in Line /\ Bad \in Line /\ Torn \notin Msg /\ Bad \notin Msg
    /\ Torn.of = {} /\ Bad.of = {}
<1>1. Msg \subseteq Line /\ Torn \in Line /\ Bad \in Line
  BY DEF Line
<1>2. "torn" \notin Kinds /\ "bad" \notin Kinds
  BY DEF Kinds, CarrierKinds, TextKinds, CallKinds
<1>3. \A m \in Msg : m.k \in Kinds
  BY DEF Msg
<1>4. Torn.k = "torn" /\ Bad.k = "bad" /\ Torn.of = {} /\ Bad.of = {}
  BY DEF Torn, Bad
<1>5. \A h \in Seq(Msg) : h \in Seq(Line)
  BY <1>1, SeqMonotonic
<1> QED
  BY <1>1, <1>2, <1>3, <1>4, <1>5

\* Skipping the malformed lines of a file leaves messages, and skips nothing that
\* stands for a turn.
LEMMA ReadablePieces ==
    ASSUME NEW f \in Seq(Line)
    PROVE  /\ Readable(f) \in Seq(Msg)
           /\ Covered(Readable(f)) = Covered(f)
<1> DEFINE r == Among(f, Msg)
<1>1. r \in Seq(Line) /\ Range(r) = Range(f) \cap Msg
  BY AmongPicks, AmongRange
<1>2. r \in Seq(Range(r))
  <2> HIDE DEF r
  <2> QED
    BY <1>1, SeqOfRange
<1>3. Range(f) \subseteq Line
  BY RangeOfSeq
<1> HIDE DEF r
<1>4. r \in Seq(Msg)
  <2>1. Range(r) \subseteq Msg
    BY <1>1
  <2> QED
    BY <1>2, <2>1, SeqMonotonic
<1>5. \A m \in Range(f) : m \in Range(r) \/ m.of = {}
  BY <1>1, <1>3, LineType DEF Line
<1>6. Covered(r) = UNION {m.of : m \in Range(r)} /\ Covered(f) = UNION {m.of : m \in Range(f)}
  BY CoveredRange
<1>7. Covered(r) = Covered(f)
  BY <1>1, <1>5, <1>6
<1> QED
  BY <1>4, <1>7 DEF Readable, r

\* What is appended to a file is what was in it and what was to be written, behind
\* a torn line or not.
LEMMA AppendedPieces ==
    ASSUME NEW f \in Seq(Line), NEW ms \in Seq(Msg)
    PROVE  /\ Appended(f, ms) \in Seq(Line)
           /\ Covered(Appended(f, ms)) \subseteq Covered(f) \cup Covered(ms)
           /\ ~HasTornTail(f) => Appended(f, ms) = f \o ms
<1>1. ms \in Seq(Line) /\ Bad \in Line /\ Bad.of = {}
  BY LineType
<1>2. CASE ms = <<>>
  BY <1>2, ConcatEmptySeq DEF Appended
<1>3. CASE ms # <<>> /\ ~HasTornTail(f)
  BY <1>1, <1>3, ConcatProperties, CoveredConcat DEF Appended
<1>4. CASE ms # <<>> /\ HasTornTail(f)
  <2> DEFINE a == Front(f)
             b == Append(a, Bad)
             c == Tail(ms)
  <2>1. Len(f) \in Nat /\ Len(ms) \in Nat /\ Len(ms) > 0
    BY <1>4, LenProperties, EmptySeq
  <2>2. a \in Seq(Line) /\ Covered(a) \subseteq Covered(f)
    <3>1. a = SubSeq(f, 1, Len(f) - 1)
      BY DEF Front
    <3> HIDE DEF a
    <3> QED
      BY <2>1, <3>1, CutType, CoveredCut
  <2>3. c \in Seq(Line) /\ Covered(c) \subseteq Covered(ms)
    <3>1. c = SubSeq(ms, 2, Len(ms))
      BY <1>4, TailIsSubSeq
    <3> HIDE DEF c
    <3> QED
      BY <1>1, <2>1, <3>1, CutType, CoveredCut
  <2> HIDE DEF a, c
  <2>4. b \in Seq(Line) /\ Covered(b) = Covered(a) /\ b = a \o <<Bad>>
    <3>1. b \in Seq(Line)
      BY <1>1, <2>2, AppendProperties
    <3>2. b = a \o <<Bad>>
      BY <1>1, <2>2, AppendIsConcat
    <3>3. Covered(b) = Covered(a) \cup Bad.of
      BY <1>1, <2>2, CoveredAppend
    <3> QED
      BY <1>1, <3>1, <3>2, <3>3
  <2> HIDE DEF b
  <2>5. b \o c \in Seq(Line) /\ Covered(b \o c) = Covered(b) \cup Covered(c)
    <3>1. b \in Seq(Line) /\ c \in Seq(Line)
      BY <2>3, <2>4
    <3>2. b \o c \in Seq(Line)
      BY <3>1, ConcatProperties
    <3>3. Covered(b \o c) = Covered(b) \cup Covered(c)
      BY <3>1, CoveredConcat
    <3> QED
      BY <3>2, <3>3
  <2>6. Appended(f, ms) = b \o c
    BY <1>4, <2>4 DEF Appended, a, c
  <2> QED
    BY <1>4, <2>2, <2>3, <2>4, <2>5, <2>6
<1> QED
  BY <1>2, <1>3, <1>4

\* So is what a write that is cut short leaves.
LEMMA CutShortPieces ==
    ASSUME NEW f \in Seq(Line), NEW ms \in Seq(Msg), NEW x \in CutShort(f, ms)
    PROVE  x \in Seq(Line) /\ Covered(x) \subseteq Covered(f) \cup Covered(ms)
<1> DEFINE Fine(g) == g \in Seq(Line) /\ Covered(g) \subseteq Covered(f) \cup Covered(ms)
           whole == {Appended(f, SubSeq(ms, 1, i)) : i \in 0 .. Len(ms)}
<1>1. ASSUME NEW g \in whole PROVE Fine(g)
  <2>1. PICK i \in 0 .. Len(ms) : g = Appended(f, SubSeq(ms, 1, i))
    OBVIOUS
  <2>2. Len(ms) \in Nat
    BY LenProperties
  <2> DEFINE part == SubSeq(ms, 1, i)
  <2>3. part \in Seq(Msg) /\ Covered(part) \subseteq Covered(ms)
    BY <2>2, CutType, CoveredCut
  <2> HIDE DEF part
  <2>4. /\ Appended(f, part) \in Seq(Line)
        /\ Covered(Appended(f, part)) \subseteq Covered(f) \cup Covered(part)
    BY <2>3, AppendedPieces
  <2> QED
    BY <2>1, <2>3, <2>4 DEF part
<1>2. \/ x \in whole
      \/ \E g \in whole : x = IF HasTornTail(g) THEN g ELSE Append(g, Torn)
  BY DEF CutShort
<1>3. ASSUME NEW g \in whole PROVE Fine(Append(g, Torn))
  <2> HIDE DEF whole
  <2>1. g \in Seq(Line) /\ Torn \in Line /\ Torn.of = {}
    BY <1>1, LineType
  <2>2. Append(g, Torn) \in Seq(Line)
    BY <2>1, AppendProperties
  <2>3. Covered(Append(g, Torn)) = Covered(g) \cup Torn.of
    BY <2>1, CoveredAppend
  <2> QED
    BY <1>1, <2>1, <2>2, <2>3
<1> HIDE DEF whole, Fine
<1>4. Fine(x)
  BY <1>1, <1>2, <1>3
<1> QED
  BY <1>4 DEF Fine

\* The part of a list that is not saved yet.
LEMMA UnsavedPieces ==
    ASSUME NEW ms \in Seq(Msg), persisted \in Nat
    PROVE  /\ Unsaved(ms) \in Seq(Msg)
           /\ Covered(Unsaved(ms)) \subseteq Covered(ms)
           /\ persisted <= Len(ms) =>
                 /\ Len(Unsaved(ms)) = Len(ms) - persisted
                 /\ \A i \in 1 .. Len(ms) - persisted :
                       Unsaved(ms)[i] = ms[persisted + i]
<1>1. Len(ms) \in Nat /\ persisted + 1 \in Nat \ {0}
  BY LenProperties
<1>2. /\ Unsaved(ms) \in Seq(Msg)
      /\ Len(Unsaved(ms)) = IF persisted + 1 <= Len(ms)
                            THEN Len(ms) - (persisted + 1) + 1 ELSE 0
      /\ \A i \in 1 .. Len(ms) - (persisted + 1) + 1 :
            Unsaved(ms)[i] = ms[(persisted + 1) + i - 1]
  BY <1>1, CutType DEF Unsaved
<1>3. Covered(Unsaved(ms)) \subseteq Covered(ms)
  BY <1>1, CoveredCut DEF Unsaved
<1>4. ASSUME persisted <= Len(ms)
      PROVE  /\ Len(Unsaved(ms)) = Len(ms) - persisted
             /\ \A i \in 1 .. Len(ms) - persisted :
                   Unsaved(ms)[i] = ms[persisted + i]
  <2> DEFINE n == Len(ms)
             u == Unsaved(ms)
  <2>1. /\ n - (persisted + 1) + 1 = n - persisted
        /\ \A i \in Int : (persisted + 1) + i - 1 = persisted + i
    BY <1>1
  <2>2. \A i \in 1 .. n - (persisted + 1) + 1 : u[i] = ms[(persisted + 1) + i - 1]
    BY <1>2
  <2>3. Len(u) = IF persisted + 1 <= n THEN n - (persisted + 1) + 1 ELSE 0
    BY <1>2
  <2> HIDE DEF n, u
  <2>4. n \in Nat /\ persisted <= n
    BY <1>1, <1>4 DEF n
  <2>5. Len(u) = n - persisted
    BY <2>3, <2>4
  <2>6. \A i \in 1 .. n - persisted : u[i] = ms[persisted + i]
    <3> SUFFICES ASSUME NEW i \in 1 .. n - persisted
                 PROVE  u[i] = ms[persisted + i]
      OBVIOUS
    <3>1. i \in 1 .. n - (persisted + 1) + 1
      BY <2>1
    <3>2. (persisted + 1) + i - 1 = persisted + i
      BY <2>4
    <3>3. u[i] = ms[(persisted + 1) + i - 1]
      BY <2>2, <3>1
    <3> QED
      BY <3>2, <3>3
  <2> QED
    BY <2>5, <2>6 DEF n, u
<1> QED
  BY <1>2, <1>3, <1>4

\* What a save, done or cut short, makes of the conversation's file.
LEMMA WritePieces ==
    ASSUME NEW ms \in Seq(Msg), NEW compacted \in BOOLEAN,
           persisted \in Nat, disk[path] \in Seq(Line),
           NEW x \in Leftovers(ms, compacted) \cup {Contents(disk[path], ms, compacted)}
    PROVE  x \in Seq(Line) /\ Covered(x) \subseteq Covered(disk[path]) \cup Covered(ms)
<1> DEFINE f == disk[path]
           u == Unsaved(ms)
<1>1. u \in Seq(Msg) /\ Covered(u) \subseteq Covered(ms) /\ ms \in Seq(Line)
  BY UnsavedPieces, LineType
<1>2. <<>> \in Seq(Line) /\ Covered(<<>>) = {}
  BY EmptySeq DEF Covered
<1>3. \/ x = f \/ x = ms
      \/ x = Appended(f, u)
      \/ x \in CutShort(<<>>, ms)
      \/ x \in CutShort(f, u)
  BY DEF Leftovers, Contents
<1> HIDE DEF u
<1>4. ASSUME x = Appended(f, u)
      PROVE  x \in Seq(Line) /\ Covered(x) \subseteq Covered(f) \cup Covered(u)
  BY <1>1, <1>4, AppendedPieces
<1>5. ASSUME x \in CutShort(<<>>, ms)
      PROVE  x \in Seq(Line) /\ Covered(x) \subseteq {} \cup Covered(ms)
  BY <1>2, <1>5, CutShortPieces
<1>6. ASSUME x \in CutShort(f, u)
      PROVE  x \in Seq(Line) /\ Covered(x) \subseteq Covered(f) \cup Covered(u)
  BY <1>1, <1>6, CutShortPieces
<1> QED
  BY <1>1, <1>3, <1>4, <1>5, <1>6

-----------------------------------------------------------------------------
(***************************************************************************)
(* What the file has of the list.                                          *)
(***************************************************************************)
\* The readable lines a file gained after its first b.
Gained(f, b) == Readable(SubSeq(f, b + 1, Len(f)))

\* They are the first n messages of a list.
Matches(f, b, ms, n) ==
    /\ n <= Len(ms)
    /\ Len(Gained(f, b)) = n
    /\ \A i \in 1 .. n : SameMessage(Gained(f, b)[i], ms[i])

\* What a file gained is a list of messages.
LEMMA GainedType ==
    ASSUME NEW f \in Seq(Line), NEW b \in Nat
    PROVE  /\ Gained(f, b) \in Seq(Msg)
           /\ Covered(Gained(f, b)) \subseteq Covered(f)
<1> DEFINE s == SubSeq(f, b + 1, Len(f))
<1>1. Len(f) \in Nat /\ b + 1 \in Nat \ {0}
  BY LenProperties
<1>2. s \in Seq(Line) /\ Covered(s) \subseteq Covered(f)
  BY <1>1, CutType, CoveredCut
<1> HIDE DEF s
<1>3. Readable(s) \in Seq(Msg) /\ Covered(Readable(s)) = Covered(s)
  BY <1>2, ReadablePieces
<1> QED
  BY <1>2, <1>3 DEF Gained, s

\* A file that has the start of a list has that of a list that continues it.
LEMMA MatchesCarried ==
    ASSUME NEW f, NEW b, NEW n \in Nat, NEW h \in Seq(Msg), NEW g \in Seq(Msg),
           Matches(f, b, h, n), Continues(g, h)
    PROVE  Matches(f, b, g, n)
<1> DEFINE l == Gained(f, b)
<1>1. n <= Len(h) /\ Len(h) <= Len(g) /\ Len(h) \in Nat /\ Len(g) \in Nat
  BY LenProperties DEF Matches, Continues
<1>2. Len(l) = n
  BY DEF Matches
<1>3. ASSUME NEW i \in 1 .. n PROVE SameMessage(l[i], g[i])
  <2>1. i \in 1 .. Len(h)
    BY <1>1
  <2>2. SameMessage(l[i], h[i])
    BY DEF Matches
  <2>3. SameMessage(h[i], g[i])
    BY <2>1 DEF Continues, SameMessage, Dangling, Last
  <2>4. h[i].k = "abort" => ~HasCall(h[i])
    BY DEF HasCall, CallKinds
  <2> HIDE DEF l
  <2> QED
    BY <2>2, <2>3, <2>4 DEF SameMessage
<1> QED
  BY <1>1, <1>2, <1>3 DEF Matches

\* When the rest of the list is put behind its lines, it has all of the list.
LEMMA MatchesSaved ==
    ASSUME NEW f \in Seq(Line), NEW b \in Nat, b <= Len(f), NEW n \in Nat,
           NEW ms \in Seq(Msg), NEW u \in Seq(Msg), Matches(f, b, ms, n),
           Len(u) = Len(ms) - n, \A i \in 1 .. Len(ms) - n : u[i] = ms[n + i]
    PROVE  Matches(f \o u, b, ms, Len(ms))
<1> DEFINE l == SubSeq(f, b + 1, Len(f))
           g == f \o u
           m == SubSeq(g, b + 1, Len(g))
<1>1. /\ Len(f) \in Nat /\ Len(u) \in Nat /\ Len(ms) \in Nat
      /\ n <= Len(ms) /\ u \in Seq(Line)
  BY LenProperties, LineType DEF Matches
<1>2. /\ g \in Seq(Line) /\ Len(g) = Len(f) + Len(u)
      /\ \A i \in 1 .. Len(f) + Len(u) : g[i] = IF i <= Len(f) THEN f[i] ELSE u[i - Len(f)]
  BY <1>1, ConcatProperties
<1>3. /\ l \in Seq(Line) /\ Len(l) = Len(f) - b
      /\ \A i \in 1 .. Len(f) - b : l[i] = f[b + i]
  <2>1. /\ l \in Seq(Line)
        /\ Len(l) = IF b + 1 <= Len(f) THEN Len(f) - (b + 1) + 1 ELSE 0
        /\ \A i \in 1 .. Len(f) - (b + 1) + 1 : l[i] = f[(b + 1) + i - 1]
    BY <1>1, CutType
  <2> HIDE DEF l
  <2>2. Len(l) = Len(f) - b
    BY <1>1, <2>1
  <2>3. ASSUME NEW i \in 1 .. Len(f) - b PROVE l[i] = f[b + i]
    <3>1. i \in 1 .. Len(f) - (b + 1) + 1 /\ (b + 1) + i - 1 = b + i
      BY <1>1
    <3> QED
      BY <2>1, <3>1
  <2> QED
    BY <2>1, <2>2, <2>3
<1> HIDE DEF g
<1>4. /\ m \in Seq(Line) /\ Len(m) = Len(l) + Len(u)
      /\ \A i \in 1 .. Len(l) + Len(u) : m[i] = g[b + i]
  <2>1. Len(g) \in Nat
    BY <1>1, <1>2
  <2>2. /\ m \in Seq(Line)
        /\ Len(m) = IF b + 1 <= Len(g) THEN Len(g) - (b + 1) + 1 ELSE 0
        /\ \A i \in 1 .. Len(g) - (b + 1) + 1 : m[i] = g[(b + 1) + i - 1]
    BY <1>2, <2>1, CutType
  <2> HIDE DEF m, l
  <2>3. Len(m) = Len(l) + Len(u)
    <3> DEFINE x == Len(f)
               y == Len(u)
               z == Len(g)
    <3>1. x \in Nat /\ y \in Nat /\ b \in Nat /\ b <= x /\ z = x + y
      BY <1>1, <1>2
    <3>2. Len(m) = IF b + 1 <= z THEN z - (b + 1) + 1 ELSE 0
      BY <2>2
    <3>3. Len(l) + Len(u) = (x - b) + y
      BY <1>3
    <3> HIDE DEF x, y, z
    <3>4. Len(m) = z - b
      <4>1. CASE b + 1 <= z
        BY <3>1, <3>2, <4>1
      <4>2. CASE ~(b + 1 <= z)
        BY <3>1, <3>2, <4>2
      <4> QED
        BY <4>1, <4>2
    <3>5. z - b = (x - b) + y
      BY <3>1
    <3> QED
      BY <3>3, <3>4, <3>5
  <2>4. ASSUME NEW i \in 1 .. Len(l) + Len(u) PROVE m[i] = g[b + i]
    <3>1. i \in 1 .. Len(g) - (b + 1) + 1 /\ (b + 1) + i - 1 = b + i
      BY <1>1, <1>2, <1>3
    <3> QED
      BY <2>2, <3>1
  <2> QED
    BY <2>2, <2>3, <2>4
<1>5. m = l \o u
  <2> HIDE DEF m, l
  <2>1. /\ l \o u \in Seq(Line) /\ Len(l \o u) = Len(l) + Len(u)
        /\ \A i \in 1 .. Len(l) + Len(u) :
              (l \o u)[i] = IF i <= Len(l) THEN l[i] ELSE u[i - Len(l)]
    BY <1>1, <1>3, ConcatProperties
  <2>2. ASSUME NEW i \in 1 .. Len(m) PROVE m[i] = (l \o u)[i]
    <3>1. i \in 1 .. Len(l) + Len(u) /\ b + i \in 1 .. Len(f) + Len(u)
      BY <1>1, <1>3, <1>4
    <3>2. CASE i <= Len(l)
      <4>1. i \in 1 .. Len(f) - b /\ b + i <= Len(f)
        BY <1>1, <1>3, <3>1, <3>2
      <4> QED
        BY <1>2, <1>3, <1>4, <2>1, <3>1, <3>2, <4>1
    <3>3. CASE ~(i <= Len(l))
      <4>1. ~(b + i <= Len(f)) /\ b + i - Len(f) = i - Len(l)
        BY <1>1, <1>3, <3>1, <3>3
      <4>2. g[b + i] = u[b + i - Len(f)]
        BY <1>2, <3>1, <4>1
      <4>3. (l \o u)[i] = u[i - Len(l)]
        BY <2>1, <3>1, <3>3
      <4>4. m[i] = g[b + i]
        BY <1>4, <3>1
      <4> QED
        BY <4>1, <4>2, <4>3, <4>4
    <3> QED
      BY <3>2, <3>3
  <2> QED
    BY <1>4, <2>1, <2>2, SeqEqual
<1> DEFINE p == Readable(l)
           q == Readable(m)
<1>6. q = p \o u
  <2>1. Among(u, Msg) = u
    BY AmongAll, ElementOfSeq
  <2>2. Among(l \o u, Msg) = Among(l, Msg) \o Among(u, Msg)
    <3> HIDE DEF l
    <3> QED
      BY <1>1, <1>3, AmongConcat, SMTT(20)
  <2> QED
    BY <1>5, <2>1, <2>2 DEF Readable
<1>7. p \in Seq(Msg)
  <2> HIDE DEF l
  <2> QED
    BY <1>3, ReadablePieces
<1>8. Len(p) = n /\ \A i \in 1 .. n : SameMessage(p[i], ms[i])
  BY DEF Matches, Gained
<1> HIDE DEF p, q, l, m
<1>9. /\ Len(q) = n + Len(u)
      /\ \A i \in 1 .. n + Len(u) : q[i] = IF i <= n THEN p[i] ELSE u[i - n]
  BY <1>6, <1>7, <1>8, ConcatProperties
<1>10. Len(q) = Len(ms)
  BY <1>1, <1>9
<1>11. ASSUME NEW i \in 1 .. Len(ms) PROVE SameMessage(q[i], ms[i])
  <2>1. i \in 1 .. n + Len(u)
    BY <1>1
  <2>2. CASE i <= n
    <3>1. i \in 1 .. n
      BY <2>2
    <3> QED
      BY <1>8, <1>9, <2>1, <2>2, <3>1
  <2>3. CASE ~(i <= n)
    <3>1. i - n \in 1 .. Len(ms) - n /\ n + (i - n) = i
      BY <1>1, <2>3
    <3>2. q[i] = ms[i]
      BY <1>9, <2>1, <2>3, <3>1
    <3> QED
      BY <3>2 DEF SameMessage
  <2> QED
    BY <2>2, <2>3
<1> QED
  BY <1>1, <1>10, <1>11 DEF Matches, Gained, q, m, g

\* A file read from its first line on has the list it is read as, and a file has
\* nothing of the empty list past its last line.
LEMMA MatchesEnds ==
    ASSUME NEW f \in Seq(Line)
    PROVE  /\ Matches(f, 0, Readable(f), Len(Readable(f)))
           /\ Matches(f, Len(f), <<>>, 0)
<1>1. Len(f) \in Nat
  BY LenProperties
<1>2. Gained(f, 0) = Readable(f)
  <2>1. SubSeq(f, 1, Len(f)) = f
    BY SubSeqFull
  <2>2. 0 + 1 = 1
    OBVIOUS
  <2> QED
    BY <2>1, <2>2 DEF Gained
<1>3. Len(Readable(f)) \in Nat
  BY ReadablePieces, LenProperties
<1>4. Len(Gained(f, Len(f))) = 0
  <2>1. SubSeq(f, Len(f) + 1, Len(f)) = <<>>
    BY <1>1, SubSeqEmpty
  <2>2. Among(<<>>, Msg) = <<>>
    <3> DEFINE none == <<>>
    <3>1. none \in Seq(Msg) /\ Len(none) = 0
      BY EmptySeq
    <3> HIDE DEF none
    <3>2. \A i \in 1 .. Len(none) : none[i] \in Msg
      BY <3>1
    <3> QED
      BY <3>1, <3>2, AmongAll DEF none
  <2> QED
    BY <2>1, <2>2, EmptySeq DEF Gained, Readable
<1>5. Len(<<>>) = 0
  BY EmptySeq
<1> QED
  BY <1>2, <1>3, <1>4, <1>5 DEF Matches, SameMessage

\* A list that is written as a whole is read as it is.
LEMMA MatchesWhole ==
    ASSUME NEW ms \in Seq(Msg)
    PROVE  Matches(ms, 0, ms, Len(ms))
<1>1. Readable(ms) = ms
  BY AmongAll, ElementOfSeq DEF Readable
<1>2. ms \in Seq(Line)
  BY LineType
<1> QED
  BY <1>1, <1>2, MatchesEnds

-----------------------------------------------------------------------------
(***************************************************************************)
(* The invariant.                                                          *)
(***************************************************************************)
\* The turns taken so far in one session.
TurnsOf(p) == {t \in Turns : t <= turn /\ home[t] = p}

\* No file has a message of a turn taken in another session, nor has the list.
OwnTurns ==
    /\ \A p \in Paths : Covered(disk[p]) \subseteq TurnsOf(p)
    /\ Covered(mem) \subseteq TurnsOf(path)

\* A name that was not made yet is that of no file.
Named ==
    /\ alive => path \in 1 .. created
    /\ \A p \in Paths : p > created => p \notin files /\ disk[p] = <<>>

\* Nothing is torn at the end of the file the conversation writes to.
InStep ==
    alive /\ sound => ~HasTornTail(disk[path]) /\ base <= Len(disk[path])

\* The turns of the messages that the next save appends, as far as the count tells.
Waiting == IF joined THEN {} ELSE Covered(Unsaved(mem))

\* A turn that was answered and not skipped is in the file or is going to be.
Saved ==
    (alive /\ sound) =>
        /\ ~joined => persisted <= Len(mem)
        /\ answered \ skipped \subseteq Covered(disk[path]) \cup Waiting

Inv ==
    /\ TypeOK /\ Named /\ OwnTurns /\ InStep /\ Aligned /\ Saved
    /\ Kept(mem, answered)
    /\ answered \subseteq 1 .. turn

\* The count of the REPL is right when its list starts as the lines gained do.
LEMMA AlignedMatches ==
    Aligned <=>
        (alive /\ sound /\ skipped = {} => Matches(disk[path], base, mem, persisted))
BY DEF Aligned, Matches, Gained

\* A message is never the torn line.
LEMMA NotTorn ==
    ASSUME NEW f \in Seq(Line), NEW ms \in Seq(Msg), ~HasTornTail(f)
    PROVE  ~HasTornTail(ms) /\ ~HasTornTail(f \o ms)
<1>1. Len(ms) \in Nat /\ Len(f) \in Nat /\ ms \in Seq(Line)
  BY LenProperties, LineType
<1>2. ASSUME ms # <<>>
      PROVE  /\ ms[Len(ms)] # Torn /\ Len(ms) > 0
  <2>1. Len(ms) > 0
    BY <1>1, <1>2, EmptySeq
  <2>2. ms[Len(ms)] \in Msg
    BY <1>1, <2>1, ElementOfSeq
  <2> QED
    BY <2>1, <2>2, LineType
<1>3. ~HasTornTail(ms)
  BY <1>2 DEF HasTornTail, Last
<1>4. CASE ms = <<>>
  <2>1. f \o ms = f
    BY <1>4, ConcatEmptySeq
  <2> QED
    BY <1>3, <2>1
<1>5. CASE ms # <<>>
  <2> DEFINE g == f \o ms
  <2>1. /\ Len(g) = Len(f) + Len(ms)
        /\ \A i \in 1 .. Len(f) + Len(ms) :
              g[i] = IF i <= Len(f) THEN f[i] ELSE ms[i - Len(f)]
    BY <1>1, ConcatProperties
  <2> HIDE DEF g
  <2>2. /\ Len(f) + Len(ms) \in 1 .. Len(f) + Len(ms)
        /\ ~(Len(f) + Len(ms) <= Len(f))
        /\ Len(f) + Len(ms) - Len(f) = Len(ms)
    BY <1>1, <1>2, <1>5
  <2>3. g[Len(g)] = ms[Len(ms)]
    BY <2>1, <2>2
  <2>4. ~HasTornTail(g)
    BY <1>2, <1>5, <2>3 DEF HasTornTail, Last
  <2> QED
    BY <1>3, <2>4 DEF g
<1> QED
  BY <1>4, <1>5

\* A save, whether it succeeds or fails, leaves the file and the list in step.
LEMMA SaveInStep ==
    ASSUME TypeOK, InStep, Aligned, alive, path' = path,
           NEW ms \in Seq(Msg), NEW compacted \in BOOLEAN, NEW over \in SUBSET Turns,
           ~compacted /\ over = {} => Continues(ms, mem),
           Save(ms, compacted, over) \/ FailSave(ms, compacted, over)
    PROVE  /\ disk' \in [Paths -> Seq(Line)]
           /\ \A p \in Paths : p # path => disk'[p] = disk[p]
           /\ Covered(disk'[path]) \subseteq Covered(disk[path]) \cup Covered(ms)
           /\ files \subseteq files' /\ files' \subseteq files \cup {path}
           /\ mem' = ms /\ persisted' \in Nat /\ base' \in Nat
           /\ sound' \in BOOLEAN /\ faults' \in 0 .. MaxFaults
           /\ joined' \in BOOLEAN /\ skipped' \subseteq Turns
           /\ sound' => ~HasTornTail(disk'[path]) /\ base' <= Len(disk'[path])
           /\ sound' /\ skipped' = {} => Matches(disk'[path], base', ms, persisted')
<1> DEFINE f == disk[path]
           w == Contents(f, ms, compacted)
<1>1. /\ path \in Paths /\ f \in Seq(Line) /\ persisted \in Nat /\ base \in Nat
      /\ sound \in BOOLEAN /\ faults \in 0 .. MaxFaults /\ MaxFaults \in Nat
      /\ mem \in Seq(Msg) /\ disk \in [Paths -> Seq(Line)] /\ files \subseteq Paths
      /\ joined \in BOOLEAN /\ skipped \subseteq Turns
  BY SessionAssumption DEF TypeOK
<1>2. Len(ms) \in Nat /\ ms \in Seq(Line)
  BY LenProperties, LineType
<1>3. \A x \in Leftovers(ms, compacted) \cup {w} :
         x \in Seq(Line) /\ Covered(x) \subseteq Covered(f) \cup Covered(ms)
  BY <1>1, WritePieces
<1>4. ASSUME sound PROVE ~HasTornTail(f) /\ base <= Len(f)
  BY <1>4 DEF InStep
<1>5. ASSUME sound, ~compacted, skipped = {}, over = {}
      PROVE  Matches(f, base, ms, persisted)
  <2>1. Continues(ms, mem) /\ Matches(f, base, mem, persisted)
    BY <1>5, AlignedMatches
  <2> HIDE DEF f
  <2> QED
    BY <1>1, <2>1, MatchesCarried
<1>6. CASE Save(ms, compacted, over)
  <2>1. /\ disk' = [disk EXCEPT ![path] = w] /\ mem' = ms /\ persisted' = Len(ms)
        /\ files \subseteq files' /\ files' \subseteq files \cup {path}
        /\ base' = IF compacted THEN 0 ELSE base
        /\ sound' = (sound \/ compacted) /\ faults' = faults
        /\ joined' = FALSE
        /\ skipped' = IF compacted THEN {} ELSE skipped \cup over
    BY <1>6 DEF Save
  <2>2. disk'[path] = w /\ \A p \in Paths : p # path => disk'[p] = disk[p]
    BY <1>1, <2>1
  <2>3. w \in Seq(Line) /\ Covered(w) \subseteq Covered(f) \cup Covered(ms)
    BY <1>3
  <2>4. ASSUME sound'
        PROVE  /\ ~HasTornTail(w) /\ base' <= Len(w)
               /\ skipped' = {} => Matches(w, base', ms, Len(ms))
    <3>1. CASE compacted
      <4>1. w = ms /\ base' = 0
        BY <2>1, <3>1 DEF Contents
      <4>2. Matches(ms, 0, ms, Len(ms))
        BY MatchesWhole
      <4>3. ~HasTornTail(ms)
        <5>1. <<>> \in Seq(Line) /\ ~HasTornTail(<<>>)
          BY EmptySeq DEF HasTornTail
        <5> QED
          BY <5>1, NotTorn
      <4> QED
        BY <1>2, <4>1, <4>2, <4>3
    <3>2. CASE ~compacted
      <4> DEFINE u == Unsaved(ms)
      <4>1. sound /\ base' = base /\ w = Appended(f, u) /\ skipped' = skipped \cup over
        BY <2>1, <2>4, <3>2 DEF Contents
      <4>2. ~HasTornTail(f) /\ base <= Len(f)
        BY <1>4, <4>1
      <4>3. u \in Seq(Msg)
        BY <1>1, UnsavedPieces
      <4>4. ASSUME skipped' = {} PROVE Matches(f \o u, base, ms, Len(ms))
        <5>1. Matches(f, base, ms, persisted)
          BY <1>5, <3>2, <4>1, <4>4
        <5>2. persisted <= Len(ms)
          BY <5>1 DEF Matches
        <5>3. /\ Len(u) = Len(ms) - persisted
              /\ \A i \in 1 .. Len(ms) - persisted : u[i] = ms[persisted + i]
          BY <1>1, <5>2, UnsavedPieces
        <5> HIDE DEF f, u
        <5> QED
          BY <1>1, <4>2, <4>3, <5>1, <5>3, MatchesSaved
      <4> HIDE DEF f, u
      <4>5. Appended(f, u) = f \o u
        BY <1>1, <4>2, <4>3, AppendedPieces
      <4>6. ~HasTornTail(f \o u)
        BY <1>1, <4>2, <4>3, NotTorn
      <4>7. base <= Len(f \o u)
        <5>1. Len(f) \in Nat /\ Len(u) \in Nat /\ u \in Seq(Line)
          BY <1>1, <4>3, LenProperties, LineType
        <5>2. Len(f \o u) = Len(f) + Len(u)
          BY <1>1, <5>1, ConcatProperties
        <5> QED
          BY <1>1, <4>2, <5>1, <5>2
      <4> QED
        BY <4>1, <4>4, <4>5, <4>6, <4>7
    <3> QED
      BY <3>1, <3>2
  <2>5. disk' \in [Paths -> Seq(Line)]
    BY <1>1, <2>1, <2>3
  <2> HIDE DEF f, w
  <2>6. joined' \in BOOLEAN /\ skipped' \subseteq Turns
    BY <1>1, <2>1
  <2> QED
    BY <1>1, <1>2, <2>1, <2>2, <2>3, <2>4, <2>5, <2>6 DEF f
<1>7. CASE FailSave(ms, compacted, over)
  <2>1. PICK x \in Leftovers(ms, compacted) :
           /\ disk' = [disk EXCEPT ![path] = x]
           /\ files' = IF x = disk[path] THEN files ELSE files \cup {path}
           /\ sound' = (sound /\ ~compacted /\ x = disk[path])
    BY <1>7 DEF FailSave
  <2>2. /\ mem' = ms /\ persisted' = persisted /\ base' = base
        /\ faults' = faults + 1 /\ faults < MaxFaults
        /\ joined' = (joined \/ over # {}) /\ skipped' = skipped \cup over
    BY <1>7 DEF FailSave
  <2>3. disk'[path] = x /\ \A p \in Paths : p # path => disk'[p] = disk[p]
    BY <1>1, <2>1
  <2>4. x \in Seq(Line) /\ Covered(x) \subseteq Covered(f) \cup Covered(ms)
    BY <1>3
  <2>5. disk' \in [Paths -> Seq(Line)]
    BY <1>1, <2>1, <2>4
  <2>6. faults' \in 0 .. MaxFaults
    BY <1>1, <2>2
  <2>7. ASSUME sound'
        PROVE  /\ ~HasTornTail(x) /\ base' <= Len(x)
               /\ skipped' = {} => Matches(x, base', ms, persisted)
    <3>1. sound /\ ~compacted /\ x = f
      BY <2>1, <2>7
    <3>2. skipped' = {} => skipped = {} /\ over = {}
      BY <2>2
    <3> QED
      BY <1>4, <1>5, <2>2, <3>1, <3>2
  <2>8. sound' \in BOOLEAN /\ joined' \in BOOLEAN /\ skipped' \subseteq Turns
    BY <1>1, <2>1, <2>2
  <2>9. files \subseteq files' /\ files' \subseteq files \cup {path}
    BY <2>1
  <2> HIDE DEF f
  <2> QED
    BY <1>1, <2>2, <2>3, <2>4, <2>5, <2>6, <2>7, <2>8, <2>9 DEF f
<1> QED
  BY <1>6, <1>7

\* What was answered and waited to be saved, and what has been answered since, is
\* behind the count of the new list.
RestFollows(ms) ==
    /\ Len(mem) <= Len(ms)
    /\ persisted <= Len(mem) =>
          \A x \in answered' : x \notin answered \/ x \in Covered(Unsaved(mem))
                                => x \in Covered(Unsaved(ms))

\* Nor does it lose a turn that is in the file or waits, but for those it skips: the
\* list stands for all that was answered; when nothing was joined it has what waited
\* and the turn itself behind the count; else both are skipped.
LEMMA SavedKeeps ==
    ASSUME TypeOK, InStep, Saved, alive, path' = path,
           NEW ms \in Seq(Msg), NEW compacted \in BOOLEAN, NEW over \in SUBSET Turns,
           Save(ms, compacted, over) \/ FailSave(ms, compacted, over),
           answered' \subseteq Covered(ms),
           ~compacted /\ over = {} => ~joined /\ RestFollows(ms),
           over # {} => Covered(Unsaved(mem)) \cup (answered' \ answered) \subseteq over
    PROVE  Saved'
<1> DEFINE f == disk[path]
           u == Unsaved(ms)
           v == Covered(Unsaved(mem))
<1>1. /\ path \in Paths /\ f \in Seq(Line) /\ persisted \in Nat /\ sound \in BOOLEAN
      /\ mem \in Seq(Msg) /\ disk \in [Paths -> Seq(Line)] /\ joined \in BOOLEAN
  BY DEF TypeOK
<1>2. Len(ms) \in Nat /\ Len(mem) \in Nat
  BY <1>1, LenProperties
<1>3. u \in Seq(Msg) /\ u \in Seq(Line)
  BY <1>1, UnsavedPieces, LineType
<1>4. ASSUME sound, ~compacted, NEW x \in answered' \ (skipped \cup over)
      PROVE  x \in Covered(f) \/ (over = {} /\ x \in Covered(u))
  <2>1. /\ ~joined => persisted <= Len(mem)
        /\ answered \ skipped \subseteq Covered(f) \cup (IF joined THEN {} ELSE v)
    BY <1>4 DEF Saved, Waiting
  <2> HIDE DEF f, u
  <2>2. CASE over = {}
    <3>1. /\ ~joined /\ persisted <= Len(mem)
          /\ x \notin answered \/ x \in v => x \in Covered(u)
      BY <1>4, <2>1, <2>2 DEF u, RestFollows
    <3> HIDE DEF v
    <3> QED
      BY <1>4, <2>1, <2>2, <3>1
  <2>3. CASE over # {}
    <3>1. v \cup (answered' \ answered) \subseteq over
      BY <2>3
    <3> HIDE DEF v
    <3> QED
      BY <1>4, <2>1, <3>1
  <2> QED
    BY <2>2, <2>3
<1>5. SUFFICES ASSUME alive', sound'
               PROVE  /\ ~joined' => persisted' <= Len(mem')
                      /\ \A x \in answered' \ skipped' :
                            x \in Covered(disk'[path]) \/ (~joined' /\ x \in Covered(Unsaved(mem)'))
  BY DEF Saved, Waiting
<1>6. CASE Save(ms, compacted, over)
  <2>1. /\ disk' = [disk EXCEPT ![path] = Contents(f, ms, compacted)]
        /\ mem' = ms /\ persisted' = Len(ms)
        /\ sound' = (sound \/ compacted)
        /\ skipped' = IF compacted THEN {} ELSE skipped \cup over
    BY <1>6 DEF Save
  <2>2. disk'[path] = Contents(f, ms, compacted)
    BY <1>1, <2>1
  <2>3. CASE compacted
    <3>1. disk'[path] = ms
      BY <2>2, <2>3 DEF Contents
    <3> QED
      BY <1>2, <2>1, <3>1
  <2>4. CASE ~compacted
    <3>1. sound /\ skipped' = skipped \cup over /\ disk'[path] = Appended(f, u)
      BY <1>5, <2>1, <2>2, <2>4 DEF Contents
    <3>2. ~HasTornTail(f)
      BY <3>1 DEF InStep
    <3> HIDE DEF f, u
    <3>3. Appended(f, u) = f \o u
      BY <1>1, <1>3, <3>2, AppendedPieces
    <3>4. Covered(f \o u) = Covered(f) \cup Covered(u)
      BY <1>1, <1>3, CoveredConcat
    <3>5. \A x \in answered' \ skipped' : x \in Covered(disk'[path])
      BY <1>4, <2>4, <3>1, <3>3, <3>4
    <3> QED
      BY <1>2, <2>1, <3>5
  <2> QED
    BY <2>3, <2>4
<1>7. CASE FailSave(ms, compacted, over)
  <2>1. PICK x \in Leftovers(ms, compacted) :
           /\ disk' = [disk EXCEPT ![path] = x]
           /\ sound' = (sound /\ ~compacted /\ x = disk[path])
    BY <1>7 DEF FailSave
  <2>2. /\ mem' = ms /\ persisted' = persisted
        /\ joined' = (joined \/ over # {}) /\ skipped' = skipped \cup over
    BY <1>7 DEF FailSave
  <2>3. sound /\ ~compacted /\ disk'[path] = f
    BY <1>1, <1>5, <2>1
  <2>4. Unsaved(mem)' = u
    BY <2>2 DEF Unsaved
  <2>5. over = {} => ~joined /\ persisted <= Len(ms)
    BY <1>1, <1>2, <2>3 DEF Saved, RestFollows
  <2> HIDE DEF f, u
  <2>6. ~joined' => persisted' <= Len(mem')
    BY <2>2, <2>5
  <2>7. ASSUME NEW y \in answered' \ skipped'
        PROVE  y \in Covered(disk'[path]) \/ (~joined' /\ y \in Covered(Unsaved(mem)'))
    BY <1>4, <2>2, <2>3, <2>4, <2>5, <2>7
  <2> QED
    BY <2>6, <2>7
<1> QED
  BY <1>6, <1>7

\* Attaching to a file, with its messages or without, puts the two in step.
LEMMA AttachInStep ==
    ASSUME TypeOK, UNCHANGED disk, NEW p \in Paths, NEW ms,
           ms = <<>> \/ ms = Readable(disk[p]),
           Attach(p, disk[p], ms)
    PROVE  /\ path' = p /\ mem' \in Seq(Msg) /\ persisted' \in Nat
           /\ base' \in Nat /\ sound' \in BOOLEAN /\ answered' = {}
           /\ Covered(mem') \subseteq Covered(disk[p])
           /\ sound' => /\ ~HasTornTail(disk[p]) /\ base' <= Len(disk[p])
                        /\ Matches(disk[p], base', mem', persisted')
           /\ Kept(mem', answered')
           /\ joined' = FALSE /\ skipped' = {} /\ persisted' = Len(mem')
<1> DEFINE f == disk[p]
<1>1. f \in Seq(Line)
  BY DEF TypeOK
<1>2. /\ path' = p /\ mem' = ms /\ persisted' = Len(ms)
      /\ base' = (IF ms = <<>> THEN Len(f) ELSE 0)
      /\ sound' = ~HasTornTail(f) /\ answered' = {}
      /\ joined' = FALSE /\ skipped' = {}
  BY DEF Attach
<1> HIDE DEF f
<1>3. Len(f) \in Nat
  BY <1>1, LenProperties
<1>4. ms \in Seq(Msg) /\ Len(ms) \in Nat /\ Covered(ms) \subseteq Covered(f)
  <2>1. CASE ms = <<>>
    BY <2>1, EmptySeq DEF Covered
  <2>2. CASE ms = Readable(f)
    BY <1>1, <2>2, ReadablePieces, LenProperties
  <2> QED
    BY <2>1, <2>2 DEF f
<1>5. Matches(f, base', ms, Len(ms)) /\ base' <= Len(f) /\ base' \in Nat
  <2>1. CASE ms = <<>>
    BY <1>1, <1>2, <1>3, <2>1, MatchesEnds, EmptySeq
  <2>2. CASE ms # <<>>
    <3>1. ms = Readable(f)
      BY <2>2 DEF f
    <3> QED
      BY <1>1, <1>2, <1>3, <2>2, <3>1, MatchesEnds
  <2> QED
    BY <2>1, <2>2
<1>6. Kept(ms, {})
  BY DEF Kept
<1>7. sound' \in BOOLEAN
  BY <1>2 DEF HasTornTail
<1> QED
  BY <1>2, <1>4, <1>5, <1>6, <1>7 DEF f

\* /compact leaves one marker and an acknowledgement, which stand for what the list
\* stood for.
LEMMA CompactedPieces ==
    ASSUME NEW h \in Seq(Msg), NEW A, Kept(h, A)
    PROVE  /\ Compacted(h) \in Seq(Msg)
           /\ Covered(Compacted(h)) \subseteq Covered(h)
           /\ Kept(Compacted(h), A)
<1> DEFINE m == Marker(h)
           e == M("text", {})
           g == <<m>>
           c == Append(g, e)
<1>1. /\ m \in Msg /\ m.k = "marker" /\ m.of = Covered(h)
      /\ e \in Msg /\ e.k = "text" /\ e.of = {}
  <2>1. m \in Msg
    BY CoveredType, MsgType DEF Marker, Kinds, CarrierKinds
  <2>2. e \in Msg
    BY MsgType DEF Kinds, TextKinds
  <2> QED
    BY <2>1, <2>2 DEF Marker, M
<1>2. Compacted(h) = c
  <2>1. CompactAll(h, FALSE) = <<m>> \o <<>>
    BY DEF CompactAll
  <2>2. <<m>> \in Seq(Msg)
    BY <1>1
  <2>3. <<m>> \o <<>> = <<m>>
    BY <2>2, ConcatEmptySeq
  <2> QED
    BY <2>1, <2>3 DEF Compacted
<1> HIDE DEF m, e
<1>3. g \in Seq(Msg) /\ Range(g) = {m} /\ Covered(g) = m.of
  BY <1>1 DEF Range, Covered
<1> HIDE DEF g
<1>4. c \in Seq(Msg) /\ c # <<>> /\ Last(c) = e
  BY <1>1, <1>3, AppendPieces
<1>5. Covered(c) = Covered(g) \cup e.of
  <2>1. e \in Msg
    BY <1>1
  <2> QED
    BY <1>3, <2>1, CoveredAppend DEF c
<1> HIDE DEF c
<1>6. ~Dangling(c)
  BY <1>1, <1>4 DEF Dangling, HasCall, CallKinds
<1>7. Kept(c, A)
  BY <1>1, <1>3, <1>5, <1>6 DEF Kept
<1> QED
  BY <1>1, <1>2, <1>3, <1>4, <1>5, <1>7

\* The invariant holds at first.
LEMMA InvInit == Init => Inv
<1> SUFFICES ASSUME Init PROVE Inv
  OBVIOUS
<1>1. <<>> \in Seq(Msg) /\ <<>> \in Seq(Line) /\ Covered(<<>>) = {}
  BY EmptySeq DEF Covered
<1>2. TypeOK
  <2>1. 1 \in Paths /\ disk \in [Paths -> Seq(Line)]
    BY <1>1, SessionAssumption DEF Init, Paths
  <2>2. home \in [Turns -> 0 .. MaxPaths]
    BY SessionAssumption DEF Init, Turns
  <2>3. 0 \in 0 .. MaxPaths /\ 0 \in 0 .. MaxTurns /\ 0 \in 0 .. MaxBoots /\ 0 \in 0 .. MaxFaults
    BY SessionAssumption
  <2> QED
    BY <1>1, <2>1, <2>2, <2>3 DEF Init, TypeOK
<1>3. \A p \in Paths : disk[p] = <<>>
  BY DEF Init
<1>4. Named /\ InStep /\ Aligned /\ Saved
  BY <1>3 DEF Init, Named, InStep, Aligned, Saved
<1>5. OwnTurns
  BY <1>1, <1>3 DEF Init, OwnTurns
<1>6. Kept(mem, answered) /\ answered \subseteq 1 .. turn
  BY <1>1 DEF Init, Kept
<1> QED
  BY <1>2, <1>4, <1>5, <1>6 DEF Inv

\* A turn whose result is saved, whether or not the save succeeds.
LEMMA InvTurn ==
    ASSUME Inv, Turn
    PROVE  Inv'
<1> DEFINE t == turn + 1
<1>1. /\ alive /\ alive' = alive /\ turn < MaxTurns /\ turn' = t /\ path' = path
      /\ created' = created /\ boots' = boots
      /\ processed' = processed /\ mined' = mined /\ partly' = partly
      /\ home' = [home EXCEPT ![t] = path]
  BY DEF Turn, dream
<1>2. PICK r \in TurnResults(mem, t) :
         /\ \E ms \in Handed(r) :
               LET over == IF joined \/ ms # r.msgs
                           THEN Covered(Unsaved(mem)) \cup {t} ELSE {}
               IN  Save(ms, r.compacted, over) \/ FailSave(ms, r.compacted, over)
         /\ answered' = IF Answers(r) THEN answered \cup {t} ELSE answered
  BY DEF Turn, Answers
<1> DEFINE over(ms) == IF joined \/ ms # r.msgs THEN Covered(Unsaved(mem)) \cup {t} ELSE {}
<1>21. PICK ms \in Handed(r) :
          Save(ms, r.compacted, over(ms)) \/ FailSave(ms, r.compacted, over(ms))
  BY <1>2
<1>3. /\ TypeOK /\ turn \in Nat /\ t \in Turns /\ t \in Nat /\ t > turn
      /\ mem \in Seq(Msg) /\ path \in Paths /\ MaxPaths \in Nat
  BY <1>1, SessionAssumption DEF Inv, TypeOK, Turns
<1>4. /\ ms \in Seq(Msg) /\ r.compacted \in BOOLEAN
      /\ Covered(ms) \subseteq Covered(mem) \cup {t}
      /\ ~r.compacted => Continues(r.msgs, mem)
  BY <1>3, ResultPieces, HandedPieces
<1>41. over(ms) \in SUBSET Turns /\ (over(ms) = {} => ~joined /\ ms = r.msgs)
  <2>1. persisted \in Nat /\ Covered(mem) \subseteq Turns
    BY DEF Inv, TypeOK, OwnTurns, TurnsOf
  <2>2. Covered(Unsaved(mem)) \subseteq Covered(mem)
    BY <1>3, <2>1, UnsavedPieces
  <2> QED
    BY <1>3, <2>1, <2>2
<1>5. /\ disk' \in [Paths -> Seq(Line)]
      /\ \A p \in Paths : p # path => disk'[p] = disk[p]
      /\ Covered(disk'[path]) \subseteq Covered(disk[path]) \cup Covered(ms)
      /\ files \subseteq files' /\ files' \subseteq files \cup {path}
      /\ mem' = ms /\ persisted' \in Nat /\ base' \in Nat
      /\ sound' \in BOOLEAN /\ faults' \in 0 .. MaxFaults
      /\ joined' \in BOOLEAN /\ skipped' \subseteq Turns
      /\ sound' => ~HasTornTail(disk'[path]) /\ base' <= Len(disk'[path])
      /\ sound' /\ skipped' = {} => Matches(disk'[path], base', ms, persisted')
  <2> DEFINE o == over(ms)
  <2>1. o \in SUBSET Turns /\ (~r.compacted /\ o = {} => Continues(ms, mem))
    BY <1>4, <1>41
  <2>2. Save(ms, r.compacted, o) \/ FailSave(ms, r.compacted, o)
    BY <1>21
  <2>3. TypeOK /\ InStep /\ Aligned
    BY DEF Inv
  <2> HIDE DEF o
  <2> QED
    BY <1>1, <1>4, <2>1, <2>2, <2>3, SaveInStep
<1>6. home' \in [Turns -> 0 .. MaxPaths] /\ home'[t] = path
      /\ \A s \in Turns : s # t => home'[s] = home[s]
  BY <1>1, <1>3 DEF TypeOK, Paths
<1>7. answered' \subseteq 1 .. t /\ t \notin answered
  BY <1>2, <1>3 DEF Inv
<1>8. TypeOK'
  <2>1. answered' \subseteq Turns
    <3>1. \A i \in 1 .. t : i \in Turns
      BY <1>3, SessionAssumption DEF Turns
    <3> QED
      BY <1>7, <3>1
  <2>2. turn' \in 0 .. MaxTurns
    BY <1>1, <1>3 DEF Turns
  <2>3. files' \subseteq Paths /\ processed' \subseteq files'
    BY <1>1, <1>3, <1>5 DEF TypeOK
  <2>4. partly' \subseteq files'
    BY <1>1, <1>3, <1>5 DEF TypeOK
  <2> QED
    BY <1>1, <1>3, <1>4, <1>5, <1>6, <2>1, <2>2, <2>3, <2>4 DEF TypeOK
<1>9. Named'
  <2>1. path \in 1 .. created /\ \A p \in Paths : p > created => p \notin files /\ disk[p] = <<>>
    BY <1>1 DEF Inv, Named
  <2>2. ASSUME NEW p \in Paths, p > created PROVE p \notin files' /\ disk'[p] = <<>>
    <3>1. p # path
      <4>1. created \in Nat
        BY <1>3 DEF TypeOK
      <4> QED
        BY <2>1, <2>2, <4>1
    <3> QED
      BY <1>5, <2>1, <2>2, <3>1
  <2> QED
    BY <1>1, <2>1, <2>2 DEF Named
<1>10. /\ Covered(mem') \subseteq TurnsOf(path)'
       /\ \A p \in Paths : Covered(disk'[p]) \subseteq TurnsOf(p)'
  <2>1. \A p \in Paths : TurnsOf(p) \subseteq TurnsOf(p)'
    BY <1>1, <1>3, <1>6 DEF TurnsOf, Turns
  <2>2. t \in TurnsOf(path)'
    BY <1>1, <1>3, <1>6 DEF TurnsOf
  <2>3. \A p \in Paths : Covered(disk[p]) \subseteq TurnsOf(p)
    BY DEF Inv, OwnTurns
  <2>4. Covered(mem) \subseteq TurnsOf(path)
    BY DEF Inv, OwnTurns
  <2>5. TurnsOf(path) \subseteq TurnsOf(path)'
    BY <1>1, <1>3, <1>6 DEF TurnsOf, Turns
  <2>6. Covered(ms) \subseteq TurnsOf(path)'
    BY <1>4, <2>2, <2>4, <2>5
  <2>7. Covered(disk'[path]) \subseteq TurnsOf(path)'
    BY <1>3, <1>5, <2>3, <2>5, <2>6
  <2>8. ASSUME NEW p \in Paths PROVE Covered(disk'[p]) \subseteq TurnsOf(p)'
    <3>1. CASE p = path
      <4>1. TurnsOf(p)' = TurnsOf(path)'
        BY <1>1, <3>1 DEF TurnsOf
      <4> QED
        BY <2>7, <3>1, <4>1
    <3>2. CASE p # path
      BY <1>5, <2>1, <2>3, <3>2
    <3> QED
      BY <3>1, <3>2
  <2> QED
    BY <1>5, <2>6, <2>8
<1>11. OwnTurns'
  BY <1>10 DEF OwnTurns
<1>12. InStep' /\ Aligned'
  <2>1. InStep'
    BY <1>1, <1>5 DEF InStep
  <2>2. alive' /\ sound' /\ skipped' = {} => Matches(disk'[path'], base', mem', persisted')
    BY <1>1, <1>5
  <2>3. Aligned'
    BY <2>2 DEF Aligned, Matches, Gained
  <2> QED
    BY <2>1, <2>3
<1>13. Kept(mem', answered')
  <2>1. t \notin Covered(mem)
    BY <1>3 DEF Inv, OwnTurns, TurnsOf
  <2>2. Kept(mem, answered)
    BY DEF Inv
  <2>3. Kept(r.msgs, IF Answers(r) THEN answered \cup {t} ELSE answered)
    BY <1>3, <1>7, <2>2, ResultKept
  <2>4. Kept(ms, IF Answers(r) THEN answered \cup {t} ELSE answered)
    BY <1>3, <2>3, HandedPieces
  <2> QED
    BY <1>2, <1>5, <2>4
<1>14. answered' \subseteq 1 .. turn'
  BY <1>1, <1>7
<1>15. Saved'
  <2> DEFINE o == over(ms)
  <2>1. o \in SUBSET Turns /\ (o = {} => ~joined /\ ms = r.msgs)
    BY <1>41
  <2>2. o # {} => Covered(Unsaved(mem)) \cup (answered' \ answered) \subseteq o
    BY <1>2
  <2>3. Save(ms, r.compacted, o) \/ FailSave(ms, r.compacted, o)
    BY <1>21
  <2>4. TypeOK /\ InStep /\ Saved /\ persisted \in Nat /\ Kept(mem, answered)
    BY DEF Inv, TypeOK
  <2>5. answered' \subseteq Covered(ms)
    BY <1>5, <1>13 DEF Kept
  <2> HIDE DEF o
  <2>6. ASSUME ~r.compacted, o = {}
        PROVE  ~joined /\ RestFollows(ms)
    <3>1. ~joined /\ ms = r.msgs /\ Continues(ms, mem)
      BY <1>4, <2>1, <2>6
    <3>2. ASSUME persisted <= Len(mem), NEW x \in answered',
                 x \notin answered \/ x \in Covered(Unsaved(mem))
          PROVE  x \in Covered(Unsaved(ms))
      <4>1. \/ x \in answered /\ x \in Covered(SubSeq(mem, persisted + 1, Len(mem)))
            \/ x = t /\ Answers(r)
        BY <1>2, <3>2 DEF Unsaved
      <4>2. x \in Covered(SubSeq(r.msgs, persisted + 1, Len(r.msgs)))
        BY <1>3, <2>4, <2>6, <3>2, <4>1, ResultRest
      <4> QED
        BY <3>1, <4>2 DEF Unsaved
    <3> QED
      BY <3>1, <3>2 DEF Continues, RestFollows
  <2> QED
    BY <1>1, <1>4, <2>1, <2>2, <2>3, <2>4, <2>5, <2>6, SavedKeeps
<1> QED
  BY <1>8, <1>9, <1>11, <1>12, <1>13, <1>14, <1>15 DEF Inv

\* The process is killed while the result of a turn is being saved.
LEMMA InvCrash ==
    ASSUME Inv, CrashInSave
    PROVE  Inv'
<1> DEFINE t == turn + 1
<1>1. /\ alive /\ alive' = FALSE /\ turn < MaxTurns /\ turn' = t /\ path' = path
      /\ faults < MaxFaults /\ faults' = faults + 1
      /\ created' = created /\ boots' = boots
      /\ processed' = processed /\ mined' = mined /\ partly' = partly
      /\ home' = [home EXCEPT ![t] = path] /\ files' = files \cup {path}
      /\ mem' = <<>> /\ persisted' = 0 /\ base' = 0 /\ sound' = TRUE /\ answered' = {}
      /\ joined' = FALSE /\ skipped' = {}
  BY DEF CrashInSave, Stopped, dream
<1>2. PICK r \in TurnResults(mem, t) : \E ms \in Handed(r) :
         \E f \in Leftovers(ms, r.compacted) : disk' = [disk EXCEPT ![path] = f]
  BY DEF CrashInSave
<1>21. PICK ms \in Handed(r) :
          \E f \in Leftovers(ms, r.compacted) : disk' = [disk EXCEPT ![path] = f]
  BY <1>2
<1>3. PICK f \in Leftovers(ms, r.compacted) : disk' = [disk EXCEPT ![path] = f]
  BY <1>21
<1>4. /\ TypeOK /\ turn \in Nat /\ t \in Turns /\ t \in Nat /\ t > turn
      /\ mem \in Seq(Msg) /\ path \in Paths /\ MaxPaths \in Nat /\ MaxFaults \in Nat
      /\ disk \in [Paths -> Seq(Line)] /\ persisted \in Nat
  BY <1>1, SessionAssumption DEF Inv, TypeOK, Turns
<1>5. /\ ms \in Seq(Msg) /\ r.compacted \in BOOLEAN
      /\ Covered(ms) \subseteq Covered(mem) \cup {t}
  BY <1>4, ResultPieces, HandedPieces
<1>6. f \in Seq(Line) /\ Covered(f) \subseteq Covered(disk[path]) \cup Covered(ms)
  BY <1>4, <1>5, WritePieces
<1>7. /\ disk' \in [Paths -> Seq(Line)] /\ disk'[path] = f
      /\ \A p \in Paths : p # path => disk'[p] = disk[p]
  BY <1>3, <1>4, <1>6
<1>8. home' \in [Turns -> 0 .. MaxPaths] /\ home'[t] = path
      /\ \A s \in Turns : s # t => home'[s] = home[s]
  BY <1>1, <1>4 DEF TypeOK, Paths
<1>9. <<>> \in Seq(Msg) /\ Covered(<<>>) = {}
  BY EmptySeq DEF Covered
<1>10. TypeOK'
  <2>1. turn' \in 0 .. MaxTurns /\ faults' \in 0 .. MaxFaults
    BY <1>1, <1>4 DEF Turns, TypeOK
  <2>2. files' \subseteq Paths /\ processed' \subseteq files' /\ partly' \subseteq files'
    BY <1>1, <1>4 DEF TypeOK
  <2> QED
    BY <1>1, <1>4, <1>7, <1>8, <1>9, <2>1, <2>2 DEF TypeOK
<1>11. Named'
  <2>1. path \in 1 .. created /\ \A p \in Paths : p > created => p \notin files /\ disk[p] = <<>>
    BY <1>1 DEF Inv, Named
  <2>2. ASSUME NEW p \in Paths, p > created PROVE p \notin files' /\ disk'[p] = <<>>
    <3>1. p # path
      <4>1. created \in Nat
        BY <1>4 DEF TypeOK
      <4> QED
        BY <2>1, <2>2, <4>1
    <3> QED
      BY <1>1, <1>7, <2>1, <2>2, <3>1
  <2> QED
    BY <1>1, <2>2 DEF Named
<1>12. \A p \in Paths : Covered(disk'[p]) \subseteq TurnsOf(p)'
  <2>1. \A p \in Paths : TurnsOf(p) \subseteq TurnsOf(p)'
    BY <1>1, <1>4, <1>8 DEF TurnsOf, Turns
  <2>2. t \in TurnsOf(path)'
    BY <1>1, <1>4, <1>8 DEF TurnsOf
  <2>3. \A p \in Paths : Covered(disk[p]) \subseteq TurnsOf(p)
    BY DEF Inv, OwnTurns
  <2>4. Covered(mem) \subseteq TurnsOf(path)
    BY DEF Inv, OwnTurns
  <2>5. TurnsOf(path) \subseteq TurnsOf(path)'
    BY <1>1, <1>4, <1>8 DEF TurnsOf, Turns
  <2>6. Covered(f) \subseteq TurnsOf(path)'
    BY <1>4, <1>5, <1>6, <2>2, <2>3, <2>4, <2>5
  <2> SUFFICES ASSUME NEW p \in Paths PROVE Covered(disk'[p]) \subseteq TurnsOf(p)'
    OBVIOUS
  <2>7. CASE p = path
    <3>1. TurnsOf(p)' = TurnsOf(path)'
      BY <1>1, <2>7 DEF TurnsOf
    <3> QED
      BY <1>7, <2>6, <2>7, <3>1
  <2>8. CASE p # path
    BY <1>7, <2>1, <2>3, <2>8
  <2> QED
    BY <2>7, <2>8
<1>13. OwnTurns'
  BY <1>1, <1>9, <1>12 DEF OwnTurns
<1>14. InStep' /\ Aligned' /\ Saved'
  BY <1>1 DEF InStep, Aligned, Saved
<1>15. Kept(mem', answered') /\ answered' \subseteq 1 .. turn'
  BY <1>1 DEF Kept
<1> QED
  BY <1>10, <1>11, <1>13, <1>14, <1>15 DEF Inv

\* /compact.
LEMMA InvCompact ==
    ASSUME Inv, Compact
    PROVE  Inv'
<1> DEFINE c == Compacted(mem)
<1>1. /\ alive /\ alive' = alive /\ turn' = turn /\ path' = path
      /\ created' = created /\ boots' = boots /\ home' = home
      /\ processed' = processed /\ mined' = mined /\ partly' = partly
      /\ answered' = answered
      /\ Save(c, TRUE, {}) \/ FailSave(c, TRUE, {})
  BY DEF Compact, dream
<1>2. TypeOK /\ InStep /\ Aligned /\ Saved /\ mem \in Seq(Msg) /\ path \in Paths /\ Kept(mem, answered)
  BY DEF Inv, TypeOK
<1>3. c \in Seq(Msg) /\ Covered(c) \subseteq Covered(mem) /\ Kept(c, answered)
  BY <1>2, CompactedPieces
<1> HIDE DEF c
<1>4. /\ disk' \in [Paths -> Seq(Line)]
      /\ \A p \in Paths : p # path => disk'[p] = disk[p]
      /\ Covered(disk'[path]) \subseteq Covered(disk[path]) \cup Covered(c)
      /\ files \subseteq files' /\ files' \subseteq files \cup {path}
      /\ mem' = c /\ persisted' \in Nat /\ base' \in Nat
      /\ sound' \in BOOLEAN /\ faults' \in 0 .. MaxFaults
      /\ joined' \in BOOLEAN /\ skipped' \subseteq Turns
      /\ sound' => ~HasTornTail(disk'[path]) /\ base' <= Len(disk'[path])
      /\ sound' /\ skipped' = {} => Matches(disk'[path], base', c, persisted')
  BY <1>1, <1>2, <1>3, SaveInStep
<1>5. TypeOK'
  <2>1. files' \subseteq Paths /\ processed' \subseteq files' /\ partly' \subseteq files'
    BY <1>1, <1>2, <1>4 DEF TypeOK
  <2> QED
    BY <1>1, <1>2, <1>3, <1>4, <2>1 DEF TypeOK
<1>6. Named'
  <2>1. path \in 1 .. created /\ \A p \in Paths : p > created => p \notin files /\ disk[p] = <<>>
    BY <1>1 DEF Inv, Named
  <2>2. ASSUME NEW p \in Paths, p > created PROVE p \notin files' /\ disk'[p] = <<>>
    <3>1. p # path
      <4>1. created \in Nat
        BY <1>2 DEF TypeOK
      <4> QED
        BY <2>1, <2>2, <4>1
    <3> QED
      BY <1>4, <2>1, <2>2, <3>1
  <2> QED
    BY <1>1, <2>1, <2>2 DEF Named
<1>7. OwnTurns'
  <2>1. \A p : TurnsOf(p)' = TurnsOf(p)
    BY <1>1 DEF TurnsOf
  <2>2. /\ \A p \in Paths : Covered(disk[p]) \subseteq TurnsOf(p)
        /\ Covered(mem) \subseteq TurnsOf(path)
    BY DEF Inv, OwnTurns
  <2>3. \A p \in Paths : Covered(disk'[p]) \subseteq TurnsOf(p)
    BY <1>2, <1>3, <1>4, <2>2
  <2> QED
    BY <1>1, <1>3, <1>4, <2>1, <2>2, <2>3 DEF OwnTurns
<1>8. InStep'
  BY <1>1, <1>4 DEF InStep
<1>9. Aligned'
  <2>1. alive' /\ sound' /\ skipped' = {} => Matches(disk'[path'], base', mem', persisted')
    BY <1>1, <1>4
  <2> QED
    BY <2>1 DEF Aligned, Matches, Gained
<1>10. Kept(mem', answered') /\ answered' \subseteq 1 .. turn'
  BY <1>1, <1>3, <1>4 DEF Inv
<1>11. Saved'
  <2>1. answered' \subseteq Covered(c)
    BY <1>1, <1>3 DEF Kept
  <2> DEFINE over == {}
             all  == TRUE
  <2>2. over \in SUBSET Turns /\ over = {} /\ all \in BOOLEAN /\ all
    OBVIOUS
  <2>3. Save(c, all, over) \/ FailSave(c, all, over)
    BY <1>1
  <2> HIDE DEF over, all
  <2> QED
    BY <1>1, <1>2, <1>3, <2>1, <2>2, <2>3, SavedKeeps
<1> QED
  BY <1>5, <1>6, <1>7, <1>8, <1>9, <1>10, <1>11 DEF Inv

\* The conversation is bound to another file, or to the same one anew.
LEMMA InvAttach ==
    ASSUME Inv, UNCHANGED <<disk, files, turn, faults, home, processed, mined, partly>>,
           alive' = TRUE, boots' \in 0 .. MaxBoots,
           created' \in 0 .. MaxPaths, created <= created',
           NEW p \in Paths, p <= created',
           NEW ms, ms = <<>> \/ ms = Readable(disk[p]),
           Attach(p, disk[p], ms)
    PROVE  Inv'
<1>1. TypeOK
  BY DEF Inv
<1>2. /\ path' = p /\ mem' \in Seq(Msg) /\ persisted' \in Nat
      /\ base' \in Nat /\ sound' \in BOOLEAN /\ answered' = {}
      /\ Covered(mem') \subseteq Covered(disk[p])
      /\ sound' => /\ ~HasTornTail(disk[p]) /\ base' <= Len(disk[p])
                   /\ Matches(disk[p], base', mem', persisted')
      /\ Kept(mem', answered')
      /\ joined' = FALSE /\ skipped' = {} /\ persisted' = Len(mem')
  BY <1>1, AttachInStep
<1>3. TypeOK'
  BY <1>1, <1>2 DEF TypeOK
<1>4. Named'
  <2>1. p \in 1 .. created'
    BY <1>1 DEF Paths, TypeOK
  <2>2. ASSUME NEW q \in Paths, q > created' PROVE q \notin files' /\ disk'[q] = <<>>
    <3>1. q > created
      <4>1. q \in Nat /\ created \in Nat /\ created' \in Nat
        BY <1>1, SessionAssumption DEF TypeOK, Paths
      <4> QED
        BY <2>2, <4>1
    <3> QED
      BY <3>1 DEF Inv, Named
  <2> QED
    BY <1>2, <2>1, <2>2 DEF Named
<1>5. OwnTurns'
  <2>1. \A q : TurnsOf(q)' = TurnsOf(q)
    BY DEF TurnsOf
  <2>2. \A q \in Paths : Covered(disk[q]) \subseteq TurnsOf(q)
    BY DEF Inv, OwnTurns
  <2> QED
    BY <1>2, <2>1, <2>2 DEF OwnTurns
<1>6. InStep'
  BY <1>2 DEF InStep
<1>7. Aligned'
  <2>1. alive' /\ sound' => Matches(disk'[path'], base', mem', persisted')
    BY <1>2
  <2> QED
    BY <2>1 DEF Aligned, Matches, Gained
<1>8. Saved'
  BY <1>2 DEF Saved
<1> QED
  BY <1>2, <1>3, <1>4, <1>5, <1>6, <1>7, <1>8 DEF Inv

\* What the miner is shown of a file is in it.
LEMMA WindowCovered ==
    ASSUME NEW p
    PROVE  /\ Window(p) \subseteq Covered(Readable(disk[p]))
           /\ Readable(disk[p]) = <<>> => Window(p) = {}
<1> DEFINE ms == Readable(disk[p])
<1>1. Window(p) = UNION {ms[i].of : i \in {j \in DOMAIN ms : InWindow(ms, j)}}
  BY DEF Window
<1>2. Covered(ms) = UNION {ms[i].of : i \in DOMAIN ms}
  BY DEF Covered
<1>3. ms = <<>> => DOMAIN ms = {}
  OBVIOUS
<1> HIDE DEF ms
<1> QED
  BY <1>1, <1>2, <1>3 DEF ms

\* Nothing that the properties are about changes.
LEMMA InvStays ==
    ASSUME Inv, UNCHANGED <<alive, path, mem, persisted, files, disk, created, boots, faults,
                            ghosts>>,
           turn' \in 0 .. MaxTurns, turn <= turn',
           processed' \subseteq files, partly' \subseteq files, mined' \subseteq Turns
    PROVE  Inv'
<1>1. /\ TypeOK /\ turn \in Nat /\ turn' \in Nat
      /\ UNCHANGED <<alive, path, mem, persisted, files, disk, created, boots, faults,
                     base, sound, answered, joined, skipped, home>>
  BY SessionAssumption DEF Inv, TypeOK, ghosts
<1>2. TypeOK'
  BY <1>1 DEF TypeOK
<1>3. \A p : TurnsOf(p) \subseteq TurnsOf(p)'
  BY <1>1, SessionAssumption DEF TurnsOf, Turns
<1>4. OwnTurns'
  BY <1>1, <1>3 DEF Inv, OwnTurns
<1>5. Named' /\ InStep' /\ Aligned'
  BY <1>1 DEF Inv, Named, InStep, Aligned
<1>6. Saved'
  BY <1>1 DEF Inv, Saved, Waiting, Unsaved
<1>7. Kept(mem', answered') /\ answered' \subseteq 1 .. turn'
  BY <1>1 DEF Inv
<1> QED
  BY <1>2, <1>4, <1>5, <1>6, <1>7 DEF Inv

\* The invariant is inductive.
LEMMA InvNext == Inv /\ [Next]_vars => Inv'
<1> SUFFICES ASSUME Inv, [Next]_vars PROVE Inv'
  OBVIOUS
<1>1. TypeOK /\ created \in Nat /\ path \in Paths /\ disk \in [Paths -> Seq(Line)]
  BY DEF Inv, TypeOK
<1>2. CASE Turn
  BY <1>2, InvTurn
<1>3. CASE TurnRaises
  <2>1. /\ turn' = turn + 1 /\ turn < MaxTurns /\ turn \in Nat
        /\ UNCHANGED <<alive, path, mem, persisted, files, disk, created, boots, faults,
                       ghosts, processed, mined, partly>>
    BY <1>1, <1>3, SessionAssumption DEF TurnRaises, dream, TypeOK
  <2>2. turn' \in 0 .. MaxTurns /\ turn <= turn'
    BY <2>1, SessionAssumption
  <2>3. processed' \subseteq files /\ partly' \subseteq files /\ mined' \subseteq Turns
    BY <1>1, <2>1 DEF TypeOK
  <2> QED
    BY <2>1, <2>2, <2>3, InvStays
<1>4. CASE New
  <2>1. /\ alive' = TRUE /\ created' = created + 1 /\ created < MaxPaths
        /\ Attach(created', <<>>, <<>>)
        /\ UNCHANGED <<disk, files, turn, faults, home, processed, mined, partly>>
        /\ boots' = boots
    BY <1>4 DEF New, dream, Inv, TypeOK
  <2>2. created' \in Paths /\ created' \in 0 .. MaxPaths /\ created <= created' /\ created' > created
    BY <1>1, <2>1, SessionAssumption DEF Paths
  <2>3. disk[created'] = <<>>
    BY <2>2 DEF Inv, Named
  <2>4. boots' \in 0 .. MaxBoots
    BY <1>1, <2>1 DEF TypeOK
  <2> QED
    BY <1>1, <2>1, <2>2, <2>3, <2>4, InvAttach
<1>5. CASE Clear
  <2>1. /\ alive' = TRUE /\ created' = created /\ boots' = boots
        /\ Attach(path, disk[path], <<>>)
        /\ UNCHANGED <<disk, files, turn, faults, home, processed, mined, partly>>
    BY <1>5 DEF Clear, dream, bounds, Inv, TypeOK
  <2>2. path <= created /\ created' \in 0 .. MaxPaths /\ boots' \in 0 .. MaxBoots
    BY <1>1, <1>5, <2>1 DEF Inv, Named, TypeOK, Clear
  <2> QED
    BY <1>1, <2>1, <2>2, InvAttach
<1>6. CASE Compact
  BY <1>6, InvCompact
<1>7. CASE \E p \in Paths : Resume(p)
  <2>1. PICK p \in Paths : Resume(p)
    BY <1>7
  <2>2. /\ alive' = TRUE /\ created' = created /\ boots' = boots /\ p \in files
        /\ Attach(p, disk[p], Readable(disk[p]))
        /\ UNCHANGED <<disk, files, turn, faults, home, processed, mined, partly>>
    BY <2>1 DEF Resume, dream, bounds, Inv, TypeOK
  <2>3. p <= created /\ created' \in 0 .. MaxPaths /\ boots' \in 0 .. MaxBoots
    <3>1. ~(p > created)
      BY <2>2 DEF Inv, Named
    <3> QED
      BY <1>1, <2>2, <3>1 DEF TypeOK, Paths
  <2> QED
    BY <1>1, <2>2, <2>3, InvAttach
<1>8. CASE Boot
  <2>1. /\ alive' = TRUE /\ boots' \in 0 .. MaxBoots
        /\ UNCHANGED <<disk, files, turn, faults, home, processed, mined, partly>>
    BY <1>1, <1>8, SessionAssumption DEF Boot, dream, TypeOK
  <2>2. CASE files # {} /\ Attach(Max(files), disk[Max(files)], <<>>) /\ created' = created
    <3>1. Max(files) \in files
      <4>1. files \in SUBSET (1 .. MaxPaths) /\ MaxPaths \in Nat
        BY <1>1, SessionAssumption DEF TypeOK, Paths
      <4> QED
        BY <2>2, <4>1, MaxIsOne
    <3>2. Max(files) \in Paths
      BY <1>1, <3>1 DEF TypeOK
    <3>3. Max(files) <= created /\ created' \in 0 .. MaxPaths
      <4>1. ~(Max(files) > created)
        BY <3>1, <3>2 DEF Inv, Named
      <4> QED
        BY <1>1, <2>2, <3>2, <4>1 DEF TypeOK, Paths
    <3> QED
      BY <1>1, <2>1, <2>2, <3>2, <3>3, InvAttach
  <2>3. CASE created < MaxPaths /\ created' = created + 1 /\ Attach(created', <<>>, <<>>)
    <3>1. created' \in Paths /\ created' \in 0 .. MaxPaths /\ created <= created' /\ created' > created
      BY <1>1, <2>3, SessionAssumption DEF Paths
    <3>2. disk[created'] = <<>>
      BY <3>1 DEF Inv, Named
    <3> QED
      BY <1>1, <2>1, <2>3, <3>1, <3>2, InvAttach
  <2> QED
    BY <1>8, <2>2, <2>3 DEF Boot
<1>9. CASE Stop
  <2>1. /\ alive' = FALSE /\ mem' = <<>> /\ persisted' = 0 /\ base' = 0
        /\ sound' = TRUE /\ answered' = {} /\ joined' = FALSE /\ skipped' = {}
        /\ UNCHANGED <<path, files, disk, created, turn, boots, faults, home, processed, mined, partly>>
    BY <1>9 DEF Stop, Stopped, bounds, dream
  <2>2. <<>> \in Seq(Msg) /\ Covered(<<>>) = {}
    BY EmptySeq DEF Covered
  <2>3. TypeOK'
    BY <1>1, <2>1, <2>2 DEF TypeOK
  <2>4. \A p : TurnsOf(p)' = TurnsOf(p)
    BY <2>1 DEF TurnsOf
  <2>5. OwnTurns'
    BY <2>1, <2>2, <2>4 DEF Inv, OwnTurns
  <2>6. Named' /\ InStep' /\ Aligned' /\ Saved'
    BY <2>1 DEF Inv, Named, InStep, Aligned, Saved
  <2>7. Kept(mem', answered') /\ answered' \subseteq 1 .. turn'
    BY <2>1 DEF Kept
  <2> QED
    BY <2>3, <2>5, <2>6, <2>7 DEF Inv
<1>10. CASE CrashInSave
  BY <1>10, InvCrash
<1>11. CASE \E known \in {processed, {}} : \E S \in SUBSET (Recent \ known) :
              \E short \in SUBSET S : Mine(known, S, short)
  <2>1. PICK known \in {processed, {}} : \E S \in SUBSET (Recent \ known) :
            \E short \in SUBSET S : Mine(known, S, short)
    BY <1>11
  <2>11. PICK S \in SUBSET (Recent \ known) : \E short \in SUBSET S : Mine(known, S, short)
    BY <2>1
  <2>2. PICK short \in SUBSET S : Mine(known, S, short)
    BY <2>11
  <2>3. /\ processed' = Marked(known, S) /\ mined' = Mined(S \ short) /\ partly' = short
        /\ UNCHANGED <<alive, path, mem, persisted, files, disk, created, turn, boots,
                       faults, ghosts>>
    BY <2>2 DEF Mine, bounds
  <2>4. S \subseteq files /\ short \subseteq files /\ processed' \subseteq files
    BY <1>1, <2>1, <2>2, <2>3 DEF Marked, Recent, Unreadable, TypeOK
  <2>5. mined' \subseteq Turns
    <3>1. ASSUME NEW p \in S PROVE Window(p) \subseteq Turns
      <4>1. p \in Paths /\ disk[p] \in Seq(Line)
        BY <1>1, <2>4 DEF TypeOK
      <4>2. Covered(Readable(disk[p])) = Covered(disk[p])
        BY <4>1, ReadablePieces
      <4>3. Covered(disk[p]) \subseteq TurnsOf(p)
        BY <4>1 DEF Inv, OwnTurns
      <4>4. Window(p) \subseteq Covered(Readable(disk[p]))
        BY WindowCovered
      <4> QED
        BY <4>2, <4>3, <4>4 DEF TurnsOf
    <3> QED
      BY <2>3, <3>1 DEF Mined
  <2>6. turn' \in 0 .. MaxTurns /\ turn <= turn'
    BY <1>1, <2>3, SessionAssumption DEF TypeOK
  <2> QED
    BY <2>3, <2>4, <2>5, <2>6, InvStays
<1>12. CASE UNCHANGED vars
  <2>1. UNCHANGED <<alive, path, mem, persisted, files, disk, created, turn, boots,
                    faults, ghosts, processed, mined, partly>>
    BY <1>12 DEF vars, bounds, dream
  <2>2. turn' \in 0 .. MaxTurns /\ turn <= turn'
    BY <1>1, <2>1, SessionAssumption DEF TypeOK
  <2>3. processed' \subseteq files /\ partly' \subseteq files /\ mined' \subseteq Turns
    BY <1>1, <2>1 DEF TypeOK
  <2> QED
    BY <2>1, <2>2, <2>3, InvStays
<1> QED
  BY <1>2, <1>3, <1>4, <1>5, <1>6, <1>7, <1>8, <1>9, <1>10, <1>11, <1>12 DEF Next

-----------------------------------------------------------------------------
(***************************************************************************)
(* Theorems.                                                               *)
(***************************************************************************)
\* The invariant holds in every reachable state.
LEMMA Invariant == Spec => []Inv
<1>1. Init => Inv
  BY InvInit
<1>2. Inv /\ [Next]_vars => Inv'
  BY InvNext
<1> QED
  BY <1>1, <1>2, PTL DEF Spec

\* The variables keep to their types, through every command, save, fault and
\* restart.
THEOREM SessionTypeCorrect == Spec => []TypeOK
<1>1. Inv => TypeOK
  BY DEF Inv
<1> QED
  BY <1>1, Invariant, PTL

\* The count the REPL saves by is right: what the file gained is the start of the
\* list, through interrupts, failed saves, compactions, commands and restarts.
THEOREM SessionAligned == Spec => []Aligned
<1>1. Inv => Aligned
  BY DEF Inv
<1> QED
  BY <1>1, Invariant, PTL

\* No transcript has a message of a turn taken in another session, torn and
\* malformed lines included.
THEOREM SessionOwnTurnsOnly == Spec => []OwnTurnsOnly
<1>1. Inv => OwnTurnsOnly
  BY DEF Inv, OwnTurns, OwnTurnsOnly, TurnsOf
<1> QED
  BY <1>1, Invariant, PTL

\* Every turn that was answered is in the transcript once nothing waits to be
\* saved, itself or behind a marker, but for the turns skipped when the list came
\* back joined.
THEOREM SessionAnsweredOnDisk == Spec => []AnsweredOnDisk
<1>1. Inv => AnsweredOnDisk
  <2> SUFFICES ASSUME Inv, alive, sound, persisted = Len(mem), NEW t \in answered \ skipped
               PROVE  t \in Covered(Readable(disk[path]))
    BY DEF AnsweredOnDisk
  <2>1. mem \in Seq(Msg) /\ path \in Paths /\ disk[path] \in Seq(Line)
    BY DEF Inv, TypeOK
  <2>2. Covered(Readable(disk[path])) = Covered(disk[path])
    BY <2>1, ReadablePieces
  <2>3. t \in Covered(disk[path]) \/ t \in Covered(Unsaved(mem))
    BY DEF Inv, Saved, Waiting
  <2>4. Covered(Unsaved(mem)) = {}
    <3>1. Len(mem) \in Nat
      BY <2>1, LenProperties
    <3>2. Unsaved(mem) = <<>>
      BY <3>1, SubSeqEmpty DEF Unsaved
    <3> QED
      BY <3>2 DEF Covered
  <2> QED
    BY <2>2, <2>3, <2>4
<1> QED
  BY <1>1, Invariant, PTL

\* A file is marked as processed only when a miner was shown the window of it, or
\* part of it, whichever miners fail and whichever cycles are cut short.
THEOREM SessionMarkedWhenMined == Spec => MarkedWhenMined
<1> DEFINE Fine == \A p \in (processed' \ processed) \ partly' : Window(p) \subseteq mined'
<1>1. [Next]_vars => [Fine]_vars
  <2> SUFFICES ASSUME Next PROVE Fine
    OBVIOUS
  <2>1. CASE \E known \in {processed, {}} : \E S \in SUBSET (Recent \ known) :
                \E short \in SUBSET S : Mine(known, S, short)
    <3>1. PICK known \in {processed, {}} : \E S \in SUBSET (Recent \ known) :
              \E short \in SUBSET S : Mine(known, S, short)
      BY <2>1
    <3>11. PICK S \in SUBSET (Recent \ known) : \E short \in SUBSET S : Mine(known, S, short)
      BY <3>1
    <3>2. PICK short \in SUBSET S : Mine(known, S, short)
      BY <3>11
    <3>3. processed' = Marked(known, S) /\ mined' = Mined(S \ short) /\ partly' = short
      BY <3>2 DEF Mine
    <3>4. \A p \in S \ short : Window(p) \subseteq mined'
      BY <3>3 DEF Mined
    <3>5. \A p \in Unreadable(known) : Window(p) = {}
      BY WindowCovered DEF Unreadable
    <3>6. processed' \ processed \subseteq S \cup Unreadable(known)
      BY <3>1, <3>3 DEF Marked
    <3> QED
      BY <3>3, <3>4, <3>5, <3>6
  <2>2. CASE processed' = processed
    BY <2>2
  <2> QED
    BY <2>1, <2>2 DEF Next, Turn, TurnRaises, New, Clear, Compact, Resume, Boot, Stop,
                      CrashInSave, dream
<1> QED
  BY <1>1, PTL DEF Spec, MarkedWhenMined

=============================================================================
