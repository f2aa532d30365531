-------------------------- MODULE HistoryTheorems --------------------------
(***************************************************************************)
(* What the operations of History preserve, for lists of any length.       *)
(***************************************************************************)
EXTENDS History, SequenceTheorems, WellFoundedInduction, TLAPS

-----------------------------------------------------------------------------
(***************************************************************************)
(* Picking from lists.                                                     *)
(***************************************************************************)
\* Induction up to a number, by the set of the numbers that are good.
LEMMA UpTo ==
    ASSUME NEW n \in Nat, NEW P, 0 \in P,
           \A i \in 1 .. n : i - 1 \in P => i \in P
    PROVE  n \in P /\ \A i \in 0 .. n : i \in P
<1> DEFINE bad == {i \in 0 .. n : i \notin P}
<1> SUFFICES ASSUME bad # {} PROVE FALSE
  <2>1. n \in 0 .. n
    OBVIOUS
  <2> QED
    BY <2>1
<1>1. bad \subseteq Nat
  OBVIOUS
<1>2. PICK x \in bad : \A y \in bad : ~(<<y, x>> \in OpToRel(<, Nat))
  BY <1>1, NatLessThanWellFounded, WFMin
<1>3. \A y \in Nat : y < x => <<y, x>> \in OpToRel(<, Nat)
  BY <1>1, Zenon DEF OpToRel
<1>4. x \in 1 .. n
  OBVIOUS
<1>5. x - 1 \in Nat /\ x - 1 < x
  BY <1>4
<1>6. x - 1 \notin bad
  BY <1>2, <1>3, <1>5, Zenon
<1> QED
  BY <1>4, <1>6

\* What Among makes of the first n elements of a list, for every n.
Picks(run, T, s, S) ==
    /\ run \in [0 .. Len(s) -> Seq(T)]
    /\ run[0] = <<>>
    /\ \A i \in 1 .. Len(s) :
          run[i] = IF s[i] \in S THEN Append(run[i - 1], s[i]) ELSE run[i - 1]
    /\ Among(s, S) = run[Len(s)]

\* What Among makes of the first elements of a list, one by one.
LEMMA AmongSteps ==
    ASSUME NEW T, NEW s \in Seq(T), NEW S
    PROVE  \E run : Picks(run, T, s, S)
<1> DEFINE Step(g, i) == IF i = 0 THEN <<>>
                         ELSE IF s[i] \in S THEN Append(g[i - 1], s[i]) ELSE g[i - 1]
           Runs(g, n) == g = [i \in 0 .. n |-> Step(g, i)]
           good == {n \in 0 .. Len(s) : \E g : Runs(g, n)}
<1>1. Len(s) \in Nat
  BY LenProperties
<1>2. 0 \in good
  <2>1. Runs([i \in 0 .. 0 |-> <<>>], 0)
    OBVIOUS
  <2>2. 0 \in 0 .. Len(s)
    BY <1>1
  <2> HIDE DEF Runs
  <2> QED
    BY <2>1, <2>2
<1>3. ASSUME NEW n \in 1 .. Len(s), n - 1 \in good
      PROVE  n \in good
  <2>1. PICK g : Runs(g, n - 1)
    BY <1>3
  <2> DEFINE f == [i \in 0 .. n |-> IF i = n THEN Step(g, n) ELSE g[i]]
  <2>2. ASSUME NEW i \in 0 .. n PROVE f[i] = Step(f, i)
    <3>1. CASE i = n
      <4>1. f[i - 1] = g[i - 1]
        BY <3>1, <1>1
      <4> QED
        BY <3>1, <4>1, <1>1
    <3>2. CASE i # n
      <4>1. f[i] = g[i] /\ i \in 0 .. n - 1
        BY <3>2, <1>1
      <4>2. i # 0 => f[i - 1] = g[i - 1]
        BY <3>2, <1>1
      <4>3. g[i] = Step(g, i)
        BY <2>1, <4>1
      <4> QED
        BY <4>1, <4>2, <4>3
    <3> QED
      BY <3>1, <3>2
  <2>3. Runs(f, n)
    <3> HIDE DEF Step
    <3> QED
      BY <2>2
  <2>4. n \in 0 .. Len(s)
    BY <1>1
  <2> HIDE DEF Runs, f
  <2> QED
    BY <2>3, <2>4
<1>4. \E g : Runs(g, Len(s))
  <2> HIDE DEF good
  <2>1. Len(s) \in good
    BY <1>1, <1>2, <1>3, UpTo
  <2> QED
    BY <2>1 DEF good
<1> DEFINE run == CHOOSE g : Runs(g, Len(s))
<1>5. Runs(run, Len(s))
  <2> HIDE DEF Runs
  <2> QED
    BY <1>4
<1>6. Among(s, S) = run[Len(s)]
  BY DEF Among
<1>7. run[0] = <<>> /\ \A i \in 1 .. Len(s) : run[i] = Step(run, i)
  <2> HIDE DEF run
  <2>1. \A i \in 0 .. Len(s) : run[i] = Step(run, i)
    <3> HIDE DEF Step
    <3> QED
      BY <1>5
  <2>2. run[0] = Step(run, 0)
    BY <1>1, <2>1
  <2> QED
    BY <1>1, <2>1, <2>2
<1>8. \A i \in 0 .. Len(s) : run[i] \in Seq(T)
  <2> DEFINE typed == {i \in 0 .. Len(s) : run[i] \in Seq(T)}
  <2> HIDE DEF run
  <2>1. 0 \in typed
    <3>1. run[0] \in Seq(T)
      BY <1>7, EmptySeq, Zenon
    <3> QED
      BY <1>1, <3>1
  <2>2. ASSUME NEW i \in 1 .. Len(s), i - 1 \in typed
        PROVE  i \in typed
    <3>1. s[i] \in T /\ run[i - 1] \in Seq(T)
      BY <2>2, ElementOfSeq
    <3>2. Append(run[i - 1], s[i]) \in Seq(T)
      BY <3>1, AppendProperties
    <3>3. run[i] = IF s[i] \in S THEN Append(run[i - 1], s[i]) ELSE run[i - 1]
      BY <1>1, <1>7
    <3>4. run[i] \in Seq(T)
      BY <3>1, <3>2, <3>3, Zenon
    <3> QED
      BY <1>1, <3>4
  <2> HIDE DEF typed
  <2>3. \A i \in 0 .. Len(s) : i \in typed
    BY <1>1, <2>1, <2>2, UpTo
  <2> QED
    BY <2>3 DEF typed
<1>9. run \in [0 .. Len(s) -> Seq(T)]
  <2> HIDE DEF run, Step
  <2> QED
    BY <1>5, <1>8
<1>10. \A i \in 1 .. Len(s) :
          run[i] = IF s[i] \in S THEN Append(run[i - 1], s[i]) ELSE run[i - 1]
  <2> HIDE DEF run
  <2> QED
    BY <1>1, <1>7
<1> HIDE DEF run
<1>11. Picks(run, T, s, S)
  BY <1>6, <1>7, <1>9, <1>10 DEF Picks
<1> QED
  BY <1>11

\* Among picks from a list: its elements are those of the list that are in S.
LEMMA AmongPicks ==
    ASSUME NEW T, NEW s \in Seq(T), NEW S
    PROVE  /\ Among(s, S) \in Seq(T)
           /\ \A i \in 1 .. Len(Among(s, S)) :
                 Among(s, S)[i] \in S /\ \E j \in 1 .. Len(s) : Among(s, S)[i] = s[j]
           /\ \A j \in 1 .. Len(s) :
                 s[j] \in S => \E i \in 1 .. Len(Among(s, S)) : Among(s, S)[i] = s[j]
<1>1. Len(s) \in Nat
  BY LenProperties
<1>2. PICK run : Picks(run, T, s, S)
  BY AmongSteps
<1> USE DEF Picks
<1> DEFINE Picked(r, n) == /\ \A i \in 1 .. Len(r) :
                                 r[i] \in S /\ \E j \in 1 .. n : r[i] = s[j]
                           /\ \A j \in 1 .. n :
                                 s[j] \in S => \E i \in 1 .. Len(r) : r[i] = s[j]
           good == {n \in 0 .. Len(s) : Picked(run[n], n)}
<1>3. 0 \in good
  <2>1. Len(run[0]) = 0
    BY <1>2, EmptySeq
  <2>2. Picked(run[0], 0)
    BY <2>1
  <2> HIDE DEF Picked
  <2> QED
    BY <1>1, <2>2
<1>4. ASSUME NEW n \in 1 .. Len(s), n - 1 \in good
      PROVE  n \in good
  <2> DEFINE r == run[n - 1]
             q == run[n]
  <2>1. r \in Seq(T) /\ s[n] \in T /\ n \in Nat
    <3>1. n - 1 \in 0 .. Len(s) /\ n \in Nat
      BY <1>1
    <3>2. r \in Seq(T)
      BY <1>2, <3>1
    <3> QED
      BY <3>1, <3>2, ElementOfSeq
  <2>2. Len(r) \in Nat
    BY <2>1, LenProperties
  <2>3. q = IF s[n] \in S THEN Append(r, s[n]) ELSE r
    BY <1>2
  <2>4. Picked(r, n - 1)
    BY <1>4
  <2>5. Picked(q, n)
    <3> HIDE DEF r, q
    <3>1. CASE s[n] \in S
      <4>1. /\ Len(q) = Len(r) + 1
            /\ \A i \in 1 .. Len(r) : q[i] = r[i]
            /\ q[Len(r) + 1] = s[n]
        BY <2>1, <2>3, <3>1, AppendProperties
      <4>2. ASSUME NEW i \in 1 .. Len(q)
            PROVE  q[i] \in S /\ \E j \in 1 .. n : q[i] = s[j]
        <5>1. CASE i = Len(r) + 1
          <6>1. n \in 1 .. n
            BY <2>1
          <6> QED
            BY <3>1, <4>1, <5>1, <6>1
        <5>2. CASE i # Len(r) + 1
          <6>1. i \in 1 .. Len(r)
            BY <2>2, <4>1, <5>2
          <6>2. r[i] \in S /\ \E j \in 1 .. n - 1 : r[i] = s[j]
            BY <2>4, <6>1
          <6>3. \A j \in 1 .. n - 1 : j \in 1 .. n
            BY <2>1
          <6> QED
            BY <4>1, <6>1, <6>2, <6>3
        <5> QED
          BY <5>1, <5>2
      <4>3. ASSUME NEW j \in 1 .. n, s[j] \in S
            PROVE  \E i \in 1 .. Len(q) : q[i] = s[j]
        <5>1. CASE j = n
          <6>1. Len(r) + 1 \in 1 .. Len(q)
            BY <2>2, <4>1
          <6> QED
            BY <4>1, <5>1, <6>1
        <5>2. CASE j # n
          <6>1. j \in 1 .. n - 1
            BY <2>1, <5>2
          <6>2. PICK i \in 1 .. Len(r) : r[i] = s[j]
            BY <2>4, <4>3, <6>1
          <6>3. i \in 1 .. Len(q)
            BY <2>2, <4>1
          <6> QED
            BY <4>1, <6>2, <6>3
        <5> QED
          BY <5>1, <5>2
      <4> QED
        BY <4>2, <4>3
    <3>2. CASE s[n] \notin S
      <4>1. q = r
        BY <2>3, <3>2
      <4>2. \A j \in 1 .. n - 1 : j \in 1 .. n
        BY <2>1
      <4>3. \A j \in 1 .. n : s[j] \in S => j \in 1 .. n - 1
        BY <2>1, <3>2
      <4> QED
        BY <2>4, <4>1, <4>2, <4>3
    <3> QED
      BY <3>1, <3>2
  <2> HIDE DEF Picked
  <2> QED
    BY <1>1, <2>5
<1>5. Len(s) \in good
  <2> HIDE DEF good
  <2> QED
    BY <1>1, <1>3, <1>4, UpTo
<1>6. Picked(Among(s, S), Len(s)) /\ Among(s, S) \in Seq(T)
  <2> HIDE DEF Picked
  <2> QED
    BY <1>1, <1>2, <1>5
<1> QED
  BY <1>6

\* Among keeps the order of the list.
LEMMA AmongInOrder ==
    ASSUME NEW T, NEW s \in Seq(T), NEW S,
           NEW a \in 1 .. Len(Among(s, S)), NEW b \in 1 .. Len(Among(s, S)), a < b
    PROVE  \E i, j \in 1 .. Len(s) :
              i < j /\ Among(s, S)[a] = s[i] /\ Among(s, S)[b] = s[j]
<1>1. Len(s) \in Nat
  BY LenProperties
<1>2. PICK run : Picks(run, T, s, S)
  BY AmongSteps
<1> USE DEF Picks
<1> DEFINE Placed(r, n) == \A x \in 1 .. Len(r) : \E i \in 1 .. n : r[x] = s[i]
           Ordered(r, n) == \A x, y \in 1 .. Len(r) : x < y =>
                               \E i, j \in 1 .. n : i < j /\ r[x] = s[i] /\ r[y] = s[j]
           good == {n \in 0 .. Len(s) : Placed(run[n], n) /\ Ordered(run[n], n)}
<1>3. 0 \in good
  <2>1. Len(run[0]) = 0
    BY <1>2, EmptySeq
  <2>2. Placed(run[0], 0) /\ Ordered(run[0], 0)
    BY <2>1
  <2> HIDE DEF Placed, Ordered
  <2> QED
    BY <1>1, <2>2
<1>4. ASSUME NEW n \in 1 .. Len(s), n - 1 \in good
      PROVE  n \in good
  <2> DEFINE r == run[n - 1]
             q == run[n]
  <2>1. r \in Seq(T) /\ s[n] \in T /\ n \in Nat
    <3>1. n - 1 \in 0 .. Len(s) /\ n \in Nat
      BY <1>1
    <3>2. r \in Seq(T)
      BY <1>2, <3>1
    <3> QED
      BY <3>1, <3>2, ElementOfSeq
  <2>2. Len(r) \in Nat
    BY <2>1, LenProperties
  <2>3. q = IF s[n] \in S THEN Append(r, s[n]) ELSE r
    BY <1>2
  <2>4. Placed(r, n - 1) /\ Ordered(r, n - 1)
    BY <1>4
  <2>5. n \in 1 .. n /\ \A i \in 1 .. n - 1 : i \in 1 .. n /\ i < n
    BY <2>1
  <2>6. Placed(q, n) /\ Ordered(q, n)
    <3> HIDE DEF r, q
    <3>1. CASE s[n] \in S
      <4>1. /\ Len(q) = Len(r) + 1
            /\ \A i \in 1 .. Len(r) : q[i] = r[i]
            /\ q[Len(r) + 1] = s[n]
        BY <2>1, <2>3, <3>1, AppendProperties
      <4>2. \A x \in 1 .. Len(q) : x = Len(r) + 1 \/ x \in 1 .. Len(r)
        BY <2>2, <4>1
      <4>3. Placed(q, n)
        BY <2>4, <2>5, <4>1, <4>2
      <4>4. ASSUME NEW x \in 1 .. Len(q), NEW y \in 1 .. Len(q), x < y
            PROVE  \E i, j \in 1 .. n : i < j /\ q[x] = s[i] /\ q[y] = s[j]
        <5>1. x \in 1 .. Len(r)
          BY <2>2, <4>1, <4>4
        <5>2. CASE y = Len(r) + 1
          <6>1. PICK i \in 1 .. n - 1 : r[x] = s[i]
            BY <2>4, <5>1
          <6> QED
            BY <2>5, <4>1, <5>1, <5>2, <6>1
        <5>3. CASE y \in 1 .. Len(r)
          <6>1. PICK i \in 1 .. n - 1, j \in 1 .. n - 1 :
                    i < j /\ r[x] = s[i] /\ r[y] = s[j]
            BY <2>4, <4>4, <5>1, <5>3
          <6> QED
            BY <2>5, <4>1, <5>1, <5>3, <6>1
        <5> QED
          BY <4>2, <5>2, <5>3
      <4> QED
        BY <4>3, <4>4
    <3>2. CASE s[n] \notin S
      BY <2>3, <2>4, <2>5, <3>2
    <3> QED
      BY <3>1, <3>2
  <2> HIDE DEF Placed, Ordered
  <2> QED
    BY <1>1, <2>6
<1>5. Len(s) \in good
  <2> HIDE DEF good
  <2> QED
    BY <1>1, <1>3, <1>4, UpTo
<1>6. Ordered(Among(s, S), Len(s))
  <2> HIDE DEF Placed, Ordered
  <2> QED
    BY <1>1, <1>2, <1>5
<1> QED
  BY <1>6

\* Among keeps what a list begins with in its place, if all of that is in S.
LEMMA AmongBegins ==
    ASSUME NEW T, NEW s \in Seq(T), NEW S, NEW p \in 0 .. Len(s),
           \A i \in 1 .. p : s[i] \in S
    PROVE  p <= Len(Among(s, S)) /\ \A i \in 1 .. p : Among(s, S)[i] = s[i]
<1>1. Len(s) \in Nat
  BY LenProperties
<1>2. PICK run : Picks(run, T, s, S)
  BY AmongSteps
<1> USE DEF Picks
<1> DEFINE Begins(r, n) == /\ n <= p => Len(r) = n
                           /\ n > p => Len(r) >= p
                           /\ \A i \in 1 .. p : i <= n => r[i] = s[i]
           good == {n \in 0 .. Len(s) : Begins(run[n], n)}
<1>3. 0 \in good
  <2>1. Len(run[0]) = 0
    BY <1>2, EmptySeq
  <2>2. Begins(run[0], 0)
    BY <1>1, <2>1
  <2> HIDE DEF Begins
  <2> QED
    BY <1>1, <2>2
<1>4. ASSUME NEW n \in 1 .. Len(s), n - 1 \in good
      PROVE  n \in good
  <2> DEFINE r == run[n - 1]
             q == run[n]
  <2>1. r \in Seq(T) /\ s[n] \in T /\ n \in Nat
    <3>1. n - 1 \in 0 .. Len(s) /\ n \in Nat
      BY <1>1
    <3>2. r \in Seq(T)
      BY <1>2, <3>1
    <3> QED
      BY <3>1, <3>2, ElementOfSeq
  <2>2. Len(r) \in Nat
    BY <2>1, LenProperties
  <2>3. q = IF s[n] \in S THEN Append(r, s[n]) ELSE r
    BY <1>2
  <2>4. Begins(r, n - 1)
    BY <1>4
  <2>5. Begins(q, n)
    <3> HIDE DEF r, q
    <3>1. CASE s[n] \in S
      <4>1. /\ Len(q) = Len(r) + 1
            /\ \A i \in 1 .. Len(r) : q[i] = r[i]
            /\ q[Len(r) + 1] = s[n]
        BY <2>1, <2>3, <3>1, AppendProperties
      <4>2. (n <= p => Len(q) = n) /\ (n > p => Len(q) >= p)
        BY <1>1, <2>1, <2>2, <2>4, <4>1
      <4>3. ASSUME NEW i \in 1 .. p, i <= n PROVE q[i] = s[i]
        <5>1. CASE i = n
          <6>1. Len(r) + 1 = n
            BY <1>1, <2>1, <2>2, <2>4, <5>1
          <6> QED
            BY <4>1, <5>1, <6>1
        <5>2. CASE i # n
          <6>1. i <= n - 1 /\ i \in 1 .. Len(r)
            BY <1>1, <2>1, <2>2, <2>4, <4>3, <5>2
          <6> QED
            BY <2>4, <4>1, <6>1
        <5> QED
          BY <5>1, <5>2
      <4> QED
        BY <4>2, <4>3
    <3>2. CASE s[n] \notin S
      <4>1. q = r /\ n > p
        BY <1>1, <2>1, <2>3, <3>2
      <4>2. \A i \in 1 .. p : i <= n - 1
        BY <1>1, <2>1, <4>1
      <4>3. Len(q) >= p
        BY <1>1, <2>1, <2>2, <2>4, <4>1
      <4> QED
        BY <2>1, <2>4, <4>1, <4>2, <4>3
    <3> QED
      BY <3>1, <3>2
  <2> HIDE DEF Begins
  <2> QED
    BY <1>1, <2>5
<1>5. Len(s) \in good
  <2> HIDE DEF good
  <2> QED
    BY <1>1, <1>3, <1>4, UpTo
<1>6. Begins(Among(s, S), Len(s))
  <2> HIDE DEF Begins
  <2> QED
    BY <1>1, <1>2, <1>5
<1>7. Len(Among(s, S)) >= p /\ \A i \in 1 .. p : i <= Len(s)
  BY <1>1, <1>6
<1> QED
  BY <1>1, <1>6, <1>7

\* Appending to a concatenation appends to its second list.
LEMMA AppendToConcat ==
    ASSUME NEW T, NEW f \in Seq(T), NEW g \in Seq(T), NEW e \in T
    PROVE  f \o Append(g, e) = Append(f \o g, e)
<1>1. f \o g \in Seq(T) /\ <<e>> \in Seq(T)
  BY ConcatProperties
<1>2. Append(f \o g, e) = (f \o g) \o <<e>> /\ Append(g, e) = g \o <<e>>
  BY <1>1, AppendIsConcat
<1>3. (f \o g) \o <<e>> = f \o (g \o <<e>>)
  BY <1>1, ConcatAssociative
<1> QED
  BY <1>2, <1>3

\* What Among makes of two lists in a row.
LEMMA AmongConcat ==
    ASSUME NEW T, NEW f \in Seq(T), NEW g \in Seq(T), NEW S
    PROVE  Among(f \o g, S) = Among(f, S) \o Among(g, S)
<1> DEFINE h == f \o g
<1>1. /\ h \in Seq(T) /\ Len(f) \in Nat /\ Len(g) \in Nat
      /\ Len(h) = Len(f) + Len(g)
      /\ \A i \in 1 .. Len(f) : h[i] = f[i]
      /\ \A i \in 1 .. Len(g) : h[Len(f) + i] = g[i]
  <2>1. Len(f) \in Nat /\ Len(g) \in Nat
    BY LenProperties
  <2>2. /\ h \in Seq(T) /\ Len(h) = Len(f) + Len(g)
        /\ \A i \in 1 .. Len(f) + Len(g) :
              h[i] = IF i <= Len(f) THEN f[i] ELSE g[i - Len(f)]
    BY ConcatProperties
  <2> HIDE DEF h
  <2>3. \A i \in 1 .. Len(f) : h[i] = f[i]
    BY <2>1, <2>2
  <2>4. \A i \in 1 .. Len(g) : h[Len(f) + i] = g[i]
    <3> SUFFICES ASSUME NEW i \in 1 .. Len(g) PROVE h[Len(f) + i] = g[i]
      OBVIOUS
    <3>1. /\ Len(f) + i \in 1 .. Len(f) + Len(g)
          /\ ~(Len(f) + i <= Len(f)) /\ (Len(f) + i) - Len(f) = i
      BY <2>1
    <3> QED
      BY <2>2, <3>1
  <2> QED
    BY <2>1, <2>2, <2>3, <2>4
<1>2. PICK a : Picks(a, T, f, S)
  BY AmongSteps
<1>3. PICK b : Picks(b, T, g, S)
  BY AmongSteps
<1>4. PICK c : Picks(c, T, h, S)
  BY <1>1, AmongSteps
<1> USE DEF Picks
<1> HIDE DEF h
<1>5. c[Len(f)] = a[Len(f)]
  <2> DEFINE good == {n \in 0 .. Len(f) : c[n] = a[n]}
  <2>1. 0 \in good
    BY <1>1, <1>2, <1>4
  <2>2. ASSUME NEW n \in 1 .. Len(f), n - 1 \in good
        PROVE  n \in good
    <3>1. n \in 1 .. Len(h) /\ c[n - 1] = a[n - 1]
      BY <1>1, <2>2
    <3>2. c[n] = a[n]
      BY <1>1, <1>2, <1>4, <3>1
    <3> QED
      BY <1>1, <3>2
  <2>3. Len(f) \in good
    <3> HIDE DEF good
    <3> QED
      BY <1>1, <2>1, <2>2, UpTo
  <2> QED
    BY <2>3
<1>6. c[Len(f) + Len(g)] = a[Len(f)] \o b[Len(g)]
  <2> DEFINE x == a[Len(f)]
             good == {n \in 0 .. Len(g) : c[Len(f) + n] = x \o b[n]}
  <2>1. x \in Seq(T)
    <3>1. Len(f) \in 0 .. Len(f)
      BY <1>1
    <3> QED
      BY <1>2, <3>1
  <2>2. 0 \in good
    <3>1. x \o <<>> = x
      BY <2>1, ConcatEmptySeq
    <3>2. c[Len(f) + 0] = x
      BY <1>1, <1>5
    <3>3. c[Len(f) + 0] = x \o b[0]
      BY <1>3, <3>1, <3>2
    <3>4. 0 \in 0 .. Len(g)
      BY <1>1
    <3> QED
      BY <3>3, <3>4
  <2>3. ASSUME NEW n \in 1 .. Len(g), n - 1 \in good
        PROVE  n \in good
    <3> DEFINE l == Len(f)
    <3>1. c[l + (n - 1)] = x \o b[n - 1]
      BY <2>3
    <3>2. l + n \in 1 .. Len(h) /\ (l + n) - 1 = l + (n - 1) /\ h[l + n] = g[n]
      BY <1>1
    <3>3. c[l + n] = IF g[n] \in S THEN Append(x \o b[n - 1], g[n]) ELSE x \o b[n - 1]
      BY <1>4, <3>1, <3>2
    <3>4. b[n - 1] \in Seq(T) /\ g[n] \in T
      <4>1. n - 1 \in 0 .. Len(g)
        BY <1>1
      <4>2. b[n - 1] \in Seq(T)
        BY <1>3, <4>1
      <4> QED
        BY <4>2, ElementOfSeq
    <3>5. Append(x \o b[n - 1], g[n]) = x \o Append(b[n - 1], g[n])
      <4> DEFINE y == b[n - 1]
                 e == g[n]
      <4>1. x \in Seq(T) /\ y \in Seq(T) /\ e \in T
        BY <2>1, <3>4
      <4> HIDE DEF x, y, e
      <4>2. x \o Append(y, e) = Append(x \o y, e)
        BY <4>1, AppendToConcat
      <4> QED
        BY <4>2 DEF y, e
    <3>6. b[n] = IF g[n] \in S THEN Append(b[n - 1], g[n]) ELSE b[n - 1]
      BY <1>3
    <3>7. c[l + n] = x \o b[n]
      <4> HIDE DEF x, l
      <4> QED
        BY <3>3, <3>5, <3>6, Zenon
    <3>8. n \in 0 .. Len(g)
      BY <1>1
    <3> HIDE DEF x, l
    <3> QED
      BY <3>7, <3>8 DEF l
  <2>4. Len(g) \in good
    <3> HIDE DEF good
    <3> QED
      BY <1>1, <2>2, <2>3, UpTo
  <2> QED
    BY <2>4
<1> QED
  BY <1>1, <1>2, <1>3, <1>4, <1>6 DEF h

\* A list all of whose elements are picked, and the empty list.
LEMMA AmongAll ==
    ASSUME NEW T, NEW s \in Seq(T), NEW S,
           \A i \in 1 .. Len(s) : s[i] \in S
    PROVE  Among(s, S) = s
<1>1. Len(s) \in Nat
  BY LenProperties
<1>2. PICK run : Picks(run, T, s, S)
  BY AmongSteps
<1> USE DEF Picks
<1> DEFINE good == {n \in 0 .. Len(s) :
                       Len(run[n]) = n /\ \A i \in 1 .. n : run[n][i] = s[i]}
<1>3. 0 \in good
  BY <1>1, <1>2, EmptySeq
<1>4. ASSUME NEW n \in 1 .. Len(s), n - 1 \in good
      PROVE  n \in good
  <2> DEFINE r == run[n - 1]
  <2>1. r \in Seq(T) /\ s[n] \in T /\ Len(r) = n - 1 /\ \A i \in 1 .. n - 1 : r[i] = s[i]
    <3>1. n - 1 \in 0 .. Len(s)
      BY <1>1
    <3>2. r \in Seq(T)
      BY <1>2, <3>1
    <3> QED
      BY <1>4, <3>2, ElementOfSeq
  <2>2. run[n] = Append(r, s[n])
    BY <1>2
  <2> HIDE DEF r
  <2>3. /\ Len(run[n]) = Len(r) + 1
        /\ \A i \in 1 .. Len(r) : run[n][i] = r[i]
        /\ run[n][Len(r) + 1] = s[n]
    BY <2>1, <2>2, AppendProperties
  <2>4. Len(run[n]) = n /\ \A i \in 1 .. n : run[n][i] = s[i]
    BY <1>1, <2>1, <2>3
  <2> QED
    BY <1>1, <2>4
<1>5. Len(s) \in good
  <2> HIDE DEF good
  <2> QED
    BY <1>1, <1>3, <1>4, UpTo
<1>6. run[Len(s)] \in Seq(T) /\ Len(run[Len(s)]) = Len(s)
      /\ \A i \in 1 .. Len(s) : run[Len(s)][i] = s[i]
  <2>1. Len(s) \in 0 .. Len(s)
    BY <1>1
  <2>2. run[Len(s)] \in Seq(T)
    BY <1>2, <2>1
  <2> QED
    BY <1>5, <2>2
<1> QED
  BY <1>2, <1>6, SeqEqual

-----------------------------------------------------------------------------
(***************************************************************************)
(* The elements of a list, and what they stand for together.               *)
(***************************************************************************)
\* A list of anything, cut.
LEMMA CutType ==
    ASSUME NEW T, NEW s \in Seq(T), NEW a \in Nat \ {0}, NEW b \in Int, b <= Len(s)
    PROVE  /\ SubSeq(s, a, b) \in Seq(T)
           /\ Len(SubSeq(s, a, b)) = IF a <= b THEN b - a + 1 ELSE 0
           /\ \A i \in 1 .. b - a + 1 : SubSeq(s, a, b)[i] = s[a + i - 1]
<1>1. \A i \in a .. b : s[i] \in T
  BY ElementOfSeq
<1> QED
  BY <1>1, SubSeqProperties

\* A list of what a longer list has, cut from it, has elements of it.
LEMMA CutRange ==
    ASSUME NEW T, NEW s \in Seq(T), NEW a \in Nat \ {0}, NEW b \in Int, b <= Len(s)
    PROVE  Range(SubSeq(s, a, b)) \subseteq Range(s)
<1> SUFFICES ASSUME NEW x \in Range(SubSeq(s, a, b)) PROVE x \in Range(s)
  OBVIOUS
<1> DEFINE c == SubSeq(s, a, b)
<1>1. c \in Seq(T) /\ Len(c) = IF a <= b THEN b - a + 1 ELSE 0
  BY CutType
<1>2. PICK i \in 1 .. Len(c) : x = c[i]
  <2> HIDE DEF c
  <2> QED
    BY <1>1, LenProperties DEF Range, c
<1>3. Len(s) \in Nat /\ DOMAIN s = 1 .. Len(s)
  BY LenProperties
<1>4. i \in 1 .. b - a + 1 /\ a + i - 1 \in 1 .. Len(s)
  <2> HIDE DEF c
  <2> QED
    BY <1>1, <1>2, <1>3
<1>5. x = s[a + i - 1]
  BY <1>2, <1>4, CutType
<1> QED
  BY <1>3, <1>4, <1>5 DEF Range

\* The elements of a list with one more behind it.
LEMMA AppendRange ==
    ASSUME NEW T, NEW s \in Seq(T), NEW e \in T
    PROVE  Range(Append(s, e)) = Range(s) \cup {e}
<1>1. <<e>> \in Seq(T) /\ Append(s, e) = s \o <<e>>
  BY AppendIsConcat
<1>2. Range(<<e>>) = {e}
  BY DEF Range
<1>3. Range(s \o <<e>>) = Range(s) \cup Range(<<e>>)
  BY <1>1, RangeConcatenation
<1> QED
  BY <1>1, <1>2, <1>3

\* The elements Among picks.
LEMMA AmongRange ==
    ASSUME NEW T, NEW s \in Seq(T), NEW S
    PROVE  Range(Among(s, S)) = Range(s) \cap S
<1> DEFINE r == Among(s, S)
<1>1. /\ r \in Seq(T)
      /\ \A i \in 1 .. Len(r) : r[i] \in S /\ \E j \in 1 .. Len(s) : r[i] = s[j]
      /\ \A j \in 1 .. Len(s) : s[j] \in S => \E i \in 1 .. Len(r) : r[i] = s[j]
  BY AmongPicks
<1> HIDE DEF r
<1>2. DOMAIN r = 1 .. Len(r) /\ DOMAIN s = 1 .. Len(s)
  BY <1>1, LenProperties
<1>3. ASSUME NEW x \in Range(r) PROVE x \in Range(s) \cap S
  BY <1>1, <1>2 DEF Range
<1>4. ASSUME NEW x \in Range(s) \cap S PROVE x \in Range(r)
  BY <1>1, <1>2 DEF Range
<1> QED
  BY <1>3, <1>4 DEF r

\* What a list stands for is what its elements stand for.
LEMMA CoveredRange ==
    ASSUME NEW h
    PROVE  Covered(h) = UNION {m.of : m \in Range(h)}
BY DEF Covered, Range

\* Two lists in a row stand for what either stands for.
LEMMA CoveredConcat ==
    ASSUME NEW T, NEW f \in Seq(T), NEW g \in Seq(T)
    PROVE  Covered(f \o g) = Covered(f) \cup Covered(g)
<1>1. Range(f \o g) = Range(f) \cup Range(g)
  BY RangeConcatenation
<1>2. \A h : Covered(h) = UNION {m.of : m \in Range(h)}
  BY CoveredRange
<1> QED
  BY <1>1, <1>2

\* A list with one more behind it stands for what that one does, too.
LEMMA CoveredAppend ==
    ASSUME NEW T, NEW s \in Seq(T), NEW e \in T
    PROVE  Covered(Append(s, e)) = Covered(s) \cup e.of
<1>1. Range(Append(s, e)) = Range(s) \cup {e}
  BY AppendRange
<1>2. \A h : Covered(h) = UNION {m.of : m \in Range(h)}
  BY CoveredRange
<1> QED
  BY <1>1, <1>2

\* A piece of a list stands for nothing the list does not stand for.
LEMMA CoveredCut ==
    ASSUME NEW T, NEW s \in Seq(T), NEW a \in Nat \ {0}, NEW b \in Int, b <= Len(s)
    PROVE  Covered(SubSeq(s, a, b)) \subseteq Covered(s)
<1>1. Range(SubSeq(s, a, b)) \subseteq Range(s)
  BY CutRange
<1>2. \A h : Covered(h) = UNION {m.of : m \in Range(h)}
  BY CoveredRange
<1> QED
  BY <1>1, <1>2

\* Some numbers have a least one.
LEMMA LeastIsOne ==
    ASSUME NEW S \in SUBSET Nat, S # {}
    PROVE  \E x \in S : \A y \in S : x =< y
<1>1. PICK x \in S : \A y \in S : ~(<<y, x>> \in OpToRel(<, Nat))
  BY NatLessThanWellFounded, WFMin
<1>2. \A y \in Nat : y < x => <<y, x>> \in OpToRel(<, Nat)
  BY Zenon DEF OpToRel
<1>3. \A y \in S : ~(y < x)
  BY <1>1, <1>2, Zenon
<1> QED
  BY <1>3

\* Some numbers up to n have a greatest one.
LEMMA GreatestIsOne ==
    ASSUME NEW n \in Nat, NEW S \in SUBSET (1 .. n), S # {}
    PROVE  \E x \in S : \A y \in S : x >= y
<1> DEFINE above == {k \in Nat : \A y \in S : y <= k}
<1>1. n \in above
  OBVIOUS
<1>2. above \in SUBSET Nat /\ above # {}
  BY <1>1
<1> HIDE DEF above
<1>3. PICK k \in above : \A j \in above : k =< j
  BY <1>2, LeastIsOne
<1> USE DEF above
<1>4. k \in S
  <2> SUFFICES ASSUME k \notin S PROVE FALSE
    OBVIOUS
  <2>1. k - 1 \in Nat /\ k - 1 < k
    <3>1. PICK y : y \in S
      OBVIOUS
    <3>2. 1 <= y /\ y <= k /\ y \in Nat /\ k \in Nat
      BY <3>1
    <3> QED
      BY <3>2
  <2>2. k - 1 \in above
    BY <2>1
  <2> QED
    BY <1>3, <2>1, <2>2
<1> QED
  BY <1>4

\* It is what Max picks.
LEMMA MaxIsOne ==
    ASSUME NEW n \in Nat, NEW S \in SUBSET (1 .. n), S # {}
    PROVE  Max(S) \in S
<1>1. \E x \in S : \A y \in S : x >= y
  BY GreatestIsOne
<1> QED
  BY <1>1 DEF Max

-----------------------------------------------------------------------------
(***************************************************************************)
(* Messages, pieces and compactions.                                       *)
(***************************************************************************)
\* Building messages: M of a kind and a set of numbers is a message.
LEMMA MsgType ==
    ASSUME NEW k \in Kinds, NEW S \in SUBSET Nat
    PROVE  M(k, S) \in Msg
BY DEF M, Msg

\* find_first_run_end is defined: the first text response exists when any
\* does.
LEMMA HeadEndType ==
    ASSUME NEW T, NEW h \in Seq(T)
    PROVE  HeadEnd(h) \in Nat \ {0}
<1> DEFINE texts == {i \in DOMAIN h : HasText(h[i])}
<1>1. CASE texts = {}
  BY <1>1 DEF HeadEnd
<1>2. CASE texts # {}
  <2>1. texts \subseteq Nat \ {0}
    OBVIOUS
  <2>2. \E x \in texts : \A y \in texts : x =< y
    <3> HIDE DEF texts
    <3> QED
      BY <1>2, <2>1, LeastIsOne
  <2>3. Min(texts) \in texts
    BY <2>2 DEF Min
  <2> QED
    BY <1>2, <2>1, <2>3 DEF HeadEnd
<1> QED
  BY <1>1, <1>2

\* A set the messages of a list stand for is a set of numbers.
LEMMA CoveredType ==
    ASSUME NEW h \in Seq(Msg)
    PROVE  Covered(h) \in SUBSET Nat
<1> SUFFICES ASSUME NEW x \in Covered(h) PROVE x \in Nat
  OBVIOUS
<1>1. PICK i \in DOMAIN h : x \in h[i].of
  BY DEF Covered
<1>2. h[i] \in Msg
  BY ElementOfSeq
<1> QED
  BY <1>1, <1>2 DEF Msg

\* A piece of a list is a list.
LEMMA PieceType ==
    ASSUME NEW h \in Seq(Msg), NEW a \in Nat \ {0}, NEW b \in Int, b <= Len(h)
    PROVE  /\ SubSeq(h, a, b) \in Seq(Msg)
           /\ Len(SubSeq(h, a, b)) = IF a <= b THEN b - a + 1 ELSE 0
           /\ \A i \in 1 .. b - a + 1 : SubSeq(h, a, b)[i] = h[a + i - 1]
<1>1. \A i \in a .. b : h[i] \in Msg
  BY ElementOfSeq
<1> QED
  BY <1>1, SubSeqProperties

\* Compaction is positional: the head, up to n, one marker, perhaps a todo snapshot,
\* and a tail from s on, in which a group starts.
Pieced(h, c, todos, n, s) ==
    /\ n \in Nat /\ s \in Nat /\ 0 < n /\ n + 1 < s /\ s <= Len(h)
    /\ Carries(h, s)
    /\ SubSeq(h, 1, n) \in Seq(Msg)
    /\ <<Marker(SubSeq(h, n + 1, s - 1))>> \in Seq(Msg)
    /\ (IF todos THEN <<Snapshot>> ELSE <<>>) \in Seq(Msg)
    /\ SubSeq(h, s, Len(h)) \in Seq(Msg)
    /\ c = SubSeq(h, 1, n) \o <<Marker(SubSeq(h, n + 1, s - 1))>>
             \o (IF todos THEN <<Snapshot>> ELSE <<>>) \o SubSeq(h, s, Len(h))

\* What compaction makes has these pieces.
LEMMA CompactionPieces ==
    ASSUME NEW h \in Seq(Msg), NEW todos \in BOOLEAN,
           NEW c \in Compactions(h, todos)
    PROVE  \E n, s : Pieced(h, c, todos, n, s)
<1>1. PICK cut \in Cuts(h) : c = CompactAt(h, cut, todos)
  BY DEF Compactions
<1> DEFINE n == cut[1]
           s == cut[2]
<1>2. /\ n \in HeadEnds(h) /\ s \in DOMAIN h /\ s > n + 1 /\ Carries(h, s)
      /\ Len(h) \in Nat /\ DOMAIN h = 1 .. Len(h)
  BY LenProperties DEF Cuts
<1>3. n \in Nat \ {0}
  BY <1>2, HeadEndType DEF HeadEnds
<1>4. s \in Nat /\ 0 < n /\ n + 1 < s /\ s <= Len(h)
  BY <1>2, <1>3
<1>5. c = SubSeq(h, 1, n) \o <<Marker(SubSeq(h, n + 1, s - 1))>>
             \o (IF todos THEN <<Snapshot>> ELSE <<>>) \o SubSeq(h, s, Len(h))
  BY <1>1 DEF CompactAt
<1> HIDE DEF n, s
<1>6. /\ SubSeq(h, 1, n) \in Seq(Msg) /\ SubSeq(h, n + 1, s - 1) \in Seq(Msg)
      /\ SubSeq(h, s, Len(h)) \in Seq(Msg)
  BY <1>2, <1>3, <1>4, PieceType
<1>7. Marker(SubSeq(h, n + 1, s - 1)) \in Msg
  BY <1>6, CoveredType, MsgType DEF Marker, Kinds, CarrierKinds
<1>8. Snapshot \in Msg
  BY MsgType DEF Snapshot, Kinds, CarrierKinds
<1>9. Pieced(h, c, todos, n, s)
  BY <1>2, <1>3, <1>4, <1>5, <1>6, <1>7, <1>8 DEF Pieced
<1> QED
  BY <1>9

\* What compaction puts in place of a list is a list of messages.
LEMMA CompactionType ==
    ASSUME NEW h \in Seq(Msg), NEW todos \in BOOLEAN,
           NEW c \in Compactions(h, todos)
    PROVE  c \in Seq(Msg)
<1>1. PICK n, s : Pieced(h, c, todos, n, s)
  BY CompactionPieces
<1> QED
  BY <1>1, ConcatProperties DEF Pieced

\* Dropping the trailing call of a list leaves a list.
LEMMA DropDanglingType ==
    ASSUME NEW h \in Seq(Msg)
    PROVE  DropDangling(h) \in Seq(Msg)
<1>1. Len(h) \in Nat
  BY LenProperties
<1>2. Front(h) \in Seq(Msg)
  BY <1>1, PieceType DEF Front
<1> QED
  BY <1>2 DEF DropDangling

\* A concatenation stands for what either list stands for.
LEMMA ConcatCovers ==
    ASSUME NEW g \in Seq(Msg), NEW h \in Seq(Msg)
    PROVE  /\ Covered(g) \subseteq Covered(g \o h)
           /\ Covered(h) \subseteq Covered(g \o h)
<1>1. Len(g) \in Nat /\ Len(h) \in Nat /\ DOMAIN (g \o h) = 1 .. Len(g) + Len(h)
  BY ConcatProperties, LenProperties
<1>2. ASSUME NEW x \in Covered(g) PROVE x \in Covered(g \o h)
  <2>1. PICK i \in DOMAIN g : x \in g[i].of
    BY DEF Covered
  <2>2. i \in DOMAIN (g \o h) /\ (g \o h)[i] = g[i]
    BY <1>1, ConcatProperties
  <2> QED
    BY <2>1, <2>2 DEF Covered
<1>3. ASSUME NEW x \in Covered(h) PROVE x \in Covered(g \o h)
  <2>1. PICK i \in DOMAIN h : x \in h[i].of
    BY DEF Covered
  <2>2. Len(g) + i \in DOMAIN (g \o h) /\ (g \o h)[Len(g) + i] = h[i]
    BY <1>1, ConcatProperties
  <2> QED
    BY <2>1, <2>2 DEF Covered
<1> QED
  BY <1>2, <1>3

\* A list with a message behind it stands for what both stand for, ends in it, and
\* has the list in front of it.
LEMMA AppendPieces ==
    ASSUME NEW h \in Seq(Msg), NEW m \in Msg
    PROVE  /\ Append(h, m) \in Seq(Msg) /\ Append(h, m) # <<>>
           /\ Covered(h) \cup m.of \subseteq Covered(Append(h, m))
           /\ Last(Append(h, m)) = m /\ Front(Append(h, m)) = h
           /\ Len(Append(h, m)) = Len(h) + 1
           /\ \A i \in 1 .. Len(h) : Append(h, m)[i] = h[i]
<1>1. /\ Append(h, m) \in Seq(Msg) /\ Append(h, m) # <<>>
      /\ Len(h) \in Nat /\ Len(Append(h, m)) = Len(h) + 1
      /\ DOMAIN Append(h, m) = 1 .. Len(h) + 1 /\ DOMAIN h = 1 .. Len(h)
      /\ \A i \in 1 .. Len(h) : Append(h, m)[i] = h[i]
      /\ Append(h, m)[Len(h) + 1] = m
  BY AppendProperties, LenProperties
<1>2. Covered(h) \cup m.of \subseteq Covered(Append(h, m))
  BY <1>1 DEF Covered
<1>3. Last(Append(h, m)) = m
  BY <1>1 DEF Last
<1>4. Front(Append(h, m)) = h
  <2>1. Front(Append(h, m)) = SubSeq(Append(h, m), 1, Len(h))
    BY <1>1 DEF Front
  <2>2. /\ SubSeq(Append(h, m), 1, Len(h)) \in Seq(Msg)
        /\ Len(SubSeq(Append(h, m), 1, Len(h))) = Len(h)
        /\ \A i \in 1 .. Len(h) : SubSeq(Append(h, m), 1, Len(h))[i] = Append(h, m)[i]
    BY <1>1, PieceType
  <2> QED
    BY <1>1, <2>1, <2>2, SeqEqual
<1> QED
  BY <1>1, <1>2, <1>3, <1>4

\* A compacted list stands for everything the list stood for: what is dropped is
\* behind the marker.
LEMMA CompactionCovers ==
    ASSUME NEW h \in Seq(Msg), NEW todos \in BOOLEAN,
           NEW c \in Compactions(h, todos)
    PROVE  Covered(h) \subseteq Covered(c)
<1>1. PICK n, s : Pieced(h, c, todos, n, s)
  BY CompactionPieces
<1> DEFINE head == SubSeq(h, 1, n)
           middle == SubSeq(h, n + 1, s - 1)
           marker == <<Marker(middle)>>
           snapshot == IF todos THEN <<Snapshot>> ELSE <<>>
           tail == SubSeq(h, s, Len(h))
<1>2. /\ n \in Nat /\ s \in Nat /\ 0 < n /\ n + 1 < s /\ s <= Len(h)
      /\ head \in Seq(Msg) /\ marker \in Seq(Msg)
      /\ snapshot \in Seq(Msg) /\ tail \in Seq(Msg)
  BY <1>1 DEF Pieced
<1>3. c = head \o marker \o snapshot \o tail
  BY <1>1 DEF Pieced
<1>4. Len(h) \in Nat /\ DOMAIN h = 1 .. Len(h)
  BY LenProperties
<1>5. /\ Len(head) = n /\ \A i \in 1 .. n : head[i] = h[i]
      /\ Len(middle) = s - 1 - n /\ \A i \in 1 .. s - 1 - n : middle[i] = h[n + i]
      /\ Len(tail) = Len(h) - s + 1
      /\ \A i \in 1 .. Len(h) - s + 1 : tail[i] = h[s + i - 1]
      /\ middle \in Seq(Msg)
  <2>1. Len(head) = n /\ \A i \in 1 .. n : head[i] = h[i]
    BY <1>2, <1>4, PieceType
  <2>2. /\ middle \in Seq(Msg) /\ Len(middle) = s - 1 - n
        /\ \A i \in 1 .. s - 1 - n : middle[i] = h[n + i]
    BY <1>2, <1>4, PieceType
  <2>3. /\ Len(tail) = Len(h) - s + 1
        /\ \A i \in 1 .. Len(h) - s + 1 : tail[i] = h[s + i - 1]
    BY <1>2, <1>4, PieceType
  <2> QED
    BY <2>1, <2>2, <2>3
<1> HIDE DEF head, middle, snapshot, tail
<1>6. Covered(middle) \subseteq Covered(marker)
  <2>1. marker[1].of = Covered(middle) /\ 1 \in DOMAIN marker
    BY DEF marker, Marker, M
  <2> QED
    BY <2>1 DEF Covered
<1> HIDE DEF marker
<1>7. /\ Covered(head) \subseteq Covered(c) /\ Covered(marker) \subseteq Covered(c)
      /\ Covered(tail) \subseteq Covered(c)
  <2>1. head \o marker \in Seq(Msg) /\ head \o marker \o snapshot \in Seq(Msg)
    BY <1>2, ConcatProperties
  <2>2. Covered(head) \cup Covered(marker) \subseteq Covered(head \o marker)
    BY <1>2, ConcatCovers
  <2>3. Covered(head \o marker) \subseteq Covered(head \o marker \o snapshot)
    BY <1>2, <2>1, ConcatCovers
  <2> QED
    BY <1>2, <1>3, <2>1, <2>2, <2>3, ConcatCovers
<1>8. ASSUME NEW x \in Covered(h) PROVE x \in Covered(head) \cup Covered(middle) \cup Covered(tail)
  <2>1. PICK i \in 1 .. Len(h) : x \in h[i].of
    BY <1>4 DEF Covered
  <2>2. CASE i <= n
    <3>1. i \in DOMAIN head /\ x \in head[i].of
      BY <1>2, <1>5, <2>1, <2>2
    <3> QED
      BY <3>1 DEF Covered
  <2>3. CASE n < i /\ i < s
    <3>1. i - n \in DOMAIN middle /\ x \in middle[i - n].of
      <4>1. i - n \in 1 .. s - 1 - n /\ n + (i - n) = i
        BY <1>2, <2>1, <2>3
      <4>2. middle[i - n] = h[i]
        BY <1>5, <4>1
      <4>3. DOMAIN middle = 1 .. s - 1 - n
        BY <1>5, LenProperties
      <4> QED
        BY <2>1, <4>1, <4>2, <4>3
    <3> QED
      BY <3>1 DEF Covered
  <2>4. CASE s <= i
    <3>1. i - s + 1 \in DOMAIN tail /\ x \in tail[i - s + 1].of
      <4>1. i - s + 1 \in 1 .. Len(h) - s + 1 /\ s + (i - s + 1) - 1 = i
        BY <1>2, <1>4, <2>1, <2>4
      <4>2. tail[i - s + 1] = h[i]
        BY <1>5, <4>1
      <4>3. DOMAIN tail = 1 .. Len(h) - s + 1
        BY <1>2, <1>5, LenProperties
      <4> QED
        BY <2>1, <4>1, <4>2, <4>3
    <3> QED
      BY <3>1 DEF Covered
  <2> QED
    BY <1>2, <2>1, <2>2, <2>3, <2>4
<1> QED
  BY <1>6, <1>7, <1>8

\* Every message of a compacted list is one of the list, or the marker or the todo
\* snapshot, which stand for nothing the list did not stand for.
LEMMA CompactionRange ==
    ASSUME NEW h \in Seq(Msg), NEW todos \in BOOLEAN,
           NEW c \in Compactions(h, todos), NEW m \in Range(c)
    PROVE  \/ m \in Range(h)
           \/ m.k \in {"marker", "snapshot"} /\ m.of \subseteq Covered(h)
<1>1. PICK n, s : Pieced(h, c, todos, n, s)
  BY CompactionPieces
<1> DEFINE head == SubSeq(h, 1, n)
           middle == SubSeq(h, n + 1, s - 1)
           marker == <<Marker(middle)>>
           snapshot == IF todos THEN <<Snapshot>> ELSE <<>>
           tail == SubSeq(h, s, Len(h))
<1>2. /\ n \in Nat /\ s \in Nat /\ 0 < n /\ n + 1 < s /\ s <= Len(h)
      /\ head \in Seq(Msg) /\ marker \in Seq(Msg)
      /\ snapshot \in Seq(Msg) /\ tail \in Seq(Msg)
  BY <1>1 DEF Pieced
<1>3. c = head \o marker \o snapshot \o tail
  BY <1>1 DEF Pieced
<1>4. Len(h) \in Nat
  BY LenProperties
<1>5. /\ Range(head) \subseteq Range(h) /\ Range(tail) \subseteq Range(h)
      /\ Range(middle) \subseteq Range(h)
  BY <1>2, <1>4, CutRange
<1>6. Range(marker) = {Marker(middle)}
  BY DEF Range
<1>7. Range(snapshot) \subseteq {Snapshot}
  BY DEF Range
<1>8. Range(c) = Range(head) \cup Range(marker) \cup Range(snapshot) \cup Range(tail)
  <2> HIDE DEF head, marker, snapshot, tail
  <2> DEFINE one == head \o marker
             two == one \o snapshot
  <2>1. one \in Seq(Msg) /\ Range(one) = Range(head) \cup Range(marker)
    BY <1>2, ConcatProperties, RangeConcatenation
  <2>2. two \in Seq(Msg) /\ Range(two) = Range(one) \cup Range(snapshot)
    <3> HIDE DEF one
    <3> QED
      BY <1>2, <2>1, ConcatProperties, RangeConcatenation
  <2>3. Range(two \o tail) = Range(two) \cup Range(tail)
    <3> HIDE DEF two
    <3> QED
      BY <1>2, <2>2, RangeConcatenation
  <2> QED
    BY <1>3, <2>1, <2>2, <2>3
<1>9. Covered(middle) \subseteq Covered(h)
  <2> HIDE DEF middle
  <2> QED
    BY <1>5, CoveredRange
<1>10. Marker(middle).k = "marker" /\ Marker(middle).of = Covered(middle)
  BY DEF Marker, M
<1>11. Snapshot.k = "snapshot" /\ Snapshot.of = {}
  BY DEF Snapshot, M
<1> HIDE DEF head, middle, marker, snapshot, tail
<1> QED
  BY <1>5, <1>6, <1>7, <1>8, <1>9, <1>10, <1>11

\* The last message is never dropped.
LEMMA CompactionLast ==
    ASSUME NEW h \in Seq(Msg), NEW todos \in BOOLEAN,
           NEW c \in Compactions(h, todos)
    PROVE  h # <<>> /\ c # <<>> /\ Last(c) = Last(h)
<1>1. PICK n, s : Pieced(h, c, todos, n, s)
  BY CompactionPieces
<1> DEFINE front == SubSeq(h, 1, n)
                      \o <<Marker(SubSeq(h, n + 1, s - 1))>>
                      \o (IF todos THEN <<Snapshot>> ELSE <<>>)
           tail == SubSeq(h, s, Len(h))
<1>2. /\ s \in Nat /\ 1 <= s /\ s <= Len(h) /\ Len(h) \in Nat
      /\ front \in Seq(Msg) /\ tail \in Seq(Msg)
  BY <1>1, ConcatProperties, LenProperties DEF Pieced
<1>3. c = front \o tail
  BY <1>1 DEF Pieced
<1>4. Len(tail) = Len(h) - s + 1 /\ tail[Len(h) - s + 1] = h[Len(h)]
  BY <1>2, PieceType
<1> HIDE DEF front, tail
<1>5. /\ Len(c) = Len(front) + Len(tail) /\ Len(front) \in Nat
      /\ c[Len(front) + Len(tail)] = tail[Len(tail)]
  <2>1. Len(tail) \in Nat /\ Len(front) \in Nat /\ Len(tail) > 0
    BY <1>2, <1>4, LenProperties
  <2>2. /\ Len(c) = Len(front) + Len(tail)
        /\ \A i \in 1 .. Len(front) + Len(tail) :
              c[i] = IF i <= Len(front) THEN front[i] ELSE tail[i - Len(front)]
    BY <1>2, <1>3, ConcatProperties
  <2>3. /\ Len(front) + Len(tail) \in 1 .. Len(front) + Len(tail)
        /\ ~(Len(front) + Len(tail) <= Len(front))
        /\ Len(front) + Len(tail) - Len(front) = Len(tail)
    BY <2>1
  <2> QED
    BY <2>1, <2>2, <2>3
<1>6. Last(c) = Last(h)
  BY <1>4, <1>5 DEF Last
<1>7. Len(c) > 0 /\ Len(h) > 0
  BY <1>2, <1>4, <1>5
<1> QED
  BY <1>6, <1>7

\* Dropping an unanswered call drops nothing but what it stands for.
LEMMA DropCovers ==
    ASSUME NEW h \in Seq(Msg)
    PROVE  Covered(h) \subseteq
             Covered(DropDangling(h)) \cup (IF Dangling(h) THEN Last(h).of ELSE {})
<1>1. CASE ~Dangling(h)
  BY <1>1 DEF DropDangling
<1>2. CASE Dangling(h)
  <2>1. Len(h) \in Nat /\ Len(h) > 0 /\ DOMAIN h = 1 .. Len(h)
    BY <1>2, LenProperties, EmptySeq DEF Dangling
  <2>2. Front(h) = SubSeq(h, 1, Len(h) - 1)
    BY DEF Front
  <2>3. /\ Front(h) \in Seq(Msg) /\ Len(Front(h)) = Len(h) - 1
        /\ \A i \in 1 .. Len(h) - 1 : Front(h)[i] = h[i]
    BY <2>1, <2>2, PieceType
  <2>4. ASSUME NEW x \in Covered(h) PROVE x \in Covered(Front(h)) \cup Last(h).of
    <3>1. PICK i \in 1 .. Len(h) : x \in h[i].of
      BY <2>1 DEF Covered
    <3>2. CASE i = Len(h)
      BY <3>1, <3>2 DEF Last
    <3>3. CASE i < Len(h)
      <4>1. i \in DOMAIN Front(h) /\ x \in Front(h)[i].of
        BY <2>1, <2>3, <3>1, <3>3
      <4> QED
        BY <4>1 DEF Covered
    <3>4. i = Len(h) \/ i < Len(h)
      <4>1. i \in Nat /\ i <= Len(h) /\ Len(h) \in Nat
        BY <2>1, <3>1
      <4> QED
        BY <4>1
    <3> QED
      BY <3>2, <3>3, <3>4
  <2> QED
    BY <1>2, <2>4 DEF DropDangling
<1> QED
  BY <1>1, <1>2

-----------------------------------------------------------------------------
\* A list holds at most one unanswered call, at its end.
FrontSettled(h) == Dangling(h) => ~Dangling(Front(h))

\* g starts with all of h.
Extends(g, h) == Len(h) <= Len(g) /\ \A i \in 1 .. Len(h) : g[i] = h[i]

\* A list that starts with another has it as a prefix.
LEMMA ExtendsIsPrefix ==
    ASSUME NEW g \in Seq(Msg), NEW h \in Seq(Msg), Extends(g, h)
    PROVE  IsPrefix(h, g)
<1>1. Len(h) \in Nat /\ Len(g) \in Nat
  BY LenProperties
<1>2. /\ SubSeq(h, 1, Len(h)) \in Seq(Msg) /\ Len(SubSeq(h, 1, Len(h))) = Len(h)
      /\ \A i \in 1 .. Len(h) : SubSeq(h, 1, Len(h))[i] = h[i]
  BY <1>1, PieceType
<1>3. /\ SubSeq(g, 1, Len(h)) \in Seq(Msg) /\ Len(SubSeq(g, 1, Len(h))) = Len(h)
      /\ \A i \in 1 .. Len(h) : SubSeq(g, 1, Len(h))[i] = g[i]
  BY <1>1, PieceType DEF Extends
<1>4. SubSeq(h, 1, Len(h)) = SubSeq(g, 1, Len(h))
  BY <1>2, <1>3, SeqEqual DEF Extends
<1> QED
  BY <1>4 DEF IsPrefix, Extends

\* A list that starts with another still does when something is put behind it.
LEMMA ExtendsMore ==
    ASSUME NEW g \in Seq(Msg), NEW h \in Seq(Msg), NEW k \in Seq(Msg), Extends(g, h)
    PROVE  Extends(g \o k, h)
<1>1. Len(h) \in Nat /\ Len(g) \in Nat /\ Len(k) \in Nat
  BY LenProperties
<1>2. Len(g \o k) = Len(g) + Len(k) /\ \A i \in 1 .. Len(g) : (g \o k)[i] = g[i]
  BY <1>1, ConcatProperties
<1> QED
  BY <1>1, <1>2 DEF Extends

\* So it does when one message is.
LEMMA ExtendsAppend ==
    ASSUME NEW g \in Seq(Msg), NEW h \in Seq(Msg), NEW m \in Msg, Extends(g, h)
    PROVE  Extends(Append(g, m), h)
<1>1. Len(h) \in Nat /\ Len(g) \in Nat
  BY LenProperties
<1> QED
  BY <1>1, AppendPieces DEF Extends

\* All but the last message of a list.
LEMMA FrontPieces ==
    ASSUME NEW h \in Seq(Msg), h # <<>>
    PROVE  /\ Front(h) \in Seq(Msg) /\ Len(h) \in Nat /\ Len(h) > 0
           /\ Len(Front(h)) = Len(h) - 1
           /\ \A i \in 1 .. Len(h) - 1 : Front(h)[i] = h[i]
<1>1. Len(h) \in Nat /\ Len(h) > 0
  BY LenProperties, EmptySeq
<1>2. Front(h) = SubSeq(h, 1, Len(h) - 1)
  BY DEF Front
<1>3. /\ Front(h) \in Seq(Msg) /\ Len(Front(h)) = Len(h) - 1
      /\ \A i \in 1 .. Len(h) - 1 : Front(h)[i] = h[i]
  <2> DEFINE n == Len(h) - 1
  <2>1. n \in Int /\ n <= Len(h) /\ n >= 0
    BY <1>1
  <2> HIDE DEF n
  <2>2. /\ SubSeq(h, 1, n) \in Seq(Msg)
        /\ Len(SubSeq(h, 1, n)) = IF 1 <= n THEN n - 1 + 1 ELSE 0
        /\ \A i \in 1 .. n - 1 + 1 : SubSeq(h, 1, n)[i] = h[1 + i - 1]
    BY <2>1, PieceType
  <2>3. Len(SubSeq(h, 1, n)) = n /\ \A i \in 1 .. n : SubSeq(h, 1, n)[i] = h[i]
    BY <2>1, <2>2
  <2> QED
    BY <1>2, <2>2, <2>3 DEF n
<1> QED
  BY <1>1, <1>3

\* Dropping the trailing call of both leaves one list the start of the other.
LEMMA ExtendsDropped ==
    ASSUME NEW g \in Seq(Msg), NEW h \in Seq(Msg), Extends(g, h)
    PROVE  Extends(DropDangling(g), DropDangling(h))
<1>1. Len(h) \in Nat /\ Len(g) \in Nat
  BY LenProperties
<1>2. Extends(g, DropDangling(h))
  <2>1. CASE Dangling(h)
    <3>1. /\ DropDangling(h) = Front(h) /\ Len(Front(h)) = Len(h) - 1
          /\ \A i \in 1 .. Len(h) - 1 : Front(h)[i] = h[i]
      BY <2>1, FrontPieces DEF Dangling, DropDangling
    <3> QED
      BY <1>1, <3>1 DEF Extends
  <2>2. CASE ~Dangling(h)
    BY <2>2 DEF DropDangling
  <2> QED
    BY <2>1, <2>2
<1>3. CASE ~Dangling(g)
  BY <1>2, <1>3 DEF DropDangling
<1>4. CASE Dangling(g)
  <2>1. /\ Len(Front(g)) = Len(g) - 1 /\ Len(g) > 0
        /\ \A i \in 1 .. Len(g) - 1 : Front(g)[i] = g[i]
        /\ DropDangling(g) = Front(g)
    BY <1>4, FrontPieces DEF Dangling, DropDangling
  <2>2. CASE Len(h) = Len(g)
    <3>1. h # <<>> /\ Last(h) = Last(g)
      BY <1>1, <2>1, <2>2 DEF Last, Extends
    <3>2. DropDangling(h) = Front(h) /\ Len(Front(h)) = Len(h) - 1
      BY <1>4, <3>1, FrontPieces DEF Dangling, DropDangling
    <3> QED
      BY <1>1, <1>2, <2>1, <2>2, <3>2 DEF Extends
  <2>3. CASE Len(h) # Len(g)
    <3>1. Len(DropDangling(h)) <= Len(h) /\ Len(DropDangling(h)) \in Nat
      BY <1>1, FrontPieces, DropDanglingType, LenProperties DEF Dangling, DropDangling
    <3>2. Len(h) <= Len(g) - 1
      BY <1>1, <2>3 DEF Extends
    <3> QED
      BY <1>1, <1>2, <2>1, <3>1, <3>2 DEF Extends
  <2> QED
    BY <2>2, <2>3
<1> QED
  BY <1>3, <1>4

\* From one of its prompts, markers or the like on, a list is unchanged by compaction
\* but for its place.
LEMMA CompactionTail ==
    ASSUME NEW h \in Seq(Msg), NEW todos \in BOOLEAN,
           NEW c \in Compactions(h, todos)
    PROVE  \E s \in 1 .. Len(h) :
              /\ IsCarrier(h[s])
              /\ \A i \in s .. Len(h) :
                    /\ i + (Len(c) - Len(h)) \in 1 .. Len(c)
                    /\ c[i + (Len(c) - Len(h))] = h[i]
<1>1. PICK n, s : Pieced(h, c, todos, n, s)
  BY CompactionPieces
<1> DEFINE front == SubSeq(h, 1, n)
                      \o <<Marker(SubSeq(h, n + 1, s - 1))>>
                      \o (IF todos THEN <<Snapshot>> ELSE <<>>)
           tail == SubSeq(h, s, Len(h))
<1>2. /\ s \in Nat /\ 1 <= s /\ s <= Len(h) /\ Len(h) \in Nat /\ Carries(h, s)
      /\ front \in Seq(Msg) /\ tail \in Seq(Msg)
  BY <1>1, ConcatProperties, LenProperties DEF Pieced
<1>3. c = front \o tail
  BY <1>1 DEF Pieced
<1>4. /\ Len(tail) = Len(h) - s + 1
      /\ \A i \in 1 .. Len(h) - s + 1 : tail[i] = h[s + i - 1]
  BY <1>2, PieceType
<1> HIDE DEF front, tail
<1>5. /\ Len(c) = Len(front) + (Len(h) - s + 1) /\ Len(front) \in Nat
      /\ \A i \in 1 .. Len(front) + Len(tail) :
            c[i] = IF i <= Len(front) THEN front[i] ELSE tail[i - Len(front)]
  <2>1. Len(front) \in Nat
    BY <1>2, LenProperties
  <2>2. /\ Len(c) = Len(front) + Len(tail)
        /\ \A i \in 1 .. Len(front) + Len(tail) :
              c[i] = IF i <= Len(front) THEN front[i] ELSE tail[i - Len(front)]
    BY <1>2, <1>3, ConcatProperties
  <2> QED
    BY <1>4, <2>1, <2>2
<1>6. ASSUME NEW i \in s .. Len(h)
      PROVE  /\ i + (Len(c) - Len(h)) \in 1 .. Len(c)
             /\ c[i + (Len(c) - Len(h))] = h[i]
  <2> DEFINE j == i - s + 1
  <2>1. /\ j \in 1 .. Len(h) - s + 1 /\ s + j - 1 = i
        /\ i + (Len(c) - Len(h)) = Len(front) + j
        /\ Len(front) + j \in 1 .. Len(c) /\ ~(Len(front) + j <= Len(front))
        /\ Len(front) + j - Len(front) = j
    BY <1>2, <1>5
  <2> HIDE DEF j
  <2>2. tail[j] = h[i]
    BY <1>4, <2>1
  <2>3. Len(front) + j \in 1 .. Len(front) + Len(tail)
    BY <1>4, <1>5, <2>1
  <2>4. c[Len(front) + j] = tail[j]
    BY <1>5, <2>1, <2>3
  <2> QED
    BY <2>1, <2>2, <2>4
<1>7. PICK i \in s .. Len(h) : IsCarrier(h[i])
  BY <1>2 DEF Carries
<1>8. i \in 1 .. Len(h) /\ \A j \in i .. Len(h) : j \in s .. Len(h)
  BY <1>2
<1> QED
  BY <1>6, <1>7, <1>8

\* Compaction leaves no second unanswered call before the last.
LEMMA CompactionSettled ==
    ASSUME NEW h \in Seq(Msg), NEW todos \in BOOLEAN,
           NEW c \in Compactions(h, todos), FrontSettled(h)
    PROVE  FrontSettled(c)
<1> SUFFICES ASSUME Dangling(c) PROVE ~Dangling(Front(c))
  BY DEF FrontSettled
<1>1. c \in Seq(Msg) /\ c # <<>> /\ h # <<>> /\ Last(c) = Last(h)
  BY CompactionType, CompactionLast
<1>2. Dangling(h) /\ ~Dangling(Front(h))
  BY <1>1 DEF FrontSettled, Dangling
<1>3. /\ Len(h) \in Nat /\ Len(c) \in Nat /\ Len(c) > 0
      /\ Front(h) \in Seq(Msg) /\ Front(c) \in Seq(Msg)
      /\ Len(Front(h)) = Len(h) - 1 /\ Len(Front(c)) = Len(c) - 1
      /\ \A i \in 1 .. Len(h) - 1 : Front(h)[i] = h[i]
      /\ \A i \in 1 .. Len(c) - 1 : Front(c)[i] = c[i]
  BY <1>1, FrontPieces
<1>4. PICK s \in 1 .. Len(h) :
         /\ IsCarrier(h[s])
         /\ \A i \in s .. Len(h) :
               /\ i + (Len(c) - Len(h)) \in 1 .. Len(c)
               /\ c[i + (Len(c) - Len(h))] = h[i]
  BY CompactionTail
<1>5. s # Len(h)
  BY <1>2, <1>4 DEF Dangling, Last, HasCall, IsCarrier, CallKinds, CarrierKinds
<1>6. Len(h) - 1 \in s .. Len(h) /\ Len(h) - 1 >= 1
  BY <1>3, <1>5
<1>7. /\ (Len(h) - 1) + (Len(c) - Len(h)) = Len(c) - 1
      /\ Len(c) - 1 \in 1 .. Len(c) /\ c[Len(c) - 1] = h[Len(h) - 1]
  <2>1. (Len(h) - 1) + (Len(c) - Len(h)) = Len(c) - 1
    BY <1>3
  <2> QED
    BY <1>4, <1>6, <2>1
<1>8. Last(Front(c)) = c[Len(c) - 1] /\ Last(Front(h)) = h[Len(h) - 1]
  BY <1>3, <1>6, <1>7 DEF Last
<1>9. Front(h) # <<>>
  BY <1>3, <1>6
<1> QED
  BY <1>2, <1>7, <1>8, <1>9 DEF Dangling

-----------------------------------------------------------------------------
\* The list ends in a response with calls and returns for some of them; the others
\* wait.
Undecided(h, pending) ==
    \E i \in 1 .. Len(h) :
        /\ HasCall(h[i])
        /\ \A j \in i + 1 .. Len(h) : h[j].k = "ret"
        /\ pending = h[i].of \ UNION {h[j].of : j \in i + 1 .. Len(h)}

\* Compaction leaves the calls that wait at the end.
LEMMA CompactionWaiting ==
    ASSUME NEW h \in Seq(Msg), NEW todos \in BOOLEAN,
           NEW c \in Compactions(h, todos), NEW pending, Undecided(h, pending)
    PROVE  Undecided(c, pending)
<1>1. PICK i \in 1 .. Len(h) :
         /\ HasCall(h[i])
         /\ \A j \in i + 1 .. Len(h) : h[j].k = "ret"
         /\ pending = h[i].of \ UNION {h[j].of : j \in i + 1 .. Len(h)}
  BY DEF Undecided
<1>2. Len(h) \in Nat /\ Len(c) \in Nat
  BY CompactionType, LenProperties
<1>3. PICK s \in 1 .. Len(h) :
         /\ IsCarrier(h[s])
         /\ \A k \in s .. Len(h) :
               /\ k + (Len(c) - Len(h)) \in 1 .. Len(c)
               /\ c[k + (Len(c) - Len(h))] = h[k]
  BY CompactionTail
<1>4. s <= i
  <2>1. SUFFICES ASSUME s > i PROVE FALSE
    BY <1>2
  <2>2. s \in i + 1 .. Len(h)
    BY <1>2, <2>1
  <2> QED
    BY <1>1, <1>3, <2>2 DEF IsCarrier, CarrierKinds
<1> DEFINE d == Len(c) - Len(h)
<1>5. d \in Int /\ Len(h) + d = Len(c)
  BY <1>2
<1>6. \A k \in i .. Len(h) : k + d \in 1 .. Len(c) /\ c[k + d] = h[k]
  BY <1>2, <1>3, <1>4
<1> HIDE DEF d
<1>7. i + d \in 1 .. Len(c) /\ c[i + d] = h[i]
  BY <1>2, <1>6
<1>8. \A k \in i + d + 1 .. Len(c) : k - d \in i + 1 .. Len(h) /\ c[k] = h[k - d]
  <2> SUFFICES ASSUME NEW k \in i + d + 1 .. Len(c)
               PROVE  k - d \in i + 1 .. Len(h) /\ c[k] = h[k - d]
    OBVIOUS
  <2>1. k - d \in i + 1 .. Len(h) /\ k - d \in i .. Len(h) /\ (k - d) + d = k
    BY <1>2, <1>5, <1>7
  <2> QED
    BY <1>6, <2>1
<1>9. \A k \in i + 1 .. Len(h) : k + d \in i + d + 1 .. Len(c) /\ c[k + d] = h[k]
  BY <1>2, <1>5, <1>6
<1>10. UNION {c[k].of : k \in i + d + 1 .. Len(c)} = UNION {h[k].of : k \in i + 1 .. Len(h)}
  <2>1. ASSUME NEW k \in i + d + 1 .. Len(c)
        PROVE  c[k].of \in {h[j].of : j \in i + 1 .. Len(h)}
    BY <1>8
  <2>2. ASSUME NEW k \in i + 1 .. Len(h)
        PROVE  h[k].of \in {c[j].of : j \in i + d + 1 .. Len(c)}
    BY <1>9
  <2>3. {c[k].of : k \in i + d + 1 .. Len(c)} = {h[k].of : k \in i + 1 .. Len(h)}
    BY <2>1, <2>2
  <2> QED
    BY <2>3
<1>11. \A k \in i + d + 1 .. Len(c) : c[k].k = "ret"
  BY <1>1, <1>8
<1> QED
  BY <1>1, <1>7, <1>10, <1>11 DEF Undecided

-----------------------------------------------------------------------------
(***************************************************************************)
(* Joining requests.                                                       *)
(***************************************************************************)
\* One message put behind what was joined so far: into its last message or not.
Joined(g, m, into) ==
    IF into /\ g # <<>> THEN Append(Front(g), Both(Last(g), m)) ELSE Append(g, m)

\* What Join makes of the first messages of a list, for every number of them.
Joins(run, h, B) ==
    /\ run[0] = <<>>
    /\ \A i \in 1 .. Len(h) : run[i] = Joined(run[i - 1], h[i], i \in B)
    /\ Join(h, B) = run[Len(h)]

\* What Join makes of the first messages of a list, one by one.
LEMMA JoinSteps ==
    ASSUME NEW h \in Seq(Msg), NEW B
    PROVE  \E run : Joins(run, h, B)
<1> DEFINE Step(g, i) == IF i = 0 THEN <<>>
                         ELSE IF i \in B /\ g[i - 1] # <<>>
                              THEN Append(Front(g[i - 1]), Both(Last(g[i - 1]), h[i]))
                              ELSE Append(g[i - 1], h[i])
           Runs(g, n) == g = [i \in 0 .. n |-> Step(g, i)]
           good == {n \in 0 .. Len(h) : \E g : Runs(g, n)}
<1>1. Len(h) \in Nat
  BY LenProperties
<1>2. 0 \in good
  <2>1. Runs([i \in 0 .. 0 |-> <<>>], 0)
    OBVIOUS
  <2>2. 0 \in 0 .. Len(h)
    BY <1>1
  <2> HIDE DEF Runs
  <2> QED
    BY <2>1, <2>2
<1>3. ASSUME NEW n \in 1 .. Len(h), n - 1 \in good
      PROVE  n \in good
  <2>1. PICK g : Runs(g, n - 1)
    BY <1>3
  <2> DEFINE f == [i \in 0 .. n |-> IF i = n THEN Step(g, n) ELSE g[i]]
  <2>2. ASSUME NEW i \in 0 .. n PROVE f[i] = Step(f, i)
    <3>1. CASE i = n
      <4>1. f[i - 1] = g[i - 1]
        BY <3>1, <1>1
      <4> QED
        BY <3>1, <4>1, <1>1
    <3>2. CASE i # n
      <4>1. f[i] = g[i] /\ i \in 0 .. n - 1
        BY <3>2, <1>1
      <4>2. i # 0 => f[i - 1] = g[i - 1]
        BY <3>2, <1>1
      <4>3. g[i] = Step(g, i)
        BY <2>1, <4>1
      <4> QED
        BY <4>1, <4>2, <4>3
    <3> QED
      BY <3>1, <3>2
  <2>3. Runs(f, n)
    <3> HIDE DEF Step
    <3> QED
      BY <2>2
  <2>4. n \in 0 .. Len(h)
    BY <1>1
  <2> HIDE DEF Runs, f
  <2> QED
    BY <2>3, <2>4
<1>4. \E g : Runs(g, Len(h))
  <2> HIDE DEF good
  <2>1. Len(h) \in good
    BY <1>1, <1>2, <1>3, UpTo
  <2> QED
    BY <2>1 DEF good
<1> DEFINE run == CHOOSE g : Runs(g, Len(h))
<1>5. Runs(run, Len(h))
  <2> HIDE DEF Runs
  <2> QED
    BY <1>4
<1>6. Join(h, B) = run[Len(h)]
  BY DEF Join
<1>7. run[0] = <<>> /\ \A i \in 1 .. Len(h) : run[i] = Step(run, i)
  <2> HIDE DEF run
  <2>1. \A i \in 0 .. Len(h) : run[i] = Step(run, i)
    <3> HIDE DEF Step
    <3> QED
      BY <1>5
  <2>2. run[0] = Step(run, 0)
    BY <1>1, <2>1
  <2> QED
    BY <1>1, <2>1, <2>2
<1> HIDE DEF run
<1>8. ASSUME NEW i \in 1 .. Len(h)
      PROVE  run[i] = Joined(run[i - 1], h[i], i \in B)
  <2>1. i # 0 /\ run[i] = Step(run, i)
    BY <1>1, <1>7
  <2> QED
    BY <2>1 DEF Joined
<1>9. Joins(run, h, B)
  BY <1>6, <1>7, <1>8 DEF Joins
<1> QED
  BY <1>9

\* Two messages that were made one stand for what both stood for.
LEMMA BothPieces ==
    ASSUME NEW m \in Msg, NEW n \in Msg
    PROVE  /\ Both(m, n) \in Msg /\ Both(m, n).of = m.of \cup n.of
           /\ IsRequest(m) /\ IsRequest(n) => IsRequest(Both(m, n))
<1>1. m.k \in Kinds /\ n.k \in Kinds /\ m.of \in SUBSET Nat /\ n.of \in SUBSET Nat
  BY DEF Msg
<1> DEFINE k == IF m.k = "ret" THEN n.k ELSE m.k
<1>2. k \in Kinds /\ m.of \cup n.of \in SUBSET Nat
  BY <1>1
<1>3. Both(m, n) = M(k, m.of \cup n.of)
  BY DEF Both
<1>4. Both(m, n).k = k /\ Both(m, n).of = m.of \cup n.of
  BY <1>3 DEF M
<1>5. Both(m, n) \in Msg
  BY <1>2, <1>3, MsgType
<1> QED
  BY <1>4, <1>5 DEF IsRequest

\* All but the last message of a list and the last one stand for what the list does.
LEMMA FrontAndLast ==
    ASSUME NEW h \in Seq(Msg), h # <<>>
    PROVE  /\ Front(h) \in Seq(Msg) /\ Last(h) \in Msg
           /\ Covered(h) = Covered(Front(h)) \cup Last(h).of
<1>1. Len(h) \in Nat /\ Len(h) > 0 /\ DOMAIN h = 1 .. Len(h)
  BY LenProperties, EmptySeq
<1>2. /\ Front(h) \in Seq(Msg) /\ Len(Front(h)) = Len(h) - 1
      /\ \A i \in 1 .. Len(h) - 1 : Front(h)[i] = h[i]
  BY FrontPieces
<1>3. Last(h) = h[Len(h)] /\ Last(h) \in Msg
  BY <1>1, ElementOfSeq DEF Last
<1>4. DOMAIN Front(h) = 1 .. Len(h) - 1
  BY <1>2, LenProperties
<1>5. ASSUME NEW i \in 1 .. Len(h) PROVE i = Len(h) \/ i \in 1 .. Len(h) - 1
  <2>1. Len(h) \in Nat /\ i \in Nat /\ 1 <= i /\ i <= Len(h)
    BY <1>1
  <2> QED
    BY <2>1
<1>6. ASSUME NEW x \in Covered(h) PROVE x \in Covered(Front(h)) \cup Last(h).of
  <2>1. PICK i \in 1 .. Len(h) : x \in h[i].of
    BY <1>1 DEF Covered
  <2> QED
    BY <1>2, <1>3, <1>4, <1>5, <2>1 DEF Covered
<1>7. ASSUME NEW x \in Covered(Front(h)) \cup Last(h).of PROVE x \in Covered(h)
  <2>1. CASE x \in Covered(Front(h))
    <3>1. PICK i \in 1 .. Len(h) - 1 : x \in Front(h)[i].of
      BY <1>4, <2>1 DEF Covered
    <3>2. i \in 1 .. Len(h) /\ x \in h[i].of
      BY <1>1, <1>2, <3>1
    <3> QED
      BY <1>1, <3>2 DEF Covered
  <2>2. CASE x \in Last(h).of
    <3>1. Len(h) \in 1 .. Len(h)
      BY <1>1
    <3> QED
      BY <1>1, <1>3, <2>2, <3>1 DEF Covered
  <2> QED
    BY <2>1, <2>2
<1> QED
  BY <1>2, <1>3, <1>6, <1>7

\* A message put behind what was joined so far adds what it stands for and nothing
\* else; it is the last message then, or a part of a request if it is one.
LEMMA JoinedPieces ==
    ASSUME NEW g \in Seq(Msg), NEW m \in Msg, NEW into \in BOOLEAN
    PROVE  /\ Joined(g, m, into) \in Seq(Msg) /\ Joined(g, m, into) # <<>>
           /\ Covered(Joined(g, m, into)) = Covered(g) \cup m.of
           /\ \/ Last(Joined(g, m, into)) = m
              \/ /\ into /\ g # <<>>
                 /\ IsRequest(m) /\ IsRequest(Last(g)) => IsRequest(Last(Joined(g, m, into)))
<1>1. CASE into /\ g # <<>>
  <2> DEFINE f == Front(g)
             b == Both(Last(g), m)
  <2>1. f \in Seq(Msg) /\ Last(g) \in Msg /\ Covered(g) = Covered(f) \cup Last(g).of
    BY <1>1, FrontAndLast
  <2>2. /\ b \in Msg /\ b.of = Last(g).of \cup m.of
        /\ IsRequest(Last(g)) /\ IsRequest(m) => IsRequest(b)
    BY <2>1, BothPieces
  <2>3. Joined(g, m, into) = Append(f, b)
    BY <1>1 DEF Joined
  <2> HIDE DEF f, b
  <2>4. Append(f, b) \in Seq(Msg) /\ Append(f, b) # <<>> /\ Last(Append(f, b)) = b
    BY <2>1, <2>2, AppendPieces
  <2>5. Covered(Append(f, b)) = Covered(f) \cup b.of
    BY <2>1, <2>2, CoveredAppend
  <2> QED
    BY <1>1, <2>1, <2>2, <2>3, <2>4, <2>5
<1>2. CASE ~(into /\ g # <<>>)
  <2>1. Joined(g, m, into) = Append(g, m)
    BY <1>2 DEF Joined
  <2>2. Append(g, m) \in Seq(Msg) /\ Append(g, m) # <<>> /\ Last(Append(g, m)) = m
    BY AppendPieces
  <2>3. Covered(Append(g, m)) = Covered(g) \cup m.of
    BY CoveredAppend
  <2> QED
    BY <2>1, <2>2, <2>3
<1> QED
  BY <1>1, <1>2

\* What the first n messages of a list stand for.
CoveredTo(h, n) == UNION {h[i].of : i \in 1 .. n}

\* g is the first n messages of h with some of its requests joined.
JoinedTo(g, h, n) ==
    /\ g \in Seq(Msg) /\ Covered(g) = CoveredTo(h, n)
    /\ n # 0 => /\ g # <<>>
                /\ Last(g) = h[n] \/ (IsRequest(Last(g)) /\ IsRequest(h[n]))

\* A list with requests joined stands for what the list stands for, and ends in an
\* unanswered call only if the list does.
LEMMA JoinPieces ==
    ASSUME NEW h \in Seq(Msg), NEW B \in SUBSET Joinable(h)
    PROVE  /\ Join(h, B) \in Seq(Msg) /\ Covered(Join(h, B)) = Covered(h)
           /\ Dangling(Join(h, B)) => Dangling(h) /\ Last(Join(h, B)) = Last(h)
<1>1. Len(h) \in Nat /\ DOMAIN h = 1 .. Len(h)
  BY LenProperties
<1>2. PICK run : Joins(run, h, B)
  BY JoinSteps
<1> DEFINE good == {n \in 0 .. Len(h) : JoinedTo(run[n], h, n)}
<1>3. 0 \in good
  <2>1. <<>> \in Seq(Msg) /\ Covered(<<>>) = {} /\ CoveredTo(h, 0) = {}
    BY EmptySeq DEF Covered, CoveredTo
  <2>2. run[0] = <<>>
    BY <1>2 DEF Joins
  <2>3. JoinedTo(run[0], h, 0)
    BY <2>1, <2>2 DEF JoinedTo
  <2> QED
    BY <1>1, <2>3
<1>4. ASSUME NEW n \in 1 .. Len(h), n - 1 \in good
      PROVE  n \in good
  <2> DEFINE g == run[n - 1]
             into == n \in B
             j == Joined(g, h[n], into)
  <2>1. JoinedTo(g, h, n - 1) /\ h[n] \in Msg /\ into \in BOOLEAN /\ n \in Nat /\ n # 0
    BY <1>1, <1>4, ElementOfSeq
  <2>2. run[n] = j
    BY <1>2 DEF Joins
  <2>3. g \in Seq(Msg) /\ Covered(g) = CoveredTo(h, n - 1)
    BY <2>1 DEF JoinedTo
  <2>4. into => n - 1 # 0 /\ IsRequest(h[n - 1]) /\ IsRequest(h[n])
    BY <1>1 DEF Joinable
  <2>5. into => IsRequest(Last(g))
    BY <2>1, <2>4 DEF JoinedTo
  <2>6. CoveredTo(h, n) = CoveredTo(h, n - 1) \cup h[n].of
    <3>1. \A i \in 1 .. n : i = n \/ i \in 1 .. n - 1
      BY <1>1
    <3>2. n \in 1 .. n /\ \A i \in 1 .. n - 1 : i \in 1 .. n
      BY <1>1
    <3> QED
      BY <3>1, <3>2 DEF CoveredTo
  <2> HIDE DEF g, into
  <2>7. /\ j \in Seq(Msg) /\ j # <<>>
        /\ Covered(j) = Covered(g) \cup h[n].of
        /\ \/ Last(j) = h[n]
           \/ /\ into /\ g # <<>>
              /\ IsRequest(h[n]) /\ IsRequest(Last(g)) => IsRequest(Last(j))
    BY <2>1, <2>3, JoinedPieces
  <2> HIDE DEF j
  <2>8. JoinedTo(j, h, n)
    BY <2>3, <2>4, <2>5, <2>6, <2>7 DEF JoinedTo
  <2> QED
    BY <1>1, <2>2, <2>8
<1>5. JoinedTo(Join(h, B), h, Len(h))
  <2> HIDE DEF good
  <2>1. Len(h) \in good
    BY <1>1, <1>3, <1>4, UpTo
  <2> QED
    BY <1>2, <2>1 DEF good, Joins
<1>6. CoveredTo(h, Len(h)) = Covered(h)
  BY <1>1 DEF CoveredTo, Covered
<1>7. ASSUME Dangling(Join(h, B))
      PROVE  Dangling(h) /\ Last(Join(h, B)) = Last(h)
  <2>1. Join(h, B) # <<>> /\ HasCall(Last(Join(h, B)))
    BY <1>7 DEF Dangling
  <2>2. Len(h) # 0
    <3> SUFFICES ASSUME Len(h) = 0 PROVE FALSE
      OBVIOUS
    <3>1. Join(h, B) = <<>>
      BY <1>2 DEF Joins
    <3> QED
      BY <2>1, <3>1
  <2>3. Last(Join(h, B)) = h[Len(h)]
    BY <1>5, <2>1, <2>2 DEF JoinedTo, HasCall, IsRequest, CallKinds, CarrierKinds
  <2> QED
    BY <1>1, <2>1, <2>2, <2>3 DEF Last, Dangling
<1> QED
  BY <1>5, <1>6, <1>7 DEF JoinedTo

\* What can be joined in the first messages of a list can be joined in the list.
LEMMA JoinablePrefix ==
    ASSUME NEW h \in Seq(Msg), NEW n \in Nat, n <= Len(h)
    PROVE  Joinable(SubSeq(h, 1, n)) \subseteq Joinable(h)
<1> DEFINE s == SubSeq(h, 1, n)
<1>1. /\ Len(h) \in Nat /\ Len(s) = n /\ \A i \in 1 .. n : s[i] = h[i]
  <2>1. Len(h) \in Nat
    BY LenProperties
  <2>2. Len(s) = n
    BY <2>1, PieceType
  <2>3. \A i \in 1 .. n : s[i] = h[i]
    BY <2>1, PieceType
  <2> QED
    BY <2>1, <2>2, <2>3
<1> HIDE DEF s
<1>2. ASSUME NEW i \in 2 .. n
      PROVE  i \in 2 .. Len(h) /\ i - 1 \in 1 .. n /\ i \in 1 .. n
  BY <1>1
<1> QED
  BY <1>1, <1>2 DEF Joinable, s

=============================================================================
