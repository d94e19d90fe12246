--------------------------- MODULE SequenceLemmas ---------------------------
(***************************************************************************)
(* Lemmas about sequences, for the proofs about the audits, the messages   *)
(* and the documents of the semantic calls: what Picked selects, what      *)
(* Pieces cuts, and what FlattenSeq puts together.                         *)
(*                                                                         *)
(* These are recursive functions, so that each lemma is an induction. The  *)
(* induction principles of the library take an operator; those here take a *)
(* set instead, and follow from the order of the numbers being well        *)
(* founded.                                                                *)
(***************************************************************************)
EXTENDS Selections, SequencesExt, Integers, FiniteSets, WellFoundedInduction, TLAPS

\* Two sequences of one length with the same elements are equal.
LEMMA SequencesEqual ==
  ASSUME NEW E, NEW s \in Seq(E), NEW t \in Seq(E), Len(s) = Len(t), \A i \in 1..Len(s) : s[i] = t[i]
  PROVE  s = t
OBVIOUS

\* A sequence over a set is one over every larger set.
LEMMA SeqMonotone ==
  ASSUME NEW A, NEW B, A \subseteq B, NEW s \in Seq(A) PROVE s \in Seq(B)
OBVIOUS

\* Every set of numbers with a member has a least one: the order of the numbers is well
\* founded.
LEMMA Least ==
  ASSUME NEW T \in SUBSET Nat, T # {}
  PROVE  \E m \in T : \A k \in T : m <= k
<1>. DEFINE R == OpToRel(<,Nat)
<1>1. IsWellFoundedOn(R, Nat)
  BY NatLessThanWellFounded
<1>2. \A k, l \in Nat : k < l => <<k, l>> \in R
  BY DEF OpToRel
<1>3. T \subseteq Nat /\ T # {}
  OBVIOUS
<1>. HIDE DEF R
<1>4. PICK m \in T : \A k \in T : <<k, m>> \notin R
  BY <1>1, <1>3, WFMin
<1>5. ASSUME NEW k \in T PROVE m <= k
  <2>1. k \in Nat /\ m \in Nat
    BY <1>3
  <2>2. ~(k < m)
    BY <1>2, <1>4, <2>1
  <2> QED BY <2>1, <2>2
<1> QED BY <1>5

\* Induction over the numbers, as a fact about a set of them.
LEMMA Induction ==
  ASSUME NEW S, 0 \in S, \A n \in Nat : n \in S => n + 1 \in S
  PROVE  \A n \in Nat : n \in S
<1>. DEFINE T == Nat \ S
<1>1. SUFFICES ASSUME T # {} PROVE FALSE
  OBVIOUS
<1>2. PICK m \in T : \A k \in T : m <= k
  BY <1>1, Least
<1>3. m - 1 \in Nat /\ m - 1 \notin T
  BY <1>2
<1> QED BY <1>2, <1>3

\* f unfolds the steps of Step from base: a value at every position from the one before.
Unfolds(A, n, base, Step, f) ==
  f \in [0..n -> A] /\ f[0] = base /\ \A i \in 1..n : f[i] = Step[i][f[i - 1]]

StepsOf(A, n) == [1..n -> [A -> A]]

\* A recursive function over 0..n exists, and its equations hold.
LEMMA Recursion ==
  ASSUME NEW A, NEW n \in Nat, NEW base \in A, NEW Step \in StepsOf(A, n)
  PROVE  \E f : Unfolds(A, n, base, Step, f)
<1>. USE DEF StepsOf
<1>. DEFINE Good(m, f) == f \in [0..m -> A] /\ f = [i \in 0..m |-> IF i = 0 THEN base ELSE Step[i][f[i - 1]]]
            S == {m \in Nat : m <= n => \E f : Good(m, f)}
<1>1. 0 \in S
  <2>1. Good(0, [i \in 0..0 |-> base])
    OBVIOUS
  <2> QED BY <2>1
<1>2. ASSUME NEW m \in Nat, m \in S PROVE m + 1 \in S
  <2>1. SUFFICES ASSUME m + 1 <= n PROVE \E f : Good(m + 1, f)
    OBVIOUS
  <2>2. PICK f : Good(m, f)
    BY <1>2, <2>1
  <2>. DEFINE g == [i \in 0..(m+1) |-> IF i = m + 1 THEN Step[m + 1][f[m]] ELSE f[i]]
  <2>3. f[m] \in A /\ m + 1 \in 1..n
    BY <2>1, <2>2
  <2>3a. Step[m + 1][f[m]] \in A
    BY <2>3
  <2>4. g \in [0..(m+1) -> A]
    BY <2>2, <2>3a
  <2>5. ASSUME NEW i \in 0..(m+1) PROVE g[i] = IF i = 0 THEN base ELSE Step[i][g[i - 1]]
    <3>1. CASE i = m + 1
      <4>1. g[i - 1] = f[m]
        BY <3>1
      <4> QED BY <3>1, <4>1
    <3>2. CASE i # m + 1
      <4>1. i \in 0..m /\ g[i] = f[i]
        BY <3>2
      <4>2. i # 0 => g[i - 1] = f[i - 1]
        BY <4>1
      <4>3. f[i] = IF i = 0 THEN base ELSE Step[i][f[i - 1]]
        BY <2>2, <4>1
      <4> QED BY <4>1, <4>2, <4>3
    <3> QED BY <3>1, <3>2
  <2>6. Good(m + 1, g)
    <3>. DEFINE h == [i \in 0..(m+1) |-> IF i = 0 THEN base ELSE Step[i][g[i - 1]]]
    <3>1. \A i \in 0..(m+1) : g[i] = h[i]
      BY <2>5
    <3>2. g = h
      BY <3>1
    <3> QED BY <2>4, <3>2
  <2>. HIDE DEF g, Good
  <2> QED BY <2>6
<1>. HIDE DEF S
<1>3. n \in S
  BY <1>1, <1>2, Induction
<1>4. PICK f : Good(n, f)
  BY <1>3 DEF S
<1>5. f \in [0..n -> A] /\ f[0] = base
  BY <1>4
<1>6. ASSUME NEW i \in 1..n PROVE f[i] = Step[i][f[i - 1]]
  BY <1>4
<1> QED BY <1>5, <1>6 DEF Unfolds

(***************************************************************************)
(* Parts of sequences                                                      *)
(***************************************************************************)

\* What the recursive function of Picked does at every position.
PicksBy(E, s, I, f) ==
  /\ f \in [0..Len(s) -> Seq(E)] /\ f[0] = <<>> /\ Picked(s, I) = f[Len(s)]
  /\ \A i \in 1..Len(s) : f[i] = IF i \in I THEN Append(f[i - 1], s[i]) ELSE f[i - 1]

\* The recursive function behind Picked exists.
LEMMA PickedSteps == ASSUME NEW E, NEW s \in Seq(E), NEW I PROVE \E f : PicksBy(E, s, I, f)
<1>. DEFINE n == Len(s)
            Step == [i \in 1..n |-> [u \in Seq(E) |-> IF i \in I THEN Append(u, s[i]) ELSE u]]
            Q(f) == f = [i \in 0..n |-> IF i = 0 THEN <<>>
                                        ELSE IF i \in I THEN Append(f[i - 1], s[i]) ELSE f[i - 1]]
            g == CHOOSE f : Q(f)
<1>1. n \in Nat /\ \A i \in 1..n : s[i] \in E
  OBVIOUS
<1>2. Step \in [1..n -> [Seq(E) -> Seq(E)]]
  BY <1>1
<1>3. PICK f \in [0..n -> Seq(E)] : f[0] = <<>> /\ \A i \in 1..n : f[i] = Step[i][f[i - 1]]
  <2>1. Step \in StepsOf(Seq(E), n)
    BY <1>2 DEF StepsOf
  <2>. HIDE DEF Step, n
  <2>2. n \in Nat /\ <<>> \in Seq(E)
    BY <1>1
  <2>3. \E f : Unfolds(Seq(E), n, <<>>, Step, f)
    BY <2>1, <2>2, Recursion
  <2> QED BY <2>3 DEF Unfolds
<1>4. Q(f)
  <2>1. ASSUME NEW i \in 0..n
        PROVE  f[i] = IF i = 0 THEN <<>> ELSE IF i \in I THEN Append(f[i - 1], s[i]) ELSE f[i - 1]
    <3>2. CASE i = 0
      BY <1>3, <3>2
    <3>3. CASE i # 0
      <4>1. i \in 1..n /\ f[i - 1] \in Seq(E)
        BY <1>1, <1>3, <3>3
      <4>3. f[i] = Step[i][f[i - 1]]
        BY <1>3, <4>1
      <4>2. Step[i][f[i - 1]] = IF i \in I THEN Append(f[i - 1], s[i]) ELSE f[i - 1]
        BY <4>1
      <4> QED BY <3>3, <4>2, <4>3
    <3> QED BY <3>2, <3>3
  <2>. HIDE DEF n, Step
  <2> QED BY <1>3, <2>1
<1>5. Q(g)
  BY <1>4
<1>6. Picked(s, I) = g[n]
  BY DEF Picked
<1>. HIDE DEF g, n, Step
<1>7. g = [i \in 0..n |-> IF i = 0 THEN <<>>
                         ELSE IF i \in I THEN Append(g[i - 1], s[i]) ELSE g[i - 1]]
  BY <1>5
<1>8. g[0] = <<>> /\ \A i \in 1..n : g[i] = IF i \in I THEN Append(g[i - 1], s[i]) ELSE g[i - 1]
  <2>1. g[0] = <<>>
    BY <1>1, <1>7
  <2>2. ASSUME NEW i \in 1..n PROVE g[i] = IF i \in I THEN Append(g[i - 1], s[i]) ELSE g[i - 1]
    <3>1. i \in 0..n /\ i # 0
      BY <1>1
    <3> QED BY <1>7, <3>1
  <2> QED BY <2>1, <2>2
<1>9. \A i \in 0..n : g[i] \in Seq(E)
  <2>. DEFINE S == {i \in Nat : i \in 0..n => g[i] \in Seq(E)}
  <2>1. 0 \in S
    <3>1. <<>> \in Seq(E)
      OBVIOUS
    <3> QED BY <1>8, <3>1
  <2>2. ASSUME NEW i \in Nat, i \in S PROVE i + 1 \in S
    <3>1. SUFFICES ASSUME i + 1 \in 0..n PROVE g[i + 1] \in Seq(E)
      OBVIOUS
    <3>2. i \in 0..n /\ i + 1 \in 1..n /\ (i + 1) - 1 = i
      BY <1>1, <3>1
    <3>3. g[i] \in Seq(E) /\ s[i + 1] \in E
      BY <1>1, <2>2, <3>2
    <3>4. g[i + 1] = IF i + 1 \in I THEN Append(g[i], s[i + 1]) ELSE g[i]
      BY <1>8, <3>2
    <3> QED BY <3>3, <3>4
  <2>. HIDE DEF S
  <2>3. \A i \in Nat : i \in S
    BY <2>1, <2>2, Induction
  <2> QED BY <1>1, <2>3 DEF S
<1>10. g \in [0..n -> Seq(E)]
  BY <1>7, <1>9
<1>11. Len(s) = n
  BY DEF n
<1> QED BY <1>6, <1>8, <1>10, <1>11 DEF PicksBy

\* Induction over the sequences of E, as a fact about a set of them.
LEMMA SequenceInduction ==
  ASSUME NEW E, NEW T, <<>> \in T, \A t \in Seq(E), x \in E : t \in T => Append(t, x) \in T
  PROVE  \A s \in Seq(E) : s \in T
<1>. DEFINE S == {n \in Nat : \A s \in Seq(E) : Len(s) = n => s \in T}
<1>1. 0 \in S
  <2>1. \A s \in Seq(E) : Len(s) = 0 => s = <<>>
    OBVIOUS
  <2> QED BY <2>1
<1>2. ASSUME NEW n \in Nat, n \in S PROVE n + 1 \in S
  <2>1. SUFFICES ASSUME NEW s \in Seq(E), Len(s) = n + 1 PROVE s \in T
    OBVIOUS
  <2>. DEFINE t == SubSeq(s, 1, n)
  <2>2. t \in Seq(E) /\ Len(t) = n /\ s[n + 1] \in E
    BY <2>1
  <2>3. s = Append(t, s[n + 1])
    BY <2>1
  <2>4. t \in T
    BY <1>2, <2>2
  <2>. HIDE DEF t
  <2> QED BY <2>2, <2>3, <2>4
<1>. HIDE DEF S
<1>3. \A n \in Nat : n \in S
  BY <1>1, <1>2, Induction
<1>4. ASSUME NEW s \in Seq(E) PROVE s \in T
  <2>1. Len(s) \in Nat
    OBVIOUS
  <2> QED BY <1>3, <2>1 DEF S
<1> QED BY <1>4

\* Nothing is picked from nothing.
LEMMA PickedEmpty == ASSUME NEW I PROVE Picked(<<>>, I) = <<>>
<1>1. <<>> \in Seq({}) /\ Len(<<>>) = 0
  OBVIOUS
<1>2. PICK f : PicksBy({}, <<>>, I, f)
  BY <1>1, PickedSteps
<1> QED BY <1>1, <1>2 DEF PicksBy

\* An element more at the end is picked behind the others, or not.
LEMMA PickedAppend ==
  ASSUME NEW E, NEW s \in Seq(E), NEW x \in E, NEW I
  PROVE  Picked(Append(s, x), I) =
           IF Len(s) + 1 \in I THEN Append(Picked(s, I), x) ELSE Picked(s, I)
<1>. DEFINE n == Len(s)
            t == Append(s, x)
<1>1. /\ n \in Nat /\ t \in Seq(E) /\ Len(t) = n + 1 /\ t[n + 1] = x
      /\ \A i \in 1..n : t[i] = s[i]
  OBVIOUS
<1>. HIDE DEF t
<1>2. PICK f : PicksBy(E, s, I, f)
  BY PickedSteps
<1>3. PICK g : PicksBy(E, t, I, g)
  BY <1>1, PickedSteps
<1>. USE DEF PicksBy
<1>. DEFINE S == {i \in Nat : i <= n => g[i] = f[i]}
<1>4. 0 \in S
  BY <1>2, <1>3
<1>5. ASSUME NEW i \in Nat, i \in S PROVE i + 1 \in S
  <2>1. SUFFICES ASSUME i + 1 <= n PROVE g[i + 1] = f[i + 1]
    OBVIOUS
  <2>2. g[i] = f[i] /\ i + 1 \in 1..n /\ i + 1 \in 1..Len(t) /\ (i + 1) - 1 = i
    BY <1>1, <1>5, <2>1
  <2>3. f[i + 1] = IF i + 1 \in I THEN Append(f[i], s[i + 1]) ELSE f[i]
    BY <1>2, <2>2
  <2>4. g[i + 1] = IF i + 1 \in I THEN Append(g[i], t[i + 1]) ELSE g[i]
    BY <1>3, <2>2
  <2>5. t[i + 1] = s[i + 1]
    BY <1>1, <2>2
  <2> QED BY <2>2, <2>3, <2>4, <2>5
<1>. HIDE DEF S
<1>6. \A i \in Nat : i \in S
  BY <1>4, <1>5, Induction
<1>7. g[n] = f[n]
  BY <1>1, <1>6 DEF S
<1>8. g[n + 1] = IF n + 1 \in I THEN Append(g[n], t[n + 1]) ELSE g[n]
  <2>1. n + 1 \in 1..Len(t) /\ (n + 1) - 1 = n
    BY <1>1
  <2> QED BY <1>3, <2>1
<1>9. Picked(t, I) = IF n + 1 \in I THEN Append(Picked(s, I), x) ELSE Picked(s, I)
  BY <1>1, <1>2, <1>3, <1>7, <1>8
<1> QED BY <1>9 DEF t

\* What is picked has the type of the sequence.
LEMMA PickedSeq == ASSUME NEW E, NEW s \in Seq(E), NEW I PROVE Picked(s, I) \in Seq(E)
<1>1. PICK f : PicksBy(E, s, I, f)
  BY PickedSteps
<1>2. Len(s) \in 0..Len(s)
  OBVIOUS
<1> QED BY <1>1, <1>2 DEF PicksBy

\* Only the positions of s matter.
LEMMA PickedSame ==
  ASSUME NEW E, NEW s \in Seq(E), NEW I, NEW J, \A i \in 1..Len(s) : i \in I <=> i \in J
  PROVE  Picked(s, I) = Picked(s, J)
<1>. DEFINE T == {t \in Seq(E) : (\A i \in 1..Len(t) : i \in I <=> i \in J) => Picked(t, I) = Picked(t, J)}
<1>1. <<>> \in T
  BY PickedEmpty
<1>2. ASSUME NEW t \in Seq(E), NEW x \in E, t \in T PROVE Append(t, x) \in T
  <2>1. SUFFICES ASSUME \A i \in 1..Len(Append(t, x)) : i \in I <=> i \in J
                 PROVE  Picked(Append(t, x), I) = Picked(Append(t, x), J)
    OBVIOUS
  <2>2. Len(t) \in Nat /\ Len(Append(t, x)) = Len(t) + 1
    OBVIOUS
  <2>3. Len(t) + 1 \in I <=> Len(t) + 1 \in J
    BY <2>1, <2>2
  <2>4. \A i \in 1..Len(t) : i \in I <=> i \in J
    BY <2>1, <2>2
  <2>5. Picked(t, I) = Picked(t, J)
    BY <1>2, <2>4
  <2>6. /\ Picked(Append(t, x), I) = IF Len(t) + 1 \in I THEN Append(Picked(t, I), x) ELSE Picked(t, I)
        /\ Picked(Append(t, x), J) = IF Len(t) + 1 \in J THEN Append(Picked(t, J), x) ELSE Picked(t, J)
    BY PickedAppend
  <2> QED BY <2>3, <2>5, <2>6
<1>. HIDE DEF T
<1>3. s \in T
  BY <1>1, <1>2, SequenceInduction
<1> QED BY <1>3 DEF T

\* A part of one position.
LEMMA SubSeqOne ==
  ASSUME NEW E, NEW s \in Seq(E), NEW i \in 1..Len(s) PROVE SubSeq(s, i, i) = <<s[i]>>
<1>. DEFINE t == SubSeq(s, i, i)
<1>1. t \in Seq(E) /\ Len(t) = 1 /\ t[1] = s[i]
  OBVIOUS
<1>. HIDE DEF t
<1>2. t = <<t[1]>>
  BY <1>1
<1> QED BY <1>1, <1>2 DEF t

\* The positions of an interval pick a part of s.
LEMMA PickedInterval ==
  ASSUME NEW E, NEW s \in Seq(E), NEW I, NEW lo \in Nat \ {0}, NEW hi \in Nat,
         lo <= hi + 1, hi <= Len(s),
         \A i \in 1..Len(s) : i \in I <=> lo <= i /\ i <= hi
  PROVE  Picked(s, I) = SubSeq(s, lo, hi)
<1>. DEFINE J == lo..hi
            Holds(t) == /\ Len(t) < lo => Picked(t, J) = <<>>
                        /\ lo <= Len(t) /\ Len(t) <= hi => Picked(t, J) = SubSeq(t, lo, Len(t))
                        /\ hi < Len(t) => Picked(t, J) = SubSeq(t, lo, hi)
            T == {t \in Seq(E) : Holds(t)}
<1>1. <<>> \in T
  <2>1. Len(<<>>) = 0 /\ Picked(<<>>, J) = <<>>
    BY PickedEmpty
  <2> QED BY <2>1
<1>2. ASSUME NEW t \in Seq(E), NEW x \in E, t \in T PROVE Append(t, x) \in T
  <2>. DEFINE n == Len(t)
              u == Append(t, x)
              p == Picked(t, J)
              q == Picked(u, J)
  <2>1. n \in Nat /\ u \in Seq(E) /\ Len(u) = n + 1 /\ u[n + 1] = x /\ \A i \in 1..n : u[i] = t[i]
    OBVIOUS
  <2>2. q = IF n + 1 \in J THEN Append(p, x) ELSE p
    <3>. HIDE DEF J, Holds, T
    <3> QED BY PickedAppend
  <2>3. Holds(t)
    BY <1>2
  <2>. HIDE DEF u, p, q
  <2>4. ASSUME n + 1 < lo PROVE q = <<>>
    BY <2>1, <2>2, <2>3, <2>4 DEF p
  <2>5. ASSUME lo <= n + 1, n + 1 <= hi PROVE q = SubSeq(u, lo, n + 1)
    <3>1. q = Append(p, x)
      BY <2>1, <2>2, <2>5
    <3>2. CASE n + 1 = lo
      <4>1. p = <<>>
        BY <2>1, <2>3, <3>2 DEF p
      <4>2. SubSeq(u, lo, n + 1) = <<x>>
        BY <2>1, <3>2, SubSeqOne
      <4>3. <<x>> = Append(<<>>, x)
        OBVIOUS
      <4> QED BY <3>1, <4>1, <4>2, <4>3
    <3>3. CASE lo <= n
      <4>1. p = SubSeq(t, lo, n)
        BY <2>1, <2>3, <2>5, <3>3 DEF p
      <4>2. SubSeq(u, lo, n + 1) = Append(SubSeq(t, lo, n), x)
        BY <2>1, <3>3, SMTT(20)
      <4> QED BY <3>1, <4>1, <4>2
    <3> QED BY <2>1, <2>5, <3>2, <3>3
  <2>6. ASSUME hi < n + 1 PROVE q = SubSeq(u, lo, hi)
    <3>1. q = p
      BY <2>1, <2>2, <2>6
    <3>2. CASE n < lo
      <4>1. p = <<>> /\ hi < lo
        BY <2>1, <2>3, <2>6, <3>2 DEF p
      <4>2. SubSeq(u, lo, hi) = <<>>
        BY <2>1, <4>1
      <4> QED BY <3>1, <4>1, <4>2
    <3>3. CASE lo <= n
      <4>1. p = SubSeq(t, lo, hi)
        BY <2>1, <2>3, <2>6, <3>3 DEF p
      <4>2. SubSeq(u, lo, hi) = SubSeq(t, lo, hi)
        BY <2>1, <2>6, <3>3
      <4> QED BY <3>1, <4>1, <4>2
    <3> QED BY <2>1, <3>2, <3>3
  <2>7. Holds(u)
    BY <2>1, <2>4, <2>5, <2>6 DEF q
  <2>. HIDE DEF Holds
  <2> QED BY <2>1, <2>7 DEF u
<1>. HIDE DEF T
<1>3. s \in T
  BY <1>1, <1>2, SequenceInduction
<1>4. Holds(s)
  BY <1>3 DEF T
<1>5. Picked(s, I) = Picked(s, J)
  BY PickedSame DEF J
<1>6. CASE lo <= Len(s) /\ hi = Len(s)
  BY <1>4, <1>5, <1>6
<1>7. CASE lo > Len(s)
  <2>1. Picked(s, J) = <<>>
    BY <1>4, <1>7
  <2>2. SubSeq(s, lo, hi) = <<>>
    BY <1>7
  <2> QED BY <1>5, <2>1, <2>2
<1>8. CASE hi < Len(s)
  BY <1>4, <1>5, <1>8
<1> QED BY <1>6, <1>7, <1>8

\* No position: nothing is picked.
LEMMA PickedNone ==
  ASSUME NEW E, NEW s \in Seq(E), NEW I, \A i \in 1..Len(s) : i \notin I PROVE Picked(s, I) = <<>>
<1>1. Picked(s, I) = SubSeq(s, 1, 0)
  <2>1. \A i \in 1..Len(s) : i \in I <=> 1 <= i /\ i <= 0
    OBVIOUS
  <2> QED BY <2>1, PickedInterval
<1> QED BY <1>1

\* Every position: all is picked.
LEMMA PickedAll ==
  ASSUME NEW E, NEW s \in Seq(E), NEW I, \A i \in 1..Len(s) : i \in I PROVE Picked(s, I) = s
<1>1. PICK n \in Nat : n = Len(s)
  OBVIOUS
<1>2. 1 <= n + 1 /\ n <= Len(s) /\ \A i \in 1..Len(s) : i \in I <=> 1 <= i /\ i <= n
  BY <1>1
<1>3. Picked(s, I) = SubSeq(s, 1, n)
  <2>1. 1 \in Nat \ {0}
    OBVIOUS
  <2> QED BY <1>2, <2>1, PickedInterval
<1> QED BY <1>1, <1>3

\* Whatever is picked was at one of the positions.
LEMMA PickedMembers ==
  ASSUME NEW E, NEW s \in Seq(E), NEW I, NEW k \in 1..Len(Picked(s, I))
  PROVE  \E i \in 1..Len(s) : i \in I /\ Picked(s, I)[k] = s[i]
<1>. DEFINE Holds(t) == \A j \in 1..Len(Picked(t, I)) :
                          \E i \in 1..Len(t) : i \in I /\ Picked(t, I)[j] = t[i]
            T == {t \in Seq(E) : Holds(t)}
<1>1. <<>> \in T
  BY PickedEmpty
<1>2. ASSUME NEW t \in Seq(E), NEW x \in E, t \in T PROVE Append(t, x) \in T
  <2>. DEFINE u == Append(t, x)
              p == Picked(t, I)
              q == Picked(u, I)
  <2>1. /\ Len(t) \in Nat /\ u \in Seq(E) /\ Len(u) = Len(t) + 1 /\ u[Len(t) + 1] = x
        /\ \A i \in 1..Len(t) : u[i] = t[i]
    OBVIOUS
  <2>2. q = IF Len(t) + 1 \in I THEN Append(p, x) ELSE p
    <3>. HIDE DEF Holds, T
    <3> QED BY PickedAppend
  <2>3. p \in Seq(E) /\ Holds(t)
    BY <1>2, PickedSeq
  <2>. HIDE DEF u, q
  <2>4. ASSUME NEW j \in 1..Len(q) PROVE \E i \in 1..Len(u) : i \in I /\ q[j] = u[i]
    <3>1. CASE j \in 1..Len(p)
      <4>1. q[j] = p[j]
        BY <2>2, <2>3, <3>1
      <4>2. PICK i \in 1..Len(t) : i \in I /\ p[j] = t[i]
        BY <2>3, <3>1
      <4> QED BY <2>1, <4>1, <4>2
    <3>2. CASE j \notin 1..Len(p)
      <4>1. Len(t) + 1 \in I /\ q[j] = x
        BY <2>2, <2>3, <2>4, <3>2
      <4> QED BY <2>1, <4>1
    <3> QED BY <3>1, <3>2
  <2>5. Holds(u)
    BY <2>4 DEF q
  <2>. HIDE DEF Holds
  <2> QED BY <2>1, <2>5 DEF u
<1>. HIDE DEF T
<1>3. s \in T
  BY <1>1, <1>2, SequenceInduction
<1> QED BY <1>3 DEF T

\* A sequence that is not empty is its last element behind the others.
LEMMA SplitLast ==
  ASSUME NEW E, NEW s \in Seq(E), s # <<>>
  PROVE  \E t \in Seq(E), x \in E :
           /\ s = Append(t, x) /\ Len(s) = Len(t) + 1
           /\ t = SubSeq(s, 1, Len(s) - 1) /\ x = s[Len(s)]
<1>1. PICK n \in Nat : Len(s) = n + 1
  <2>1. Len(s) \in Nat /\ Len(s) # 0
    OBVIOUS
  <2>2. Len(s) - 1 \in Nat /\ Len(s) = (Len(s) - 1) + 1
    BY <2>1
  <2> QED BY <2>2
<1>. DEFINE t == SubSeq(s, 1, n)
<1>2. t \in Seq(E) /\ Len(t) = n /\ s[n + 1] \in E
  BY <1>1
<1>3. s = Append(t, s[n + 1])
  BY <1>1
<1>4. t = SubSeq(s, 1, Len(s) - 1) /\ s[n + 1] = s[Len(s)]
  BY <1>1
<1>. HIDE DEF t
<1> QED BY <1>1, <1>2, <1>3, <1>4

\* The last position, when it is picked, is the last of what is picked.
LEMMA PickedLast ==
  ASSUME NEW E, NEW s \in Seq(E), NEW I, s # <<>>, Len(s) \in I
  PROVE  /\ Picked(s, I) = Append(Picked(SubSeq(s, 1, Len(s) - 1), I), s[Len(s)])
         /\ Picked(s, I) # <<>> /\ Picked(s, I)[Len(Picked(s, I))] = s[Len(s)]
<1>1. PICK t \in Seq(E), x \in E :
        /\ s = Append(t, x) /\ Len(s) = Len(t) + 1
        /\ t = SubSeq(s, 1, Len(s) - 1) /\ x = s[Len(s)]
  BY SplitLast
<1>2. Picked(t, I) \in Seq(E)
  BY PickedSeq
<1>3. Picked(Append(t, x), I) = IF Len(t) + 1 \in I THEN Append(Picked(t, I), x) ELSE Picked(t, I)
  BY PickedAppend
<1>4. Picked(s, I) = Append(Picked(t, I), x)
  BY <1>1, <1>3
<1>. DEFINE p == Picked(t, I)
            q == Picked(s, I)
<1>5. q = Append(p, x) /\ p \in Seq(E)
  BY <1>2, <1>4
<1>. HIDE DEF p, q
<1>6. q # <<>> /\ q[Len(q)] = x
  BY <1>5
<1> QED BY <1>1, <1>4, <1>6 DEF q

\* Positions within a prefix pick from the prefix.
LEMMA PickedPrefix ==
  ASSUME NEW E, NEW s \in Seq(E), NEW I, NEW m \in 0..Len(s), \A i \in 1..Len(s) : i \in I => i <= m
  PROVE  Picked(s, I) = Picked(SubSeq(s, 1, m), I)
<1>. DEFINE Holds(t) == (m <= Len(t) /\ \A i \in 1..Len(t) : i \in I => i <= m)
                          => Picked(t, I) = Picked(SubSeq(t, 1, m), I)
            T == {t \in Seq(E) : Holds(t)}
<1>1. <<>> \in T
  <2>1. m <= Len(<<>>) => SubSeq(<<>>, 1, m) = <<>>
    OBVIOUS
  <2>2. Holds(<<>>)
    BY <2>1
  <2>. HIDE DEF Holds
  <2> QED BY <2>2
<1>2. ASSUME NEW t \in Seq(E), NEW x \in E, t \in T PROVE Append(t, x) \in T
  <2>. DEFINE u == Append(t, x)
  <2>1. /\ Len(t) \in Nat /\ u \in Seq(E) /\ Len(u) = Len(t) + 1
        /\ \A i \in 1..Len(t) : u[i] = t[i]
    OBVIOUS
  <2>2. Picked(u, I) = IF Len(t) + 1 \in I THEN Append(Picked(t, I), x) ELSE Picked(t, I)
    <3>. HIDE DEF Holds, T
    <3> QED BY PickedAppend
  <2>3. Holds(t)
    BY <1>2
  <2>. HIDE DEF u
  <2>4. ASSUME m <= Len(u), \A i \in 1..Len(u) : i \in I => i <= m
        PROVE  Picked(u, I) = Picked(SubSeq(u, 1, m), I)
    <3>1. CASE m = Len(u)
      <4>1. SubSeq(u, 1, m) = u
        BY <2>1, <3>1
      <4> QED BY <4>1
    <3>2. CASE m < Len(u)
      <4>1. Len(t) + 1 \notin I /\ m <= Len(t)
        BY <2>1, <2>4, <3>2
      <4>2. \A i \in 1..Len(t) : i \in I => i <= m
        BY <2>1, <2>4
      <4>3. SubSeq(u, 1, m) = SubSeq(t, 1, m)
        BY <2>1, <4>1
      <4>4. Picked(t, I) = Picked(SubSeq(t, 1, m), I)
        BY <2>3, <4>1, <4>2
      <4> QED BY <2>2, <4>1, <4>3, <4>4
    <3> QED BY <2>1, <2>4, <3>1, <3>2
  <2>5. Holds(u)
    BY <2>4
  <2>. HIDE DEF Holds
  <2> QED BY <2>1, <2>5 DEF u
<1>. HIDE DEF T
<1>3. s \in T
  BY <1>1, <1>2, SequenceInduction
<1> QED BY <1>3 DEF T

\* What is picked behind one element more at the front.
LEMMA PickedPrepend ==
  ASSUME NEW E, NEW s \in Seq(E), NEW a \in E, NEW I, NEW J, \A i \in 1..Len(s) : i \in J <=> i + 1 \in I
  PROVE  Picked(<<a>> \o s, I) = IF 1 \in I THEN <<a>> \o Picked(s, J) ELSE Picked(s, J)
<1>. DEFINE front == IF 1 \in I THEN <<a>> ELSE <<>>
            Holds(t) == (\A i \in 1..Len(t) : i \in J <=> i + 1 \in I)
                          => Picked(<<a>> \o t, I) = front \o Picked(t, J)
            T == {t \in Seq(E) : Holds(t)}
<1>0. ASSUME NEW p \in Seq(E), NEW q \in Seq(E), NEW x \in E
      PROVE  Append(p \o q, x) = p \o Append(q, x)
  <2>. DEFINE u == Append(p \o q, x)
              v == p \o Append(q, x)
  <2>1. u \in Seq(E) /\ v \in Seq(E) /\ Len(u) = Len(p) + Len(q) + 1 /\ Len(v) = Len(u)
    OBVIOUS
  <2>2. ASSUME NEW i \in 1..Len(u) PROVE u[i] = v[i]
    <3>1. CASE i <= Len(p)
      BY <3>1
    <3>2. CASE i > Len(p) /\ i <= Len(p) + Len(q)
      BY <3>2
    <3>3. CASE i = Len(p) + Len(q) + 1
      BY <3>3
    <3>4. i \in 1..(Len(p) + Len(q) + 1) /\ Len(p) \in Nat /\ Len(q) \in Nat
      BY <2>1
    <3>5. i <= Len(p) \/ (i > Len(p) /\ i <= Len(p) + Len(q)) \/ i = Len(p) + Len(q) + 1
      <4>. HIDE DEF u, v
      <4> QED BY <3>4
    <3> QED BY <3>1, <3>2, <3>3, <3>5
  <2>. HIDE DEF u, v
  <2>3. u = v
    BY <2>1, <2>2
  <2> QED BY <2>3 DEF u, v
<1>1. <<>> \in T
  <2>1. Picked(Append(<<>>, a), I) = IF Len(<<>>) + 1 \in I THEN Append(Picked(<<>>, I), a) ELSE Picked(<<>>, I)
    <3>. HIDE DEF front, Holds, T
    <3>1. \A e \in Seq(E) : Picked(Append(e, a), I) = IF Len(e) + 1 \in I THEN Append(Picked(e, I), a) ELSE Picked(e, I)
      BY PickedAppend
    <3>2. <<>> \in Seq(E)
      OBVIOUS
    <3> QED BY <3>1, <3>2
  <2>2. /\ <<a>> \o <<>> = Append(<<>>, a) /\ <<>> \in Seq(E) /\ Len(<<>>) + 1 = 1
        /\ Append(<<>>, a) = <<a>> /\ <<a>> = <<a>> \o <<>> /\ <<>> = <<>> \o <<>>
    OBVIOUS
  <2>3. Picked(<<>>, I) = <<>> /\ Picked(<<>>, J) = <<>>
    BY PickedEmpty
  <2>4. Picked(<<a>> \o <<>>, I) = front \o Picked(<<>>, J)
    BY <2>1, <2>2, <2>3
  <2> QED BY <2>2, <2>4
<1>2. ASSUME NEW t \in Seq(E), NEW x \in E, t \in T PROVE Append(t, x) \in T
  <2>. DEFINE u == Append(t, x)
              b == <<a>> \o t
  <2>1. Len(t) \in Nat /\ u \in Seq(E) /\ Len(u) = Len(t) + 1
    OBVIOUS
  <2>2. b \in Seq(E) /\ Len(b) = Len(t) + 1 /\ <<a>> \o u = Append(b, x)
    OBVIOUS
  <2>. HIDE DEF b
  <2>3. Picked(u, J) = IF Len(t) + 1 \in J THEN Append(Picked(t, J), x) ELSE Picked(t, J)
    <3>. HIDE DEF Holds, T
    <3> QED BY PickedAppend
  <2>4. Picked(Append(b, x), I) = IF Len(b) + 1 \in I THEN Append(Picked(b, I), x) ELSE Picked(b, I)
    <3>. HIDE DEF Holds, T, u
    <3> QED BY <2>2, PickedAppend
  <2>5. Holds(t)
    BY <1>2
  <2>6. Picked(t, J) \in Seq(E)
    BY PickedSeq
  <2>. HIDE DEF u
  <2>7. ASSUME \A i \in 1..Len(u) : i \in J <=> i + 1 \in I
        PROVE  Picked(<<a>> \o u, I) = front \o Picked(u, J)
    <3>1. Picked(b, I) = front \o Picked(t, J)
      BY <2>1, <2>5, <2>7, SMTT(20) DEF b
    <3>2. Len(t) + 1 \in J <=> Len(b) + 1 \in I
      BY <2>1, <2>2, <2>7
    <3>3. front \in Seq(E)
      OBVIOUS
    <3>. HIDE DEF front, Holds, T
    <3>4. Append(front \o Picked(t, J), x) = front \o Append(Picked(t, J), x)
      BY <1>0, <2>6, <3>3
    <3> QED BY <2>2, <2>3, <2>4, <3>1, <3>2, <3>4
  <2>8. Holds(u)
    BY <2>7
  <2>. HIDE DEF Holds
  <2> QED BY <2>1, <2>8 DEF u
<1>. HIDE DEF T
<1>3. s \in T
  BY <1>1, <1>2, SequenceInduction
<1>4. Picked(<<a>> \o s, I) = front \o Picked(s, J)
  BY <1>3 DEF T
<1>5. Picked(s, J) \in Seq(E)
  BY PickedSeq
<1>6. <<>> \o Picked(s, J) = Picked(s, J)
  BY <1>5
<1> QED BY <1>4, <1>6

\* One position suffices for something to be picked.
LEMMA PickedSome ==
  ASSUME NEW E, NEW s \in Seq(E), NEW I, NEW i \in 1..Len(s), i \in I
  PROVE  Picked(s, I) # <<>>
<1>. DEFINE Holds(t) == (\E j \in 1..Len(t) : j \in I) => Picked(t, I) # <<>>
            T == {t \in Seq(E) : Holds(t)}
<1>1. <<>> \in T
  OBVIOUS
<1>2. ASSUME NEW t \in Seq(E), NEW x \in E, t \in T PROVE Append(t, x) \in T
  <2>. DEFINE u == Append(t, x)
              p == Picked(t, I)
              q == Picked(u, I)
  <2>1. Len(t) \in Nat /\ u \in Seq(E) /\ Len(u) = Len(t) + 1
    OBVIOUS
  <2>2. q = IF Len(t) + 1 \in I THEN Append(p, x) ELSE p
    <3>. HIDE DEF Holds, T
    <3> QED BY PickedAppend
  <2>3. p \in Seq(E) /\ Holds(t)
    BY <1>2, PickedSeq
  <2>. HIDE DEF u, q
  <2>4. ASSUME NEW j \in 1..Len(u), j \in I PROVE q # <<>>
    <3>1. CASE Len(t) + 1 \in I
      BY <2>2, <2>3, <3>1
    <3>2. CASE Len(t) + 1 \notin I
      <4>1. j \in 1..Len(t)
        BY <2>1, <2>4, <3>2
      <4> QED BY <2>2, <2>3, <2>4, <3>2, <4>1
    <3> QED BY <3>1, <3>2
  <2>5. Holds(u)
    BY <2>4 DEF q
  <2>. HIDE DEF Holds
  <2> QED BY <2>1, <2>5 DEF u
<1>. HIDE DEF T
<1>3. s \in T
  BY <1>1, <1>2, SequenceInduction
<1> QED BY <1>3 DEF T

(***************************************************************************)
(* Sequences put together                                                  *)
(***************************************************************************)

\* What the recursive function of FlattenSeq does at every position.
Flattens(E, q, f) ==
  /\ f \in [0..Len(q) -> Seq(E)] /\ f[0] = <<>> /\ FlattenSeq(q) = f[Len(q)]
  /\ \A i \in 1..Len(q) : f[i] = f[i - 1] \o q[i]

\* The recursive function behind FlattenSeq exists.
LEMMA FlattenSteps == ASSUME NEW E, NEW q \in Seq(Seq(E)) PROVE \E f : Flattens(E, q, f)
<1>. DEFINE n == Len(q)
            Step == [i \in 1..n |-> [u \in Seq(E) |-> u \o q[i]]]
            Q(f) == f = [i \in 1..n |-> IF i = 1 THEN q[i] ELSE f[i - 1] \o q[i]]
            g == CHOOSE f : Q(f)
<1>1. n \in Nat /\ (\A i \in 1..n : q[i] \in Seq(E)) /\ <<>> \in Seq(E)
  OBVIOUS
<1>2. Step \in [1..n -> [Seq(E) -> Seq(E)]]
  <2>1. ASSUME NEW i \in 1..n PROVE [u \in Seq(E) |-> u \o q[i]] \in [Seq(E) -> Seq(E)]
    <3>1. \A u, v \in Seq(E) : u \o v \in Seq(E)
      OBVIOUS
    <3> QED BY <1>1, <3>1
  <2> QED BY <2>1
<1>3. PICK f \in [0..n -> Seq(E)] : f[0] = <<>> /\ \A i \in 1..n : f[i] = Step[i][f[i - 1]]
  <2>1. Step \in StepsOf(Seq(E), n)
    BY <1>2 DEF StepsOf
  <2>. HIDE DEF Step, n
  <2>2. n \in Nat /\ <<>> \in Seq(E)
    BY <1>1
  <2>3. \E f : Unfolds(Seq(E), n, <<>>, Step, f)
    BY <2>1, <2>2, Recursion
  <2> QED BY <2>3 DEF Unfolds
<1>4. \A i \in 1..n : f[i] = f[i - 1] \o q[i]
  <2>1. ASSUME NEW i \in 1..n PROVE f[i] = f[i - 1] \o q[i]
    <3>1. i - 1 \in 0..n
      BY <1>1
    <3>2. f[i - 1] \in Seq(E)
      BY <1>3, <3>1
    <3>3. f[i] = Step[i][f[i - 1]]
      BY <1>3
    <3> QED BY <3>2, <3>3
  <2> QED BY <2>1
<1>5. CASE n = 0
  <2>1. FlattenSeq(q) = q /\ q = <<>>
    BY <1>5 DEF FlattenSeq
  <2>. HIDE DEF Step, g
  <2> QED BY <1>3, <1>4, <1>5, <2>1 DEF Flattens
<1>6. CASE n # 0
  <2>. DEFINE h == [i \in 1..n |-> f[i]]
  <2>. HIDE DEF Step
  <2>1. Q(h)
    <3>1. ASSUME NEW i \in 1..n PROVE h[i] = IF i = 1 THEN q[i] ELSE h[i - 1] \o q[i]
      <4>1. CASE i = 1
        <5>1. f[1] = <<>> \o q[1] /\ q[1] \in Seq(E)
          <6>1. 1 \in 1..n /\ 1 - 1 = 0
            BY <4>1
          <6>2. f[1] = f[1 - 1] \o q[1] /\ q[1] \in Seq(E)
            BY <1>1, <1>4, <6>1
          <6> QED BY <1>3, <6>1, <6>2
        <5>2. f[1] = q[1]
          BY <5>1
        <5> QED BY <4>1, <5>2
      <4>2. CASE i # 1
        <5>1. i - 1 \in 1..n
          BY <1>1, <4>2
        <5> QED BY <1>4, <4>2, <5>1
      <4> QED BY <4>1, <4>2
    <3>. HIDE DEF n
    <3>2. h = [i \in 1..n |-> IF i = 1 THEN q[i] ELSE h[i - 1] \o q[i]]
      BY <3>1
    <3> QED BY <3>2
  <2>. HIDE DEF h
  <2>2. Q(g)
    BY <2>1
  <2>3. FlattenSeq(q) = g[n]
    BY <1>6 DEF FlattenSeq
  <2>. HIDE DEF g, n
  <2>4. g = [i \in 1..n |-> IF i = 1 THEN q[i] ELSE g[i - 1] \o q[i]]
    BY <2>2
  <2>5. ASSUME NEW i \in 1..n PROVE g[i] = IF i = 1 THEN q[i] ELSE g[i - 1] \o q[i]
    BY <2>4
  <2>. DEFINE S == {i \in Nat : i \in 1..n => g[i] = f[i]}
  <2>6. 0 \in S
    OBVIOUS
  <2>7. ASSUME NEW i \in Nat, i \in S PROVE i + 1 \in S
    <3>1. SUFFICES ASSUME i + 1 \in 1..n PROVE g[i + 1] = f[i + 1]
      OBVIOUS
    <3>2. (i + 1) - 1 = i
      OBVIOUS
    <3>3. f[i + 1] = f[i] \o q[i + 1]
      BY <1>4, <3>1, <3>2
    <3>4. CASE i = 0
      <4>0. 1 \in 1..n /\ i + 1 = 1
        BY <3>1, <3>4
      <4>0a. g[1] = q[1] /\ q[1] \in Seq(E)
        BY <1>1, <2>5, <4>0
      <4>1. f[1] = <<>> \o q[1] /\ q[1] \in Seq(E) /\ g[1] = q[1]
        BY <1>3, <3>3, <3>4, <4>0, <4>0a
      <4>2. f[1] = q[1]
        BY <4>1
      <4> QED BY <3>4, <4>1, <4>2
    <3>5. CASE i # 0
      <4>1. i \in 1..n /\ i + 1 # 1
        BY <1>1, <3>1, <3>5
      <4>2. g[i] = f[i]
        BY <2>7, <4>1
      <4>3. g[i + 1] = g[i] \o q[i + 1]
        BY <2>5, <3>1, <3>2, <4>1
      <4> QED BY <3>3, <4>2, <4>3
    <3> QED BY <3>4, <3>5
  <2>. HIDE DEF S
  <2>8. \A i \in Nat : i \in S
    BY <2>6, <2>7, Induction
  <2>9. n \in 1..n
    BY <1>1, <1>6 DEF n
  <2>10. g[n] = f[n]
    BY <1>1, <2>8, <2>9 DEF S
  <2>11. FlattenSeq(q) = f[n]
    BY <2>3, <2>10
  <2> QED BY <1>3, <1>4, <2>11 DEF Flattens, n
<1> QED BY <1>5, <1>6

\* Flattening puts what is added at the end there.
LEMMA FlattenAppend ==
  ASSUME NEW E, NEW q \in Seq(Seq(E)), NEW x \in Seq(E)
  PROVE  FlattenSeq(q) \in Seq(E) /\ FlattenSeq(Append(q, x)) = FlattenSeq(q) \o x
<1>. DEFINE n == Len(q)
            t == Append(q, x)
<1>1. /\ n \in Nat /\ t \in Seq(Seq(E)) /\ Len(t) = n + 1 /\ t[n + 1] = x
      /\ \A i \in 1..n : t[i] = q[i]
  OBVIOUS
<1>. HIDE DEF t
<1>2. PICK f : Flattens(E, q, f)
  BY FlattenSteps
<1>3. PICK g : Flattens(E, t, g)
  BY <1>1, FlattenSteps
<1>. USE DEF Flattens
<1>. DEFINE S == {i \in Nat : i <= n => g[i] = f[i]}
<1>4. 0 \in S
  BY <1>2, <1>3
<1>5. ASSUME NEW i \in Nat, i \in S PROVE i + 1 \in S
  <2>1. SUFFICES ASSUME i + 1 <= n PROVE g[i + 1] = f[i + 1]
    OBVIOUS
  <2>2. g[i] = f[i] /\ i + 1 \in 1..n /\ i + 1 \in 1..Len(t) /\ (i + 1) - 1 = i
    BY <1>1, <1>5, <2>1
  <2>3. f[i + 1] = f[i] \o q[i + 1]
    BY <1>2, <2>2
  <2>4. g[i + 1] = g[i] \o t[i + 1]
    BY <1>3, <2>2
  <2>5. t[i + 1] = q[i + 1]
    BY <1>1, <2>2
  <2> QED BY <2>2, <2>3, <2>4, <2>5
<1>. HIDE DEF S
<1>6. \A i \in Nat : i \in S
  BY <1>4, <1>5, Induction
<1>7. g[n] = f[n]
  BY <1>1, <1>6 DEF S
<1>8. g[n + 1] = g[n] \o t[n + 1]
  <2>1. n + 1 \in 1..Len(t) /\ (n + 1) - 1 = n
    BY <1>1
  <2> QED BY <1>3, <2>1
<1>9. FlattenSeq(t) = FlattenSeq(q) \o x
  BY <1>1, <1>2, <1>3, <1>7, <1>8
<1>10. FlattenSeq(q) \in Seq(E)
  <2>1. Len(q) \in 0..Len(q)
    OBVIOUS
  <2> QED BY <1>2, <2>1
<1> QED BY <1>9, <1>10 DEF t

\* What is picked is at positions in their order.
Embeds(s, I, m) ==
  /\ m \in [1..Len(Picked(s, I)) -> 1..Len(s)]
  /\ \A k \in 1..Len(Picked(s, I)) : m[k] \in I /\ Picked(s, I)[k] = s[m[k]]
  /\ \A k, l \in 1..Len(Picked(s, I)) : k < l => m[k] < m[l]

\* There are such positions.
LEMMA PickedEmbeds == ASSUME NEW E, NEW s \in Seq(E), NEW I PROVE \E m : Embeds(s, I, m)
<1>. DEFINE T == {t \in Seq(E) : \E m : Embeds(t, I, m)}
<1>1. <<>> \in T
  <2>1. <<>> \in Seq(E) /\ Len(<<>>) = 0 /\ Picked(<<>>, I) = <<>>
    BY PickedEmpty
  <2>2. Embeds(<<>>, I, [k \in 1..0 |-> 1])
    BY <2>1 DEF Embeds
  <2> QED BY <2>1, <2>2
<1>2. ASSUME NEW t \in Seq(E), NEW x \in E, t \in T PROVE Append(t, x) \in T
  <2>. DEFINE u == Append(t, x)
  <2>1. PICK n \in Nat : n = Len(t)
    OBVIOUS
  <2>2. u \in Seq(E) /\ Len(u) = n + 1 /\ u[n + 1] = x /\ \A i \in 1..n : u[i] = t[i]
    BY <2>1
  <2>3. Picked(u, I) = IF n + 1 \in I THEN Append(Picked(t, I), x) ELSE Picked(t, I)
    <3>. HIDE DEF T
    <3> QED BY <2>1, PickedAppend
  <2>4. PICK m : Embeds(t, I, m)
    BY <1>2
  <2>5. PICK p \in Seq(E) : p = Picked(t, I)
    BY PickedSeq
  <2>6. PICK l \in Nat : l = Len(p)
    OBVIOUS
  <2>7. /\ m \in [1..l -> 1..n] /\ \A k \in 1..l : m[k] \in I /\ p[k] = t[m[k]]
        /\ \A j, k \in 1..l : j < k => m[j] < m[k]
    BY <2>1, <2>4, <2>5, <2>6 DEF Embeds
  <2>. HIDE DEF u, T
  <2>8. CASE n + 1 \in I
    <3>. DEFINE g == [k \in 1..(l + 1) |-> IF k <= l THEN m[k] ELSE n + 1]
    <3>1. Picked(u, I) = Append(p, x)
      BY <2>3, <2>5, <2>8
    <3>2. /\ Len(Append(p, x)) = l + 1 /\ Append(p, x)[l + 1] = x
          /\ \A k \in 1..l : Append(p, x)[k] = p[k]
      BY <2>6
    <3>3. g \in [1..(l + 1) -> 1..(n + 1)]
      BY <2>7
    <3>4. ASSUME NEW k \in 1..(l + 1) PROVE g[k] \in I /\ Append(p, x)[k] = u[g[k]]
      <4>1. CASE k <= l
        <5>1. k \in 1..l /\ g[k] = m[k] /\ m[k] \in 1..n
          BY <2>7, <4>1
        <5> QED BY <2>2, <2>7, <3>2, <5>1
      <4>2. CASE k = l + 1
        BY <2>2, <2>8, <3>2, <4>2
      <4>3. k <= l \/ k = l + 1
        BY <2>6
      <4> QED BY <4>1, <4>2, <4>3
    <3>5. ASSUME NEW j \in 1..(l + 1), NEW k \in 1..(l + 1), j < k PROVE g[j] < g[k]
      <4>1. j \in 1..l /\ g[j] = m[j] /\ m[j] \in 1..n
        BY <2>7, <3>5
      <4>2. CASE k <= l
        BY <2>7, <3>5, <4>1, <4>2
      <4>3. CASE k = l + 1
        BY <4>1, <4>3
      <4> QED BY <4>2, <4>3
    <3>. HIDE DEF g
    <3>6. Embeds(u, I, g)
      BY <2>2, <3>1, <3>2, <3>3, <3>4, <3>5 DEF Embeds
    <3> QED BY <2>2, <3>6 DEF T, u
  <2>9. CASE n + 1 \notin I
    <3>1. Picked(u, I) = p
      BY <2>3, <2>5, <2>9
    <3>2. m \in [1..l -> 1..(n + 1)] /\ \A k \in 1..l : u[m[k]] = t[m[k]]
      BY <2>2, <2>7
    <3>3. Embeds(u, I, m)
      BY <2>2, <2>6, <2>7, <3>1, <3>2 DEF Embeds
    <3> QED BY <2>2, <3>3 DEF T, u
  <2> QED BY <2>8, <2>9
<1>. HIDE DEF T
<1>3. s \in T
  BY <1>1, <1>2, SequenceInduction
<1> QED BY <1>3 DEF T

\* Whatever is at one of the positions is picked.
LEMMA PickedRange ==
  ASSUME NEW E, NEW s \in Seq(E), NEW I
  PROVE  ToSet(Picked(s, I)) = {s[i] : i \in {i \in 1..Len(s) : i \in I}}
<1>. DEFINE Holds(t) == \A i \in 1..Len(t) : i \in I =>
                          \E k \in 1..Len(Picked(t, I)) : Picked(t, I)[k] = t[i]
            T == {t \in Seq(E) : Holds(t)}
<1>1. <<>> \in T
  OBVIOUS
<1>2. ASSUME NEW t \in Seq(E), NEW x \in E, t \in T PROVE Append(t, x) \in T
  <2>. DEFINE u == Append(t, x)
  <2>1. PICK n \in Nat : n = Len(t)
    OBVIOUS
  <2>2. u \in Seq(E) /\ Len(u) = n + 1 /\ u[n + 1] = x /\ \A i \in 1..n : u[i] = t[i]
    BY <2>1
  <2>3. Picked(u, I) = IF n + 1 \in I THEN Append(Picked(t, I), x) ELSE Picked(t, I)
    <3>. HIDE DEF Holds, T
    <3> QED BY <2>1, PickedAppend
  <2>4. Holds(t)
    BY <1>2
  <2>5. PICK p \in Seq(E) : p = Picked(t, I)
    BY PickedSeq
  <2>6. /\ Len(Append(p, x)) = Len(p) + 1 /\ Append(p, x)[Len(p) + 1] = x /\ Len(p) \in Nat
        /\ \A k \in 1..Len(p) : Append(p, x)[k] = p[k]
    OBVIOUS
  <2>. HIDE DEF u
  <2>7. ASSUME NEW i \in 1..Len(u), i \in I
        PROVE  \E k \in 1..Len(Picked(u, I)) : Picked(u, I)[k] = u[i]
    <3>1. CASE i = n + 1
      <4>1. Picked(u, I) = Append(p, x) /\ u[i] = x
        BY <2>2, <2>3, <2>5, <2>7, <3>1
      <4> QED BY <2>6, <4>1
    <3>2. CASE i # n + 1
      <4>1. i \in 1..n /\ u[i] = t[i]
        BY <2>2, <3>2
      <4>2. PICK k \in 1..Len(p) : p[k] = t[i]
        BY <2>1, <2>4, <2>5, <2>7, <4>1
      <4>3. k \in 1..Len(Picked(u, I)) /\ Picked(u, I)[k] = p[k]
        BY <2>3, <2>5, <2>6
      <4> QED BY <4>1, <4>2, <4>3
    <3> QED BY <3>1, <3>2
  <2>8. Holds(u)
    BY <2>7
  <2>. HIDE DEF Holds
  <2> QED BY <2>2, <2>8 DEF u
<1>. HIDE DEF T
<1>3. s \in T
  BY <1>1, <1>2, SequenceInduction
<1>4. \A k \in 1..Len(Picked(s, I)) : \E i \in 1..Len(s) : i \in I /\ Picked(s, I)[k] = s[i]
  BY PickedMembers
<1>5. PICK p \in Seq(E) : p = Picked(s, I)
  BY PickedSeq
<1>6. DOMAIN p = 1..Len(p)
  OBVIOUS
<1>7. \A i \in 1..Len(s) : i \in I => \E k \in 1..Len(p) : p[k] = s[i]
  BY <1>3, <1>5 DEF T
<1>. HIDE DEF Holds
<1>8. ToSet(p) = {p[k] : k \in 1..Len(p)}
  BY <1>6 DEF ToSet
<1>9. ASSUME NEW x \in ToSet(p) PROVE x \in {s[i] : i \in {i \in 1..Len(s) : i \in I}}
  BY <1>4, <1>5, <1>8
<1>10. ASSUME NEW i \in 1..Len(s), i \in I PROVE s[i] \in ToSet(p)
  <2>1. PICK k \in 1..Len(p) : p[k] = s[i]
    BY <1>7, <1>10
  <2> QED BY <1>8, <2>1
<1>11. ToSet(p) = {s[i] : i \in {i \in 1..Len(s) : i \in I}}
  BY <1>9, <1>10
<1> QED BY <1>5, <1>11

\* The elements of two sequences, one after the other.
LEMMA ConcatFacts ==
  ASSUME NEW E, NEW a \in Seq(E), NEW b \in Seq(E)
  PROVE  /\ ToSet(a \o b) = ToSet(a) \cup ToSet(b)
         /\ IsInjective(a \o b) <=> IsInjective(a) /\ IsInjective(b) /\ ToSet(a) \cap ToSet(b) = {}
<1>1. PICK k \in Nat, l \in Nat : k = Len(a) /\ l = Len(b)
  OBVIOUS
<1>0. a \o b \in Seq(E)
  OBVIOUS
<1>2. PICK c \in Seq(E) : c = a \o b
  BY <1>0
<1>3. /\ Len(c) = k + l /\ \A i \in 1..k : c[i] = a[i]
      /\ \A i \in 1..l : c[k + i] = b[i]
  BY <1>1, <1>2
<1>4. /\ DOMAIN a = 1..k /\ DOMAIN b = 1..l /\ DOMAIN c = 1..(k + l)
      /\ \A i \in 1..(k + l) : i \in 1..k \/ (i - k \in 1..l /\ i = k + (i - k))
      /\ \A i \in 1..l : k + i \in 1..(k + l)
      /\ \A i \in 1..k : i \in 1..(k + l)
  BY <1>1, <1>3
<1>5. ToSet(c) = ToSet(a) \cup ToSet(b)
  <2>1. ASSUME NEW x \in ToSet(c) PROVE x \in ToSet(a) \cup ToSet(b)
    <3>1. PICK i \in 1..(k + l) : x = c[i]
      BY <1>4 DEF ToSet
    <3>2. CASE i \in 1..k
      BY <1>3, <1>4, <3>1, <3>2 DEF ToSet
    <3>3. CASE i - k \in 1..l
      <4>1. c[i] = b[i - k]
        BY <1>3, <1>4, <3>3
      <4> QED BY <1>4, <3>1, <3>3, <4>1 DEF ToSet
    <3> QED BY <1>4, <3>2, <3>3
  <2>2. ASSUME NEW x \in ToSet(a) PROVE x \in ToSet(c)
    BY <1>3, <1>4 DEF ToSet
  <2>3. ASSUME NEW x \in ToSet(b) PROVE x \in ToSet(c)
    <3>1. PICK i \in 1..l : x = b[i]
      BY <1>4 DEF ToSet
    <3>2. k + i \in 1..(k + l) /\ c[k + i] = x
      BY <1>3, <1>4, <3>1
    <3> QED BY <1>4, <3>2 DEF ToSet
  <2> QED BY <2>1, <2>2, <2>3
<1>6. ASSUME IsInjective(c) PROVE IsInjective(a) /\ IsInjective(b) /\ ToSet(a) \cap ToSet(b) = {}
  <2>1. \A i, j \in 1..(k + l) : c[i] = c[j] => i = j
    BY <1>4, <1>6 DEF IsInjective
  <2>2. IsInjective(a)
    BY <1>3, <1>4, <2>1 DEF IsInjective
  <2>3. ASSUME NEW i \in 1..l, NEW j \in 1..l, b[i] = b[j] PROVE i = j
    <3>1. c[k + i] = c[k + j] /\ k + i \in 1..(k + l) /\ k + j \in 1..(k + l)
      BY <1>3, <1>4, <2>3
    <3>2. k + i = k + j
      BY <2>1, <3>1
    <3> QED BY <3>2
  <2>4. ASSUME NEW x \in ToSet(a), x \in ToSet(b) PROVE FALSE
    <3>1. PICK i \in 1..k, j \in 1..l : x = a[i] /\ x = b[j]
      BY <1>4, <2>4 DEF ToSet
    <3>2. c[i] = c[k + j] /\ i \in 1..(k + l) /\ k + j \in 1..(k + l)
      BY <1>3, <1>4, <3>1
    <3>3. i = k + j
      BY <2>1, <3>2
    <3> QED BY <3>3
  <2> QED BY <1>4, <2>2, <2>3, <2>4 DEF IsInjective
<1>7. ASSUME IsInjective(a), IsInjective(b), ToSet(a) \cap ToSet(b) = {} PROVE IsInjective(c)
  <2>1. ASSUME NEW i \in 1..(k + l), NEW j \in 1..(k + l), c[i] = c[j] PROVE i = j
    <3>1. CASE i \in 1..k /\ j \in 1..k
      BY <1>3, <1>4, <1>7, <2>1, <3>1 DEF IsInjective
    <3>2. CASE i - k \in 1..l /\ j - k \in 1..l
      <4>1. c[i] = b[i - k] /\ c[j] = b[j - k]
        BY <1>3, <1>4, <3>2
      <4>2. i - k = j - k
        BY <1>4, <1>7, <2>1, <3>2, <4>1 DEF IsInjective
      <4> QED BY <4>2
    <3>3. CASE i \in 1..k /\ j - k \in 1..l
      <4>1. c[i] = a[i] /\ c[j] = b[j - k]
        BY <1>3, <1>4, <3>3
      <4>2. c[i] \in ToSet(a) /\ c[j] \in ToSet(b)
        BY <1>4, <3>3, <4>1 DEF ToSet
      <4> QED BY <1>7, <2>1, <4>2
    <3>4. CASE i - k \in 1..l /\ j \in 1..k
      <4>1. c[j] = a[j] /\ c[i] = b[i - k]
        BY <1>3, <1>4, <3>4
      <4>2. c[j] \in ToSet(a) /\ c[i] \in ToSet(b)
        BY <1>4, <3>4, <4>1 DEF ToSet
      <4> QED BY <1>7, <2>1, <4>2
    <3> QED BY <1>4, <3>1, <3>2, <3>3, <3>4
  <2> QED BY <1>4, <2>1 DEF IsInjective
<1> QED BY <1>2, <1>5, <1>6, <1>7

\* Nothing put together is nothing.
LEMMA FlattenEmpty == FlattenSeq(<<>>) = <<>>
<1>1. <<>> \in Seq(Seq({})) /\ Len(<<>>) = 0
  OBVIOUS
<1>2. PICK f : Flattens({}, <<>>, f)
  BY <1>1, FlattenSteps
<1> QED BY <1>1, <1>2 DEF Flattens

\* What is put together is a sequence of the same elements.
LEMMA FlattenSeqType == ASSUME NEW E, NEW q \in Seq(Seq(E)) PROVE FlattenSeq(q) \in Seq(E)
BY FlattenAppend

\* What is flattened is what its parts have.
LEMMA FlattenRange ==
  ASSUME NEW E, NEW q \in Seq(Seq(E))
  PROVE  ToSet(FlattenSeq(q)) = UNION {ToSet(q[i]) : i \in DOMAIN q}
<1>. DEFINE Holds(t) == ToSet(FlattenSeq(t)) = UNION {ToSet(t[i]) : i \in DOMAIN t}
            T == {t \in Seq(Seq(E)) : Holds(t)}
<1>1. <<>> \in T
  <2>1. FlattenSeq(<<>>) = <<>>
    BY FlattenEmpty
  <2>2. DOMAIN <<>> = {} /\ <<>> \in Seq(Seq(E))
    OBVIOUS
  <2>3. ToSet(<<>>) = {}
    BY <2>2 DEF ToSet
  <2> QED BY <2>1, <2>2, <2>3
<1>2. ASSUME NEW t \in Seq(Seq(E)), NEW x \in Seq(E), t \in T PROVE Append(t, x) \in T
  <2>. DEFINE u == Append(t, x)
  <2>1. PICK n \in Nat : n = Len(t)
    OBVIOUS
  <2>2. /\ u \in Seq(Seq(E)) /\ DOMAIN u = 1..(n + 1) /\ DOMAIN t = 1..n
        /\ u[n + 1] = x /\ \A i \in 1..n : u[i] = t[i]
    BY <2>1
  <2>. HIDE DEF u
  <2>3. FlattenSeq(t) \in Seq(E) /\ FlattenSeq(u) = FlattenSeq(t) \o x
    BY FlattenAppend DEF u
  <2>4. ToSet(FlattenSeq(u)) = ToSet(FlattenSeq(t)) \cup ToSet(x)
    <3>1. ToSet(FlattenSeq(t) \o x) = ToSet(FlattenSeq(t)) \cup ToSet(x)
      BY <2>3, ConcatFacts
    <3> QED BY <2>3, <3>1
  <2>. DEFINE A == UNION {ToSet(u[i]) : i \in DOMAIN u}
              B == UNION {ToSet(t[i]) : i \in DOMAIN t}
  <2>5. A = B \cup ToSet(x)
    <3>1. ASSUME NEW e \in A
          PROVE  e \in B \cup ToSet(x)
      <4>1. PICK i \in 1..(n + 1) : e \in ToSet(u[i])
        BY <2>2
      <4>2. CASE i = n + 1
        <5>1. u[i] = x
          BY <2>2, <4>2
        <5> QED BY <4>1, <5>1
      <4>3. CASE i \in 1..n
        BY <2>2, <4>1, <4>3
      <4>4. i = n + 1 \/ i \in 1..n
        BY <2>1
      <4> QED BY <4>2, <4>3, <4>4
    <3>2. ASSUME NEW e \in B
          PROVE  e \in A
      <4>1. PICK i \in 1..n : e \in ToSet(t[i])
        BY <2>2
      <4>2. i \in 1..(n + 1) /\ u[i] = t[i]
        BY <2>1, <2>2
      <4> QED BY <2>2, <4>1, <4>2
    <3>3. ASSUME NEW e \in ToSet(x) PROVE e \in A
      <4>1. n + 1 \in DOMAIN u
        BY <2>1, <2>2
      <4> QED BY <2>2, <4>1
    <3>. HIDE DEF A, B
    <3> QED BY <3>1, <3>2, <3>3
  <2>5a. ToSet(FlattenSeq(t)) = B
    BY <1>2
  <2>. HIDE DEF A, B
  <2>6. ToSet(FlattenSeq(u)) = A
    BY <2>4, <2>5, <2>5a
  <2>7. Holds(u)
    BY <2>6 DEF A
  <2> QED BY <2>2, <2>7 DEF u
<1>. HIDE DEF T
<1>3. q \in T
  BY <1>1, <1>2, SequenceInduction
<1> QED BY <1>3 DEF T

\* Flattening one after the other.
LEMMA FlattenConcat ==
  ASSUME NEW E, NEW p \in Seq(Seq(E)), NEW q \in Seq(Seq(E))
  PROVE  FlattenSeq(p \o q) = FlattenSeq(p) \o FlattenSeq(q)
<1>. DEFINE T == {t \in Seq(Seq(E)) : FlattenSeq(p \o t) = FlattenSeq(p) \o FlattenSeq(t)}
<1>0. FlattenSeq(p) \in Seq(E)
  BY FlattenSeqType
<1>1. <<>> \in T
  <2>1. FlattenSeq(<<>>) = <<>>
    BY FlattenEmpty
  <2>2. p \o <<>> = p /\ FlattenSeq(p) \o <<>> = FlattenSeq(p) /\ <<>> \in Seq(Seq(E))
    BY <1>0
  <2> QED BY <2>1, <2>2
<1>2. ASSUME NEW t \in Seq(Seq(E)), NEW x \in Seq(E), t \in T PROVE Append(t, x) \in T
  <2>1. p \o Append(t, x) = Append(p \o t, x) /\ p \o t \in Seq(Seq(E)) /\ Append(t, x) \in Seq(Seq(E))
    OBVIOUS
  <2>2. FlattenSeq(Append(p \o t, x)) = FlattenSeq(p \o t) \o x
    BY <2>1, FlattenAppend
  <2>3. FlattenSeq(Append(t, x)) = FlattenSeq(t) \o x /\ FlattenSeq(t) \in Seq(E)
    BY FlattenAppend
  <2>4. (FlattenSeq(p) \o FlattenSeq(t)) \o x = FlattenSeq(p) \o (FlattenSeq(t) \o x)
    BY <1>0, <2>3, SMTT(20)
  <2>5. FlattenSeq(p \o t) = FlattenSeq(p) \o FlattenSeq(t)
    BY <1>2
  <2>6. FlattenSeq(p \o Append(t, x)) = FlattenSeq(p) \o FlattenSeq(Append(t, x))
    BY <2>1, <2>2, <2>3, <2>4, <2>5
  <2> QED BY <2>1, <2>6
<1>. HIDE DEF T
<1>3. q \in T
  BY <1>1, <1>2, SequenceInduction
<1> QED BY <1>3 DEF T

\* Sequences that have no element twice, not even one in two of them.
Apart(q) ==
  /\ \A i \in DOMAIN q : IsInjective(q[i])
  /\ \A i, j \in DOMAIN q : i # j => ToSet(q[i]) \cap ToSet(q[j]) = {}

\* They are those that have no element twice when they are put together.
LEMMA FlattenApart ==
  ASSUME NEW E, NEW q \in Seq(Seq(E)) PROVE IsInjective(FlattenSeq(q)) <=> Apart(q)
<1>. DEFINE T == {t \in Seq(Seq(E)) : IsInjective(FlattenSeq(t)) <=> Apart(t)}
<1>1. <<>> \in T
  <2>1. FlattenSeq(<<>>) = <<>>
    BY FlattenEmpty
  <2>2. DOMAIN <<>> = {} /\ <<>> \in Seq(Seq(E))
    OBVIOUS
  <2>3. IsInjective(<<>>) /\ Apart(<<>>)
    BY <2>2 DEF IsInjective, Apart
  <2> QED BY <2>1, <2>2, <2>3
<1>2. ASSUME NEW t \in Seq(Seq(E)), NEW x \in Seq(E), t \in T PROVE Append(t, x) \in T
  <2>. DEFINE u == Append(t, x)
  <2>1. PICK n \in Nat : n = Len(t)
    OBVIOUS
  <2>2. /\ u \in Seq(Seq(E)) /\ DOMAIN u = 1..(n + 1) /\ DOMAIN t = 1..n
        /\ u[n + 1] = x /\ \A i \in 1..n : u[i] = t[i]
    BY <2>1
  <2>2a. n + 1 \notin 1..n /\ (\A i \in 1..(n + 1) : i = n + 1 \/ i \in 1..n)
         /\ (\A i \in 1..n : i \in 1..(n + 1)) /\ n + 1 \in 1..(n + 1)
    BY <2>1
  <2>. HIDE DEF u
  <2>3. FlattenSeq(t) \in Seq(E) /\ FlattenSeq(u) = FlattenSeq(t) \o x
    BY FlattenAppend DEF u
  <2>. DEFINE f == FlattenSeq(t)
  <2>4. IsInjective(f \o x) <=> IsInjective(f) /\ IsInjective(x) /\ ToSet(f) \cap ToSet(x) = {}
    BY <2>3, ConcatFacts
  <2>5. ToSet(f) = UNION {ToSet(t[i]) : i \in 1..n}
    BY <2>2, FlattenRange
  <2>6. IsInjective(f) <=> Apart(t)
    BY <1>2
  <2>7. Apart(u) <=> Apart(t) /\ IsInjective(x) /\ \A i \in 1..n : ToSet(t[i]) \cap ToSet(x) = {}
    <3>1. ASSUME Apart(u) PROVE Apart(t) /\ IsInjective(x) /\ \A i \in 1..n : ToSet(t[i]) \cap ToSet(x) = {}
      <4>1. Apart(t)
        BY <2>2, <2>2a, <3>1 DEF Apart
      <4>2. IsInjective(x)
        BY <2>2, <2>2a, <3>1 DEF Apart
      <4>3. ASSUME NEW i \in 1..n PROVE ToSet(t[i]) \cap ToSet(x) = {}
        BY <2>2, <2>2a, <3>1 DEF Apart
      <4> QED BY <4>1, <4>2, <4>3
    <3>2. ASSUME Apart(t), IsInjective(x), \A i \in 1..n : ToSet(t[i]) \cap ToSet(x) = {} PROVE Apart(u)
      <4>1. ASSUME NEW i \in 1..(n + 1) PROVE IsInjective(u[i])
        BY <2>2, <2>2a, <3>2 DEF Apart
      <4>2. ASSUME NEW i \in 1..(n + 1), NEW j \in 1..(n + 1), i # j PROVE ToSet(u[i]) \cap ToSet(u[j]) = {}
        <5>1. CASE i \in 1..n /\ j \in 1..n
          BY <2>2, <3>2, <4>2, <5>1 DEF Apart
        <5>2. CASE i = n + 1 /\ j \in 1..n
          BY <2>2, <3>2, <5>2
        <5>3. CASE i \in 1..n /\ j = n + 1
          BY <2>2, <3>2, <5>3
        <5> QED BY <2>2a, <4>2, <5>1, <5>2, <5>3
      <4> QED BY <2>2, <4>1, <4>2 DEF Apart
    <3> QED BY <3>1, <3>2
  <2>8. ToSet(f) \cap ToSet(x) = {} <=> \A i \in 1..n : ToSet(t[i]) \cap ToSet(x) = {}
    BY <2>5
  <2>. HIDE DEF f, T
  <2>9. IsInjective(FlattenSeq(u)) <=> Apart(u)
    BY <2>3, <2>4, <2>6, <2>7, <2>8 DEF f
  <2> QED BY <2>2, <2>9 DEF T, u
<1>. HIDE DEF T
<1>3. q \in T
  BY <1>1, <1>2, SequenceInduction
<1> QED BY <1>3 DEF T

(***************************************************************************)
(* Sequences cut into pieces                                               *)
(***************************************************************************)

\* x joins the last piece of u, or begins one.
Extended(u, x) == Append(Front(u), Append(Last(u), x))

\* What the recursive function of Pieces does at every position.
CutsBy(E, s, J, f) ==
  /\ f \in [0..Len(s) -> Seq(Seq(E))] /\ f[0] = <<>> /\ Pieces(s, J) = f[Len(s)]
  /\ \A i \in 1..Len(s) :
       f[i] # <<>> /\ f[i] = IF i \in J /\ i > 1 THEN Extended(f[i - 1], s[i]) ELSE Append(f[i - 1], <<s[i]>>)

\* Adding one element.
LEMMA AppendFacts ==
  ASSUME NEW E, NEW s \in Seq(E), NEW x \in E
  PROVE  /\ Append(s, x) \in Seq(E) /\ Append(s, x) # <<>> /\ Len(Append(s, x)) = Len(s) + 1
         /\ Append(s, x)[Len(s) + 1] = x /\ \A i \in 1..Len(s) : Append(s, x)[i] = s[i]
<1>1. Append(s, x) \in Seq(E) /\ Len(Append(s, x)) = Len(s) + 1 /\ Len(s) \in Nat
  OBVIOUS
<1>2. Append(s, x) # <<>>
  BY <1>1
<1>3. Append(s, x)[Len(s) + 1] = x /\ \A i \in 1..Len(s) : Append(s, x)[i] = s[i]
  OBVIOUS
<1> QED BY <1>1, <1>2, <1>3

\* Adding to the last piece.
LEMMA ExtendedFacts ==
  ASSUME NEW E, NEW u \in Seq(Seq(E)), u # <<>>, NEW x \in E
  PROVE  /\ Front(u) \in Seq(Seq(E)) /\ Last(u) \in Seq(E) /\ u = Append(Front(u), Last(u))
         /\ Extended(u, x) \in Seq(Seq(E)) /\ Extended(u, x) # <<>>
<1>1. PICK n \in Nat : n = Len(u)
  OBVIOUS
<1>2. n >= 1
  BY <1>1
<1>3. u[n] \in Seq(E)
  BY <1>1, <1>2
<1>4. SubSeq(u, 1, n - 1) \in Seq(Seq(E)) /\ u = Append(SubSeq(u, 1, n - 1), u[n])
  BY <1>1, <1>2
<1>5. Front(u) = SubSeq(u, 1, n - 1) /\ Last(u) = u[n]
  BY <1>1 DEF Front, Last
<1>6. Append(u[n], x) \in Seq(E)
  BY <1>3
<1>7. Append(Front(u), Append(Last(u), x)) \in Seq(Seq(E)) /\ Append(Front(u), Append(Last(u), x)) # <<>>
  BY <1>4, <1>5, <1>6, AppendFacts, SMTT(20)
<1> QED BY <1>3, <1>4, <1>5, <1>7 DEF Extended

\* The recursive function behind Pieces exists.
LEMMA PiecesSteps == ASSUME NEW E, NEW s \in Seq(E), NEW J PROVE \E f : CutsBy(E, s, J, f)
<1>. DEFINE n == Len(s)
            Step == [i \in 1..n |-> [u \in Seq(Seq(E)) |->
                       IF i \in J /\ i > 1 /\ u # <<>> THEN Extended(u, s[i]) ELSE Append(u, <<s[i]>>)]]
            Q(f) == f = [i \in 0..n |-> IF i = 0 THEN <<>>
                                        ELSE IF i \in J /\ i > 1
                                        THEN Append(Front(f[i - 1]), Append(Last(f[i - 1]), s[i]))
                                        ELSE Append(f[i - 1], <<s[i]>>)]
            g == CHOOSE f : Q(f)
<1>1. n \in Nat /\ \A i \in 1..n : s[i] \in E /\ <<s[i]>> \in Seq(E)
  OBVIOUS
<1>2. Step \in [1..n -> [Seq(Seq(E)) -> Seq(Seq(E))]]
  <2>1. ASSUME NEW i \in 1..n, NEW u \in Seq(Seq(E))
        PROVE  (IF i \in J /\ i > 1 /\ u # <<>> THEN Extended(u, s[i]) ELSE Append(u, <<s[i]>>)) \in Seq(Seq(E))
    <3>1. u # <<>> => Extended(u, s[i]) \in Seq(Seq(E))
      BY <1>1, ExtendedFacts
    <3>2. Append(u, <<s[i]>>) \in Seq(Seq(E))
      BY <1>1
    <3> QED BY <3>1, <3>2
  <2> QED BY <2>1
<1>3. PICK f \in [0..n -> Seq(Seq(E))] : f[0] = <<>> /\ \A i \in 1..n : f[i] = Step[i][f[i - 1]]
  <2>1. Step \in StepsOf(Seq(Seq(E)), n)
    BY <1>2 DEF StepsOf
  <2>. HIDE DEF Step, n
  <2>2. n \in Nat /\ <<>> \in Seq(Seq(E))
    BY <1>1
  <2>3. \E f : Unfolds(Seq(Seq(E)), n, <<>>, Step, f)
    BY <2>1, <2>2, Recursion
  <2> QED BY <2>3 DEF Unfolds
<1>3a. ASSUME NEW i \in 1..n
       PROVE  /\ f[i - 1] \in Seq(Seq(E)) /\ i - 1 \in 0..n
              /\ f[i] = IF i \in J /\ i > 1 /\ f[i - 1] # <<>> THEN Extended(f[i - 1], s[i]) ELSE Append(f[i - 1], <<s[i]>>)
  <2>1. f[i - 1] \in Seq(Seq(E)) /\ i - 1 \in 0..n
    BY <1>1, <1>3
  <2>2. Step[i][f[i - 1]] = IF i \in J /\ i > 1 /\ f[i - 1] # <<>> THEN Extended(f[i - 1], s[i]) ELSE Append(f[i - 1], <<s[i]>>)
    BY <2>1
  <2>3. f[i] = Step[i][f[i - 1]]
    BY <1>3
  <2> QED BY <2>1, <2>2, <2>3
<1>3b. ASSUME NEW i \in 1..n PROVE f[i] # <<>>
  <2>1. f[i - 1] # <<>> => Extended(f[i - 1], s[i]) # <<>>
    BY <1>1, <1>3a, ExtendedFacts, ZenonT(30)
  <2>2. Append(f[i - 1], <<s[i]>>) # <<>>
    <3>1. PICK p \in Seq(Seq(E)) : p = f[i - 1]
      BY <1>3a
    <3>2. PICK y \in Seq(E) : y = <<s[i]>>
      BY <1>1
    <3>3. Append(p, y) # <<>>
      BY AppendFacts
    <3> QED BY <3>1, <3>2, <3>3
  <2> QED BY <1>3a, <2>1, <2>2
<1>4. Q(f)
  <2>1. ASSUME NEW i \in 0..n
        PROVE  f[i] = IF i = 0 THEN <<>>
                      ELSE IF i \in J /\ i > 1
                      THEN Append(Front(f[i - 1]), Append(Last(f[i - 1]), s[i])) ELSE Append(f[i - 1], <<s[i]>>)
    <3>2. CASE i = 0
      BY <1>3, <3>2
    <3>3. CASE i # 0
      <4>1. i \in 1..n
        BY <1>1, <3>3
      <4>2. i > 1 => i - 1 \in 1..n
        BY <1>1, <4>1
      <4>3. i > 1 => f[i - 1] # <<>>
        BY <1>3b, <4>2
      <4>. HIDE DEF Step, n
      <4> QED BY <1>3a, <3>3, <4>1, <4>3 DEF Extended
    <3> QED BY <3>2, <3>3
  <2>. HIDE DEF n, Step
  <2> QED BY <1>3, <2>1
<1>5. Q(g)
  BY <1>4
<1>6. Pieces(s, J) = g[n]
  BY DEF Pieces
<1>. HIDE DEF g, n, Step
<1>7. g = [i \in 0..n |-> IF i = 0 THEN <<>>
                         ELSE IF i \in J /\ i > 1
                         THEN Append(Front(g[i - 1]), Append(Last(g[i - 1]), s[i])) ELSE Append(g[i - 1], <<s[i]>>)]
  BY <1>5
<1>8. ASSUME NEW i \in 1..n
      PROVE  g[i] = IF i \in J /\ i > 1 THEN Extended(g[i - 1], s[i]) ELSE Append(g[i - 1], <<s[i]>>)
  <2>1. i \in 0..n /\ i # 0
    BY <1>1
  <2> QED BY <1>7, <2>1 DEF Extended
<1>8a. g[0] = <<>>
  BY <1>1, <1>7
<1>9. \A i \in 0..n : g[i] \in Seq(Seq(E)) /\ (i > 0 => g[i] # <<>>)
  <2>. DEFINE Typed(i) == g[i] \in Seq(Seq(E)) /\ (i > 0 => g[i] # <<>>)
              S == {i \in Nat : i \in 0..n => Typed(i)}
  <2>1. 0 \in S
    <3>1. <<>> \in Seq(Seq(E)) /\ ~(0 > 0)
      OBVIOUS
    <3>2. Typed(0)
      BY <1>8a, <3>1
    <3>. HIDE DEF Typed
    <3> QED BY <3>2
  <2>2. ASSUME NEW i \in Nat, i \in S PROVE i + 1 \in S
    <3>1. SUFFICES ASSUME i + 1 \in 0..n PROVE g[i + 1] \in Seq(Seq(E)) /\ g[i + 1] # <<>>
      OBVIOUS
    <3>2. i \in 0..n /\ i + 1 \in 1..n /\ (i + 1) - 1 = i
      BY <1>1, <3>1
    <3>3. g[i] \in Seq(Seq(E)) /\ s[i + 1] \in E /\ (i > 0 => g[i] # <<>>) /\ <<s[i + 1]>> \in Seq(E)
      BY <1>1, <2>2, <3>2
    <3>4. g[i + 1] = IF i + 1 \in J /\ i + 1 > 1 THEN Extended(g[i], s[i + 1]) ELSE Append(g[i], <<s[i + 1]>>)
      BY <1>8, <3>2
    <3>5. CASE i + 1 \in J /\ i + 1 > 1
      <4>1. g[i] # <<>>
        BY <3>3, <3>5
      <4>2. Extended(g[i], s[i + 1]) \in Seq(Seq(E)) /\ Extended(g[i], s[i + 1]) # <<>>
        BY <3>3, <4>1, ExtendedFacts
      <4> QED BY <3>4, <3>5, <4>2
    <3>6. CASE ~(i + 1 \in J /\ i + 1 > 1)
      <4>1. Append(g[i], <<s[i + 1]>>) \in Seq(Seq(E)) /\ Append(g[i], <<s[i + 1]>>) # <<>>
        BY <3>3, AppendFacts, SMTT(20)
      <4> QED BY <3>4, <3>6, <4>1
    <3> QED BY <3>5, <3>6
  <2>. HIDE DEF S
  <2>3. \A i \in Nat : i \in S
    BY <2>1, <2>2, Induction
  <2>4. \A i \in 0..n : i \in Nat
    BY <1>1
  <2>. HIDE DEF Typed
  <2>5. \A i \in 0..n : Typed(i)
    BY <2>3, <2>4 DEF S
  <2> QED BY <2>5 DEF Typed
<1>10. g \in [0..n -> Seq(Seq(E))]
  BY <1>7, <1>9
<1>11. Len(s) = n
  BY DEF n
<1>12. \A i \in 1..n : g[i] # <<>>
  BY <1>1, <1>9
<1> QED BY <1>6, <1>8, <1>8a, <1>10, <1>11, <1>12 DEF CutsBy

\* An element more at the end joins the last piece or begins one.
LEMMA PiecesAppend ==
  ASSUME NEW E, NEW s \in Seq(E), NEW x \in E, NEW J
  PROVE  /\ Pieces(s, J) \in Seq(Seq(E)) /\ (s # <<>> => Pieces(s, J) # <<>>)
         /\ Pieces(Append(s, x), J) =
              IF Len(s) + 1 \in J /\ s # <<>> THEN Extended(Pieces(s, J), x) ELSE Append(Pieces(s, J), <<x>>)
<1>. DEFINE n == Len(s)
            t == Append(s, x)
<1>1. /\ n \in Nat /\ t \in Seq(E) /\ Len(t) = n + 1 /\ t[n + 1] = x
      /\ (\A i \in 1..n : t[i] = s[i]) /\ (s # <<>> <=> n > 0)
  OBVIOUS
<1>. HIDE DEF t
<1>2. PICK f : CutsBy(E, s, J, f)
  BY PiecesSteps
<1>3. PICK g : CutsBy(E, t, J, g)
  BY <1>1, PiecesSteps
<1>. USE DEF CutsBy
<1>. DEFINE S == {i \in Nat : i <= n => g[i] = f[i]}
<1>4. 0 \in S
  BY <1>2, <1>3
<1>5. ASSUME NEW i \in Nat, i \in S PROVE i + 1 \in S
  <2>1. SUFFICES ASSUME i + 1 <= n PROVE g[i + 1] = f[i + 1]
    OBVIOUS
  <2>2. g[i] = f[i] /\ i + 1 \in 1..n /\ i + 1 \in 1..Len(t) /\ (i + 1) - 1 = i
    BY <1>1, <1>5, <2>1
  <2>3. f[i + 1] = IF i + 1 \in J /\ i + 1 > 1 THEN Extended(f[i], s[i + 1]) ELSE Append(f[i], <<s[i + 1]>>)
    BY <1>2, <2>2
  <2>4. g[i + 1] = IF i + 1 \in J /\ i + 1 > 1 THEN Extended(g[i], t[i + 1]) ELSE Append(g[i], <<t[i + 1]>>)
    BY <1>3, <2>2
  <2>5. t[i + 1] = s[i + 1]
    BY <1>1, <2>2
  <2> QED BY <2>2, <2>3, <2>4, <2>5
<1>. HIDE DEF S
<1>6. \A i \in Nat : i \in S
  BY <1>4, <1>5, Induction
<1>7. g[n] = f[n]
  BY <1>1, <1>6 DEF S
<1>8. g[n + 1] = IF n + 1 \in J /\ n + 1 > 1 THEN Extended(g[n], t[n + 1]) ELSE Append(g[n], <<t[n + 1]>>)
  <2>1. n + 1 \in 1..Len(t) /\ (n + 1) - 1 = n
    BY <1>1
  <2> QED BY <1>3, <2>1
<1>8a. n + 1 > 1 <=> s # <<>>
  BY <1>1
<1>9. Pieces(t, J) = IF n + 1 \in J /\ s # <<>> THEN Extended(Pieces(s, J), x) ELSE Append(Pieces(s, J), <<x>>)
  <2>1. Pieces(t, J) = g[n + 1] /\ Pieces(s, J) = f[n]
    BY <1>1, <1>2, <1>3
  <2> QED BY <1>1, <1>7, <1>8, <1>8a, <2>1
<1>10. Pieces(s, J) \in Seq(Seq(E)) /\ (s # <<>> => Pieces(s, J) # <<>>)
  <2>1. n \in 0..n /\ (s # <<>> => n \in 1..n)
    BY <1>1
  <2> QED BY <1>2, <2>1
<1> QED BY <1>9, <1>10 DEF t

\* No piece is empty, and together they are the sequence.
LEMMA PiecesFlatten ==
  ASSUME NEW E, NEW s \in Seq(E), NEW J
  PROVE  /\ Pieces(s, J) \in Seq(Seq(E)) /\ FlattenSeq(Pieces(s, J)) = s
         /\ \A i \in DOMAIN Pieces(s, J) : Pieces(s, J)[i] # <<>>
<1>. DEFINE Holds(t) == /\ Pieces(t, J) \in Seq(Seq(E)) /\ FlattenSeq(Pieces(t, J)) = t
                        /\ \A i \in DOMAIN Pieces(t, J) : Pieces(t, J)[i] # <<>>
            T == {t \in Seq(E) : Holds(t)}
<1>1. <<>> \in T
  <2>1. <<>> \in Seq(E) /\ Len(<<>>) = 0 /\ <<>> \in Seq(Seq(E)) /\ DOMAIN <<>> = {}
    OBVIOUS
  <2>2. PICK f : CutsBy(E, <<>>, J, f)
    BY <2>1, PiecesSteps
  <2>3. Pieces(<<>>, J) = <<>>
    BY <2>1, <2>2 DEF CutsBy
  <2> QED BY <2>1, <2>3, FlattenEmpty
<1>2. ASSUME NEW t \in Seq(E), NEW x \in E, t \in T PROVE Append(t, x) \in T
  <2>. DEFINE u == Append(t, x)
  <2>0. u \in Seq(E) /\ <<x>> \in Seq(E)
    OBVIOUS
  <2>1. PICK p \in Seq(Seq(E)) : p = Pieces(t, J)
    BY PiecesAppend
  <2>2. /\ t # <<>> => p # <<>>
        /\ Pieces(u, J) = IF Len(t) + 1 \in J /\ t # <<>> THEN Extended(p, x) ELSE Append(p, <<x>>)
    <3>. HIDE DEF Holds, T
    <3> QED BY <2>1, PiecesAppend
  <2>3. FlattenSeq(p) = t /\ \A i \in DOMAIN p : p[i] # <<>>
    BY <1>2, <2>1
  <2>. HIDE DEF u, T, Holds
  <2>4. CASE Len(t) + 1 \in J /\ t # <<>>
    <3>. DEFINE r == Front(p)
                l == Last(p)
    <3>1. r \in Seq(Seq(E)) /\ l \in Seq(E) /\ p = Append(r, l) /\ Extended(p, x) \in Seq(Seq(E))
      BY <2>1, <2>2, <2>4, ExtendedFacts
    <3>2. Pieces(u, J) = Append(r, Append(l, x))
      BY <2>2, <2>4 DEF Extended
    <3>. HIDE DEF r, l
    <3>3. FlattenSeq(p) = FlattenSeq(r) \o l /\ FlattenSeq(r) \in Seq(E)
      BY <3>1, FlattenAppend
    <3>4. Append(l, x) \in Seq(E) /\ Append(l, x) # <<>>
      <4>1. l \in Seq(E) /\ x \in E
        BY <3>1
      <4> QED BY <4>1, AppendFacts
    <3>5. FlattenSeq(Append(r, Append(l, x))) = FlattenSeq(r) \o Append(l, x)
      BY <3>1, <3>4, FlattenAppend
    <3>6. FlattenSeq(r) \o Append(l, x) = Append(FlattenSeq(r) \o l, x)
      BY <3>1, <3>3
    <3>7. FlattenSeq(Pieces(u, J)) = u
      BY <2>3, <3>2, <3>3, <3>5, <3>6 DEF u
    <3>8. ASSUME NEW i \in DOMAIN Pieces(u, J) PROVE Pieces(u, J)[i] # <<>>
      <4>1. PICK n \in Nat : n = Len(r)
        BY <3>1
      <4>2. DOMAIN Pieces(u, J) = 1..(n + 1) /\ Pieces(u, J)[n + 1] = Append(l, x)
            /\ (\A k \in 1..n : Pieces(u, J)[k] = r[k] /\ p[k] = r[k]) /\ DOMAIN p = 1..(n + 1)
        BY <3>1, <3>2, <3>4, <4>1
      <4>3. i = n + 1 \/ i \in 1..n
        BY <4>1, <4>2
      <4>4. CASE i = n + 1
        BY <3>4, <4>2, <4>4
      <4>5. CASE i \in 1..n
        <5>1. i \in DOMAIN p
          BY <4>1, <4>2, <4>5
        <5> QED BY <2>3, <4>2, <4>5, <5>1
      <4> QED BY <4>3, <4>4, <4>5
    <3>9. Pieces(u, J) \in Seq(Seq(E))
      BY <2>2, <2>4, <3>1
    <3> QED BY <2>0, <3>7, <3>8, <3>9 DEF u, T, Holds
  <2>5. CASE ~(Len(t) + 1 \in J /\ t # <<>>)
    <3>1. Pieces(u, J) = Append(p, <<x>>)
      BY <2>2, <2>5
    <3>2. FlattenSeq(Append(p, <<x>>)) = FlattenSeq(p) \o <<x>>
      BY <2>0, <2>1, FlattenAppend
    <3>3. t \o <<x>> = Append(t, x)
      OBVIOUS
    <3>4. FlattenSeq(Pieces(u, J)) = u
      BY <2>3, <3>1, <3>2, <3>3 DEF u
    <3>5. ASSUME NEW i \in DOMAIN Pieces(u, J) PROVE Pieces(u, J)[i] # <<>>
      <4>1. PICK n \in Nat : n = Len(p)
        OBVIOUS
      <4>2. DOMAIN Pieces(u, J) = 1..(n + 1) /\ Pieces(u, J)[n + 1] = <<x>>
            /\ (\A k \in 1..n : Pieces(u, J)[k] = p[k]) /\ DOMAIN p = 1..n
        BY <2>0, <3>1, <4>1
      <4>3. i = n + 1 \/ i \in 1..n
        BY <4>1, <4>2
      <4>4. <<x>> # <<>>
        OBVIOUS
      <4> QED BY <2>3, <4>2, <4>3, <4>4
    <3>6. Pieces(u, J) \in Seq(Seq(E))
      BY <2>0, <3>1
    <3> QED BY <2>0, <3>4, <3>5, <3>6 DEF u, T, Holds
  <2> QED BY <2>4, <2>5 DEF u
<1>. HIDE DEF T
<1>3. s \in T
  BY <1>1, <1>2, SequenceInduction
<1> QED BY <1>3 DEF T

\* Adding to the second of two adds to both.
Behind(p, q, x) == Append(p \o q, x) = p \o Append(q, x)
LEMMA AppendBehind ==
  ASSUME NEW E, NEW p \in Seq(E), NEW q \in Seq(E), NEW x \in E PROVE Behind(p, q, x)
BY DEF Behind

\* What has no element twice has none twice in a part of it.
LEMMA PickedOnce ==
  ASSUME NEW E, NEW s \in Seq(E), IsInjective(s), NEW I PROVE IsInjective(Picked(s, I))
<1>1. PICK m : Embeds(s, I, m)
  BY PickedEmbeds
<1>2. PICK p \in Seq(E) : p = Picked(s, I)
  BY PickedSeq
<1>3. PICK l \in Nat : l = Len(p)
  OBVIOUS
<1>4. DOMAIN p = 1..l /\ DOMAIN s = 1..Len(s)
  BY <1>3
<1>5. /\ m \in [1..l -> 1..Len(s)] /\ \A k \in 1..l : p[k] = s[m[k]]
      /\ \A j, k \in 1..l : j < k => m[j] < m[k]
  BY <1>1, <1>2, <1>3 DEF Embeds
<1>6. ASSUME NEW j \in 1..l, NEW k \in 1..l, p[j] = p[k] PROVE j = k
  <2>1. m[j] \in 1..Len(s) /\ m[k] \in 1..Len(s) /\ s[m[j]] = s[m[k]]
    BY <1>5, <1>6
  <2>2. m[j] = m[k]
    BY <1>4, <2>1 DEF IsInjective
  <2>3. ~(j < k) /\ ~(k < j)
    BY <1>5, <2>1, <2>2
  <2> QED BY <2>3
<1>7. IsInjective(p)
  BY <1>4, <1>6 DEF IsInjective
<1> QED BY <1>2, <1>7

\* Positions before others are picked before them.
LEMMA PickedSplit ==
  ASSUME NEW E, NEW s \in Seq(E), NEW I, NEW J,
         \A i, j \in 1..Len(s) : i \in I /\ j \in J => i < j
  PROVE  Picked(s, I \cup J) = Picked(s, I) \o Picked(s, J)
<1>. DEFINE Before(t) == \A i, j \in 1..Len(t) : i \in I /\ j \in J => i < j
            Holds(t) == Before(t) => Picked(t, I \cup J) = Picked(t, I) \o Picked(t, J)
            T == {t \in Seq(E) : Holds(t)}
<1>1. <<>> \in T
  <2>1. Picked(<<>>, I) = <<>> /\ Picked(<<>>, J) = <<>> /\ Picked(<<>>, I \cup J) = <<>>
    BY PickedEmpty
  <2>2. <<>> \o <<>> = <<>> /\ <<>> \in Seq(E)
    OBVIOUS
  <2> QED BY <2>1, <2>2
<1>2. ASSUME NEW t \in Seq(E), NEW x \in E, t \in T PROVE Append(t, x) \in T
  <2>. DEFINE u == Append(t, x)
  <2>0. PICK n \in Nat : n = Len(t)
    OBVIOUS
  <2>1. u \in Seq(E) /\ Len(u) = n + 1 /\ (\A i \in 1..n : i \in 1..(n + 1)) /\ n + 1 \in 1..(n + 1)
    BY <2>0
  <2>. HIDE DEF u
  <2>2. SUFFICES ASSUME Before(u) PROVE Picked(u, I \cup J) = Picked(u, I) \o Picked(u, J)
    BY <2>1 DEF u
  <2>3. Before(t)
    BY <2>0, <2>1, <2>2
  <2>4. PICK p \in Seq(E), q \in Seq(E) : p = Picked(t, I) /\ q = Picked(t, J)
    <3>1. Picked(t, I) \in Seq(E) /\ Picked(t, J) \in Seq(E)
      BY PickedSeq
    <3> QED BY <3>1
  <2>5. Picked(t, I \cup J) = p \o q
    BY <1>2, <2>3, <2>4
  <2>. HIDE DEF Holds, T
  <2>6. /\ Picked(u, I) = IF n + 1 \in I THEN Append(p, x) ELSE p
        /\ Picked(u, J) = IF n + 1 \in J THEN Append(q, x) ELSE q
        /\ Picked(u, I \cup J) = IF n + 1 \in I \cup J THEN Append(p \o q, x) ELSE p \o q
    <3>1. /\ Picked(Append(t, x), I) = IF Len(t) + 1 \in I THEN Append(Picked(t, I), x) ELSE Picked(t, I)
          /\ Picked(Append(t, x), J) = IF Len(t) + 1 \in J THEN Append(Picked(t, J), x) ELSE Picked(t, J)
      BY PickedAppend
    <3>2. Picked(Append(t, x), I \cup J) =
            IF Len(t) + 1 \in I \cup J THEN Append(Picked(t, I \cup J), x) ELSE Picked(t, I \cup J)
      BY PickedAppend
    <3> QED BY <2>0, <2>4, <2>5, <3>1, <3>2 DEF u
  <2>7. CASE n + 1 \in J
    <3>1. n + 1 \notin I
      BY <2>1, <2>2, <2>7
    <3>2. Append(p \o q, x) = p \o Append(q, x)
      <4>1. p \in Seq(E) /\ q \in Seq(E) /\ x \in E
        BY <2>4
      <4>2. Behind(p, q, x)
        BY <4>1, AppendBehind
      <4> QED BY <4>2 DEF Behind
    <3> QED BY <2>6, <2>7, <3>1, <3>2
  <2>8. CASE n + 1 \notin J /\ n + 1 \in I
    <3>1. ASSUME NEW j \in 1..n, j \in J PROVE FALSE
      <4>1. n + 1 < j
        BY <2>1, <2>2, <2>8, <3>1
      <4> QED BY <2>0, <4>1
    <3>2. q = <<>>
      BY <2>0, <2>4, <3>1, PickedNone
    <3>3. Append(p \o <<>>, x) = Append(p, x) \o <<>>
      BY <2>4
    <3> QED BY <2>6, <2>8, <3>2, <3>3
  <2>9. CASE n + 1 \notin J /\ n + 1 \notin I
    BY <2>6, <2>9
  <2> QED BY <2>7, <2>8, <2>9
<1>. HIDE DEF T
<1>3. s \in T
  BY <1>1, <1>2, SequenceInduction
<1> QED BY <1>3 DEF T

\* Sequences of growing numbers.
Ascending(s) == \A i, j \in DOMAIN s : i < j => s[i] < s[j]

\* The two halves of such a sequence are two of them, and all of one is below the other.
LEMMA ConcatAscending ==
  ASSUME NEW a \in Seq(Nat), NEW b \in Seq(Nat), Ascending(a \o b)
  PROVE  Ascending(a) /\ Ascending(b) /\ \A x \in ToSet(a), y \in ToSet(b) : x < y
<1>1. PICK k \in Nat, l \in Nat : k = Len(a) /\ l = Len(b)
  OBVIOUS
<1>0. a \o b \in Seq(Nat)
  OBVIOUS
<1>2. PICK c \in Seq(Nat) : c = a \o b
  BY <1>0
<1>3. /\ DOMAIN c = 1..(k + l) /\ (\A i \in 1..k : c[i] = a[i]) /\ (\A i \in 1..l : c[k + i] = b[i])
      /\ DOMAIN a = 1..k /\ DOMAIN b = 1..l
  BY <1>1, <1>2
<1>4. (\A i \in 1..k : i \in 1..(k + l)) /\ (\A i \in 1..l : k + i \in 1..(k + l))
  BY <1>1
<1>5. \A i, j \in 1..(k + l) : i < j => c[i] < c[j]
  BY <1>2, <1>3 DEF Ascending
<1>6. Ascending(a)
  BY <1>3, <1>4, <1>5 DEF Ascending
<1>7. ASSUME NEW i \in 1..l, NEW j \in 1..l, i < j PROVE b[i] < b[j]
  <2>1. k + i < k + j /\ k + i \in 1..(k + l) /\ k + j \in 1..(k + l)
    BY <1>1, <1>4, <1>7
  <2> QED BY <1>3, <1>5, <2>1
<1>8. ASSUME NEW i \in 1..k, NEW j \in 1..l PROVE a[i] < b[j]
  <2>1. i < k + j /\ i \in 1..(k + l) /\ k + j \in 1..(k + l)
    BY <1>1, <1>4
  <2> QED BY <1>3, <1>5, <2>1
<1> QED BY <1>3, <1>6, <1>7, <1>8, SMTT(20) DEF Ascending, ToSet

\* Parts that are not empty begin in their order when they ascend together.
LEMMA FirstsAscend ==
  ASSUME NEW q \in Seq(Seq(Nat)), Ascending(FlattenSeq(q)), \A i \in DOMAIN q : q[i] # <<>>
  PROVE  \A i, j \in DOMAIN q : i < j => q[i][1] < q[j][1]
<1>. DEFINE Full(t) == \A i \in DOMAIN t : t[i] # <<>>
            Firsts(t) == \A i, j \in DOMAIN t : i < j => t[i][1] < t[j][1]
            Holds(t) == Ascending(FlattenSeq(t)) /\ Full(t) => Firsts(t)
            T == {t \in Seq(Seq(Nat)) : Holds(t)}
<1>1. <<>> \in T
  <2>1. DOMAIN <<>> = {} /\ <<>> \in Seq(Seq(Nat))
    OBVIOUS
  <2> QED BY <2>1
<1>2. ASSUME NEW t \in Seq(Seq(Nat)), NEW x \in Seq(Nat), t \in T PROVE Append(t, x) \in T
  <2>. DEFINE u == Append(t, x)
  <2>0. PICK n \in Nat : n = Len(t)
    OBVIOUS
  <2>1. /\ u \in Seq(Seq(Nat)) /\ DOMAIN u = 1..(n + 1) /\ DOMAIN t = 1..n
        /\ u[n + 1] = x /\ \A i \in 1..n : u[i] = t[i]
    BY <2>0
  <2>1a. (\A i \in 1..n : i \in 1..(n + 1)) /\ n + 1 \in 1..(n + 1)
    BY <2>0
  <2>. HIDE DEF u
  <2>2. SUFFICES ASSUME Ascending(FlattenSeq(u)), Full(u) PROVE Firsts(u)
    BY <2>1 DEF u
  <2>3. FlattenSeq(t) \in Seq(Nat) /\ FlattenSeq(u) = FlattenSeq(t) \o x
    BY FlattenAppend DEF u
  <2>4. Ascending(FlattenSeq(t)) /\ \A e \in ToSet(FlattenSeq(t)), y \in ToSet(x) : e < y
    BY <2>2, <2>3, ConcatAscending
  <2>5. Full(t)
    BY <2>1, <2>1a, <2>2
  <2>6. Firsts(t)
    BY <1>2, <2>4, <2>5
  <2>7. \A i \in 1..n : t[i] \in Seq(Nat)
    BY <2>1
  <2>8. ASSUME NEW i \in 1..n PROVE u[i][1] < x[1]
    <3>1. t[i] \in Seq(Nat) /\ t[i] # <<>> /\ x # <<>>
      BY <2>1, <2>1a, <2>2, <2>5, <2>7
    <3>2. t[i][1] \in ToSet(t[i]) /\ x[1] \in ToSet(x)
      <4>1. 1 \in DOMAIN t[i] /\ 1 \in DOMAIN x
        BY <3>1
      <4> QED BY <4>1 DEF ToSet
    <3>3. t[i][1] \in ToSet(FlattenSeq(t))
      <4>1. ToSet(FlattenSeq(t)) = UNION {ToSet(t[k]) : k \in DOMAIN t}
        BY FlattenRange
      <4> QED BY <2>1, <3>2, <4>1
    <3> QED BY <2>1, <2>4, <3>2, <3>3
  <2>9. ASSUME NEW i \in 1..(n + 1), NEW j \in 1..(n + 1), i < j PROVE u[i][1] < u[j][1]
    <3>1. i \in 1..n
      BY <2>0, <2>9
    <3>2. CASE j \in 1..n
      BY <2>1, <2>6, <2>9, <3>1, <3>2
    <3>3. CASE j = n + 1
      BY <2>1, <2>8, <3>1, <3>3
    <3>4. j \in 1..n \/ j = n + 1
      BY <2>0
    <3> QED BY <3>2, <3>3, <3>4
  <2> QED BY <2>1, <2>9
<1>. HIDE DEF T
<1>3. q \in T
  BY <1>1, <1>2, SequenceInduction
<1> QED BY <1>3 DEF T

\* s in buckets by key, one bucket after the other: a stable sort.
Bucket(s, key, k) == Picked(s, {i \in DOMAIN s : key[i] = k})
Sorted(s, key, n) == FlattenSeq([k \in 1..n |-> Bucket(s, key, k)])

\* The buckets hold what has their key.
LEMMA BucketFacts ==
  ASSUME NEW E, NEW s \in Seq(E), NEW key, NEW n \in Nat
  PROVE  /\ [k \in 1..n |-> Bucket(s, key, k)] \in Seq(Seq(E))
         /\ \A k \in 1..n : ToSet(Bucket(s, key, k)) = {s[i] : i \in {i \in DOMAIN s : key[i] = k}}
<1>1. ASSUME NEW k \in 1..n PROVE Bucket(s, key, k) \in Seq(E)
  BY PickedSeq DEF Bucket
<1>2. DOMAIN s = 1..Len(s)
  OBVIOUS
<1>3. ASSUME NEW k \in 1..n PROVE ToSet(Bucket(s, key, k)) = {s[i] : i \in {i \in DOMAIN s : key[i] = k}}
  <2>. DEFINE I == {i \in DOMAIN s : key[i] = k}
  <2>1. ToSet(Picked(s, I)) = {s[i] : i \in {i \in 1..Len(s) : i \in I}}
    <3>. HIDE DEF I
    <3> QED BY PickedRange
  <2>2. {i \in 1..Len(s) : i \in I} = I
    BY <1>2
  <2> QED BY <2>1, <2>2 DEF Bucket
<1>. DEFINE q == [k \in 1..n |-> Bucket(s, key, k)]
<1>4. q \in Seq(Seq(E))
  BY <1>1
<1> QED BY <1>3, <1>4

\* Sorting keeps the elements.
LEMMA SortedFacts ==
  ASSUME NEW E, NEW s \in Seq(E), NEW key, NEW n \in Nat
  PROVE  /\ Sorted(s, key, n) \in Seq(E) /\ ToSet(Sorted(s, key, n)) \subseteq ToSet(s)
         /\ (\A i \in DOMAIN s : key[i] \in 1..n) => ToSet(Sorted(s, key, n)) = ToSet(s)
         /\ IsInjective(s) => IsInjective(Sorted(s, key, n))
<1>. DEFINE q == [k \in 1..n |-> Bucket(s, key, k)]
<1>1. q \in Seq(Seq(E)) /\ DOMAIN q = 1..n /\ \A k \in 1..n : q[k] = Bucket(s, key, k)
  BY BucketFacts
<1>2. \A k \in 1..n : ToSet(q[k]) = {s[i] : i \in {i \in DOMAIN s : key[i] = k}}
  <2>1. \A k \in 1..n : ToSet(Bucket(s, key, k)) = {s[i] : i \in {i \in DOMAIN s : key[i] = k}}
    BY BucketFacts
  <2>. HIDE DEF q
  <2> QED BY <1>1, <2>1
<1>3. Sorted(s, key, n) = FlattenSeq(q)
  BY DEF Sorted
<1>. HIDE DEF q
<1>4. FlattenSeq(q) \in Seq(E) /\ ToSet(FlattenSeq(q)) = UNION {ToSet(q[k]) : k \in 1..n}
  BY <1>1, FlattenSeqType, FlattenRange
<1>5. ToSet(s) = {s[i] : i \in DOMAIN s}
  BY DEF ToSet
<1>6. ToSet(FlattenSeq(q)) \subseteq ToSet(s)
  <2>1. ASSUME NEW e \in ToSet(FlattenSeq(q)) PROVE e \in ToSet(s)
    <3>1. PICK k \in 1..n : e \in ToSet(q[k])
      BY <1>4
    <3>2. PICK i \in DOMAIN s : e = s[i]
      BY <1>2, <3>1
    <3> QED BY <1>5, <3>2
  <2> QED BY <2>1
<1>7. ASSUME \A i \in DOMAIN s : key[i] \in 1..n PROVE ToSet(s) \subseteq ToSet(FlattenSeq(q))
  <2>1. ASSUME NEW i \in DOMAIN s PROVE s[i] \in ToSet(q[key[i]]) /\ key[i] \in 1..n
    BY <1>2, <1>7
  <2> QED BY <1>4, <1>5, <2>1
<1>8. ASSUME IsInjective(s) PROVE IsInjective(FlattenSeq(q))
  <2>1. ASSUME NEW k \in 1..n PROVE IsInjective(q[k])
    <3>. DEFINE I == {i \in DOMAIN s : key[i] = k}
    <3>1. q[k] = Picked(s, I)
      BY <1>1 DEF Bucket
    <3>. HIDE DEF I
    <3> QED BY <1>8, <3>1, PickedOnce
  <2>2. ASSUME NEW j \in 1..n, NEW k \in 1..n, j # k PROVE ToSet(q[j]) \cap ToSet(q[k]) = {}
    <3>1. SUFFICES ASSUME NEW e \in ToSet(q[j]), e \in ToSet(q[k]) PROVE FALSE
      OBVIOUS
    <3>2. PICK i \in DOMAIN s : key[i] = j /\ e = s[i]
      BY <1>2, <3>1
    <3>3. PICK h \in DOMAIN s : key[h] = k /\ e = s[h]
      BY <1>2, <3>1
    <3>4. i = h
      BY <1>8, <3>2, <3>3 DEF IsInjective
    <3> QED BY <2>2, <3>2, <3>3, <3>4
  <2>3. Apart(q)
    BY <1>1, <2>1, <2>2 DEF Apart
  <2> QED BY <1>1, <2>3, FlattenApart
<1> QED BY <1>3, <1>4, <1>6, <1>7, <1>8

\* What is in order is left as it is.
LEMMA SortedSame ==
  ASSUME NEW E, NEW s \in Seq(E), NEW n \in Nat, NEW key \in [DOMAIN s -> 1..n],
         \A i, j \in DOMAIN s : i < j => key[i] <= key[j]
  PROVE  Sorted(s, key, n) = s
<1>. DEFINE q == [k \in 1..n |-> Bucket(s, key, k)]
            UpTo(k) == {i \in DOMAIN s : key[i] <= k}
            S == {k \in Nat : k <= n => \A f : Flattens(E, q, f) => f[k] = Picked(s, UpTo(k))}
<1>1. q \in Seq(Seq(E)) /\ Len(q) = n /\ \A k \in 1..n : q[k] = Bucket(s, key, k)
  <2>1. q \in Seq(Seq(E))
    BY BucketFacts
  <2> QED BY <2>1
<1>0. DOMAIN s = 1..Len(s) /\ \A i \in DOMAIN s : key[i] \in 1..n /\ key[i] \in Nat
  OBVIOUS
<1>. HIDE DEF q
<1>2. 0 \in S
  <2>1. \A i \in 1..Len(s) : i \notin UpTo(0)
    BY <1>0
  <2>. HIDE DEF UpTo
  <2>2. Picked(s, UpTo(0)) = <<>>
    BY <2>1, PickedNone
  <2> QED BY <2>2 DEF Flattens
<1>3. ASSUME NEW k \in Nat, k \in S PROVE k + 1 \in S
  <2>1. SUFFICES ASSUME k + 1 <= n, NEW f, Flattens(E, q, f) PROVE f[k + 1] = Picked(s, UpTo(k + 1))
    OBVIOUS
  <2>2. k + 1 \in 1..n /\ (k + 1) - 1 = k /\ k <= n
    BY <2>1
  <2>3. f[k + 1] = f[k] \o q[k + 1]
    BY <1>1, <2>1, <2>2 DEF Flattens
  <2>4. f[k] = Picked(s, UpTo(k))
    BY <1>3, <2>1, <2>2
  <2>. DEFINE J == {i \in DOMAIN s : key[i] = k + 1}
  <2>5. UpTo(k + 1) = UpTo(k) \cup J
    BY <1>0
  <2>6. ASSUME NEW i \in 1..Len(s), NEW j \in 1..Len(s), i \in UpTo(k), j \in J PROVE i < j
    <3>1. key[i] < key[j]
      BY <1>0, <2>6
    <3>2. ~(j < i) /\ i # j
      BY <1>0, <3>1
    <3> QED BY <3>2
  <2>7. q[k + 1] = Picked(s, J)
    BY <1>1, <2>2 DEF Bucket
  <2>. HIDE DEF UpTo, J
  <2>8. Picked(s, UpTo(k) \cup J) = Picked(s, UpTo(k)) \o Picked(s, J)
    BY <2>6, PickedSplit
  <2> QED BY <2>3, <2>4, <2>5, <2>7, <2>8
<1>. HIDE DEF S
<1>4. n \in S
  BY <1>2, <1>3, Induction
<1>5. PICK f : Flattens(E, q, f)
  BY <1>1, FlattenSteps
<1>6. FlattenSeq(q) = Picked(s, UpTo(n))
  <2>1. FlattenSeq(q) = f[n]
    BY <1>1, <1>5 DEF Flattens
  <2>2. f[n] = Picked(s, UpTo(n))
    <3>1. n <= n
      OBVIOUS
    <3>. HIDE DEF UpTo
    <3> QED BY <1>4, <1>5, <3>1 DEF S
  <2> QED BY <2>1, <2>2
<1>7. \A i \in 1..Len(s) : i \in UpTo(n)
  BY <1>0
<1>. HIDE DEF UpTo
<1>8. Picked(s, UpTo(n)) = s
  BY <1>7, PickedAll
<1>9. Sorted(s, key, n) = FlattenSeq(q)
  BY DEF Sorted, q
<1> QED BY <1>6, <1>8, <1>9

\* The numbers up to n that are in S, growing.
LEMMA PickedNumbers ==
  ASSUME NEW n \in Nat, NEW S
  PROVE  LET p == Picked([i \in 1..n |-> i], S)
         IN  p \in Seq(1..n) /\ ToSet(p) = {i \in 1..n : i \in S} /\ IsInjective(p) /\ Ascending(p)
<1>. DEFINE s == [i \in 1..n |-> i]
<1>1. s \in Seq(1..n) /\ Len(s) = n /\ DOMAIN s = 1..n /\ \A i \in 1..n : s[i] = i
  OBVIOUS
<1>2. IsInjective(s)
  BY DEF IsInjective
<1>. HIDE DEF s
<1>3. PICK p \in Seq(1..n) : p = Picked(s, S)
  BY <1>1, PickedSeq
<1>4. IsInjective(p)
  BY <1>1, <1>2, <1>3, PickedOnce
<1>5. ToSet(p) = {i \in 1..n : i \in S}
  <2>1. ToSet(p) = {s[i] : i \in {i \in 1..n : i \in S}}
    BY <1>1, <1>3, PickedRange
  <2> QED BY <1>1, <2>1
<1>6. Ascending(p)
  <2>1. PICK m : Embeds(s, S, m)
    BY <1>1, PickedEmbeds
  <2>2. DOMAIN p = 1..Len(p)
    OBVIOUS
  <2>3. /\ m \in [1..Len(p) -> 1..n] /\ (\A k \in 1..Len(p) : p[k] = s[m[k]])
        /\ \A k, l \in 1..Len(p) : k < l => m[k] < m[l]
    BY <1>1, <1>3, <2>1 DEF Embeds
  <2>4. \A k \in 1..Len(p) : p[k] = m[k]
    BY <1>1, <2>3
  <2> QED BY <2>2, <2>3, <2>4 DEF Ascending
<1> QED BY <1>3, <1>4, <1>5, <1>6 DEF s

\* Two sequences, one after the other, position by position.
Joins(p, q, c) ==
  /\ Len(c) = Len(p) + Len(q) /\ \A i \in 1..Len(p) : c[i] = p[i]
  /\ \A i \in 1..Len(q) : c[Len(p) + i] = q[i]

\* Where the elements of two joined sequences are.
LEMMA ConcatIndex ==
  ASSUME NEW E, NEW p \in Seq(E), NEW q \in Seq(E) PROVE Joins(p, q, p \o q)
<1>1. Len(p \o q) = Len(p) + Len(q)
  OBVIOUS
<1>2. \A i \in 1..Len(p) : (p \o q)[i] = p[i]
  OBVIOUS
<1>3. \A i \in 1..Len(q) : (p \o q)[Len(p) + i] = q[i]
  OBVIOUS
<1> QED BY <1>1, <1>2, <1>3 DEF Joins

\* A sequence of members of a set is one over it.
LEMMA RangeTyped ==
  ASSUME NEW A, NEW B, NEW s \in Seq(A), ToSet(s) \subseteq B PROVE \E u \in Seq(B) : u = s
<1>. DEFINE n == Len(s)
<1>2. DOMAIN s = 1..n /\ n \in Nat
  OBVIOUS
<1>. HIDE DEF n
<1>3. \A i \in 1..n : s[i] \in B
  BY <1>2 DEF ToSet
<1>. DEFINE t == [i \in 1..n |-> s[i]]
<1>4. t \in Seq(B) /\ Len(t) = n /\ \A i \in 1..n : t[i] = s[i]
  BY <1>2, <1>3
<1>. HIDE DEF t
<1>5. s \in Seq(A \cup B)
  BY SeqMonotone
<1>6. t \in Seq(A \cup B)
  BY <1>4, SeqMonotone
<1>7. s = t
  BY <1>4, <1>5, <1>6, SequencesEqual DEF n
<1>8. t \in Seq(B)
  BY <1>4
<1> QED BY <1>7, <1>8
=============================================================================
