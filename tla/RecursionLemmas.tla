---------------------------- MODULE RecursionLemmas ----------------------------
(* Induction and recursion on the natural numbers, for proofs about what   *)
(* is defined by recursion: each lemma is about sets and functions, and    *)
(* has no operator as a parameter.                                         *)
EXTENDS Naturals, Sequences, SequencesExt, FiniteSetTheorems, WellFoundedInduction, TLAPS

(* A set of natural numbers that is not empty has a least element.         *)
LEMMA LeastNumber ==
  ASSUME NEW numbers, numbers \subseteq Nat, numbers # {}
  PROVE  \E least \in numbers : \A n \in numbers : least <= n
<1>1. PICK least \in numbers : \A n \in numbers : <<n, least>> \notin OpToRel(<, Nat)
  BY WFMin, NatLessThanWellFounded
<1>2. ASSUME NEW n \in numbers, n < least
      PROVE  <<n, least>> \in OpToRel(<, Nat)
  <2>1. <<n, least>> \in Nat \X Nat
    OBVIOUS
  <2>2. <<n, least>>[1] < <<n, least>>[2]
    BY <1>2
  <2> QED BY <2>1, <2>2, Zenon DEF OpToRel
<1>3. \A n \in numbers : ~(n < least)
  BY <1>1, <1>2, Zenon
<1> QED BY <1>3

LEMMA Induction ==
  ASSUME NEW holds \in SUBSET Nat, 0 \in holds, \A n \in holds : n + 1 \in holds
  PROVE  holds = Nat
<1> DEFINE others == Nat \ holds
<1> SUFFICES ASSUME others # {} PROVE FALSE
  OBVIOUS
<1>1. PICK n \in others : \A m \in others : n <= m
  <2>1. others \subseteq Nat
    OBVIOUS
  <2> HIDE DEF others
  <2> QED BY <2>1, LeastNumber
<1>2. n # 0 /\ n - 1 \in Nat
  BY <1>1
<1>3. n - 1 \in holds
  BY <1>1, <1>2
<1> QED BY <1>1, <1>2, <1>3

(* A sequence of values, each of which a function makes of the last one.   *)
IsRun(f, n, S, start, Step) ==
  /\ f \in [0..n -> S] /\ f[0] = start
  /\ \A i \in 0..n - 1 : f[i + 1] = Step[<<i, f[i]>>]

LEMMA RunsAgree ==
  ASSUME NEW S, NEW start, NEW Step,
         NEW n \in Nat, NEW m \in Nat, n <= m,
         NEW g, IsRun(g, n, S, start, Step), NEW h, IsRun(h, m, S, start, Step)
  PROVE  \A i \in 0..n : g[i] = h[i]
<1> DEFINE holds == {i \in Nat : i <= n => g[i] = h[i]}
<1>1. 0 \in holds
  BY DEF IsRun
<1>2. ASSUME NEW i \in holds PROVE i + 1 \in holds
  <2>1. CASE i + 1 <= n
    <3>1. i \in 0..n - 1 /\ i \in 0..m - 1
      BY <2>1
    <3>2. g[i + 1] = Step[<<i, g[i]>>] /\ h[i + 1] = Step[<<i, h[i]>>]
      BY <3>1 DEF IsRun
    <3>3. g[i] = h[i]
      BY <1>2, <2>1
    <3> QED BY <3>2, <3>3
  <2> QED BY <2>1
<1> HIDE DEF holds
<1>3. holds = Nat
  <2>1. holds \in SUBSET Nat
    BY DEF holds
  <2> QED BY <1>1, <1>2, <2>1, Induction
<1> QED BY <1>3 DEF holds

IsRecursion(start, Step, S) ==
  start \in S /\ \A n \in Nat, s \in S : Step[<<n, s>>] \in S

LEMMA Recursion ==
  ASSUME NEW S, NEW start, NEW Step, IsRecursion(start, Step, S)
  PROVE  \E f \in [Nat -> S] : f[0] = start /\ \A n \in Nat : f[n + 1] = Step[<<n, f[n]>>]
<1> DEFINE Runs(n) == {g \in [0..n -> S] : IsRun(g, n, S, start, Step)}
           holds == {n \in Nat : Runs(n) # {}}
<1>1. 0 \in holds
  <2>1. [i \in 0..0 |-> start] \in Runs(0)
    BY DEF IsRun, IsRecursion
  <2> QED BY <2>1
<1>2. ASSUME NEW n \in holds PROVE n + 1 \in holds
  <2>1. PICK g \in [0..n -> S] : IsRun(g, n, S, start, Step)
    BY <1>2
  <2> DEFINE h == [i \in 0..n + 1 |-> IF i = n + 1 THEN Step[<<n, g[n]>>] ELSE g[i]]
  <2>2. n \in Nat /\ n \in 0..n /\ g[n] \in S
    BY <1>2, <2>1
  <2>3. Step[<<n, g[n]>>] \in S
    BY <2>2 DEF IsRecursion
  <2>4. h \in [0..n + 1 -> S]
    BY <2>1, <2>2, <2>3
  <2>5. h[0] = start
    BY <2>1, <2>2 DEF IsRun
  <2>6. ASSUME NEW i \in 0..n
        PROVE  h[i + 1] = Step[<<i, h[i]>>]
    <3>1. CASE i = n
      <4>1. h[n + 1] = Step[<<n, g[n]>>] /\ h[n] = g[n]
        BY <2>2
      <4> HIDE DEF h
      <4> QED BY <3>1, <4>1
    <3>2. CASE i < n
      <4>1. i \in 0..n - 1 /\ i \in 0..n /\ i + 1 \in 0..n
        BY <2>2, <2>6, <3>2
      <4>2. g[i + 1] = Step[<<i, g[i]>>]
        BY <2>1, <4>1 DEF IsRun
      <4>3. h[i] = g[i] /\ h[i + 1] = g[i + 1]
        BY <2>2, <3>2, <4>1
      <4> HIDE DEF h
      <4> QED BY <4>2, <4>3
    <3> QED BY <2>2, <2>6, <3>1, <3>2
  <2> HIDE DEF h
  <2>7. h \in Runs(n + 1)
    BY <2>4, <2>5, <2>6 DEF IsRun
  <2> QED BY <2>2, <2>7
<1>3. holds = Nat
  <2> HIDE DEF Runs
  <2>1. holds \in SUBSET Nat
    OBVIOUS
  <2> HIDE DEF holds
  <2> QED BY <1>1, <1>2, <2>1, Induction
<1> DEFINE run == [n \in Nat |-> CHOOSE g \in Runs(n) : TRUE]
           f == [n \in Nat |-> run[n][n]]
<1>4. ASSUME NEW n \in Nat PROVE IsRun(run[n], n, S, start, Step)
  <2>1. run[n] \in Runs(n)
    <3>1. Runs(n) # {}
      BY <1>3
    <3> HIDE DEF Runs
    <3> QED BY <3>1
  <2> QED BY <2>1
<1> HIDE DEF run, holds, Runs
<1>5. f \in [Nat -> S]
  BY <1>4 DEF IsRun
<1>6. f[0] = start
  BY <1>4 DEF IsRun
<1>7. ASSUME NEW n \in Nat PROVE f[n + 1] = Step[<<n, f[n]>>]
  <2>1. IsRun(run[n], n, S, start, Step) /\ IsRun(run[n + 1], n + 1, S, start, Step)
    BY <1>4
  <2>2. \A i \in 0..n : run[n][i] = run[n + 1][i]
    <3>1. PICK m \in Nat : m = n + 1
      OBVIOUS
    <3> DEFINE g == run[n]
               h == run[m]
    <3>2. n <= m /\ IsRun(g, n, S, start, Step) /\ IsRun(h, m, S, start, Step)
      BY <1>4, <3>1
    <3> HIDE DEF g, h
    <3>3. \A i \in 0..n : g[i] = h[i]
      BY <3>2, RunsAgree
    <3> QED BY <3>1, <3>3 DEF g, h
  <2>3. run[n][n] = run[n + 1][n]
    BY <2>2
  <2>4. run[n + 1][n + 1] = Step[<<n, run[n + 1][n]>>]
    BY <2>1 DEF IsRun
  <2> QED BY <2>3, <2>4
<1> QED BY <1>5, <1>6, <1>7

(* Sets within a finite one that only grow, and not after they once have   *)
(* not grown, do not grow beyond its cardinality.                          *)
LEMMA GrowthStops ==
  ASSUME NEW U, IsFiniteSet(U), NEW f \in [Nat -> SUBSET U],
         \A n \in Nat : f[n] \subseteq f[n + 1],
         \A n \in Nat : f[n + 1] = f[n] => f[n + 1 + 1] = f[n + 1]
  PROVE  f[Cardinality(U) + 1] = f[Cardinality(U)]
<1> DEFINE holds == {n \in Nat : f[n + 1] = f[n] \/ Cardinality(f[n]) >= n}
           N == Cardinality(U)
<1>1. N \in Nat
  BY FS_CardinalityType
<1>2. \A n \in Nat : f[n] \subseteq U /\ IsFiniteSet(f[n]) /\ Cardinality(f[n]) \in Nat
  BY FS_Subset, FS_CardinalityType
<1>3. 0 \in holds
  BY <1>2
<1>4. ASSUME NEW n \in holds PROVE n + 1 \in holds
  <2>1. CASE f[n + 1] = f[n]
    BY <1>4, <2>1
  <2>2. CASE f[n + 1] # f[n] /\ Cardinality(f[n]) >= n
    <3>1. PICK x \in f[n + 1] : x \notin f[n]
      BY <2>2, <1>4
    <3> DEFINE one_more == f[n] \cup {x}
    <3>2. Cardinality(one_more) = Cardinality(f[n]) + 1
      BY <1>2, <1>4, <3>1, FS_AddElement
    <3>3. one_more \subseteq f[n + 1]
      BY <1>4, <3>1
    <3>4. n + 1 \in Nat
      BY <1>4
    <3>5. Cardinality(one_more) <= Cardinality(f[n + 1])
      <4> HIDE DEF one_more
      <4> QED BY <1>2, <3>3, <3>4, FS_Subset
    <3> HIDE DEF one_more
    <3>6. Cardinality(f[n + 1]) >= n + 1
      BY <1>2, <1>4, <2>2, <3>2, <3>4, <3>5
    <3> QED BY <3>4, <3>6
  <2> QED BY <1>4, <2>1, <2>2
<1>5. N \in holds
  <2>1. holds \in SUBSET Nat
    OBVIOUS
  <2> HIDE DEF holds
  <2> QED BY <1>1, <1>3, <1>4, <2>1, Induction
<1>6. CASE Cardinality(f[N]) >= N
  <2> DEFINE T == f[N]
  <2>1. T \in SUBSET U /\ Cardinality(T) \in Nat /\ Cardinality(T) >= N
    BY <1>1, <1>2, <1>6
  <2>2. T = U
    <3> HIDE DEF T
    <3> QED BY <1>1, <2>1, FS_Subset
  <2>3. N + 1 \in Nat /\ f[N + 1] \subseteq U /\ f[N] \subseteq f[N + 1]
    BY <1>1
  <2> QED BY <2>2, <2>3
<1> QED BY <1>5, <1>6

LEMMA RangeJoined ==
  ASSUME NEW S, NEW s \in Seq(S), NEW t \in Seq(S)
  PROVE  Range(s \o t) = Range(s) \cup Range(t)
<1> DEFINE r == s \o t
           m == Len(s)
           n == Len(t)
<1>1. /\ m \in Nat /\ n \in Nat /\ DOMAIN s = 1..m /\ DOMAIN t = 1..n
      /\ DOMAIN r = 1 .. m + n
      /\ \A i \in 1..m : r[i] = s[i]
      /\ \A i \in 1..n : r[m + i] = t[i]
  OBVIOUS
<1> HIDE DEF r, m, n
<1>2. ASSUME NEW x \in Range(r) PROVE x \in Range(s) \cup Range(t)
  <2>1. PICK i \in 1 .. m + n : x = r[i]
    BY <1>1 DEF Range
  <2>2. CASE i <= m
    BY <1>1, <2>1, <2>2 DEF Range
  <2>3. CASE i > m
    <3>1. i - m \in 1..n /\ m + (i - m) = i
      BY <1>1, <2>3
    <3> QED BY <1>1, <2>1, <3>1 DEF Range
  <2> QED BY <1>1, <2>2, <2>3
<1>3. ASSUME NEW x \in Range(s) PROVE x \in Range(r)
  <2>1. PICK i \in 1..m : x = s[i]
    BY <1>1 DEF Range
  <2>2. i \in 1 .. m + n
    BY <1>1
  <2> QED BY <1>1, <2>1, <2>2 DEF Range
<1>4. ASSUME NEW x \in Range(t) PROVE x \in Range(r)
  <2>1. PICK i \in 1..n : x = t[i]
    BY <1>1 DEF Range
  <2>2. m + i \in 1 .. m + n
    BY <1>1
  <2> QED BY <1>1, <2>1, <2>2 DEF Range
<1> QED BY <1>2, <1>3, <1>4 DEF r

(* A concatenation is built from the first sequence on. *)
LEMMA FlattenSeqUnfolds ==
  ASSUME NEW S, NEW seqs \in Seq(Seq(S)), Len(seqs) # 0
  PROVE  \E f \in [1 .. Len(seqs) -> Seq(S)] :
            /\ f[1] = seqs[1]
            /\ \A i \in 1 .. Len(seqs) : i # 1 => f[i] = f[i - 1] \o seqs[i]
            /\ FlattenSeq(seqs) = f[Len(seqs)]
<1> DEFINE n == Len(seqs)
           Step == [a \in Nat \X Seq(S) |->
                      IF a[1] + 2 \in 1..n THEN a[2] \o seqs[a[1] + 2] ELSE a[2]]
           Flat(f) == [i \in 1..n |-> IF i = 1 THEN seqs[i] ELSE f[i - 1] \o seqs[i]]
           flatten == CHOOSE f : f = Flat(f)
<1>1. n \in Nat \ {0} /\ \A i \in 1..n : seqs[i] \in Seq(S)
  OBVIOUS
<1>2. ASSUME NEW i \in Nat, NEW s \in Seq(S) PROVE Step[<<i, s>>] \in Seq(S)
  <2>1. Step[<<i, s>>] = IF i + 2 \in 1..n THEN s \o seqs[i + 2] ELSE s
    OBVIOUS
  <2> QED BY <1>1, <2>1
<1>3. PICK run \in [Nat -> Seq(S)] :
        run[0] = seqs[1] /\ \A i \in Nat : run[i + 1] = Step[<<i, run[i]>>]
  <2> DEFINE T == Seq(S)
             first == seqs[1]
  <2>1. IsRecursion(first, Step, T)
    <3> HIDE DEF Step
    <3> QED BY <1>1, <1>2 DEF IsRecursion
  <2> HIDE DEF Step, T, first
  <2>2. \E run \in [Nat -> T] :
          run[0] = first /\ \A i \in Nat : run[i + 1] = Step[<<i, run[i]>>]
    BY <2>1, Recursion
  <2> QED BY <2>2 DEF T, first
<1> DEFINE g == [i \in 1..n |-> run[i - 1]]
<1>4. g = Flat(g)
  <2>1. ASSUME NEW i \in 1..n, i # 1 PROVE run[i - 1] = g[i - 1] \o seqs[i]
    <3>1. i - 2 \in Nat /\ i - 1 = (i - 2) + 1 /\ i = (i - 2) + 2 /\ i - 1 \in 1..n
      BY <2>1
    <3>2. run[(i - 2) + 1] = Step[<<i - 2, run[i - 2]>>]
      BY <1>3, <3>1
    <3>3. Step[<<i - 2, run[i - 2]>>] = run[i - 2] \o seqs[(i - 2) + 2]
      BY <1>3, <3>1
    <3>4. g[i - 1] = run[i - 2]
      BY <3>1
    <3> HIDE DEF Step
    <3> QED BY <3>1, <3>2, <3>3, <3>4
  <2>2. ASSUME NEW i \in 1..n
        PROVE  run[i - 1] = IF i = 1 THEN seqs[i] ELSE g[i - 1] \o seqs[i]
    <3>1. CASE i = 1
      <4> HIDE DEF Step
      <4> QED BY <1>3, <3>1
    <3>2. CASE i # 1
      <4> HIDE DEF Step, g
      <4> QED BY <2>1, <3>2
    <3> QED BY <3>1, <3>2
  <2> HIDE DEF Step
  <2> QED BY <2>2
<1>5. flatten = Flat(flatten)
  <2> HIDE DEF Flat, g
  <2> QED BY <1>4
<1> DEFINE holds == {i \in Nat : i + 1 \in 1..n => flatten[i + 1] \in Seq(S)}
<1>6. 0 \in holds
  <2>1. 1 \in 1..n => flatten[1] = seqs[1]
    <3> HIDE DEF flatten
    <3> QED BY <1>5
  <2>2. 0 + 1 = 1
    OBVIOUS
  <2> HIDE DEF flatten
  <2> QED BY <1>1, <2>1, <2>2
<1>7. ASSUME NEW i \in holds PROVE i + 1 \in holds
  <2> SUFFICES ASSUME (i + 1) + 1 \in 1..n PROVE flatten[(i + 1) + 1] \in Seq(S)
    OBVIOUS
  <2>1. i + 1 \in 1..n /\ (i + 1) + 1 # 1 /\ ((i + 1) + 1) - 1 = i + 1
    OBVIOUS
  <2>2. flatten[(i + 1) + 1] = flatten[i + 1] \o seqs[(i + 1) + 1]
    <3> HIDE DEF flatten
    <3> QED BY <1>5, <2>1
  <2>3. flatten[i + 1] \in Seq(S)
    BY <2>1
  <2> HIDE DEF flatten
  <2> QED BY <1>1, <2>2, <2>3
<1>8. holds = Nat
  <2>1. holds \in SUBSET Nat
    OBVIOUS
  <2> HIDE DEF holds
  <2> QED BY <1>6, <1>7, <2>1, Induction
<1>9. ASSUME NEW i \in 1..n PROVE flatten[i] \in Seq(S)
  <2>1. i - 1 \in Nat /\ (i - 1) + 1 = i
    BY <1>1
  <2> HIDE DEF flatten
  <2> QED BY <1>8, <2>1
<1>10. flatten \in [1..n -> Seq(S)]
  <2> HIDE DEF flatten
  <2>1. flatten = [i \in 1..n |-> flatten[i]]
    BY <1>5
  <2> QED BY <1>9, <2>1
<1>11. /\ flatten[1] = seqs[1]
       /\ \A i \in 1..n : i # 1 => flatten[i] = flatten[i - 1] \o seqs[i]
  <2>1. ASSUME NEW i \in 1..n
        PROVE  flatten[i] = IF i = 1 THEN seqs[i] ELSE flatten[i - 1] \o seqs[i]
    <3> HIDE DEF flatten
    <3> QED BY <1>5
  <2>2. 1 \in 1..n
    BY <1>1
  <2> HIDE DEF flatten, n
  <2> QED BY <2>1, <2>2
<1>12. FlattenSeq(seqs) = flatten[n]
  BY DEF FlattenSeq
<1> HIDE DEF flatten
<1> QED BY <1>10, <1>11, <1>12

LEMMA FlattenSeqType ==
  ASSUME NEW S, NEW seqs \in Seq(Seq(S))
  PROVE  FlattenSeq(seqs) \in Seq(S)
<1>1. CASE Len(seqs) = 0
  <2>1. seqs = <<>>
    BY <1>1
  <2> QED BY <1>1, <2>1 DEF FlattenSeq
<1>2. CASE Len(seqs) # 0
  <2> DEFINE n == Len(seqs)
  <2>1. n \in 1..n
    BY <1>2
  <2>2. PICK f \in [1..n -> Seq(S)] : FlattenSeq(seqs) = f[n]
    BY <1>2, FlattenSeqUnfolds
  <2> HIDE DEF n
  <2> QED BY <2>1, <2>2
<1> QED BY <1>1, <1>2

(* It has the elements of all of them. *)
LEMMA FlattenSeqRange ==
  ASSUME NEW S, NEW seqs \in Seq(Seq(S))
  PROVE  Range(FlattenSeq(seqs)) = UNION {Range(seqs[i]) : i \in DOMAIN seqs}
<1>1. CASE Len(seqs) = 0
  BY <1>1 DEF FlattenSeq, Range
<1>2. CASE Len(seqs) # 0
  <2> DEFINE n == Len(seqs)
             Before(i) == UNION {Range(seqs[j]) : j \in 1..i}
  <2>1. n \in Nat \ {0} /\ DOMAIN seqs = 1..n /\ \A i \in 1..n : seqs[i] \in Seq(S)
    BY <1>2
  <2>2. PICK f \in [1..n -> Seq(S)] :
              /\ f[1] = seqs[1]
              /\ \A i \in 1..n : i # 1 => f[i] = f[i - 1] \o seqs[i]
              /\ FlattenSeq(seqs) = f[n]
    BY <1>2, FlattenSeqUnfolds
  <2> DEFINE holds == {i \in Nat : i + 1 \in 1..n => Range(f[i + 1]) = Before(i + 1)}
  <2>3. 0 \in holds
    <3>1. Before(1) = Range(seqs[1])
      <4>1. 1..1 = {1}
        OBVIOUS
      <4> QED BY <4>1
    <3>2. 0 + 1 = 1
      OBVIOUS
    <3> HIDE DEF Before
    <3> QED BY <2>2, <3>1, <3>2
  <2>4. ASSUME NEW i \in holds PROVE i + 1 \in holds
    <3> SUFFICES ASSUME (i + 1) + 1 \in 1..n
                 PROVE  Range(f[(i + 1) + 1]) = Before((i + 1) + 1)
      OBVIOUS
    <3>1. i + 1 \in 1..n /\ (i + 1) + 1 # 1 /\ ((i + 1) + 1) - 1 = i + 1
      OBVIOUS
    <3>2. Range(f[i + 1]) = Before(i + 1)
      BY <3>1
    <3>3. Before((i + 1) + 1) = Before(i + 1) \cup Range(seqs[(i + 1) + 1])
      <4>1. i \in Nat
        OBVIOUS
      <4>2. 1 .. (i + 1) + 1 = (1 .. i + 1) \cup {(i + 1) + 1}
        <5> HIDE DEF holds
        <5> QED BY <4>1
      <4> QED BY <4>2
    <3> DEFINE k == (i + 1) + 1
               s == f[i + 1]
               t == seqs[k]
    <3>4. f[k] = s \o t
      BY <2>2, <3>1
    <3>5. s \in Seq(S) /\ t \in Seq(S)
      BY <2>1, <2>2, <3>1
    <3> HIDE DEF s, t, k
    <3>6. Range(s \o t) = Range(s) \cup Range(t)
      BY <3>5, RangeJoined
    <3> HIDE DEF Before
    <3> QED BY <3>2, <3>3, <3>4, <3>6 DEF s, t, k
  <2>5. holds = Nat
    <3>1. holds \in SUBSET Nat
      OBVIOUS
    <3> HIDE DEF holds
    <3> QED BY <2>3, <2>4, <3>1, Induction
  <2>6. Range(f[n]) = Before(n)
    <3>1. n - 1 \in Nat /\ (n - 1) + 1 = n /\ n \in 1..n
      BY <2>1
    <3> HIDE DEF Before
    <3> QED BY <2>5, <3>1
  <2> QED BY <2>1, <2>2, <2>6
<1> QED BY <1>1, <1>2

(* And it begins with the first. *)
LEMMA FlattenSeqFirst ==
  ASSUME NEW S, NEW seqs \in Seq(Seq(S)), Len(seqs) # 0, Len(seqs[1]) # 0
  PROVE  Len(FlattenSeq(seqs)) # 0 /\ FlattenSeq(seqs)[1] = seqs[1][1]
<1> DEFINE n == Len(seqs)
           first == seqs[1]
<1>1. n \in Nat \ {0} /\ \A i \in 1..n : seqs[i] \in Seq(S)
  OBVIOUS
<1>2. PICK f \in [1..n -> Seq(S)] :
            /\ f[1] = seqs[1]
            /\ \A i \in 1..n : i # 1 => f[i] = f[i - 1] \o seqs[i]
            /\ FlattenSeq(seqs) = f[n]
  BY FlattenSeqUnfolds
<1> DEFINE Begins(s) == Len(s) # 0 /\ s[1] = first[1]
           holds == {i \in Nat : i + 1 \in 1..n => Begins(f[i + 1])}
<1>3. 0 \in holds
  <2>1. 0 + 1 = 1
    OBVIOUS
  <2> QED BY <1>2, <2>1
<1>4. ASSUME NEW i \in holds PROVE i + 1 \in holds
  <2> SUFFICES ASSUME (i + 1) + 1 \in 1..n PROVE Begins(f[(i + 1) + 1])
    OBVIOUS
  <2>1. i + 1 \in 1..n /\ (i + 1) + 1 # 1 /\ ((i + 1) + 1) - 1 = i + 1
    OBVIOUS
  <2> DEFINE k == (i + 1) + 1
             s == f[i + 1]
             t == seqs[k]
  <2>2. f[k] = s \o t
    BY <1>2, <2>1
  <2>3. s \in Seq(S) /\ t \in Seq(S) /\ Begins(s)
    BY <1>1, <1>2, <2>1
  <2> HIDE DEF s, t, k, first
  <2>4. Begins(s \o t)
    BY <2>3
  <2> QED BY <2>2, <2>4 DEF k
<1>5. holds = Nat
  <2>1. holds \in SUBSET Nat
    OBVIOUS
  <2> HIDE DEF holds
  <2> QED BY <1>3, <1>4, <2>1, Induction
<1>6. Begins(f[n])
  <2>1. n - 1 \in Nat /\ (n - 1) + 1 = n /\ n \in 1..n
    BY <1>1
  <2> HIDE DEF Begins
  <2> QED BY <1>5, <2>1
<1> QED BY <1>2, <1>6
=============================================================================
