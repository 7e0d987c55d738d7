--------------------------- MODULE SequenceLemmas ---------------------------
(***************************************************************************)
(* What the proofs need of numbers and of sequences: induction up to a     *)
(* number, by which recursive functions are unfolded, and FlattenSeq.      *)
(***************************************************************************)
EXTENDS Naturals, Sequences, SequencesExt, FiniteSetTheorems, TLAPS

\* What holds of 0 and goes from one number on to the next holds up to any number.
LEMMA UpTo ==
    ASSUME NEW n \in Nat, NEW S, S \subseteq 0 .. n, 0 \in S, \A k \in S : k < n => k + 1 \in S
    PROVE  S = 0 .. n
<1> DEFINE Below(k) == {j \in 0 .. n : j <= k}
           T == {Below(k) : k \in (0 .. n) \ S}
<1> SUFFICES ASSUME S # 0 .. n PROVE FALSE
  OBVIOUS
<1>1. IsFiniteSet(0 .. n)
  BY FS_Interval
<1>2. IsWellFoundedOn(StrictSubsetOrdering(0 .. n), SUBSET (0 .. n))
  BY <1>1, FS_StrictSubsetOrderingWellFounded, FS_FiniteSubsetsOfFinite
<1>3. T \subseteq SUBSET (0 .. n) /\ T # {}
  OBVIOUS
<1>4. PICK B \in T : \A C \in T : ~(<<C, B>> \in StrictSubsetOrdering(0 .. n))
  <2> HIDE DEF T
  <2> QED  BY <1>2, <1>3, WFMin
<1>5. PICK k \in (0 .. n) \ S : B = Below(k)
  BY <1>4
<1>6. k - 1 \in 0 .. n /\ k - 1 < n /\ (k - 1) + 1 = k
  BY <1>5
<1>7. k - 1 \notin S
  BY <1>5, <1>6
<1>8. Below(k - 1) \in T /\ k \in Below(k) /\ k \notin Below(k - 1) /\ Below(k - 1) \subseteq Below(k)
  BY <1>5, <1>6, <1>7
<1>9. <<Below(k - 1), Below(k)>> \in StrictSubsetOrdering(0 .. n)
  BY <1>8 DEF StrictSubsetOrdering
<1> QED  BY <1>4, <1>5, <1>8, <1>9

\* The recursive function in FlattenSeq exists.
LEMMA FlatteningExists ==
    ASSUME NEW D, NEW q \in Seq(Seq(D))
    PROVE  \E a : a = [n \in 1 .. Len(q) |-> IF n = 1 THEN q[n] ELSE a[n - 1] \o q[n]]
<1> DEFINE Upto(m) == \E a : a = [n \in 1 .. m |-> IF n = 1 THEN q[n] ELSE a[n - 1] \o q[n]]
           S == {m \in 0 .. Len(q) : Upto(m)}
<1>1. Upto(0)
  <2>1. PICK a : a = [n \in 1 .. 0 |-> q[n]]  OBVIOUS
  <2>2. a = [n \in 1 .. 0 |-> IF n = 1 THEN q[n] ELSE a[n - 1] \o q[n]]
    BY <2>1
  <2> QED  BY <2>2
<1>2. ASSUME NEW m \in S, m < Len(q) PROVE m + 1 \in S
  <2>1. PICK a : a = [n \in 1 .. m |-> IF n = 1 THEN q[n] ELSE a[n - 1] \o q[n]]
    BY <1>2
  <2>2. PICK x : x = IF m = 0 THEN q[1] ELSE a[m] \o q[m + 1]  OBVIOUS
  <2>3. PICK b : b = [n \in 1 .. m + 1 |-> IF n <= m THEN a[n] ELSE x]  OBVIOUS
  <2>4. \A n \in 1 .. m + 1 : b[n] = IF n = 1 THEN q[n] ELSE b[n - 1] \o q[n]
    <3> TAKE n \in 1 .. m + 1
    <3>1. CASE n = 1 /\ n <= m  BY <2>1, <2>3, <3>1
    <3>2. CASE n # 1 /\ n <= m
      <4>1. n \in 1 .. m /\ n - 1 \in 1 .. m + 1 /\ n - 1 <= m  BY <3>2
      <4>2. b[n] = a[n] /\ b[n - 1] = a[n - 1]  BY <2>3, <3>2, <4>1
      <4> QED  BY <2>1, <3>2, <4>1, <4>2
    <3>3. CASE n = m + 1 /\ m = 0
      <4>1. b[n] = x /\ n = 1  BY <2>3, <3>3
      <4> QED  BY <2>2, <3>3, <4>1
    <3>4. CASE n = m + 1 /\ m # 0
      <4>1. n # 1 /\ n - 1 = m /\ ~(n <= m) /\ m \in 1 .. m + 1 /\ m <= m  BY <3>4
      <4>2. b[n] = x /\ b[n - 1] = a[m]  BY <2>3, <3>4, <4>1
      <4> QED  BY <2>2, <3>4, <4>1, <4>2
    <3> QED  BY <3>1, <3>2, <3>3, <3>4
  <2>5. b = [n \in 1 .. m + 1 |-> IF n = 1 THEN q[n] ELSE b[n - 1] \o q[n]]
    BY <2>3, <2>4
  <2>6. m + 1 \in 0 .. Len(q)  BY <1>2
  <2> QED  BY <2>5, <2>6
<1>3. S = 0 .. Len(q)
  <2>1. Len(q) \in Nat  OBVIOUS
  <2>2. S \subseteq 0 .. Len(q) /\ 0 \in S
    <3> HIDE DEF Upto
    <3> QED  BY <1>1, <2>1
  <2> HIDE DEF S
  <2> QED  BY <1>2, <2>1, <2>2, UpTo
<1>4. Len(q) \in S
  <2>1. Len(q) \in 0 .. Len(q)  OBVIOUS
  <2> HIDE DEF S
  <2> QED  BY <1>3, <2>1
<1> QED  BY <1>4

\* What the flattening of the first n sequences is, step by step.
Flattens(a, q) ==
    /\ 0 < Len(q) => a[1] = q[1]
    /\ \A n \in 2 .. Len(q) : a[n] = a[n - 1] \o q[n]

\* FlattenSeq is the end of such a flattening.
LEMMA FlattenSeqFlattens ==
    ASSUME NEW D, NEW q \in Seq(Seq(D)), q # <<>>
    PROVE  \E a \in [1 .. Len(q) -> Seq(D)] : Flattens(a, q) /\ FlattenSeq(q) = a[Len(q)]
<1> DEFINE Step(a) == a = [n \in 1 .. Len(q) |-> IF n = 1 THEN q[n] ELSE a[n - 1] \o q[n]]
           flatten == CHOOSE a : Step(a)
<1>1. Len(q) \in Nat /\ Len(q) # 0
  OBVIOUS
<1>2. FlattenSeq(q) = flatten[Len(q)]
  BY <1>1 DEF FlattenSeq
<1>3. Step(flatten)
  <2>1. \E a : Step(a)  BY FlatteningExists
  <2> QED  BY <2>1
<1> HIDE DEF flatten
<1>4. Flattens(flatten, q)
  <2>1. flatten[1] = q[1]
    <3>1. 1 \in 1 .. Len(q)  BY <1>1
    <3> QED  BY <1>3, <3>1
  <2>2. ASSUME NEW n \in 2 .. Len(q) PROVE flatten[n] = flatten[n - 1] \o q[n]
    <3>1. n \in 1 .. Len(q) /\ n # 1  BY <1>1
    <3> QED  BY <1>3, <3>1
  <2> QED  BY <2>1, <2>2 DEF Flattens
<1>5. \A n \in 1 .. Len(q) : flatten[n] \in Seq(D)
  <2> DEFINE S == {n \in 0 .. Len(q) : n # 0 => flatten[n] \in Seq(D)}
  <2>1. 0 \in S /\ S \subseteq 0 .. Len(q)  BY <1>1
  <2>2. ASSUME NEW n \in S, n < Len(q) PROVE n + 1 \in S
    <3>1. n + 1 \in 1 .. Len(q) /\ n + 1 \in 0 .. Len(q) /\ (n + 1) - 1 = n  BY <1>1, <2>2
    <3>2. q[n + 1] \in Seq(D)  BY <3>1
    <3>3. CASE n = 0  BY <1>1, <1>4, <3>1, <3>2, <3>3 DEF Flattens
    <3>4. CASE n # 0
      <4>1. flatten[n] \in Seq(D)  BY <2>2, <3>4
      <4>2. n + 1 \in 2 .. Len(q)  BY <3>1, <3>4
      <4>3. flatten[n + 1] = flatten[n] \o q[n + 1]  BY <1>4, <3>1, <4>2 DEF Flattens
      <4>4. flatten[n] \o q[n + 1] \in Seq(D)  BY <3>2, <4>1
      <4> QED  BY <3>1, <4>3, <4>4
    <3> QED  BY <3>3, <3>4
  <2>3. S = 0 .. Len(q)
    <3> HIDE DEF S
    <3> QED  BY <1>1, <2>1, <2>2, UpTo
  <2>4. \A n \in 1 .. Len(q) : n \in 0 .. Len(q) /\ n # 0  BY <1>1
  <2>5. ASSUME NEW n \in 1 .. Len(q) PROVE flatten[n] \in Seq(D)
    <3>1. n \in S  BY <2>3, <2>4
    <3> QED  BY <2>4, <3>1
  <2> QED  BY <2>5
<1>6. flatten \in [1 .. Len(q) -> Seq(D)]
  BY <1>3, <1>5
<1>7. \E a \in [1 .. Len(q) -> Seq(D)] : a = flatten
  BY <1>6
<1> QED  BY <1>2, <1>4, <1>7

\* FlattenSeq of a sequence of sequences that grew by one.
LEMMA FlattenAppend ==
    ASSUME NEW D, NEW q \in Seq(Seq(D)), NEW x \in Seq(D)
    PROVE  /\ FlattenSeq(q) \in Seq(D) /\ (q = <<>> => FlattenSeq(q) = <<>>)
           /\ FlattenSeq(Append(q, x)) = FlattenSeq(q) \o x
<1>1. PICK r : r = Append(q, x) /\ r \in Seq(Seq(D)) /\ r # <<>>
  <2>1. Append(q, x) \in Seq(Seq(D))  OBVIOUS
  <2>2. PICK r : r = Append(q, x)  OBVIOUS
  <2>3. Len(r) = Len(q) + 1 /\ Len(q) \in Nat  BY <2>2
  <2>4. Len(<<>>) = 0  OBVIOUS
  <2>5. r # <<>>  BY <2>3, <2>4
  <2> QED  BY <2>1, <2>2, <2>5
<1>2. Len(q) \in Nat /\ Len(r) = Len(q) + 1 /\ r[Len(q) + 1] = x /\ \A n \in 1 .. Len(q) : r[n] = q[n]
  BY <1>1
<1>3. PICK b \in [1 .. Len(r) -> Seq(D)] : Flattens(b, r) /\ FlattenSeq(r) = b[Len(r)]
  BY <1>1, FlattenSeqFlattens
<1>4. CASE q = <<>>
  <2>1. FlattenSeq(q) = <<>>  BY <1>4 DEF FlattenSeq
  <2>2. Len(r) = 1 /\ r[1] = x  BY <1>2, <1>4
  <2>3. FlattenSeq(r) = x  BY <1>3, <2>2 DEF Flattens
  <2>4. <<>> \o x = x /\ <<>> \in Seq(D)  OBVIOUS
  <2> QED  BY <1>1, <2>1, <2>3, <2>4
<1>5. CASE q # <<>>
  <2>1. PICK a \in [1 .. Len(q) -> Seq(D)] : Flattens(a, q) /\ FlattenSeq(q) = a[Len(q)]
    BY <1>5, FlattenSeqFlattens
  <2>2. Len(q) # 0  BY <1>5
  <2>3. \A n \in 1 .. Len(q) : a[n] = b[n]
    <3> DEFINE S == {n \in 0 .. Len(q) : n # 0 => a[n] = b[n]}
    <3>1. 0 \in S /\ S \subseteq 0 .. Len(q)  BY <1>2
    <3>2. ASSUME NEW n \in S, n < Len(q) PROVE n + 1 \in S
      <4>0. n \in Nat /\ n + 1 <= Len(q)  BY <1>2, <3>2
      <4>1. /\ n + 1 \in 1 .. Len(q) /\ n + 1 \in 0 .. Len(q) /\ (n + 1) - 1 = n
            /\ n + 1 \in 1 .. Len(r) /\ r[n + 1] = q[n + 1]
        BY <1>2, <4>0
      <4>2. CASE n = 0  BY <1>2, <1>3, <2>1, <2>2, <4>1, <4>2 DEF Flattens
      <4>3. CASE n # 0
        <5>1. n + 1 \in 2 .. Len(q) /\ n + 1 \in 2 .. Len(r)  BY <4>1, <4>3
        <5> QED  BY <1>3, <2>1, <3>2, <4>1, <4>3, <5>1 DEF Flattens
      <4> QED  BY <4>2, <4>3
    <3>3. S = 0 .. Len(q)
      <4> HIDE DEF S
      <4> QED  BY <1>2, <3>1, <3>2, UpTo
    <3>4. \A n \in 1 .. Len(q) : n \in 0 .. Len(q) /\ n # 0  OBVIOUS
    <3> QED  BY <3>3, <3>4
  <2>4. Len(r) \in 2 .. Len(r) /\ Len(r) - 1 = Len(q) /\ Len(q) \in 1 .. Len(q)
    BY <1>2, <2>2
  <2>5. b[Len(r)] = b[Len(q)] \o x
    BY <1>2, <1>3, <2>4 DEF Flattens
  <2>6. b[Len(q)] = FlattenSeq(q) /\ FlattenSeq(q) \in Seq(D)
    BY <2>1, <2>3, <2>4
  <2> QED  BY <1>1, <1>3, <1>5, <2>5, <2>6
<1> QED  BY <1>4, <1>5
=============================================================================
