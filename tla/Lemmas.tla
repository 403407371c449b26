-------------------------------- MODULE Lemmas --------------------------------
(***************************************************************************)
(* Facts about numbers, finite sets and sequences that the proofs of the   *)
(* components share.                                                       *)
(***************************************************************************)
EXTENDS Integers, Sequences, FiniteSets, FiniteSetTheorems, SequenceTheorems,
        WellFoundedInduction, TLAPS

(* Induction, for a set instead of a predicate. *)
LEMMA InductionOnNat ==
    ASSUME NEW S, 0 \in S, \A n \in Nat : n \in S => n + 1 \in S
    PROVE  Nat \subseteq S
<1>. DEFINE R == OpToRel(<, Nat)
            T == Nat \ S
<1>1. IsWellFoundedOn(R, Nat)
    BY NatLessThanWellFounded
<1>2. \A x, y \in Nat : x < y => <<x, y>> \in R
    BY DEF OpToRel
<1>. HIDE DEF R
<1>3. SUFFICES ASSUME T # {} PROVE FALSE
    OBVIOUS
<1>4. PICK x \in T : \A y \in T : ~(<<y, x>> \in R)
    BY <1>1, <1>3, WFMin
<1>5. x # 0 /\ x - 1 \in Nat /\ x - 1 < x
    OBVIOUS
<1>6. x - 1 \notin T
    BY <1>2, <1>4, <1>5
<1>7. x - 1 + 1 \in S
    BY <1>5, <1>6
<1>. QED
    BY <1>5, <1>7

(* A set of numbers up to n has a largest one. *)
LEMMA LargestElement ==
    ASSUME NEW n \in Nat, NEW S \in SUBSET (1..n), S # {}
    PROVE  \E x \in S : \A y \in S : x >= y
<1>. DEFINE Up == {k \in Nat : \A T \in SUBSET (1..k) :
                                 T # {} => \E x \in T : \A y \in T : x >= y}
<1>1. 0 \in Up
  <2>1. \A T \in SUBSET (1..0) : T = {}
      OBVIOUS
  <2>. QED
      BY <2>1
<1>2. ASSUME NEW k \in Nat, k \in Up
      PROVE  k + 1 \in Up
  <2>1. SUFFICES ASSUME NEW T \in SUBSET (1..(k + 1)), T # {}
                 PROVE  \E x \in T : \A y \in T : x >= y
      OBVIOUS
  <2>2. CASE k + 1 \in T
      BY <2>1, <2>2
  <2>3. CASE k + 1 \notin T
    <3>1. T \in SUBSET (1..k)
        BY <2>1, <2>3
    <3>. QED
        BY <1>2, <2>1, <3>1
  <2>. QED
      BY <2>2, <2>3
<1>. HIDE DEF Up
<1>3. n \in Up
    BY <1>1, <1>2, InductionOnNat
<1>. QED
    BY <1>3 DEF Up

-----------------------------------------------------------------------------
(* The elements of a queue. *)
Elements(q) == {q[i] : i \in 1..Len(q)}
NoRepeat(q) == \A i, j \in 1..Len(q) : q[i] = q[j] => i = j

(* What is queued after an element has been added at the tail. *)
LEMMA ElementsOfAppend ==
    ASSUME NEW S, NEW q \in Seq(S), NEW k \in S
    PROVE  /\ Append(q, k) \in Seq(S)
           /\ Elements(Append(q, k)) = Elements(q) \cup {k}
           /\ NoRepeat(q) /\ k \notin Elements(q) => NoRepeat(Append(q, k))
<1>1. /\ Len(Append(q, k)) = Len(q) + 1 /\ Len(q) \in Nat
      /\ Append(q, k) \in Seq(S)
    BY AppendProperties, LenProperties
<1>2. \A i \in 1..Len(q) : Append(q, k)[i] = q[i]
    BY AppendProperties
<1>3. Append(q, k)[Len(q) + 1] = k
    BY AppendProperties
<1>. QED
    BY <1>1, <1>2, <1>3 DEF Elements, NoRepeat

(* What is queued after the head has been taken off. *)
LEMMA ElementsOfTail ==
    ASSUME NEW S, NEW q \in Seq(S), q # <<>>
    PROVE  /\ Head(q) \in S /\ Tail(q) \in Seq(S)
           /\ Elements(q) = Elements(Tail(q)) \cup {Head(q)}
           /\ NoRepeat(q) => NoRepeat(Tail(q)) /\ Head(q) \notin Elements(Tail(q))
<1>1. /\ Len(Tail(q)) = Len(q) - 1 /\ Len(q) \in Nat /\ Len(q) # 0
      /\ Head(q) \in S /\ Tail(q) \in Seq(S)
    BY HeadTailProperties, LenProperties, EmptySeq
<1>2. \A i \in 1..Len(Tail(q)) : Tail(q)[i] = q[i + 1]
    BY HeadTailProperties
<1>3. Head(q) = q[1]
    OBVIOUS
<1>4. \A i \in 1..Len(q) : i = 1 \/ i - 1 \in 1..Len(Tail(q))
    BY <1>1
<1>5. \A i \in 1..Len(Tail(q)) : i + 1 \in 1..Len(q)
    BY <1>1
<1>6. 1 \in 1..Len(q)
    BY <1>1
<1>7. Elements(q) \subseteq Elements(Tail(q)) \cup {Head(q)}
  <2>1. SUFFICES ASSUME NEW i \in 1..Len(q), i # 1
                 PROVE  q[i] \in Elements(Tail(q))
      BY <1>3 DEF Elements
  <2>2. i - 1 \in 1..Len(Tail(q)) /\ (i - 1) + 1 = i
      BY <1>1, <1>4, <2>1
  <2>3. q[i] = Tail(q)[i - 1]
      BY <1>2, <2>2
  <2>. QED
      BY <2>2, <2>3 DEF Elements
<1>8. Elements(Tail(q)) \cup {Head(q)} \subseteq Elements(q)
    BY <1>2, <1>3, <1>5, <1>6 DEF Elements
<1>9. ASSUME NoRepeat(q) PROVE NoRepeat(Tail(q)) /\ Head(q) \notin Elements(Tail(q))
    BY <1>1, <1>2, <1>3, <1>5, <1>6, <1>9 DEF Elements, NoRepeat
<1>. QED
    BY <1>1, <1>7, <1>8, <1>9

(* Append to a sequence of one element. *)
LEMMA AppendToOne ==
    ASSUME NEW a, NEW b
    PROVE  Append(<<a>>, b) = <<a, b>>
<1>. DEFINE S == {a, b}
<1>1. <<a>> \in Seq(S) /\ <<a, b>> \in Seq(S) /\ b \in S
    OBVIOUS
<1>2. Len(<<a>>) = 1 /\ Len(<<a, b>>) = 2 /\ <<a>>[1] = a
    OBVIOUS
<1>3. /\ Append(<<a>>, b) \in Seq(S) /\ Len(Append(<<a>>, b)) = 2
      /\ Append(<<a>>, b)[1] = a /\ Append(<<a>>, b)[2] = b
    BY <1>1, <1>2, AppendProperties
<1>. HIDE DEF S
<1>4. \A i \in 1..2 : Append(<<a>>, b)[i] = <<a, b>>[i]
    BY <1>3
<1>. QED
    BY <1>1, <1>2, <1>3, <1>4, SeqEqual

(* A function on 1..n is a sequence of its values. *)
LEMMA SeqOfElements ==
    ASSUME NEW S, NEW n \in Nat, NEW f, f = [i \in 1..n |-> f[i]], \A i \in 1..n : f[i] \in S
    PROVE  f \in Seq(S)
OBVIOUS

(* The n-th smallest element of a finite set of numbers. *)
LEMMA RanksTaken ==
    ASSUME NEW N \in Nat, NEW S \in SUBSET (1..N)
    PROVE  /\ IsFiniteSet(S) /\ Cardinality(S) \in Nat
           /\ \A n \in 1..Cardinality(S) :
                 \E i \in S : Cardinality({j \in S : j <= i}) = n
<1>. DEFINE Below(i) == {j \in S : j <= i}
            rank == [i \in S |-> Cardinality(Below(i))]
            T == 1..Cardinality(S)
<1>1. IsFiniteSet(S) /\ Cardinality(S) \in Nat
  <2>1. IsFiniteSet(1..N)
      BY FS_Interval
  <2>. QED
      BY <2>1, FS_Subset, FS_CardinalityType
<1>2. IsFiniteSet(T) /\ Cardinality(T) = Cardinality(S)
    BY <1>1, FS_Interval
<1>3. ASSUME NEW i \in S
      PROVE  /\ IsFiniteSet(Below(i)) /\ Cardinality(Below(i)) \in T
             /\ Below(i) \in SUBSET S
  <2>1. Below(i) \in SUBSET S /\ i \in Below(i)
      OBVIOUS
  <2>2. /\ IsFiniteSet(Below(i)) /\ Cardinality(Below(i)) <= Cardinality(S)
        /\ Cardinality(Below(i)) \in Nat
      BY <1>1, <2>1, FS_Subset, FS_CardinalityType
  <2>3. Cardinality(Below(i)) # 0
      BY <2>1, <2>2, FS_EmptySet
  <2>. QED
      BY <1>1, <2>1, <2>2, <2>3
<1>4. ASSUME NEW i \in S, NEW k \in S, i < k
      PROVE  Cardinality(Below(i)) # Cardinality(Below(k))
  <2>0. S \subseteq Int
      OBVIOUS
  <2>1. Below(i) \in SUBSET Below(k) /\ k \in Below(k) /\ k \notin Below(i)
    <3>1. \A j \in S : j <= i => j <= k
        BY <1>4, <2>0
    <3>2. k <= k /\ ~(k <= i)
        BY <1>4, <2>0
    <3>. QED
        BY <3>1, <3>2
  <2>2. Cardinality(Below(k)) = Cardinality(Below(i)) => Below(k) = Below(i)
      BY <1>3, <2>1, FS_Subset
  <2>. QED
      BY <2>1, <2>2
<1>. HIDE DEF Below
<1>5. \A i, k \in S : Cardinality(Below(i)) = Cardinality(Below(k)) => i = k
  <2>1. SUFFICES ASSUME NEW i \in S, NEW k \in S, i # k
                 PROVE  Cardinality(Below(i)) # Cardinality(Below(k))
      OBVIOUS
  <2>2. i < k \/ k < i
      BY <2>1
  <2>. QED
      BY <1>4, <2>2
<1>6. rank \in Injection(S, T)
    BY <1>3, <1>5 DEF Injection, IsInjective
<1>7. rank \in Surjection(S, T)
    BY <1>2, <1>6, FS_Injection
<1>8. \A n \in T : \E i \in S : rank[i] = n
    BY <1>7 DEF Surjection
<1>. QED
    BY <1>1, <1>8 DEF Below
=============================================================================
