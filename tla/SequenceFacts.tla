---------------------------- MODULE SequenceFacts ----------------------------
(***************************************************************************)
(* Facts about sets of numbers and about sequences that the proofs of      *)
(* several components cite.                                                *)
(***************************************************************************)
EXTENDS Integers, Sequences, FiniteSets, SequencesExt, SequenceTheorems, FiniteSetTheorems,
        WellFoundedInduction, TLAPS

\* A nonempty set of numbers has a least element.
LEMMA LeastElement ==
  ASSUME NEW S \in SUBSET Nat, S # {}
  PROVE  \E n \in S : \A m \in S : n <= m
<1>1. PICK N \in S : TRUE
  OBVIOUS
<1> DEFINE Below(n) == {k \in 0..N : k < n}
           T == {Below(n) : n \in S \cap (0..N)}
           R == StrictSubsetOrdering(0..N)
           F == FiniteSubsetsOf(0..N)
<1>2. IsFiniteSet(0..N)
  BY <1>1, FS_Interval
<1>3. IsWellFoundedOn(R, F)
  BY <1>2, FS_StrictSubsetOrderingWellFounded
<1>4. T \subseteq F
  BY <1>2, FS_Subset DEF FiniteSubsetsOf
<1>5. T # {}
  <2>1. N \in S \cap (0..N)
    BY <1>1
  <2> QED
    BY <2>1
<1> HIDE DEF T, R, F
<1>6. PICK x \in T : \A y \in T : ~ (<<y, x>> \in R)
  BY <1>3, <1>4, <1>5, WFMin
<1>7. PICK n \in S \cap (0..N) : x = Below(n)
  BY <1>6 DEF T
<1>8. ASSUME NEW m \in S, m < n
      PROVE  FALSE
  <2>1. Below(m) \in T /\ Below(m) \subseteq Below(n)
    BY <1>7, <1>8 DEF T
  <2>2. m \in Below(n) /\ m \notin Below(m)
    BY <1>7, <1>8
  <2>3. <<Below(m), Below(n)>> \in R
    BY <2>1, <2>2 DEF R, StrictSubsetOrdering
  <2> QED
    BY <1>6, <1>7, <2>1, <2>3
<1> QED
  BY <1>7, <1>8

\* A nonempty set of numbers up to a bound has a greatest element.
LEMMA GreatestElement ==
  ASSUME NEW N \in Nat, NEW S \in SUBSET (0..N), S # {}
  PROVE  \E n \in S : \A m \in S : m <= n
<1> DEFINE T == {N - n : n \in S}
<1>1. T \in SUBSET Nat /\ T # {}
  <2>1. \A n \in S : N - n \in Nat
    OBVIOUS
  <2>2. \A t \in T : \E n \in S : t = N - n
    OBVIOUS
  <2>3. PICK n \in S : TRUE
    OBVIOUS
  <2>4. N - n \in T
    OBVIOUS
  <2> HIDE DEF T
  <2> QED
    BY <2>1, <2>2, <2>4
<1>2. PICK t \in T : \A u \in T : t <= u
  <2> HIDE DEF T
  <2> QED
    BY <1>1, LeastElement
<1>3. PICK n \in S : t = N - n
  BY <1>2
<1>4. ASSUME NEW m \in S
      PROVE  m <= n
  <2>1. N - m \in T
    OBVIOUS
  <2>2. N - n <= N - m
    BY <1>2, <1>3, <2>1
  <2>3. n \in Nat /\ m \in Nat
    OBVIOUS
  <2> QED
    BY <2>2, <2>3
<1> QED
  BY <1>4

\* What is left of a sequence without its element k.
LEMMA RemoveAtFacts ==
  ASSUME NEW S, NEW s \in Seq(S), NEW k \in 1..Len(s)
  PROVE  /\ RemoveAt(s, k) \in Seq(S)
         /\ Len(RemoveAt(s, k)) = Len(s) - 1
         /\ \A i \in 1..(Len(s) - 1) : RemoveAt(s, k)[i] = IF i < k THEN s[i] ELSE s[i + 1]
<1> DEFINE front == SubSeq(s, 1, k - 1)
           back  == SubSeq(s, k + 1, Len(s))
<1>1. front \in Seq(S) /\ Len(front) = k - 1 /\ \A i \in 1..(k - 1) : front[i] = s[i]
  BY SubSeqProperties
<1>2. back \in Seq(S) /\ Len(back) = Len(s) - k /\ \A i \in 1..(Len(s) - k) : back[i] = s[k + i]
  BY SubSeqProperties
<1>3. RemoveAt(s, k) = front \o back
  BY DEF RemoveAt
<1> HIDE DEF front, back
<1>4. /\ front \o back \in Seq(S)
      /\ Len(front \o back) = Len(s) - 1
      /\ \A i \in 1..(Len(s) - 1) :
            (front \o back)[i] = IF i <= k - 1 THEN front[i] ELSE back[i - (k - 1)]
  <2>1. /\ front \o back \in Seq(S)
        /\ Len(front \o back) = Len(front) + Len(back)
        /\ \A i \in 1..(Len(front) + Len(back)) :
              (front \o back)[i] = IF i <= Len(front) THEN front[i] ELSE back[i - Len(front)]
    BY <1>1, <1>2, ConcatProperties
  <2>2. Len(front) = k - 1 /\ Len(front) + Len(back) = Len(s) - 1
    BY <1>1, <1>2
  <2> QED
    BY <2>1, <2>2
<1>5. ASSUME NEW i \in 1..(Len(s) - 1)
      PROVE  (front \o back)[i] = IF i < k THEN s[i] ELSE s[i + 1]
  <2>1. CASE i < k
    BY <1>1, <1>4, <2>1
  <2>2. CASE ~(i < k)
    <3>1. i - (k - 1) \in 1..(Len(s) - k) /\ k + (i - (k - 1)) = i + 1
      BY <2>2
    <3> QED
      BY <1>2, <1>4, <2>2, <3>1
  <2> QED
    BY <2>1, <2>2
<1> QED
  BY <1>3, <1>4, <1>5

\* The first element equal to e is taken out, if there is one.
LEMMA RemoveFirstFacts ==
  ASSUME NEW S, NEW s \in Seq(S), NEW e
  PROVE  \/ /\ \A i \in 1..Len(s) : s[i] # e
            /\ RemoveFirst(s, e) = s
         \/ \E k \in 1..Len(s) : s[k] = e /\ RemoveFirst(s, e) = RemoveAt(s, k)
<1> DEFINE I == {i \in 1..Len(s) : s[i] = e}
           k == CHOOSE i \in I : \A j \in I : i =< j
<1>1. CASE I = {}
  <2>1. \A i \in 1..Len(s) : s[i] # e
    BY <1>1
  <2> QED
    BY <2>1 DEF RemoveFirst
<1>2. CASE I # {}
  <2>1. SelectInSeq(s, LAMBDA v : v = e) = k
    BY <1>2 DEF SelectInSeq, Min
  <2>2. I \subseteq Nat
    BY LenProperties
  <2>3. k \in I
    <3> HIDE DEF I
    <3> QED
      BY <1>2, <2>2, LeastElement
  <2>4. RemoveFirst(s, e) = RemoveAt(s, k)
    BY <2>1, <2>3 DEF RemoveFirst
  <2> HIDE DEF k
  <2> QED
    BY <2>3, <2>4
<1> QED
  BY <1>1, <1>2

\* The elements of a finite set in some order, each of them once.
LEMMA SetToSeqFacts ==
  ASSUME NEW S, IsFiniteSet(S)
  PROVE  /\ SetToSeq(S) \in Seq(S)
         /\ DOMAIN SetToSeq(S) = 1..Len(SetToSeq(S))
         /\ \A x \in S : \E i \in DOMAIN SetToSeq(S) : SetToSeq(S)[i] = x
         /\ \A i, j \in DOMAIN SetToSeq(S) : SetToSeq(S)[i] = SetToSeq(S)[j] => i = j
<1> DEFINE n == Cardinality(S)
           f == SetToSeq(S)
<1>1. n \in Nat /\ Bijection(1..n, S) # {}
  BY FS_CardinalityType DEF ExistsBijection
<1>2. \E g \in [1..n -> S] : IsInjective(g)
  BY <1>1 DEF Bijection, Injection
<1>3. f \in [1..n -> S] /\ IsInjective(f)
  BY <1>2 DEF SetToSeq
<1>4. f \in Injection(1..n, S)
  BY <1>3 DEF Injection
<1>5. Cardinality(1..n) = n
  BY <1>1, FS_Interval
<1>6. f \in Surjection(1..n, S)
  BY <1>4, <1>5, FS_Injection
<1> HIDE DEF f, n
<1>7. f \in Seq(S) /\ Len(f) = n
  BY <1>1, <1>3
<1>8. \A x \in S : \E i \in DOMAIN f : f[i] = x
  BY <1>3, <1>6 DEF Surjection
<1>9. \A i, j \in DOMAIN f : f[i] = f[j] => i = j
  BY <1>3 DEF IsInjective
<1> QED
  BY <1>3, <1>7, <1>8, <1>9 DEF f
=============================================================================
