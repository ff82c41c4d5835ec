--------------------------- MODULE SequenceLemmas ---------------------------
(***************************************************************************)
(* What the operators on sequences and sets that the components use return: *)
(* facts that the proofs about several of them need.                       *)
(***************************************************************************)
EXTENDS Integers, Sequences, SequencesExt, FiniteSets, FiniteSetsExt, FiniteSetTheorems,
        SequenceTheorems, WellFoundedInduction, TLAPS

\* Appending adds one element.
LEMMA AppendAdds ==
  ASSUME NEW S, NEW s \in Seq(S), NEW e \in S
  PROVE  ToSet(Append(s, e)) = ToSet(s) \cup {e}
  <1>1. /\ Append(s, e) \in Seq(S) /\ Len(Append(s, e)) = Len(s) + 1
        /\ \A i \in 1 .. Len(s) : Append(s, e)[i] = s[i]
        /\ Append(s, e)[Len(s) + 1] = e
    BY AppendProperties
  <1>2. DOMAIN Append(s, e) = 1 .. Len(s) + 1 /\ DOMAIN s = 1 .. Len(s) /\ Len(s) \in Nat
    BY <1>1, LenProperties
  <1>. QED
    BY <1>1, <1>2 DEF ToSet

\* What is cut from the front and what remains.
LEMMA CutParts ==
  ASSUME NEW S, NEW s \in Seq(S), NEW n \in Nat, n <= Len(s)
  PROVE  /\ SubSeq(s, 1, n) \in Seq(S) /\ SubSeq(s, n + 1, Len(s)) \in Seq(S)
         /\ Len(SubSeq(s, 1, n)) = n /\ Len(SubSeq(s, n + 1, Len(s))) = Len(s) - n
         /\ \A i \in 1 .. n : SubSeq(s, 1, n)[i] = s[i]
         /\ \A i \in 1 .. Len(s) - n : SubSeq(s, n + 1, Len(s))[i] = s[n + i]
         /\ ToSet(SubSeq(s, 1, n)) = {s[i] : i \in 1 .. n}
         /\ ToSet(SubSeq(s, n + 1, Len(s))) = {s[i] : i \in n + 1 .. Len(s)}
         /\ ToSet(s) = ToSet(SubSeq(s, 1, n)) \cup ToSet(SubSeq(s, n + 1, Len(s)))
  <1>. DEFINE front == SubSeq(s, 1, n)
              rest == SubSeq(s, n + 1, Len(s))
  <1>1. Len(s) \in Nat /\ DOMAIN s = 1 .. Len(s) /\ \A i \in 1 .. Len(s) : s[i] \in S
    BY LenProperties
  <1>2. /\ front \in Seq(S) /\ Len(front) = n /\ \A i \in 1 .. n : front[i] = s[i]
    <2>1. \A i \in 1 .. n : s[i] \in S
      BY <1>1
    <2>2. front \in Seq(S) /\ Len(front) = (IF 1 <= n THEN n - 1 + 1 ELSE 0)
          /\ \A i \in 1 .. n - 1 + 1 : front[i] = s[1 + i - 1]
      BY <2>1, SubSeqProperties
    <2>. QED
      BY <2>2
  <1>3. /\ rest \in Seq(S) /\ Len(rest) = Len(s) - n
        /\ \A i \in 1 .. Len(s) - n : rest[i] = s[n + i]
    <2>1. \A i \in n + 1 .. Len(s) : s[i] \in S
      BY <1>1
    <2>2. rest \in Seq(S) /\ Len(rest) = (IF n + 1 <= Len(s) THEN Len(s) - (n + 1) + 1 ELSE 0)
          /\ \A i \in 1 .. Len(s) - (n + 1) + 1 : rest[i] = s[n + 1 + i - 1]
      BY <1>1, <2>1, SubSeqProperties
    <2>. HIDE DEF rest
    <2>3. Len(rest) = Len(s) - n
      <3>1. PICK k \in Nat : k = Len(rest)
        BY <2>2, LenProperties
      <3>2. PICK m \in Nat : m = Len(s)
        BY <1>1
      <3>3. k = IF n + 1 <= m THEN m - (n + 1) + 1 ELSE 0
        BY <2>2, <3>1, <3>2
      <3>4. n <= m
        BY <3>2
      <3>5. k = m - n
        BY <3>3, <3>4
      <3>. QED
        BY <3>1, <3>2, <3>5
    <2>4. Len(s) - (n + 1) + 1 = Len(s) - n /\ \A i \in 1 .. Len(s) - n : n + 1 + i - 1 = n + i
      BY <1>1
    <2>. QED
      BY <2>2, <2>3, <2>4
  <1>4. DOMAIN front = 1 .. n /\ DOMAIN rest = 1 .. Len(s) - n
    BY <1>2, <1>3, LenProperties
  <1>5. ToSet(front) = {s[i] : i \in 1 .. n}
    BY <1>2, <1>4 DEF ToSet
  <1>6. ToSet(rest) = {s[i] : i \in n + 1 .. Len(s)}
    <2>1. ToSet(rest) = {rest[i] : i \in 1 .. Len(s) - n}
      BY <1>4 DEF ToSet
    <2>2. \A i \in n + 1 .. Len(s) : i - n \in 1 .. Len(s) - n /\ rest[i - n] = s[i]
      <3>1. \A i \in n + 1 .. Len(s) : i - n \in 1 .. Len(s) - n /\ n + (i - n) = i
        BY <1>1
      <3>. HIDE DEF rest
      <3>. QED
        BY <1>3, <3>1
    <2>3. \A i \in 1 .. Len(s) - n : n + i \in n + 1 .. Len(s) /\ rest[i] = s[n + i]
      <3>1. \A i \in 1 .. Len(s) - n : n + i \in n + 1 .. Len(s)
        BY <1>1
      <3>. QED
        BY <1>3, <3>1
    <2>4. {rest[i] : i \in 1 .. Len(s) - n} \subseteq {s[i] : i \in n + 1 .. Len(s)}
      BY <2>3
    <2>5. {s[i] : i \in n + 1 .. Len(s)} \subseteq {rest[i] : i \in 1 .. Len(s) - n}
      <3>. SUFFICES ASSUME NEW i \in n + 1 .. Len(s)
                    PROVE  s[i] \in {rest[j] : j \in 1 .. Len(s) - n}
        OBVIOUS
      <3>1. i - n \in 1 .. Len(s) - n /\ rest[i - n] = s[i]
        BY <2>2
      <3>. HIDE DEF rest
      <3>. QED
        BY <3>1
    <2>. QED
      BY <2>1, <2>4, <2>5
  <1>7. ToSet(s) = {s[i] : i \in 1 .. n} \cup {s[i] : i \in n + 1 .. Len(s)}
    BY <1>1 DEF ToSet
  <1>. QED
    BY <1>2, <1>3, <1>5, <1>6, <1>7

\* What is at the head of a sequence and what is behind it.
LEMMA HeadParts ==
  ASSUME NEW S, NEW s \in Seq(S), s # <<>>
  PROVE  /\ Head(s) = s[1] /\ Head(s) \in S /\ Tail(s) \in Seq(S) /\ Len(s) >= 1
         /\ Len(Tail(s)) = Len(s) - 1
         /\ \A i \in 1 .. Len(s) - 1 : Tail(s)[i] = s[i + 1]
         /\ ToSet(s) = {Head(s)} \cup ToSet(Tail(s))
         /\ Head(s) \in ToSet(s)
         /\ Tail(s) = <<>> <=> Len(s) = 1
  <1>1. /\ Head(s) \in S /\ Tail(s) \in Seq(S) /\ Len(Tail(s)) = Len(s) - 1
        /\ \A i \in 1 .. Len(Tail(s)) : Tail(s)[i] = s[i + 1]
    BY HeadTailProperties
  <1>2. Head(s) = s[1] /\ Len(s) \in Nat \ {0} /\ DOMAIN s = 1 .. Len(s)
    BY EmptySeq, LenProperties
  <1>3. DOMAIN Tail(s) = 1 .. Len(s) - 1
    BY <1>1, LenProperties
  <1>4. ToSet(s) = {Head(s)} \cup ToSet(Tail(s))
    <2>1. \A i \in 2 .. Len(s) : i - 1 \in 1 .. Len(s) - 1 /\ Tail(s)[i - 1] = s[i]
      BY <1>1, <1>2
    <2>2. \A i \in 1 .. Len(s) - 1 : i + 1 \in 1 .. Len(s) /\ Tail(s)[i] = s[i + 1]
      BY <1>1, <1>2
    <2>3. ToSet(s) = {s[i] : i \in 1 .. Len(s)}
          /\ ToSet(Tail(s)) = {Tail(s)[i] : i \in 1 .. Len(s) - 1}
      BY <1>2, <1>3 DEF ToSet
    <2>4. {s[i] : i \in 1 .. Len(s)} \subseteq {s[1]} \cup {Tail(s)[i] : i \in 1 .. Len(s) - 1}
      <3>. SUFFICES ASSUME NEW i \in 1 .. Len(s), i # 1
                    PROVE  s[i] \in {Tail(s)[j] : j \in 1 .. Len(s) - 1}
        OBVIOUS
      <3>1. i - 1 \in 1 .. Len(s) - 1 /\ Tail(s)[i - 1] = s[i]
        BY <1>2, <2>1
      <3>. QED
        BY <3>1
    <2>5. {s[1]} \cup {Tail(s)[i] : i \in 1 .. Len(s) - 1} \subseteq {s[i] : i \in 1 .. Len(s)}
      BY <1>2, <2>2
    <2>. QED
      BY <1>2, <2>3, <2>4, <2>5
  <1>5. Tail(s) = <<>> <=> Len(Tail(s)) = 0
    BY <1>1, LenProperties, EmptySeq
  <1>. QED
    BY <1>1, <1>2, <1>4, <1>5

\* A sequence has finitely many elements, all of its set, and none only when it is empty.
LEMMA ElementsOf ==
  ASSUME NEW S, NEW s \in Seq(S)
  PROVE  /\ ToSet(s) \subseteq S /\ IsFiniteSet(ToSet(s))
         /\ ToSet(s) = {s[i] : i \in 1 .. Len(s)} /\ Len(s) \in Nat
         /\ ToSet(s) = {} <=> s = <<>>
  <1>1. Len(s) \in Nat /\ DOMAIN s = 1 .. Len(s) /\ \A i \in 1 .. Len(s) : s[i] \in S
    BY LenProperties
  <1>2. ToSet(s) = {s[i] : i \in 1 .. Len(s)}
    BY <1>1 DEF ToSet
  <1>3. IsFiniteSet({s[i] : i \in 1 .. Len(s)})
    <2>1. IsFiniteSet(1 .. Len(s))
      BY <1>1, FS_Interval
    <2>2. s \in Surjection(1 .. Len(s), ToSet(s))
      BY <1>1, <1>2, LenProperties DEF Surjection
    <2>. QED
      BY <1>2, <2>1, <2>2, FS_Surjection
  <1>4. s = <<>> <=> Len(s) = 0
    BY <1>1, EmptySeq
  <1>. QED
    BY <1>1, <1>2, <1>3, <1>4

\* The empty sequence has no element.
LEMMA NothingIn == ToSet(<<>>) = {}
  BY DEF ToSet

\* A set of integers that is not empty has a largest when finitely many are above each.
LEMMA FinitelyAboveHasMax ==
  ASSUME NEW S \in SUBSET Int, S # {}, \A x \in S : IsFiniteSet({y \in S : y > x})
  PROVE  Max(S) \in S /\ \A x \in S : x <= Max(S)
  <1>. DEFINE Above(x) == {y \in S : y > x}
              tops == {Above(x) : x \in S}
  <1>1. \A x \in S : Above(x) \in FiniteSubsetsOf(S)
    BY DEF FiniteSubsetsOf
  <1>2. tops \subseteq FiniteSubsetsOf(S) /\ tops # {}
    BY <1>1
  <1>3. PICK t \in tops : \A u \in tops : <<u, t>> \notin StrictSubsetOrdering(S)
    <2>1. IsWellFoundedOn(StrictSubsetOrdering(S), FiniteSubsetsOf(S))
      BY FS_StrictSubsetOrderingWellFounded
    <2>. QED
      BY <1>2, <2>1, WFMin
  <1>4. PICK m \in S : t = Above(m)
    BY <1>3
  <1>5. ASSUME NEW y \in S, y > m
        PROVE  FALSE
    <2>1. \A x \in S : x \in Int /\ (x > y => x > m) /\ ~ (y > y)
      BY <1>5
    <2>. /\ Above(y) \subseteq Above(m) /\ y \in Above(m) /\ y \notin Above(y)
         /\ Above(y) \in SUBSET S /\ Above(m) \in SUBSET S
      BY <1>5, <2>1
    <2>2. <<Above(y), Above(m)>> \in StrictSubsetOrdering(S)
      BY DEF StrictSubsetOrdering
    <2>. QED
      BY <1>3, <1>4, <2>2
  <1>6. \A x \in S : m >= x
    BY <1>5
  <1>. QED
    BY <1>6 DEF Max

\* A set of integers that is not empty and bounded has a largest element.
LEMMA BoundedHasMax ==
  ASSUME NEW S \in SUBSET Int, S # {}, NEW b \in Int, \A x \in S : x <= b
  PROVE  Max(S) \in S /\ \A x \in S : x <= Max(S)
  <1>1. ASSUME NEW x \in S
        PROVE  IsFiniteSet({y \in S : y > x})
    <2>1. IsFiniteSet(x .. b)
      BY FS_Interval
    <2>2. \A y \in S : y > x => y \in x .. b
      OBVIOUS
    <2>3. {y \in S : y > x} \subseteq x .. b
      BY <2>2
    <2>. QED
      BY <2>1, <2>3, FS_Subset
  <1>. QED
    BY <1>1, FinitelyAboveHasMax

\* A finite set of integers that is not empty has a largest element.
LEMMA FiniteHasMax ==
  ASSUME NEW S \in SUBSET Int, S # {}, IsFiniteSet(S)
  PROVE  Max(S) \in S /\ \A x \in S : x <= Max(S)
  <1>1. \A x \in S : IsFiniteSet({y \in S : y > x})
    BY FS_Subset
  <1>. QED
    BY <1>1, FinitelyAboveHasMax

\* What is left when the element at a position is taken out: those before it, and those behind
\* it one position further to the front.
LEMMA RemoveAtParts ==
  ASSUME NEW S, NEW s \in Seq(S), NEW i \in 1 .. Len(s)
  PROVE  /\ RemoveAt(s, i) \in Seq(S) /\ Len(RemoveAt(s, i)) = Len(s) - 1
         /\ \A j \in 1 .. Len(s) - 1 : RemoveAt(s, i)[j] = IF j < i THEN s[j] ELSE s[j + 1]
  <1>. DEFINE front == SubSeq(s, 1, i - 1)
              rest == SubSeq(s, i + 1, Len(s))
  <1>1. Len(s) \in Nat /\ i - 1 \in Nat /\ i - 1 <= Len(s)
    BY LenProperties
  <1>2. /\ front \in Seq(S) /\ Len(front) = i - 1 /\ \A j \in 1 .. i - 1 : front[j] = s[j]
    BY <1>1, CutParts
  <1>3. /\ rest \in Seq(S) /\ Len(rest) = Len(s) - i
        /\ \A j \in 1 .. Len(s) - i : rest[j] = s[i + j]
    BY <1>1, CutParts
  <1>. HIDE DEF front, rest
  <1>4. /\ front \o rest \in Seq(S) /\ Len(front \o rest) = Len(s) - 1
        /\ \A j \in 1 .. Len(s) - 1 :
             (front \o rest)[j] = IF j <= i - 1 THEN front[j] ELSE rest[j - (i - 1)]
    <2>1. /\ front \o rest \in Seq(S) /\ Len(front \o rest) = Len(front) + Len(rest)
          /\ \A j \in 1 .. Len(front) + Len(rest) :
               (front \o rest)[j] = IF j <= Len(front) THEN front[j] ELSE rest[j - Len(front)]
      BY <1>2, <1>3, ConcatProperties
    <2>2. Len(front) + Len(rest) = Len(s) - 1
      BY <1>1, <1>2, <1>3
    <2>. QED
      BY <1>2, <2>1, <2>2
  <1>5. ASSUME NEW j \in 1 .. Len(s) - 1
        PROVE  (front \o rest)[j] = IF j < i THEN s[j] ELSE s[j + 1]
    <2>1. CASE j < i
      BY <1>1, <1>2, <1>4, <2>1
    <2>2. CASE ~ (j < i)
      <3>1. j - (i - 1) \in 1 .. Len(s) - i /\ i + (j - (i - 1)) = j + 1 /\ ~ (j <= i - 1)
        BY <1>1, <2>2
      <3>. QED
        BY <1>3, <1>4, <2>2, <3>1
    <2>. QED
      BY <2>1, <2>2
  <1>6. RemoveAt(s, i) = front \o rest
    BY DEF RemoveAt, front, rest
  <1>. QED
    BY <1>4, <1>5, <1>6

\* A set of natural numbers that is not empty has a smallest.
LEMMA NaturalsHaveMin ==
  ASSUME NEW S \in SUBSET Nat, S # {}
  PROVE  Min(S) \in S /\ \A x \in S : Min(S) <= x
  <1>. DEFINE T == {y \in Int : - y \in S}
  <1>1. T \in SUBSET Int /\ \A y \in T : y <= 0
    OBVIOUS
  <1>2. PICK x \in S : x \in Nat
    OBVIOUS
  <1>3. - x \in Int /\ - (- x) = x
    BY <1>2
  <1>4. - x \in T
    BY <1>2, <1>3
  <1>5. PICK m \in T : \A y \in T : y <= m
    <2>1. T # {} /\ 0 \in Int
      BY <1>4
    <2>. HIDE DEF T
    <2>. QED
      BY <1>1, <2>1, BoundedHasMax
  <1>6. PICK n \in S : n = - m
    BY <1>5
  <1>7. ASSUME NEW y \in S PROVE n <= y
    <2>1. y \in Nat /\ - y \in Int /\ - (- y) = y
      OBVIOUS
    <2>2. - y \in T
      BY <2>1
    <2>3. - y <= m
      BY <1>5, <2>2
    <2>. QED
      BY <1>5, <1>6, <2>1, <2>3
  <1>8. \E l \in S : \A y \in S : l <= y
    BY <1>7
  <1>. QED
    BY <1>8 DEF Min

\* Every rank up to the number of places is that of one of them.
LEMMA RanksAreTaken ==
  ASSUME NEW m \in Nat, NEW places \in SUBSET (1 .. m), NEW n \in 1 .. Cardinality(places)
  PROVE  \E i \in places : Cardinality({j \in places : j <= i}) = n
  <1>. DEFINE Upto(k) == {j \in places : j <= k}
  <1>0. places \subseteq 1 .. m /\ \A j \in places : j \in Nat /\ 1 <= j /\ j <= m
    OBVIOUS
  <1>1. IsFiniteSet(places)
    <2>1. IsFiniteSet(1 .. m)
      BY FS_Interval
    <2>. QED
      BY <1>0, <2>1, FS_Subset
  <1>2. \A k \in Nat : IsFiniteSet(Upto(k)) /\ Cardinality(Upto(k)) \in Nat
    <2>1. \A k \in Nat : Upto(k) \subseteq places
      OBVIOUS
    <2>2. \A k \in Nat : IsFiniteSet(Upto(k))
      BY <1>1, <2>1, FS_Subset
    <2>. QED
      BY <2>2, FS_CardinalityType
  <1>3. Cardinality(Upto(0)) = 0
    <2>1. Upto(0) = {}
      <3>1. \A j \in places : ~ (j <= 0)
        BY <1>0
      <3>. QED
        BY <3>1
    <2>. QED
      BY <2>1, FS_EmptySet
  <1>4. Cardinality(Upto(m)) = Cardinality(places)
    <2>1. Upto(m) = places
      BY <1>0
    <2>. QED
      BY <2>1
  <1>5. ASSUME NEW k \in Nat
        PROVE  Cardinality(Upto(k + 1)) = IF k + 1 \in places THEN Cardinality(Upto(k)) + 1
                                          ELSE Cardinality(Upto(k))
    <2>1. CASE k + 1 \in places
      <3>1. Upto(k + 1) = Upto(k) \cup {k + 1} /\ k + 1 \notin Upto(k)
        <4>1. \A j \in places : j <= k + 1 <=> j <= k \/ j = k + 1
          BY <1>0
        <4>2. ~ (k + 1 <= k)
          OBVIOUS
        <4>. QED
          BY <2>1, <4>1, <4>2
      <3>2. Cardinality(Upto(k) \cup {k + 1}) = Cardinality(Upto(k)) + 1
        BY <1>2, <3>1, FS_AddElement
      <3>. QED
        BY <2>1, <3>1, <3>2
    <2>2. CASE k + 1 \notin places
      <3>1. Upto(k + 1) = Upto(k)
        <4>1. \A j \in places : j <= k + 1 <=> j <= k
          BY <1>0, <2>2
        <4>. QED
          BY <4>1
      <3>. QED
        BY <2>2, <3>1
    <2>. QED
      BY <2>1, <2>2
  <1>6. PICK K : K = {k \in Nat : Cardinality(Upto(k)) >= n}
    OBVIOUS
  <1>7. Cardinality(places) \in Nat
    BY <1>1, FS_CardinalityType
  <1>8. m \in K /\ K \in SUBSET Nat
    BY <1>4, <1>6, <1>7
  <1>9. PICK k \in K : \A x \in K : k <= x
    BY <1>8, NaturalsHaveMin
  <1>10. k \in Nat /\ k # 0 /\ Cardinality(Upto(k)) >= n
    BY <1>3, <1>6, <1>9
  <1>11. PICK h \in Nat : k = h + 1
    BY <1>10
  <1>12. h \notin K
    BY <1>9, <1>11
  <1>13. Cardinality(Upto(h)) < n
    BY <1>2, <1>6, <1>7, <1>11, <1>12
  <1>14. k \in places /\ Cardinality(Upto(k)) = n
    <2>1. Cardinality(Upto(h)) \in Nat /\ n \in Nat
      BY <1>2, <1>7
    <2>2. Cardinality(Upto(k)) = IF k \in places THEN Cardinality(Upto(h)) + 1 ELSE Cardinality(Upto(h))
      BY <1>5, <1>11
    <2>. QED
      BY <1>10, <1>13, <2>1, <2>2
  <1>. QED
    BY <1>14
=============================================================================
