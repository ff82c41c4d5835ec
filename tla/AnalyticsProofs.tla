--------------------------- MODULE AnalyticsProofs ---------------------------
(***************************************************************************)
(* What is kept in memory, proved for any host, price list and bounds: the *)
(* ring of the memory store and its index agree under reads of several     *)
(* turns; every point of usage is in a series or counted as dropped, and   *)
(* the AI screen counts each event once and its breakdowns add up.         *)
(***************************************************************************)
EXTENDS MetricsReads, AgentMetrics, SequenceLemmas

-----------------------------------------------------------------------------
(* Sums                                                                    *)

\* What MapThenSumSet computes: the sums over the subsets of S, each from the sum over one
\* element less.
Sums(h, f, S) ==
  h = [s \in SUBSET S |->
         IF s = {} THEN 0 ELSE f[CHOOSE x \in s : TRUE] + h[s \ {CHOOSE x \in s : TRUE}]]
Total(f, S) == (CHOOSE h : Sums(h, f, S))[S]

\* The sizes of a finite set and of what is left when one element is taken out.
LEMMA OneLess ==
  ASSUME NEW S, IsFiniteSet(S), NEW x \in S
  PROVE  /\ IsFiniteSet(S \ {x}) /\ Cardinality(S) \in Nat \ {0}
         /\ Cardinality(S \ {x}) = Cardinality(S) - 1 /\ S \ {x} \in SUBSET S
  <1>1. Cardinality(S) \in Nat /\ Cardinality(S) # 0
    BY FS_CardinalityType, FS_EmptySet
  <1>. QED
    BY <1>1, FS_RemoveElement

\* The sums over the subsets of a finite set exist.
LEMMA SumsExist ==
  ASSUME NEW S, IsFiniteSet(S), NEW f, \A x \in S : f[x] \in Int
  PROVE  \E h \in [SUBSET S -> Int] : Sums(h, f, S)
  <1>0. PICK p : p = [s \in SUBSET S |-> CHOOSE x \in s : TRUE]
    OBVIOUS
  <1>. DEFINE Small(n) == {s \in SUBSET S : Cardinality(s) <= n}
              Body(h, s) == IF s = {} THEN 0 ELSE f[p[s]] + h[s \ {p[s]}]
              Upto(n) == \E h \in [Small(n) -> Int] : \A s \in Small(n) : h[s] = Body(h, s)
  <1>1. \A s \in SUBSET S : IsFiniteSet(s) /\ Cardinality(s) \in Nat /\ (Cardinality(s) = 0 => s = {})
    BY FS_Subset, FS_CardinalityType, FS_EmptySet
  <1>2. \A s \in SUBSET S : s # {} => /\ p[s] \in s /\ s \ {p[s]} \in SUBSET S
                                      /\ f[p[s]] \in Int
                                      /\ Cardinality(s \ {p[s]}) = Cardinality(s) - 1
    <2>. SUFFICES ASSUME NEW s \in SUBSET S, s # {}
                  PROVE  /\ p[s] \in s /\ s \ {p[s]} \in SUBSET S /\ f[p[s]] \in Int
                         /\ Cardinality(s \ {p[s]}) = Cardinality(s) - 1
      OBVIOUS
    <2>1. p[s] \in s
      BY <1>0
    <2>. QED
      BY <1>1, <2>1, OneLess
  <1>3. \A n \in Nat : Upto(n)
    <2>. HIDE DEF Upto
    <2>. SUFFICES ASSUME ~ \A n \in Nat : Upto(n) PROVE FALSE
      OBVIOUS
    <2>0. PICK bad : bad = {n \in Nat : ~ Upto(n)}
      OBVIOUS
    <2>1. bad \in SUBSET Nat /\ bad # {}
      BY <2>0
    <2>9. PICK m : m = Min(bad)
      OBVIOUS
    <2>8. m \in bad /\ \A k \in bad : m <= k
      BY <2>1, <2>9, NaturalsHaveMin
    <2>2. m \in Nat /\ ~ Upto(m) /\ \A k \in Nat : k < m => Upto(k)
      BY <2>0, <2>8
    <2>. USE DEF Upto
    <2>3. CASE m = 0
      <3>1. PICK w : w = [s \in Small(m) |-> 0]
        OBVIOUS
      <3>2. \A s \in Small(m) : s = {}
        BY <1>1, <2>3
      <3>3. w \in [Small(m) -> Int] /\ \A s \in Small(m) : w[s] = Body(w, s)
        BY <3>1, <3>2
      <3>. QED
        BY <2>2, <3>3
    <2>4. CASE m # 0
      <3>1. m - 1 \in Nat /\ Upto(m - 1)
        <4>. HIDE DEF Upto
        <4>1. m - 1 \in Nat /\ m - 1 < m
          BY <2>2, <2>4
        <4>. QED
          BY <2>2, <4>1
      <3>2. PICK h \in [Small(m - 1) -> Int] : \A s \in Small(m - 1) : h[s] = Body(h, s)
        BY <3>1
      <3>3. \A s \in Small(m) : s # {} => s \ {p[s]} \in Small(m - 1)
        BY <1>1, <1>2, <2>2
      <3>4. PICK w : w = [s \in Small(m) |-> Body(h, s)]
        OBVIOUS
      <3>5. \A s \in Small(m - 1) : s \in Small(m)
        BY <1>1, <2>2
      <3>6. \A s \in Small(m - 1) : w[s] = h[s]
        BY <3>2, <3>4, <3>5
      <3>7. w \in [Small(m) -> Int]
        <4>1. ASSUME NEW s \in Small(m) PROVE Body(h, s) \in Int
          <5>1. CASE s = {}
            BY <5>1
          <5>2. CASE s # {}
            <6>1. f[p[s]] \in Int /\ h[s \ {p[s]}] \in Int
              BY <5>2, <3>3, <1>2, <3>2
            <6>. QED
              BY <6>1, <5>2
          <5>. QED
            BY <5>1, <5>2
        <4>. QED
          BY <3>4, <4>1
      <3>8. ASSUME NEW s \in Small(m) PROVE w[s] = Body(w, s)
        <4>1. w[s] = Body(h, s)
          BY <3>4
        <4>2. s # {} => w[s \ {p[s]}] = h[s \ {p[s]}]
          BY <3>3, <3>6
        <4>. QED
          BY <4>1, <4>2
      <3>. QED
        BY <2>2, <3>7, <3>8
    <2>. QED
      BY <2>3, <2>4
  <1>4. PICK n : n = Cardinality(S)
    OBVIOUS
  <1>5. n \in Nat /\ Upto(n)
    <2>. HIDE DEF Upto
    <2>1. n \in Nat
      BY <1>4, FS_CardinalityType
    <2>. QED
      BY <2>1, <1>3
  <1>6. Small(n) = SUBSET S
    <2>1. \A s \in SUBSET S : Cardinality(s) <= n
      BY FS_Subset, <1>4
    <2>. QED
      BY <2>1
  <1>7. PICK h \in [SUBSET S -> Int] : \A s \in SUBSET S : h[s] = Body(h, s)
    BY <1>5, <1>6
  <1>8. h = [s \in SUBSET S |-> h[s]]
    BY <1>7
  <1>9. \A s \in SUBSET S :
          h[s] = IF s = {} THEN 0 ELSE f[CHOOSE x \in s : TRUE] + h[s \ {CHOOSE x \in s : TRUE}]
    BY <1>0, <1>7
  <1>10. h = [s \in SUBSET S |->
                IF s = {} THEN 0 ELSE f[CHOOSE x \in s : TRUE] + h[s \ {CHOOSE x \in s : TRUE}]]
    BY <1>8, <1>9
  <1>. QED
    BY <1>7, <1>10 DEF Sums

\* A set of sets that is not empty has a smallest.
LEMMA SmallestSet ==
  ASSUME NEW S, IsFiniteSet(S), NEW B \in SUBSET SUBSET S, B # {}
  PROVE  \E s \in B : \A t \in B : Cardinality(s) <= Cardinality(t)
  <1>1. \A s \in B : Cardinality(s) \in Nat
    BY FS_Subset, FS_CardinalityType
  <1>2. PICK C : C = {Cardinality(s) : s \in B}
    OBVIOUS
  <1>3. C \in SUBSET Nat /\ C # {}
    BY <1>1, <1>2
  <1>4. Min(C) \in C /\ \A c \in C : Min(C) <= c
    BY <1>3, NaturalsHaveMin
  <1>. QED
    BY <1>2, <1>4

\* ... and are the only ones, for values that agree and a set within.
LEMMA SumsAreUnique ==
  ASSUME NEW S, IsFiniteSet(S), NEW T \in SUBSET S, NEW f, NEW g, \A x \in T : f[x] = g[x],
         NEW h, Sums(h, f, S), NEW k, Sums(k, g, T)
  PROVE  h[T] = k[T]
  <1>. DEFINE Pick(s) == CHOOSE x \in s : TRUE
  <1>0. PICK B : B = {s \in SUBSET T : h[s] # k[s]}
    OBVIOUS
  <1>1. \A s \in SUBSET T : /\ h[s] = IF s = {} THEN 0 ELSE f[Pick(s)] + h[s \ {Pick(s)}]
                            /\ k[s] = IF s = {} THEN 0 ELSE g[Pick(s)] + k[s \ {Pick(s)}]
    <2>1. \A s \in SUBSET S : h[s] = IF s = {} THEN 0 ELSE f[Pick(s)] + h[s \ {Pick(s)}]
      BY DEF Sums
    <2>2. \A s \in SUBSET T : k[s] = IF s = {} THEN 0 ELSE g[Pick(s)] + k[s \ {Pick(s)}]
      BY DEF Sums
    <2>3. SUBSET T \subseteq SUBSET S
      OBVIOUS
    <2>. QED
      BY <2>1, <2>2, <2>3
  <1>2. B = {}
    <2>. SUFFICES ASSUME B # {} PROVE FALSE
      OBVIOUS
    <2>1. B \in SUBSET SUBSET S
      BY <1>0
    <2>2. PICK s \in B : \A t \in B : Cardinality(s) <= Cardinality(t)
      BY <2>1, SmallestSet
    <2>3. s \in SUBSET T /\ h[s] # k[s] /\ s \in SUBSET S
      BY <1>0
    <2>4. s # {}
      BY <2>3, <1>1
    <2>5. PICK c : c = Pick(s)
      OBVIOUS
    <2>6. c \in s
      BY <2>4, <2>5
    <2>7. Cardinality(s \ {c}) = Cardinality(s) - 1 /\ Cardinality(s) \in Nat
      BY <2>3, <2>6, OneLess, FS_Subset
    <2>8. s \ {c} \notin B
      BY <2>2, <2>7
    <2>9. h[s \ {c}] = k[s \ {c}]
      BY <2>3, <2>8, <1>0
    <2>10. h[s] = f[c] + h[s \ {c}] /\ k[s] = g[c] + k[s \ {c}] /\ f[c] = g[c]
      BY <1>1, <2>3, <2>4, <2>5, <2>6
    <2>. QED
      BY <2>3, <2>9, <2>10
  <1>. QED
    BY <1>0, <1>2

\* The total over a subset is what the sums say of it.
LEMMA TotalIsSum ==
  ASSUME NEW S, IsFiniteSet(S), NEW f, \A x \in S : f[x] \in Int, NEW h, Sums(h, f, S),
         NEW T \in SUBSET S
  PROVE  Total(f, T) = h[T]
  <1>1. IsFiniteSet(T) /\ \A x \in T : f[x] \in Int
    BY FS_Subset
  <1>2. \E k : Sums(k, f, T)
    BY <1>1, SumsExist
  <1>3. PICK k : k = CHOOSE l : Sums(l, f, T)
    OBVIOUS
  <1>4. Sums(k, f, T)
    BY <1>2, <1>3
  <1>5. h[T] = k[T]
    BY <1>4, SumsAreUnique
  <1>. QED
    BY <1>3, <1>5 DEF Total

\* Nothing sums to nothing.
LEMMA TotalOfNone == ASSUME NEW f PROVE Total(f, {}) = 0
  <1>1. IsFiniteSet({})
    BY FS_EmptySet
  <1>2. PICK h : Sums(h, f, {})
    BY <1>1, SumsExist
  <1>3. Total(f, {}) = h[{}]
    BY <1>1, <1>2, TotalIsSum
  <1>. QED
    BY <1>2, <1>3 DEF Sums

\* Any element may be taken out.
LEMMA TotalWithout ==
  ASSUME NEW S, IsFiniteSet(S), NEW f, \A x \in S : f[x] \in Int, NEW e \in S
  PROVE  Total(f, S) = f[e] + Total(f, S \ {e}) /\ Total(f, S) \in Int
  <1>. DEFINE Pick(s) == CHOOSE x \in s : TRUE
  <1>1. PICK h \in [SUBSET S -> Int] : Sums(h, f, S)
    BY SumsExist
  <1>2. \A s \in SUBSET S : s # {} => h[s] = f[Pick(s)] + h[s \ {Pick(s)}]
    BY <1>1 DEF Sums
  <1>3. PICK B : B = {s \in SUBSET S : \E x \in s : h[s] # f[x] + h[s \ {x}]}
    OBVIOUS
  <1>4. B = {}
    <2>. SUFFICES ASSUME B # {} PROVE FALSE
      OBVIOUS
    <2>1. B \in SUBSET SUBSET S
      BY <1>3
    <2>2. PICK s \in B : \A t \in B : Cardinality(s) <= Cardinality(t)
      BY <2>1, SmallestSet
    <2>3. PICK x \in s : h[s] # f[x] + h[s \ {x}]
      BY <1>3
    <2>4. s \in SUBSET S /\ IsFiniteSet(s)
      BY <1>3, FS_Subset
    <2>5. PICK c : c = Pick(s)
      OBVIOUS
    <2>6. c \in s /\ h[s] = f[c] + h[s \ {c}]
      BY <1>2, <2>4, <2>5
    <2>7. c # x
      BY <2>3, <2>6
    <2>8. \A y \in s : /\ s \ {y} \in SUBSET S /\ Cardinality(s \ {y}) = Cardinality(s) - 1
                       /\ Cardinality(s) \in Nat /\ s \ {y} \notin B
      <3>1. \A y \in s : Cardinality(s \ {y}) = Cardinality(s) - 1 /\ Cardinality(s) \in Nat
        BY <2>4, OneLess
      <3>. QED
        BY <2>2, <2>4, <3>1
    <2>9. h[s \ {c}] = f[x] + h[(s \ {c}) \ {x}]
      <3>1. x \in s \ {c}
        BY <2>7
      <3>. QED
        BY <3>1, <2>6, <2>8, <1>3
    <2>10. h[s \ {x}] = f[c] + h[(s \ {x}) \ {c}]
      <3>1. c \in s \ {x}
        BY <2>6, <2>7
      <3>. QED
        BY <3>1, <2>8, <1>3
    <2>11. (s \ {c}) \ {x} = (s \ {x}) \ {c}
      OBVIOUS
    <2>12. PICK a \in Int : a = h[(s \ {c}) \ {x}]
      BY <1>1, <2>4
    <2>13. f[c] \in Int /\ f[x] \in Int
      BY <2>4, <2>6
    <2>14. PICK u \in Int, v \in Int : u = f[c] /\ v = f[x]
      BY <2>13
    <2>15. h[s \ {c}] = v + a /\ h[s \ {x}] = u + a
      BY <2>9, <2>10, <2>11, <2>12, <2>14
    <2>16. h[s] = u + (v + a) /\ h[s] # v + (u + a)
      BY <2>3, <2>6, <2>14, <2>15
    <2>. QED
      BY <2>16
  <1>5. h[S] = f[e] + h[S \ {e}]
    BY <1>3, <1>4
  <1>6. Total(f, S) = h[S] /\ Total(f, S \ {e}) = h[S \ {e}]
    BY <1>1, TotalIsSum
  <1>. QED
    BY <1>1, <1>5, <1>6

\* Totals of equal values are equal.
LEMMA TotalsAgree ==
  ASSUME NEW S, IsFiniteSet(S), NEW f, NEW g, \A x \in S : f[x] \in Int /\ f[x] = g[x]
  PROVE  Total(f, S) = Total(g, S)
  <1>1. PICK h : Sums(h, f, S)
    BY SumsExist
  <1>2. \A x \in S : g[x] \in Int
    OBVIOUS
  <1>3. PICK k : Sums(k, g, S)
    BY <1>2, SumsExist
  <1>4. h[S] = k[S]
    BY <1>1, <1>3, SumsAreUnique
  <1>. QED
    BY <1>1, <1>2, <1>3, <1>4, TotalIsSum

\* A new element adds its value.
LEMMA TotalWith ==
  ASSUME NEW S, IsFiniteSet(S), NEW e, e \notin S, NEW f, \A x \in S \cup {e} : f[x] \in Int
  PROVE  Total(f, S \cup {e}) = Total(f, S) + f[e]
  <1>1. IsFiniteSet(S \cup {e}) /\ (S \cup {e}) \ {e} = S /\ e \in S \cup {e}
    BY FS_AddElement
  <1>2. PICK T : T = S \cup {e}
    OBVIOUS
  <1>3. Total(f, T) = f[e] + Total(f, T \ {e})
    BY <1>1, <1>2, TotalWithout
  <1>4. Total(f, S) \in Int /\ f[e] \in Int
    <2>1. CASE S = {}
      BY <2>1, TotalOfNone
    <2>2. CASE S # {}
      <3>1. PICK d : d \in S
        BY <2>2
      <3>. QED
        BY <3>1, TotalWithout
    <2>. QED
      BY <2>1, <2>2
  <1>5. T \ {e} = S
    BY <1>1, <1>2
  <1>6. PICK a \in Int, b \in Int : a = Total(f, S) /\ b = f[e]
    BY <1>4
  <1>7. Total(f, T) = b + a
    BY <1>3, <1>5, <1>6
  <1>. QED
    BY <1>2, <1>6, <1>7

\* A total of integers is an integer.
LEMMA TotalIsInt ==
  ASSUME NEW S, IsFiniteSet(S), NEW f, \A x \in S : f[x] \in Int
  PROVE  Total(f, S) \in Int
  <1>1. CASE S = {}
    BY <1>1, TotalOfNone
  <1>2. CASE S # {}
    BY <1>2, TotalWithout
  <1>. QED
    BY <1>1, <1>2

\* One value that grows makes the total grow by as much.
LEMMA TotalGrows ==
  ASSUME NEW S, IsFiniteSet(S), NEW e \in S, NEW f, NEW g, NEW n \in Int,
         \A x \in S : f[x] \in Int, \A x \in S \ {e} : g[x] = f[x], g[e] = f[e] + n
  PROVE  Total(g, S) = Total(f, S) + n
  <1>1. IsFiniteSet(S \ {e}) /\ \A x \in S : g[x] \in Int
    BY FS_RemoveElement
  <1>2. Total(g, S \ {e}) = Total(f, S \ {e})
    BY <1>1, TotalsAgree
  <1>3. Total(f, S) = f[e] + Total(f, S \ {e}) /\ Total(g, S) = g[e] + Total(g, S \ {e})
    BY <1>1, TotalWithout
  <1>4. Total(f, S \ {e}) \in Int
    BY <1>1, TotalIsInt
  <1>. QED
    BY <1>2, <1>3, <1>4

\* The total over two parts.
LEMMA TotalOfParts ==
  ASSUME NEW S, IsFiniteSet(S), NEW T \in SUBSET S, NEW f, \A x \in S : f[x] \in Int
  PROVE  Total(f, S) = Total(f, T) + Total(f, S \ T)
  <1>. DEFINE Splits(t) == Total(f, S) = Total(f, t) + Total(f, S \ t)
  <1>1. PICK B : B = {t \in SUBSET S : ~ Splits(t)}
    OBVIOUS
  <1>2. B = {}
    <2>. SUFFICES ASSUME B # {} PROVE FALSE
      OBVIOUS
    <2>1. B \in SUBSET SUBSET S
      BY <1>1
    <2>2. PICK s \in B : \A t \in B : Cardinality(s) <= Cardinality(t)
      BY <2>1, SmallestSet
    <2>3. s \in SUBSET S /\ ~ Splits(s)
      BY <1>1
    <2>4. s # {}
      <3>1. Total(f, {}) = 0 /\ S \ {} = S
        BY TotalOfNone
      <3>2. PICK a \in Int : a = Total(f, S)
        BY TotalIsInt
      <3>3. Total(f, S \ {}) = a
        BY <3>1, <3>2
      <3>4. Splits({})
        BY <3>1, <3>2, <3>3
      <3>. QED
        BY <3>4, <2>3
    <2>5. PICK x : x \in s
      BY <2>4
    <2>6. PICK t : t = s \ {x}
      OBVIOUS
    <2>7. /\ t \in SUBSET S /\ x \notin t /\ s = t \cup {x} /\ x \in S \ t
          /\ S \ s = (S \ t) \ {x}
      BY <2>3, <2>5, <2>6
    <2>8. IsFiniteSet(s) /\ IsFiniteSet(t) /\ IsFiniteSet(S \ t)
      BY <2>3, <2>7, FS_Subset
    <2>9. Cardinality(t) = Cardinality(s) - 1 /\ Cardinality(s) \in Nat
      BY <2>5, <2>6, <2>8, OneLess
    <2>10. Splits(t)
      <3>. HIDE DEF Splits
      <3>1. t \notin B
        BY <2>2, <2>9
      <3>. QED
        BY <3>1, <1>1, <2>7
    <2>11. Total(f, S \ t) = f[x] + Total(f, (S \ t) \ {x})
      BY <2>7, <2>8, TotalWithout
    <2>12. Total(f, s) = f[x] + Total(f, s \ {x})
      BY <2>3, <2>5, <2>8, TotalWithout
    <2>13. Total(f, t) \in Int /\ Total(f, S \ s) \in Int /\ f[x] \in Int
      <3>1. IsFiniteSet(S \ s)
        BY FS_Subset
      <3>. QED
        BY <3>1, <2>3, <2>5, <2>7, <2>8, TotalIsInt
    <2>14. PICK a \in Int, b \in Int, c \in Int : a = Total(f, t) /\ b = Total(f, S \ s) /\ c = f[x]
      BY <2>13
    <2>15. Total(f, S \ t) = c + b
      BY <2>7, <2>11, <2>14
    <2>16. Total(f, s) = c + a
      BY <2>6, <2>12, <2>14
    <2>17. Total(f, S) = a + (c + b)
      BY <2>10, <2>14, <2>15
    <2>18. Splits(s)
      BY <2>14, <2>16, <2>17
    <2>. QED
      BY <2>3, <2>18
  <1>. HIDE DEF Splits
  <1>3. Splits(T)
    BY <1>1, <1>2
  <1>. QED
    BY <1>3 DEF Splits

\* A part of what is not negative is not more than the whole.
LEMMA TotalOfPartIsLess ==
  ASSUME NEW S, IsFiniteSet(S), NEW T \in SUBSET S, NEW f, \A x \in S : f[x] \in Nat
  PROVE  Total(f, T) <= Total(f, S) /\ Total(f, T) \in Nat
  <1>1. ASSUME NEW U \in SUBSET S
        PROVE  Total(f, U) \in Nat
    <2>1. PICK B : B = {t \in SUBSET S : Total(f, t) \notin Nat}
      OBVIOUS
    <2>2. B = {}
      <3>. SUFFICES ASSUME B # {} PROVE FALSE
        OBVIOUS
      <3>1. PICK s \in B : \A t \in B : Cardinality(s) <= Cardinality(t)
        BY <2>1, SmallestSet
      <3>2. s \in SUBSET S /\ Total(f, s) \notin Nat /\ IsFiniteSet(s)
        BY <2>1, FS_Subset
      <3>3. PICK x : x \in s
        BY <3>2, TotalOfNone
      <3>4. Cardinality(s \ {x}) = Cardinality(s) - 1 /\ Cardinality(s) \in Nat
        BY <3>2, <3>3, OneLess
      <3>5. s \ {x} \notin B /\ s \ {x} \in SUBSET S
        BY <3>1, <3>2, <3>4
      <3>6. Total(f, s \ {x}) \in Nat
        BY <2>1, <3>5
      <3>7. Total(f, s) = f[x] + Total(f, s \ {x})
        BY <3>2, <3>3, TotalWithout
      <3>. QED
        BY <3>2, <3>3, <3>6, <3>7
    <2>. QED
      BY <2>1, <2>2
  <1>2. Total(f, S) = Total(f, T) + Total(f, S \ T)
    BY TotalOfParts
  <1>3. Total(f, T) \in Nat /\ Total(f, S \ T) \in Nat
    BY <1>1
  <1>. QED
    BY <1>2, <1>3

\* K are the keys of S, and each has the total of its group.
Grouped(f, S, g, K, key) ==
  K = {key[x] : x \in S} /\ \A k \in K : g[k] = Total(f, {x \in S : key[x] = k})

\* Grouped by a key, the totals of the groups add up to that of the whole.
LEMMA TotalOfGroups ==
  ASSUME NEW S, IsFiniteSet(S), NEW f, \A x \in S : f[x] \in Int, NEW key, NEW K, NEW g,
         Grouped(f, S, g, K, key)
  PROVE  IsFiniteSet(K) /\ Total(g, K) = Total(f, S)
  <1>0. K = {key[x] : x \in S} /\ \A k \in K : g[k] = Total(f, {x \in S : key[x] = k})
    BY DEF Grouped
  <1>. DEFINE In(t) == {x \in S : key[x] \in t}
              Adds(t) == Total(g, t) = Total(f, In(t))
  <1>1. IsFiniteSet(K)
    <2>1. PICK m : m = [x \in S |-> key[x]]
      OBVIOUS
    <2>2. m \in Surjection(S, K)
      BY <1>0, <2>1 DEF Surjection
    <2>. QED
      BY <2>2, FS_Surjection
  <1>2. \A k \in K : g[k] \in Int
    <2>. SUFFICES ASSUME NEW k \in K PROVE g[k] \in Int
      OBVIOUS
    <2>1. PICK T : T = {x \in S : key[x] = k}
      OBVIOUS
    <2>2. IsFiniteSet(T) /\ \A x \in T : f[x] \in Int
      BY <2>1, FS_Subset
    <2>3. Total(f, T) \in Int
      BY <2>2, TotalIsInt
    <2>. QED
      BY <1>0, <2>1, <2>3
  <1>3. PICK B : B = {t \in SUBSET K : ~ Adds(t)}
    OBVIOUS
  <1>4. B = {}
    <2>. SUFFICES ASSUME B # {} PROVE FALSE
      OBVIOUS
    <2>1. B \in SUBSET SUBSET K
      BY <1>3
    <2>2. PICK s \in B : \A t \in B : Cardinality(s) <= Cardinality(t)
      BY <1>1, <2>1, SmallestSet
    <2>3. s \in SUBSET K /\ ~ Adds(s)
      BY <1>3
    <2>4. s # {}
      <3>1. In({}) = {}
        OBVIOUS
      <3>2. Adds({})
        BY <3>1, TotalOfNone
      <3>. QED
        BY <3>2, <2>3
    <2>5. PICK k : k \in s
      BY <2>4
    <2>6. PICK t : t = s \ {k}
      OBVIOUS
    <2>7. t \in SUBSET K /\ k \notin t /\ k \in K
      BY <2>3, <2>5, <2>6
    <2>8. IsFiniteSet(s) /\ IsFiniteSet(In(s)) /\ In(s) \in SUBSET S
      BY <1>1, <2>3, FS_Subset
    <2>9. Cardinality(t) = Cardinality(s) - 1 /\ Cardinality(s) \in Nat
      BY <2>5, <2>6, <2>8, OneLess
    <2>10. Adds(t)
      <3>. HIDE DEF Adds
      <3>1. t \notin B
        BY <2>2, <2>9
      <3>. QED
        BY <3>1, <1>3, <2>7
    <2>11. Total(g, s) = g[k] + Total(g, s \ {k})
      BY <1>2, <2>3, <2>5, <2>8, TotalWithout
    <2>12. PICK T : T = {x \in S : key[x] = k}
      OBVIOUS
    <2>13. T \in SUBSET In(s) /\ In(s) \ T = In(t)
      BY <2>5, <2>6, <2>7, <2>12
    <2>14. PICK V : V = In(s)
      OBVIOUS
    <2>15. Total(f, V) = Total(f, T) + Total(f, V \ T)
      <3>1. \A x \in V : f[x] \in Int
        BY <2>14
      <3>. QED
        BY <3>1, <2>8, <2>13, <2>14, TotalOfParts
    <2>16. g[k] = Total(f, T)
      BY <1>0, <2>7, <2>12
    <2>17. Total(f, T) \in Int /\ Total(f, V \ T) \in Int
      <3>1. IsFiniteSet(T) /\ IsFiniteSet(V \ T) /\ T \in SUBSET S /\ V \in SUBSET S
        BY <2>8, <2>12, <2>14, FS_Subset
      <3>2. (\A x \in T : f[x] \in Int) /\ \A x \in V \ T : f[x] \in Int
        BY <3>1
      <3>. QED
        BY <3>1, <3>2, TotalIsInt
    <2>. QED
      BY <2>3, <2>6, <2>10, <2>11, <2>13, <2>14, <2>15, <2>16, <2>17
  <1>5. Adds(K)
    <2>. HIDE DEF Adds
    <2>. QED
      BY <1>3, <1>4
  <1>6. In(K) = S
    BY <1>0
  <1>. QED
    BY <1>1, <1>5, <1>6

\* R are the images of S, one for each, and an image has the value of its origin.
Carried(f, S, g, R, row) ==
  /\ R = {row[x] : x \in S} /\ \A x, y \in S : row[x] = row[y] => x = y
  /\ \A x \in S : g[row[x]] = f[x]

\* Values that are carried over by a one-to-one map add up to the same.
LEMMA TotalOfImage ==
  ASSUME NEW S, IsFiniteSet(S), NEW f, \A x \in S : f[x] \in Int, NEW row, NEW R, NEW g,
         Carried(f, S, g, R, row)
  PROVE  IsFiniteSet(R) /\ Total(g, R) = Total(f, S)
  <1>0. /\ R = {row[x] : x \in S} /\ \A x, y \in S : row[x] = row[y] => x = y
        /\ \A x \in S : g[row[x]] = f[x]
    BY DEF Carried
  <1>1. \A k \in R : g[k] = Total(f, {x \in S : row[x] = k})
    <2>. SUFFICES ASSUME NEW e \in S PROVE g[row[e]] = Total(f, {x \in S : row[x] = row[e]})
      BY <1>0
    <2>1. {x \in S : row[x] = row[e]} = {} \cup {e}
      BY <1>0
    <2>2. IsFiniteSet({}) /\ \A x \in {} \cup {e} : f[x] \in Int
      BY FS_EmptySet
    <2>3. Total(f, {} \cup {e}) = Total(f, {}) + f[e]
      BY <2>2, TotalWith
    <2>4. Total(f, {}) = 0
      BY TotalOfNone
    <2>5. Total(f, {} \cup {e}) = f[e]
      BY <2>3, <2>4
    <2>6. g[row[e]] = f[e]
      BY <1>0
    <2>. QED
      BY <2>1, <2>5, <2>6
  <1>2. Grouped(f, S, g, R, row)
    BY <1>0, <1>1 DEF Grouped
  <1>. QED
    BY <1>2, TotalOfGroups

-----------------------------------------------------------------------------
(* What the events cost                                                    *)

\* What the specification sums over the elements of a set is their total: the points of series,
LEMMA PointsAreTotal ==
  ASSUME NEW S, IsFiniteSet(S), NEW g, NEW f, \A k \in S : f[k] = g[k].points /\ f[k] \in Int
  PROVE  MapThenSumSet(LAMBDA k : g[k].points, S) = Total(f, S)
  <1>. DEFINE Body(h) == [s \in SUBSET S |->
                IF s = {} THEN 0
                ELSE g[CHOOSE x \in s : TRUE].points + h[s \ {CHOOSE x \in s : TRUE}]]
  <1>1. PICK it : it = CHOOSE h : h = Body(h)
    OBVIOUS
  <1>2. MapThenSumSet(LAMBDA k : g[k].points, S) = it[S]
    BY <1>1 DEF MapThenSumSet, MapThenFoldSet
  <1>3. ASSUME NEW h
        PROVE  Body(h) = [s \in SUBSET S |->
                 IF s = {} THEN 0 ELSE f[CHOOSE x \in s : TRUE] + h[s \ {CHOOSE x \in s : TRUE}]]
    <2>1. \A s \in SUBSET S : s # {} => g[CHOOSE x \in s : TRUE].points = f[CHOOSE x \in s : TRUE]
      OBVIOUS
    <2>. QED
      BY <2>1
  <1>. HIDE DEF Body
  <1>4. PICK w : Sums(w, f, S)
    BY SumsExist
  <1>5. w = Body(w)
    BY <1>3, <1>4 DEF Sums
  <1>6. it = Body(it)
    BY <1>1, <1>5
  <1>7. Sums(it, f, S)
    BY <1>3, <1>6 DEF Sums
  <1>. QED
    BY <1>2, <1>7, TotalIsSum

\* the costs of events,
LEMMA CostsAreTotal ==
  ASSUME NEW S, IsFiniteSet(S), NEW f, \A e \in S : f[e] = Cost(ReadUsage(e.payload)) /\ f[e] \in Int
  PROVE  MapThenSumSet(LAMBDA e : Cost(ReadUsage(e.payload)), S) = Total(f, S)
  <1>. DEFINE Body(h) == [s \in SUBSET S |->
                IF s = {} THEN 0
                ELSE Cost(ReadUsage((CHOOSE x \in s : TRUE).payload)) + h[s \ {CHOOSE x \in s : TRUE}]]
  <1>1. PICK it : it = CHOOSE h : h = Body(h)
    OBVIOUS
  <1>2. MapThenSumSet(LAMBDA e : Cost(ReadUsage(e.payload)), S) = it[S]
    BY <1>1 DEF MapThenSumSet, MapThenFoldSet
  <1>3. ASSUME NEW h
        PROVE  Body(h) = [s \in SUBSET S |->
                 IF s = {} THEN 0 ELSE f[CHOOSE x \in s : TRUE] + h[s \ {CHOOSE x \in s : TRUE}]]
    <2>1. \A s \in SUBSET S :
            s # {} => Cost(ReadUsage((CHOOSE x \in s : TRUE).payload)) = f[CHOOSE x \in s : TRUE]
      OBVIOUS
    <2>. QED
      BY <2>1
  <1>. HIDE DEF Body
  <1>4. PICK w : Sums(w, f, S)
    BY SumsExist
  <1>5. w = Body(w)
    BY <1>3, <1>4 DEF Sums
  <1>6. it = Body(it)
    BY <1>1, <1>5
  <1>7. Sums(it, f, S)
    BY <1>3, <1>6 DEF Sums
  <1>. QED
    BY <1>2, <1>7, TotalIsSum

\* their calls,
LEMMA CallsAreTotal ==
  ASSUME NEW S, IsFiniteSet(S), NEW f, \A e \in S : f[e] = ReadUsage(e.payload).requests /\ f[e] \in Int
  PROVE  MapThenSumSet(LAMBDA e : ReadUsage(e.payload).requests, S) = Total(f, S)
  <1>. DEFINE Body(h) == [s \in SUBSET S |->
                IF s = {} THEN 0
                ELSE ReadUsage((CHOOSE x \in s : TRUE).payload).requests + h[s \ {CHOOSE x \in s : TRUE}]]
  <1>1. PICK it : it = CHOOSE h : h = Body(h)
    OBVIOUS
  <1>2. MapThenSumSet(LAMBDA e : ReadUsage(e.payload).requests, S) = it[S]
    BY <1>1 DEF MapThenSumSet, MapThenFoldSet
  <1>3. ASSUME NEW h
        PROVE  Body(h) = [s \in SUBSET S |->
                 IF s = {} THEN 0 ELSE f[CHOOSE x \in s : TRUE] + h[s \ {CHOOSE x \in s : TRUE}]]
    <2>1. \A s \in SUBSET S :
            s # {} => ReadUsage((CHOOSE x \in s : TRUE).payload).requests = f[CHOOSE x \in s : TRUE]
      OBVIOUS
    <2>. QED
      BY <2>1
  <1>. HIDE DEF Body
  <1>4. PICK w : Sums(w, f, S)
    BY SumsExist
  <1>5. w = Body(w)
    BY <1>3, <1>4 DEF Sums
  <1>6. it = Body(it)
    BY <1>1, <1>5
  <1>7. Sums(it, f, S)
    BY <1>3, <1>6 DEF Sums
  <1>. QED
    BY <1>2, <1>7, TotalIsSum

\* the costs of rows
LEMMA RowCostsAreTotal ==
  ASSUME NEW S, IsFiniteSet(S), NEW f, \A r \in S : f[r] = r.cost /\ f[r] \in Int
  PROVE  MapThenSumSet(LAMBDA r : r.cost, S) = Total(f, S)
  <1>. DEFINE Body(h) == [s \in SUBSET S |->
                IF s = {} THEN 0
                ELSE (CHOOSE x \in s : TRUE).cost + h[s \ {CHOOSE x \in s : TRUE}]]
  <1>1. PICK it : it = CHOOSE h : h = Body(h)
    OBVIOUS
  <1>2. MapThenSumSet(LAMBDA r : r.cost, S) = it[S]
    BY <1>1 DEF MapThenSumSet, MapThenFoldSet
  <1>3. ASSUME NEW h
        PROVE  Body(h) = [s \in SUBSET S |->
                 IF s = {} THEN 0 ELSE f[CHOOSE x \in s : TRUE] + h[s \ {CHOOSE x \in s : TRUE}]]
    <2>1. \A s \in SUBSET S :
            s # {} => (CHOOSE x \in s : TRUE).cost = f[CHOOSE x \in s : TRUE]
      OBVIOUS
    <2>. QED
      BY <2>1
  <1>. HIDE DEF Body
  <1>4. PICK w : Sums(w, f, S)
    BY SumsExist
  <1>5. w = Body(w)
    BY <1>3, <1>4 DEF Sums
  <1>6. it = Body(it)
    BY <1>1, <1>5
  <1>7. Sums(it, f, S)
    BY <1>3, <1>6 DEF Sums
  <1>. QED
    BY <1>2, <1>7, TotalIsSum

\* and their calls.
LEMMA RowCallsAreTotal ==
  ASSUME NEW S, IsFiniteSet(S), NEW f, \A r \in S : f[r] = r.calls /\ f[r] \in Int
  PROVE  MapThenSumSet(LAMBDA r : r.calls, S) = Total(f, S)
  <1>. DEFINE Body(h) == [s \in SUBSET S |->
                IF s = {} THEN 0
                ELSE (CHOOSE x \in s : TRUE).calls + h[s \ {CHOOSE x \in s : TRUE}]]
  <1>1. PICK it : it = CHOOSE h : h = Body(h)
    OBVIOUS
  <1>2. MapThenSumSet(LAMBDA r : r.calls, S) = it[S]
    BY <1>1 DEF MapThenSumSet, MapThenFoldSet
  <1>3. ASSUME NEW h
        PROVE  Body(h) = [s \in SUBSET S |->
                 IF s = {} THEN 0 ELSE f[CHOOSE x \in s : TRUE] + h[s \ {CHOOSE x \in s : TRUE}]]
    <2>1. \A s \in SUBSET S :
            s # {} => (CHOOSE x \in s : TRUE).calls = f[CHOOSE x \in s : TRUE]
      OBVIOUS
    <2>. QED
      BY <2>1
  <1>. HIDE DEF Body
  <1>4. PICK w : Sums(w, f, S)
    BY SumsExist
  <1>5. w = Body(w)
    BY <1>3, <1>4 DEF Sums
  <1>6. it = Body(it)
    BY <1>1, <1>5
  <1>7. Sums(it, f, S)
    BY <1>3, <1>6 DEF Sums
  <1>. QED
    BY <1>2, <1>7, TotalIsSum

\* An event of the library; the payload of a usage is one of the payloads.
Happening ==
  {e \in [id : Nat, event : MetricEvents \cup {LegacyEvent}, payload : Payloads \cup {[cost |-> NoCost]}] :
     e.event = UsageEvent => e.payload \in Payloads}

\* The finite sets of usage events.
Usages == {us \in SUBSET {e \in Happening : e.event = UsageEvent} : IsFiniteSet(us)}

\* What a usage is read as has a cost and calls that are not negative.
LEMMA UsageIsRead ==
  ASSUME NEW e \in Happening, e.event = UsageEvent
  PROVE  LET u == ReadUsage(e.payload)
         IN  /\ Cost(u) \in Nat /\ u.requests \in Nat
             /\ u.source = "none" <=> e.payload.cost = NoCost
  <1>1. PICK p : p = e.payload
    OBVIOUS
  <1>2. p \in Payloads
    BY <1>1 DEF Happening
  <1>3. p.cost \in Nat \cup {-1} /\ p.requests \in Int
    BY <1>2, AgentAssumption
  <1>. QED
    BY <1>1, <1>3 DEF ReadUsage, Cost, NoCost

\* The values the sums are over, as functions.
CostOf(us) == [e \in us |-> Cost(ReadUsage(e.payload))]
CallsOf(us) == [e \in us |-> ReadUsage(e.payload).requests]

\* The usages are finitely many, each with a cost and calls.
LEMMA UsageParts ==
  ASSUME NEW us \in Usages
  PROVE  /\ IsFiniteSet(us) /\ \A vs \in SUBSET us : vs \in Usages
         /\ \A e \in us : /\ CostOf(us)[e] = Cost(ReadUsage(e.payload)) /\ CostOf(us)[e] \in Nat
                          /\ CallsOf(us)[e] = ReadUsage(e.payload).requests /\ CallsOf(us)[e] \in Nat
                          /\ ReadUsage(e.payload).source = "none" <=> e.payload.cost = NoCost
  <1>1. IsFiniteSet(us) /\ us \subseteq {e \in Happening : e.event = UsageEvent}
    BY DEF Usages
  <1>2. ASSUME NEW vs \in SUBSET us PROVE vs \in Usages
    <2>1. IsFiniteSet(vs) /\ vs \subseteq {e \in Happening : e.event = UsageEvent}
      BY <1>1, FS_Subset
    <2>. QED
      BY <2>1 DEF Usages
  <1>3. ASSUME NEW e \in us
        PROVE  /\ CostOf(us)[e] = Cost(ReadUsage(e.payload)) /\ CostOf(us)[e] \in Nat
               /\ CallsOf(us)[e] = ReadUsage(e.payload).requests /\ CallsOf(us)[e] \in Nat
               /\ ReadUsage(e.payload).source = "none" <=> e.payload.cost = NoCost
    <2>1. /\ Cost(ReadUsage(e.payload)) \in Nat /\ ReadUsage(e.payload).requests \in Nat
          /\ ReadUsage(e.payload).source = "none" <=> e.payload.cost = NoCost
      <3>1. e \in Happening /\ e.event = UsageEvent
        BY <1>1
      <3>. QED
        BY <3>1, UsageIsRead
    <2>2. CostOf(us)[e] = Cost(ReadUsage(e.payload)) /\ CallsOf(us)[e] = ReadUsage(e.payload).requests
      BY DEF CostOf, CallsOf
    <2>. QED
      BY <2>1, <2>2
  <1>. QED
    BY <1>1, <1>2, <1>3

\* The row of a set of usages, with its totals taken over any set it is part of.
LEMMA RowIsTotal ==
  ASSUME NEW us \in Usages, NEW vs \in SUBSET us, NEW k
  PROVE  /\ SpendRow(vs, k).key = k
         /\ SpendRow(vs, k).cost = Total(CostOf(us), vs)
         /\ SpendRow(vs, k).calls = Total(CallsOf(us), vs)
         /\ SpendRow(vs, k).unpriced = Total(CallsOf(us), {e \in vs : e.payload.cost = NoCost})
         /\ Total(CostOf(us), vs) \in Int /\ Total(CallsOf(us), vs) \in Int
  <1>1. PICK f : f = CostOf(us)
    OBVIOUS
  <1>2. PICK g : g = CallsOf(us)
    OBVIOUS
  <1>3. PICK ws : ws = {e \in vs : e.payload.cost = NoCost}
    OBVIOUS
  <1>4. IsFiniteSet(vs) /\ IsFiniteSet(ws) /\ ws \subseteq vs
    BY <1>3, UsageParts, FS_Subset
  <1>5. \A e \in vs : /\ f[e] = Cost(ReadUsage(e.payload)) /\ f[e] \in Int
                      /\ g[e] = ReadUsage(e.payload).requests /\ g[e] \in Int
    BY <1>1, <1>2, UsageParts
  <1>6. MapThenSumSet(LAMBDA e : Cost(ReadUsage(e.payload)), vs) = Total(f, vs)
    BY <1>4, <1>5, CostsAreTotal
  <1>7. MapThenSumSet(LAMBDA e : ReadUsage(e.payload).requests, vs) = Total(g, vs)
    BY <1>4, <1>5, CallsAreTotal
  <1>8. \A e \in ws : g[e] = ReadUsage(e.payload).requests /\ g[e] \in Int
    BY <1>4, <1>5
  <1>9. MapThenSumSet(LAMBDA e : ReadUsage(e.payload).requests, ws) = Total(g, ws)
    BY <1>4, <1>8, CallsAreTotal
  <1>10. PICK a : a = MapThenSumSet(LAMBDA e : Cost(ReadUsage(e.payload)), vs)
    OBVIOUS
  <1>11. PICK b : b = MapThenSumSet(LAMBDA e : ReadUsage(e.payload).requests, vs)
    OBVIOUS
  <1>12. PICK c : c = MapThenSumSet(LAMBDA e : ReadUsage(e.payload).requests,
                                    {e \in vs : e.payload.cost = NoCost})
    OBVIOUS
  <1>13. SpendRow(vs, k) = [key |-> k, cost |-> a, calls |-> b, unpriced |-> c]
    BY <1>10, <1>11, <1>12 DEF SpendRow
  <1>14. c = Total(g, ws)
    BY <1>3, <1>9, <1>12
  <1>15. Total(f, vs) \in Int /\ Total(g, vs) \in Int
    <2>1. (\A e \in vs : f[e] \in Int) /\ \A e \in vs : g[e] \in Int
      BY <1>5
    <2>. QED
      BY <1>4, <2>1, TotalIsInt
  <1>. QED
    BY <1>1, <1>2, <1>3, <1>6, <1>7, <1>10, <1>11, <1>13, <1>14, <1>15

\* The rows of usages, one for each of their keys, from the part of each; and the sums of rows.
AreRowsBy(rows, us, key, K, part) ==
  /\ K = {key[e] : e \in us} /\ \A k \in K : part[k] = {e \in us : key[e] = k}
  /\ rows = {SpendRow(part[k], k) : k \in K}
CostOfRows(rows) == MapThenSumSet(LAMBDA r : r.cost, rows)
CallsOfRows(rows) == MapThenSumSet(LAMBDA r : r.calls, rows)

\* Rows by any key add up to the row of the whole.
LEMMA RowsAddUp ==
  ASSUME NEW us \in Usages, NEW key, NEW rows, NEW K, NEW part, AreRowsBy(rows, us, key, K, part)
  PROVE  /\ CostOfRows(rows) = Total(CostOf(us), us)
         /\ CallsOfRows(rows) = Total(CallsOf(us), us)
  <1>21. /\ K = {key[e] : e \in us} /\ \A k \in K : part[k] = {e \in us : key[e] = k}
         /\ rows = {SpendRow(part[k], k) : k \in K}
    BY DEF AreRowsBy
  <1>0. PICK row : row = [k \in K |-> SpendRow(part[k], k)]
    OBVIOUS
  <1>1. PICK f : f = CostOf(us)
    OBVIOUS
  <1>2. PICK g : g = CallsOf(us)
    OBVIOUS
  <1>3. \A k \in K : /\ row[k].key = k
                     /\ row[k].cost = Total(f, {e \in us : key[e] = k}) /\ row[k].cost \in Int
                     /\ row[k].calls = Total(g, {e \in us : key[e] = k}) /\ row[k].calls \in Int
    <2>. SUFFICES ASSUME NEW k \in K
                  PROVE  /\ row[k].key = k
                         /\ row[k].cost = Total(f, {e \in us : key[e] = k}) /\ row[k].cost \in Int
                         /\ row[k].calls = Total(g, {e \in us : key[e] = k}) /\ row[k].calls \in Int
      OBVIOUS
    <2>1. PICK vs : vs = {e \in us : key[e] = k}
      OBVIOUS
    <2>2. vs \in SUBSET us /\ row[k] = SpendRow(vs, k)
      BY <1>0, <1>21, <2>1
    <2>3. /\ SpendRow(vs, k).key = k
          /\ SpendRow(vs, k).cost = Total(CostOf(us), vs)
          /\ SpendRow(vs, k).calls = Total(CallsOf(us), vs)
          /\ Total(CostOf(us), vs) \in Int /\ Total(CallsOf(us), vs) \in Int
      BY <2>2, RowIsTotal
    <2>. QED
      BY <1>1, <1>2, <2>1, <2>2, <2>3
  <1>4. IsFiniteSet(us) /\ (\A e \in us : f[e] \in Int) /\ \A e \in us : g[e] \in Int
    BY <1>1, <1>2, UsageParts
  <1>5. PICK fk : fk = [k \in K |-> row[k].cost]
    OBVIOUS
  <1>6. PICK gk : gk = [k \in K |-> row[k].calls]
    OBVIOUS
  <1>7. Grouped(f, us, fk, K, key) /\ Grouped(g, us, gk, K, key)
    BY <1>3, <1>5, <1>6, <1>21 DEF Grouped
  <1>8. IsFiniteSet(K) /\ Total(fk, K) = Total(f, us)
    BY <1>4, <1>7, TotalOfGroups
  <1>9. Total(gk, K) = Total(g, us)
    BY <1>4, <1>7, TotalOfGroups
  <1>10. rows = {row[k] : k \in K} /\ \A j, k \in K : row[j] = row[k] => j = k
    BY <1>0, <1>3, <1>21
  <1>11. PICK fr : fr = [r \in rows |-> r.cost]
    OBVIOUS
  <1>12. PICK gr : gr = [r \in rows |-> r.calls]
    OBVIOUS
  <1>13. /\ \A k \in K : fk[k] \in Int /\ fr[row[k]] = fk[k]
         /\ \A k \in K : gk[k] \in Int /\ gr[row[k]] = gk[k]
    BY <1>3, <1>5, <1>6, <1>10, <1>11, <1>12
  <1>20. Carried(fk, K, fr, rows, row) /\ Carried(gk, K, gr, rows, row)
    BY <1>10, <1>13 DEF Carried
  <1>14. IsFiniteSet(rows) /\ Total(fr, rows) = Total(fk, K)
    BY <1>8, <1>13, <1>20, TotalOfImage
  <1>15. Total(gr, rows) = Total(gk, K)
    BY <1>8, <1>13, <1>20, TotalOfImage
  <1>16. \A r \in rows : fr[r] = r.cost /\ fr[r] \in Int
    BY <1>3, <1>10, <1>11
  <1>17. \A r \in rows : gr[r] = r.calls /\ gr[r] \in Int
    BY <1>3, <1>10, <1>12
  <1>18. MapThenSumSet(LAMBDA r : r.cost, rows) = Total(fr, rows)
    BY <1>14, <1>16, RowCostsAreTotal
  <1>19. MapThenSumSet(LAMBDA r : r.calls, rows) = Total(gr, rows)
    BY <1>14, <1>17, RowCallsAreTotal
  <1>. QED
    BY <1>1, <1>2, <1>8, <1>9, <1>14, <1>15, <1>18, <1>19 DEF CostOfRows, CallsOfRows

-----------------------------------------------------------------------------
(* Spending                                                                *)

\* What a part of the usages costs is not more than the whole.
LEMMA PartCosts ==
  ASSUME NEW us \in Usages, NEW vs \in SUBSET us
  PROVE  MapThenSumSet(LAMBDA e : Cost(ReadUsage(e.payload)), vs) <= Total(CostOf(us), us)
  <1>1. PICK f : f = CostOf(us)
    OBVIOUS
  <1>2. IsFiniteSet(us) /\ \A e \in us : f[e] \in Nat /\ f[e] = Cost(ReadUsage(e.payload))
    BY <1>1, UsageParts
  <1>3. IsFiniteSet(vs) /\ \A e \in vs : f[e] = Cost(ReadUsage(e.payload)) /\ f[e] \in Int
    BY <1>2, FS_Subset
  <1>4. MapThenSumSet(LAMBDA e : Cost(ReadUsage(e.payload)), vs) = Total(f, vs)
    BY <1>3, CostsAreTotal
  <1>5. Total(f, vs) <= Total(f, us)
    BY <1>2, TotalOfPartIsLess
  <1>. QED
    BY <1>1, <1>4, <1>5

\* The AI screen adds up once its reads brought usages, each once.
LEMMA SpendIsTotal ==
  ASSUME aiRead.copies = Cardinality(aiRead.got),
         {e \in aiRead.got : e.event = UsageEvent} \in Usages
  PROVE  SpendAddsUp
  <1>1. PICK us : us = {e \in aiRead.got : e.event = UsageEvent}
    OBVIOUS
  <1>2. us \in Usages
    BY <1>1
  <1>3. PICK s : s = Summary
    OBVIOUS
  <1>4. PICK feature : feature = [e \in us |-> ReadUsage(e.payload).feature]
    OBVIOUS
  <1>5. PICK actor : actor = [e \in us |-> ReadUsage(e.payload).actor]
    OBVIOUS
  <1>6. PICK un : un = {e \in us : ReadUsage(e.payload).source = "none"}
    OBVIOUS
  <1>7. un \in Usages /\ un \in SUBSET us /\ un = {e \in us : e.payload.cost = NoCost}
    BY <1>2, <1>6, UsageParts
  <1>8. PICK own : own = [e \in un |-> ReadUsage(e.payload).feature]
    OBVIOUS
  <1>9. /\ s.spend = SpendRow(us, "all")
        /\ s.byFeature = {SpendRow({e \in us : ReadUsage(e.payload).feature = k}, k) :
                            k \in {ReadUsage(e.payload).feature : e \in us}}
        /\ s.byActor = {SpendRow({e \in us : ReadUsage(e.payload).actor = k}, k) :
                          k \in {ReadUsage(e.payload).actor : e \in us}}
        /\ s.unpriced = {SpendRow({e \in us : ReadUsage(e.payload).source = "none"
                                               /\ ReadUsage(e.payload).feature = f}, f) :
                           f \in {ReadUsage(e.payload).feature :
                                    e \in {x \in us : ReadUsage(x.payload).source = "none"}}}
        /\ s.platform = MapThenSumSet(LAMBDA e : Cost(ReadUsage(e.payload)),
                                      {e \in us : ReadUsage(e.payload).platform})
        /\ s.estimated = MapThenSumSet(LAMBDA e : Cost(ReadUsage(e.payload)),
                                       {e \in us : ReadUsage(e.payload).source = "estimate"})
        /\ s.legacy <=> aiRead.got # {} /\ us = {}
    BY <1>1, <1>3 DEF Summary
  <1>11. \E K, p : AreRowsBy(s.byFeature, us, feature, K, p)
    <2>1. PICK K : K = {ReadUsage(e.payload).feature : e \in us}
      OBVIOUS
    <2>2. PICK p : p = [k \in K |-> {e \in us : ReadUsage(e.payload).feature = k}]
      OBVIOUS
    <2>3. s.byFeature = {SpendRow(p[k], k) : k \in K}
      BY <1>9, <2>1, <2>2
    <2>4. K = {feature[e] : e \in us} /\ \A k \in K : p[k] = {e \in us : feature[e] = k}
      BY <1>4, <2>1, <2>2
    <2>5. AreRowsBy(s.byFeature, us, feature, K, p)
      BY <2>3, <2>4 DEF AreRowsBy
    <2>. QED
      BY <2>5
  <1>12. \E K, p : AreRowsBy(s.byActor, us, actor, K, p)
    <2>1. PICK K : K = {ReadUsage(e.payload).actor : e \in us}
      OBVIOUS
    <2>2. PICK p : p = [k \in K |-> {e \in us : ReadUsage(e.payload).actor = k}]
      OBVIOUS
    <2>3. s.byActor = {SpendRow(p[k], k) : k \in K}
      BY <1>9, <2>1, <2>2
    <2>4. K = {actor[e] : e \in us} /\ \A k \in K : p[k] = {e \in us : actor[e] = k}
      BY <1>5, <2>1, <2>2
    <2>5. AreRowsBy(s.byActor, us, actor, K, p)
      BY <2>3, <2>4 DEF AreRowsBy
    <2>. QED
      BY <2>5
  <1>13. \E K, p : AreRowsBy(s.unpriced, un, own, K, p)
    <2>1. PICK K : K = {ReadUsage(e.payload).feature :
                          e \in {x \in us : ReadUsage(x.payload).source = "none"}}
      OBVIOUS
    <2>2. PICK p : p = [k \in K |-> {e \in us : ReadUsage(e.payload).source = "none"
                                                 /\ ReadUsage(e.payload).feature = k}]
      OBVIOUS
    <2>3. s.unpriced = {SpendRow(p[k], k) : k \in K}
      BY <1>9, <2>1, <2>2
    <2>4. K = {own[e] : e \in un} /\ \A k \in K : p[k] = {e \in un : own[e] = k}
      BY <1>6, <1>8, <2>1, <2>2
    <2>5. AreRowsBy(s.unpriced, un, own, K, p)
      BY <2>3, <2>4 DEF AreRowsBy
    <2>. QED
      BY <2>5
  <1>14. /\ s.spend.cost = Total(CostOf(us), us)
         /\ s.spend.calls = Total(CallsOf(us), us)
         /\ s.spend.unpriced = Total(CallsOf(us), un)
    <2>1. us \in SUBSET us
      OBVIOUS
    <2>2. /\ SpendRow(us, "all").cost = Total(CostOf(us), us)
          /\ SpendRow(us, "all").calls = Total(CallsOf(us), us)
          /\ SpendRow(us, "all").unpriced
               = Total(CallsOf(us), {e \in us : e.payload.cost = NoCost})
      BY <1>2, <2>1, RowIsTotal
    <2>. QED
      BY <1>7, <1>9, <2>2
  <1>15. /\ CostOfRows(s.byFeature) = Total(CostOf(us), us)
         /\ CallsOfRows(s.byFeature) = Total(CallsOf(us), us)
    BY <1>2, <1>11, RowsAddUp
  <1>16. /\ CostOfRows(s.byActor) = Total(CostOf(us), us)
         /\ CallsOfRows(s.byActor) = Total(CallsOf(us), us)
    BY <1>2, <1>12, RowsAddUp
  <1>17. CallsOfRows(s.unpriced) = Total(CallsOf(un), un)
    BY <1>7, <1>13, RowsAddUp
  <1>18. Total(CallsOf(un), un) = Total(CallsOf(us), un)
    <2>1. PICK f, g : f = CallsOf(un) /\ g = CallsOf(us)
      OBVIOUS
    <2>2. IsFiniteSet(un) /\ \A e \in un : f[e] \in Int /\ f[e] = g[e]
      BY <1>2, <1>7, <2>1, UsageParts
    <2>. QED
      BY <2>1, <2>2, TotalsAgree
  <1>19. s.platform <= s.spend.cost /\ s.estimated <= s.spend.cost
    <2>1. /\ {e \in us : ReadUsage(e.payload).platform} \in SUBSET us
          /\ {e \in us : ReadUsage(e.payload).source = "estimate"} \in SUBSET us
      OBVIOUS
    <2>2. MapThenSumSet(LAMBDA e : Cost(ReadUsage(e.payload)),
                        {e \in us : ReadUsage(e.payload).platform}) <= Total(CostOf(us), us)
      BY <1>2, <2>1, PartCosts
    <2>3. MapThenSumSet(LAMBDA e : Cost(ReadUsage(e.payload)),
                        {e \in us : ReadUsage(e.payload).source = "estimate"})
            <= Total(CostOf(us), us)
      BY <1>2, <2>1, PartCosts
    <2>. QED
      BY <1>9, <1>14, <2>2, <2>3
  <1>20. s.legacy => s.spend.calls = 0
    <2>1. us = {} => Total(CallsOf(us), us) = 0
      BY TotalOfNone
    <2>. QED
      BY <1>9, <1>14, <2>1
  <1>21. /\ CostOfRows(s.byFeature) = s.spend.cost /\ CallsOfRows(s.byFeature) = s.spend.calls
         /\ CostOfRows(s.byActor) = s.spend.cost /\ CallsOfRows(s.byActor) = s.spend.calls
         /\ CallsOfRows(s.unpriced) = s.spend.unpriced
    BY <1>14, <1>15, <1>16, <1>17, <1>18
  <1>. QED
    BY <1>3, <1>19, <1>20, <1>21 DEF SpendAddsUp, CostOfRows, CallsOfRows

-----------------------------------------------------------------------------
(* The invariant                                                           *)

\* The events are events of the library, and the counters count.
AgentShape ==
  /\ ledger \in Seq(Happening)
  /\ IsFiniteSet(DOMAIN series) /\ \A k \in DOMAIN series : series[k].points \in Nat
  /\ dropped \in Nat /\ exported \in Nat /\ passed \in [registry : Nat, exporter : Nat]

\* What the reads of the AI screen brought is of the ledger, each event once; an event whose
\* read is still awaited is not among it.
ScreenIsOnce ==
  /\ aiRead \in [step : {"idle", "reading", "done"}, pending : SUBSET MetricEvents,
                 got : SUBSET Happening, probe : BOOLEAN, copies : Nat]
  /\ IsFiniteSet(aiRead.got) /\ aiRead.copies = Cardinality(aiRead.got)
  /\ aiRead.step = "reading" => \A e \in aiRead.got : e.event \notin aiRead.pending

AgentInv == AgentShape /\ PointsAreAccounted /\ ScreenIsOnce

\* Before the first event nothing is recorded and nothing awaited.
LEMMA AgentInvInit == AgentInit => AgentInv
  <1>. SUFFICES ASSUME AgentInit PROVE AgentInv
    OBVIOUS
  <1>1. AgentShape
    <2>1. DOMAIN series = {} /\ <<>> \in Seq(Happening)
      BY DEF AgentInit
    <2>. QED
      BY <2>1, FS_EmptySet DEF AgentInit, AgentShape
  <1>2. PointsAreAccounted
    <2>1. DOMAIN series = {}
      BY DEF AgentInit
    <2>2. PICK S : S = DOMAIN series
      OBVIOUS
    <2>3. PICK f : f = [k \in S |-> 0]
      OBVIOUS
    <2>4. MapThenSumSet(LAMBDA k : series[k].points, S) = Total(f, S)
      <3>1. IsFiniteSet(S) /\ \A k \in S : f[k] = series[k].points /\ f[k] \in Int
        BY <2>1, <2>2, FS_EmptySet
      <3>. QED
        BY <3>1, PointsAreTotal
    <2>5. PointsIn(series) = 0
      BY <2>1, <2>2, <2>4, TotalOfNone DEF PointsIn
    <2>6. Cardinality(DOMAIN series) = 0 /\ 0 <= MaxSeries
      BY <2>1, FS_EmptySet, AgentAssumption
    <2>7. ToSet(ledger) = {}
      BY NothingIn DEF AgentInit
    <2>. QED
      BY <2>5, <2>6, <2>7 DEF AgentInit, PointsAreAccounted
  <1>3. ScreenIsOnce
    BY FS_EmptySet DEF AgentInit, Resting, ScreenIsOnce
  <1>. QED
    BY <1>1, <1>2, <1>3 DEF AgentInv

IsSeries(s) == IsFiniteSet(DOMAIN s) /\ \A k \in DOMAIN s : s[k].points \in Nat

\* The points of a set of series are a total.
LEMMA PointsTotal ==
  ASSUME NEW s, IsSeries(s), NEW D, D = DOMAIN s, NEW f, f = [k \in D |-> s[k].points]
  PROVE  PointsIn(s) = Total(f, D) /\ PointsIn(s) \in Int
  <1>1. IsFiniteSet(D) /\ \A k \in D : f[k] = s[k].points /\ f[k] \in Int
    BY DEF IsSeries
  <1>2. MapThenSumSet(LAMBDA k : s[k].points, D) = Total(f, D)
    BY <1>1, PointsAreTotal
  <1>3. Total(f, D) \in Int
    BY <1>1, TotalIsInt
  <1>. QED
    BY <1>2, <1>3 DEF PointsIn

\* A point goes to a series or is counted as dropped.
LEMMA AddPointParts ==
  ASSUME IsSeries(series), dropped \in Nat, Cardinality(DOMAIN series) <= MaxSeries, NEW u, AddPoint(u)
  PROVE  /\ IsSeries(series') /\ dropped' \in Nat /\ Cardinality(DOMAIN series') <= MaxSeries
         /\ dropped' + PointsIn(series') = dropped + PointsIn(series) + 1
         /\ DOMAIN series \subseteq DOMAIN series' /\ dropped' >= dropped
         /\ dropped' > 0 \/ <<u.feature, u.source>> \in DOMAIN series'
         /\ PointsIn(series) \in Int /\ PointsIn(series') \in Int
  <1>1. PICK key : key = <<u.feature, u.source>>
    OBVIOUS
  <1>2. PICK D : D = DOMAIN series
    OBVIOUS
  <1>3. PICK f : f = [k \in D |-> series[k].points]
    OBVIOUS
  <1>4. PointsIn(series) = Total(f, D) /\ PointsIn(series) \in Int
    BY <1>2, <1>3, PointsTotal
  <1>5. IsFiniteSet(D) /\ \A k \in D : f[k] \in Int /\ f[k] = series[k].points /\ series[k].points \in Nat
    BY <1>2, <1>3 DEF IsSeries
  <1>6. Cardinality(D) \in Nat /\ MaxSeries \in Nat
    BY <1>5, FS_CardinalityType, AgentAssumption
  <1>7. CASE key \in D
    <2>1. /\ series' = [series EXCEPT ![key] = [calls |-> @.calls + u.requests, points |-> @.points + 1]]
          /\ dropped' = dropped
      BY <1>1, <1>2, <1>7 DEF AddPoint
    <2>2. /\ DOMAIN series' = D /\ series'[key].points = series[key].points + 1
          /\ \A k \in D \ {key} : series'[k] = series[k]
      BY <1>2, <1>7, <2>1
    <2>3. IsSeries(series')
      BY <1>5, <1>7, <2>2 DEF IsSeries
    <2>4. PICK g : g = [k \in D |-> series'[k].points]
      OBVIOUS
    <2>5. PointsIn(series') = Total(g, D)
      BY <2>2, <2>3, <2>4, PointsTotal
    <2>6. g[key] = f[key] + 1 /\ \A k \in D \ {key} : g[k] = f[k]
      BY <1>3, <1>7, <2>2, <2>4
    <2>7. Total(g, D) = Total(f, D) + 1
      <3>1. 1 \in Int /\ \A k \in D : f[k] \in Int
        BY <1>5
      <3>. QED
        BY <3>1, <1>5, <1>7, <2>6, TotalGrows
    <2>. QED
      BY <1>1, <1>2, <1>4, <1>7, <2>1, <2>2, <2>3, <2>5, <2>7
  <1>8. CASE key \notin D /\ Cardinality(D) >= MaxSeries
    <2>1. series' = series /\ dropped' = dropped + 1
      BY <1>1, <1>2, <1>8 DEF AddPoint
    <2>. QED
      BY <1>4, <2>1
  <1>9. CASE key \notin D /\ ~ (Cardinality(D) >= MaxSeries)
    <2>1. /\ series' = [k \in D \cup {key} |->
                          IF k = key THEN [calls |-> u.requests, points |-> 1] ELSE series[k]]
          /\ dropped' = dropped
      BY <1>1, <1>2, <1>9 DEF AddPoint
    <2>2. PICK E : E = D \cup {key}
      OBVIOUS
    <2>3. /\ DOMAIN series' = E /\ series'[key].points = 1 /\ key \in E
          /\ \A k \in D : series'[k] = series[k]
      BY <1>9, <2>1, <2>2
    <2>4. IsFiniteSet(E) /\ Cardinality(E) = Cardinality(D) + 1
      BY <1>5, <1>9, <2>2, FS_AddElement
    <2>5. IsSeries(series')
      BY <1>5, <2>2, <2>3, <2>4 DEF IsSeries
    <2>6. PICK g : g = [k \in E |-> series'[k].points]
      OBVIOUS
    <2>7. PointsIn(series') = Total(g, E)
      BY <2>3, <2>5, <2>6, PointsTotal
    <2>8. g[key] = 1 /\ (\A k \in D : g[k] = f[k] /\ f[k] \in Int) /\ \A k \in D \cup {key} : g[k] \in Int
      BY <1>3, <1>5, <2>2, <2>3, <2>6
    <2>9. Total(g, D \cup {key}) = Total(g, D) + g[key]
      BY <1>5, <1>9, <2>8, TotalWith
    <2>10. Total(f, D) = Total(g, D)
      BY <1>5, <2>8, TotalsAgree
    <2>11. PointsIn(series') = PointsIn(series) + 1
      BY <1>4, <2>2, <2>7, <2>8, <2>9, <2>10
    <2>12. Cardinality(DOMAIN series') <= MaxSeries
      BY <1>6, <1>9, <2>3, <2>4
    <2>. QED
      BY <1>1, <1>2, <1>4, <2>1, <2>2, <2>3, <2>5, <2>11, <2>12
  <1>. QED
    BY <1>7, <1>8, <1>9

\* The primed invariant, spelled out.
LEMMA AgentInvSuffices ==
  ASSUME ledger' \in Seq(Happening), IsSeries(series'), dropped' \in Nat, exported' \in Nat,
         passed' \in [registry : Nat, exporter : Nat],
         passed'.registry = dropped' + PointsIn(series'), Cardinality(DOMAIN series') <= MaxSeries,
         exported' = passed'.exporter,
         \A e \in ToSet(ledger') : e.event = UsageEvent
           => dropped' > 0 \/ <<ReadUsage(e.payload).feature, ReadUsage(e.payload).source>> \in DOMAIN series',
         ScreenIsOnce'
  PROVE  AgentInv'
  <1>1. AgentShape'
    BY DEF AgentShape, IsSeries
  <1>2. PointsAreAccounted'
    BY DEF PointsAreAccounted
  <1>. QED
    BY <1>1, <1>2 DEF AgentInv

\* What the invariant says of the ledger, the series and the screen.
LEMMA AgentInvParts ==
  ASSUME AgentInv
  PROVE  /\ ledger \in Seq(Happening) /\ IsSeries(series) /\ dropped \in Nat /\ exported \in Nat
         /\ passed \in [registry : Nat, exporter : Nat]
         /\ passed.registry = dropped + PointsIn(series) /\ Cardinality(DOMAIN series) <= MaxSeries
         /\ exported = passed.exporter
         /\ \A e \in ToSet(ledger) : e.event = UsageEvent
              => dropped > 0 \/ <<ReadUsage(e.payload).feature, ReadUsage(e.payload).source>> \in DOMAIN series
         /\ ScreenIsOnce
  BY DEF AgentInv, AgentShape, IsSeries, PointsAreAccounted

\* An event goes into the ledger; a usage is also a point, in its series or dropped.
LEMMA PublishKeeps ==
  ASSUME AgentInv, NEW event \in MetricEvents \cup {LegacyEvent},
         NEW payload \in Payloads \cup {[cost |-> NoCost]}, event = UsageEvent => payload \in Payloads,
         Publish(event, payload)
  PROVE  AgentInv'
  <1>0. /\ ledger \in Seq(Happening) /\ IsSeries(series) /\ dropped \in Nat /\ exported \in Nat
        /\ passed \in [registry : Nat, exporter : Nat]
        /\ passed.registry = dropped + PointsIn(series) /\ Cardinality(DOMAIN series) <= MaxSeries
        /\ exported = passed.exporter
        /\ \A e \in ToSet(ledger) : e.event = UsageEvent
             => dropped > 0 \/ <<ReadUsage(e.payload).feature, ReadUsage(e.payload).source>> \in DOMAIN series
        /\ ScreenIsOnce
    BY AgentInvParts
  <1>1. PICK e : e = [id |-> Len(ledger) + 1, event |-> event, payload |-> payload]
    OBVIOUS
  <1>2. e \in Happening
    <2>1. Len(ledger) + 1 \in Nat
      BY <1>0, LenProperties
    <2>. QED
      BY <1>1, <2>1 DEF Happening
  <1>3. ledger' = Append(ledger, e) /\ aiRead' = aiRead
    BY <1>1 DEF Publish
  <1>4. ledger' \in Seq(Happening) /\ ToSet(ledger') = ToSet(ledger) \cup {e}
    BY <1>0, <1>2, <1>3, AppendAdds, AppendProperties
  <1>5. ScreenIsOnce'
    BY <1>0, <1>3 DEF ScreenIsOnce
  <1>6. CASE event = UsageEvent
    <2>1. PICK u : u = ReadUsage(payload)
      OBVIOUS
    <2>2. AddPoint(u)
      BY <1>6, <2>1 DEF Publish
    <2>3. /\ exported' = IF exporting = "on" THEN exported + 1 ELSE exported
          /\ passed' = [registry |-> passed.registry + 1,
                        exporter |-> passed.exporter + IF exporting = "on" THEN 1 ELSE 0]
      BY <1>6 DEF Publish
    <2>4. /\ IsSeries(series') /\ dropped' \in Nat /\ Cardinality(DOMAIN series') <= MaxSeries
          /\ dropped' + PointsIn(series') = dropped + PointsIn(series) + 1
          /\ DOMAIN series \subseteq DOMAIN series' /\ dropped' >= dropped
          /\ dropped' > 0 \/ <<u.feature, u.source>> \in DOMAIN series'
          /\ PointsIn(series) \in Int /\ PointsIn(series') \in Int
      BY <1>0, <2>2, AddPointParts
    <2>5. \A x \in ToSet(ledger') : x.event = UsageEvent
            => dropped' > 0 \/ <<ReadUsage(x.payload).feature, ReadUsage(x.payload).source>> \in DOMAIN series'
      <3>. SUFFICES ASSUME NEW x \in ToSet(ledger'), x.event = UsageEvent
                    PROVE  dropped' > 0 \/ <<ReadUsage(x.payload).feature, ReadUsage(x.payload).source>> \in DOMAIN series'
        OBVIOUS
      <3>1. CASE x = e
        BY <1>1, <2>1, <2>4, <3>1
      <3>2. CASE x \in ToSet(ledger)
        <4>1. dropped > 0 \/ <<ReadUsage(x.payload).feature, ReadUsage(x.payload).source>> \in DOMAIN series
          BY <1>0, <3>2
        <4>. QED
          BY <1>0, <2>4, <4>1
      <3>. QED
        BY <1>4, <3>1, <3>2
    <2>6. exported' \in Nat /\ passed' \in [registry : Nat, exporter : Nat] /\ exported' = passed'.exporter
      BY <1>0, <2>3
    <2>7. passed'.registry = dropped' + PointsIn(series')
      BY <1>0, <2>3, <2>4
    <2>. QED
      BY <1>4, <1>5, <2>4, <2>5, <2>6, <2>7, AgentInvSuffices
  <1>7. CASE event # UsageEvent
    <2>1. UNCHANGED <<series, dropped, exported, passed>>
      BY <1>7 DEF Publish
    <2>2. \A x \in ToSet(ledger') : x.event = UsageEvent
            => dropped' > 0 \/ <<ReadUsage(x.payload).feature, ReadUsage(x.payload).source>> \in DOMAIN series'
      BY <1>0, <1>1, <1>4, <1>7, <2>1
    <2>. QED
      BY <1>0, <1>4, <1>5, <2>1, <2>2, AgentInvSuffices
  <1>. QED
    BY <1>6, <1>7

\* A step that only moves the screen keeps the rest.
LEMMA ScreenStepKeeps ==
  ASSUME AgentInv, UNCHANGED <<ledger, series, dropped, exported, passed>>, ScreenIsOnce'
  PROVE  AgentInv'
  BY AgentInvParts, AgentInvSuffices

\* A read brings the events of one kind, which is awaited no more.
LEMMA ReadKeeps ==
  ASSUME AgentInv, NEW event \in MetricEvents, AiReads(event)
  PROVE  AgentInv'
  <1>1. PICK own : own = {e \in ToSet(ledger) : e.event = event}
    OBVIOUS
  <1>2. /\ aiRead.step = "reading" /\ event \in aiRead.pending
        /\ aiRead' = [aiRead EXCEPT !.pending = @ \ {event}, !.got = @ \cup own,
                        !.copies = @ + Cardinality(own),
                        !.probe = IF event = UsageEvent THEN own = {} ELSE @]
        /\ UNCHANGED <<ledger, series, dropped, exported, passed>>
    BY <1>1 DEF AiReads
  <1>3. ScreenIsOnce /\ ledger \in Seq(Happening)
    BY AgentInvParts
  <1>4. IsFiniteSet(own) /\ own \subseteq Happening /\ \A e \in own : e.event = event
    BY <1>1, <1>3, ElementsOf, FS_Subset
  <1>5. PICK a : a = aiRead
    OBVIOUS
  <1>6. /\ a \in [step : {"idle", "reading", "done"}, pending : SUBSET MetricEvents,
                  got : SUBSET Happening, probe : BOOLEAN, copies : Nat]
        /\ IsFiniteSet(a.got) /\ a.copies = Cardinality(a.got) /\ a.step = "reading"
        /\ \A e \in a.got : e.event \notin a.pending
    BY <1>2, <1>3, <1>5 DEF ScreenIsOnce
  <1>7. a.got \cap own = {}
    BY <1>2, <1>4, <1>5, <1>6
  <1>8. IsFiniteSet(a.got \cup own) /\ Cardinality(a.got \cup own) = Cardinality(a.got) + Cardinality(own)
    <2>1. IsFiniteSet(a.got \cup own)
      BY <1>4, <1>6, FS_Union
    <2>2. Cardinality(a.got \cup own) = Cardinality(a.got) + Cardinality(own) - Cardinality(a.got \cap own)
      BY <1>4, <1>6, FS_Union
    <2>3. Cardinality(a.got \cap own) = 0
      BY <1>7, FS_EmptySet
    <2>. QED
      BY <2>1, <2>2, <2>3, <1>4, <1>6, FS_CardinalityType
  <1>9. PICK b : b = aiRead'
    OBVIOUS
  <1>10. /\ b.step = "reading" /\ b.pending = a.pending \ {event} /\ b.got = a.got \cup own
         /\ b.copies = a.copies + Cardinality(own) /\ b.probe \in BOOLEAN
         /\ b = [step |-> b.step, pending |-> b.pending, got |-> b.got, probe |-> b.probe, copies |-> b.copies]
    BY <1>2, <1>5, <1>6, <1>9
  <1>11. b.copies \in Nat /\ b.copies = Cardinality(b.got)
    BY <1>4, <1>6, <1>8, <1>10, FS_CardinalityType
  <1>12. b \in [step : {"idle", "reading", "done"}, pending : SUBSET MetricEvents,
                got : SUBSET Happening, probe : BOOLEAN, copies : Nat]
    BY <1>4, <1>6, <1>10, <1>11
  <1>13. ScreenIsOnce'
    BY <1>4, <1>6, <1>8, <1>9, <1>10, <1>11, <1>12 DEF ScreenIsOnce
  <1>. QED
    BY <1>2, <1>13, ScreenStepKeeps

\* The probe brings the newest events, and counts those that are new.
LEMMA ProbeKeeps ==
  ASSUME AgentInv, AiProbes
  PROVE  AgentInv'
  <1>1. PICK found : found = IF aiRead.probe
                               THEN ToSet(SubSeq(ledger, Max({1, Len(ledger) - Probed + 1}), Len(ledger)))
                               ELSE {}
    OBVIOUS
  <1>2. /\ aiRead' = [aiRead EXCEPT !.step = "done", !.got = @ \cup found,
                        !.copies = @ + Cardinality(found \ aiRead.got)]
        /\ UNCHANGED <<ledger, series, dropped, exported, passed>>
    BY <1>1 DEF AiProbes, NewOnes
  <1>3. ScreenIsOnce /\ ledger \in Seq(Happening)
    BY AgentInvParts
  <1>4. IsFiniteSet(found) /\ found \subseteq Happening
    <2>1. CASE aiRead.probe
      <3>1. PICK n : n = Len(ledger) - Probed + 1
        OBVIOUS
      <3>2. Len(ledger) \in Nat /\ n \in Int
        BY <1>3, <3>1, AgentAssumption, LenProperties
      <3>3. Max({1, n}) \in {1, n} /\ Max({1, n}) >= 1
        <4>1. {1, n} \in SUBSET Int /\ {1, n} # {} /\ IsFiniteSet({1, n})
          <5>1. {1, n} = {1} \cup {n}
            OBVIOUS
          <5>2. IsFiniteSet({1} \cup {n})
            BY FS_Singleton, FS_Union
          <5>. QED
            BY <3>2, <5>1, <5>2
        <4>. QED
          BY <3>2, <4>1, FiniteHasMax
      <3>4. PICK m : m = Max({1, n})
        OBVIOUS
      <3>7. m \in 1 .. Len(ledger) + 1
        BY <3>1, <3>2, <3>3, <3>4, AgentAssumption
      <3>8. \A i \in m .. Len(ledger) : ledger[i] \in Happening
        BY <1>3, <3>2, <3>7, LenProperties
      <3>5. SubSeq(ledger, m, Len(ledger)) \in Seq(Happening)
        BY <1>3, <3>2, <3>7, <3>8, SubSeqProperties
      <3>6. found = ToSet(SubSeq(ledger, m, Len(ledger)))
        BY <1>1, <2>1, <3>1, <3>4
      <3>. QED
        BY <3>5, <3>6, ElementsOf
    <2>2. CASE ~ aiRead.probe
      BY <1>1, <2>2, FS_EmptySet
    <2>. QED
      BY <2>1, <2>2
  <1>5. PICK a : a = aiRead
    OBVIOUS
  <1>6. /\ a \in [step : {"idle", "reading", "done"}, pending : SUBSET MetricEvents,
                  got : SUBSET Happening, probe : BOOLEAN, copies : Nat]
        /\ IsFiniteSet(a.got) /\ a.copies = Cardinality(a.got)
    BY <1>3, <1>5 DEF ScreenIsOnce
  <1>7. PICK new : new = found \ a.got
    OBVIOUS
  <1>8. /\ IsFiniteSet(new) /\ new \subseteq Happening /\ a.got \cap new = {} /\ a.got \cup new = a.got \cup found
    BY <1>4, <1>7, FS_Subset
  <1>9. IsFiniteSet(a.got \cup new) /\ Cardinality(a.got \cup new) = Cardinality(a.got) + Cardinality(new)
    <2>1. IsFiniteSet(a.got \cup new)
      BY <1>6, <1>8, FS_Union
    <2>2. Cardinality(a.got \cup new) = Cardinality(a.got) + Cardinality(new) - Cardinality(a.got \cap new)
      BY <1>6, <1>8, FS_Union
    <2>3. Cardinality(a.got \cap new) = 0
      BY <1>8, FS_EmptySet
    <2>. QED
      BY <2>1, <2>2, <2>3, <1>6, <1>8, FS_CardinalityType
  <1>10. PICK b : b = aiRead'
    OBVIOUS
  <1>11. /\ b.step = "done" /\ b.pending = a.pending /\ b.got = a.got \cup new
         /\ b.copies = a.copies + Cardinality(new) /\ b.probe = a.probe
         /\ b = [step |-> b.step, pending |-> b.pending, got |-> b.got, probe |-> b.probe, copies |-> b.copies]
    BY <1>2, <1>5, <1>6, <1>7, <1>8, <1>10
  <1>12. b.copies \in Nat /\ b.copies = Cardinality(b.got)
    BY <1>6, <1>8, <1>9, <1>11, FS_CardinalityType
  <1>13. b \in [step : {"idle", "reading", "done"}, pending : SUBSET MetricEvents,
                got : SUBSET Happening, probe : BOOLEAN, copies : Nat]
    BY <1>6, <1>8, <1>11, <1>12
  <1>14. ScreenIsOnce'
    BY <1>9, <1>10, <1>11, <1>12, <1>13 DEF ScreenIsOnce
  <1>. QED
    BY <1>2, <1>14, ScreenStepKeeps

\* Every step keeps the invariant.
LEMMA AgentInvStep == AgentInv /\ [AgentNext]_agentVars => AgentInv'
  <1>. SUFFICES ASSUME AgentInv, [AgentNext]_agentVars PROVE AgentInv'
    OBVIOUS
  <1>0. ScreenIsOnce
    BY AgentInvParts
  <1>1. ASSUME NEW p \in Payloads, Publish(UsageEvent, p) PROVE AgentInv'
    BY <1>1, PublishKeeps DEF MetricEvents
  <1>2. ASSUME NEW event \in RunEvents \cup {LegacyEvent}, Publish(event, [cost |-> NoCost])
        PROVE  AgentInv'
    <2>1. event \in MetricEvents \cup {LegacyEvent} /\ event # UsageEvent
      BY DEF MetricEvents, RunEvents, UsageEvent, LegacyEvent
    <2>. QED
      BY <1>2, <2>1, PublishKeeps
  <1>3. CASE ExporterStarts \/ ExporterStops
    <2>1. UNCHANGED <<ledger, series, dropped, exported, passed, aiRead>>
      BY <1>3 DEF ExporterStarts, ExporterStops
    <2>. QED
      BY <1>0, <2>1, ScreenStepKeeps DEF ScreenIsOnce
  <1>4. CASE AiBegins
    <2>1. /\ aiRead' = [Resting EXCEPT !.step = "reading", !.pending = MetricEvents]
          /\ UNCHANGED <<ledger, series, dropped, exported, passed>>
      BY <1>4 DEF AiBegins
    <2>2. aiRead' = [step |-> "reading", pending |-> MetricEvents, got |-> {}, probe |-> FALSE,
                     copies |-> 0]
      BY <2>1 DEF Resting
    <2>3. ScreenIsOnce'
      BY <2>2, FS_EmptySet DEF ScreenIsOnce
    <2>. QED
      BY <2>1, <2>3, ScreenStepKeeps
  <1>5. CASE AiProbes
    BY <1>5, ProbeKeeps
  <1>6. CASE AiLeaves
    <2>1. aiRead' = Resting /\ UNCHANGED <<ledger, series, dropped, exported, passed>>
      BY <1>6 DEF AiLeaves
    <2>2. ScreenIsOnce'
      BY <2>1, FS_EmptySet DEF ScreenIsOnce, Resting
    <2>. QED
      BY <2>1, <2>2, ScreenStepKeeps
  <1>7. ASSUME NEW event \in MetricEvents, AiReads(event) PROVE AgentInv'
    BY <1>7, ReadKeeps
  <1>8. CASE UNCHANGED agentVars
    <2>1. UNCHANGED <<ledger, series, dropped, exported, passed, aiRead>>
      BY <1>8 DEF agentVars
    <2>. QED
      BY <1>0, <2>1, ScreenStepKeeps DEF ScreenIsOnce
  <1>. QED
    BY <1>1, <1>2, <1>3, <1>4, <1>5, <1>6, <1>7, <1>8 DEF AgentNext

\* The invariant is what the property states, and the totals of the rows follow.
LEMMA AgentInvHolds == AgentInv => UsageIsAccounted
  <1>. SUFFICES ASSUME AgentInv PROVE UsageIsAccounted
    OBVIOUS
  <1>1. PICK us : us = {e \in aiRead.got : e.event = UsageEvent}
    OBVIOUS
  <1>2. IsFiniteSet(aiRead.got) /\ aiRead.got \subseteq Happening /\ aiRead.copies = Cardinality(aiRead.got)
    BY DEF AgentInv, ScreenIsOnce
  <1>3. IsFiniteSet(us) /\ us \subseteq {e \in Happening : e.event = UsageEvent}
    BY <1>1, <1>2, FS_Subset
  <1>4. us \in Usages
    BY <1>3 DEF Usages
  <1>5. SpendAddsUp
    BY <1>1, <1>2, <1>4, SpendIsTotal
  <1>. QED
    BY <1>5 DEF AgentInv, UsageIsAccounted

\* For any payloads, cap of series and number of events: every point of usage is in a series
\* or counted as dropped, and the AI screen counts every event once and its breakdowns add up.
THEOREM UsageStaysAccounted == AgentSpec => []UsageIsAccounted
  <1>1. AgentInit => AgentInv
    BY AgentInvInit
  <1>2. AgentInv /\ [AgentNext]_agentVars => AgentInv'
    BY AgentInvStep
  <1>3. AgentInv => UsageIsAccounted
    BY AgentInvHolds
  <1>. QED
    BY <1>1, <1>2, <1>3, PTL DEF AgentSpec

-----------------------------------------------------------------------------
(* Positions in order                                                      *)

\* A function on the first k numbers is a sequence of its values.
LEMMA FunctionIsSequence ==
  ASSUME NEW k \in Nat, NEW s, s = [i \in 1 .. k |-> s[i]]
  PROVE  s \in Seq(ToSet(s)) /\ Len(s) = k /\ DOMAIN s = 1 .. k
  <1>1. DOMAIN s = 1 .. k
    OBVIOUS
  <1>2. \A i \in 1 .. k : s[i] \in ToSet(s)
    BY <1>1 DEF ToSet
  <1>3. s \in [1 .. k -> ToSet(s)]
    BY <1>2
  <1>. QED
    BY <1>1, <1>3, SeqDef

\* A sequence is one of its own values.
LEMMA SequenceOfItsOwn ==
  ASSUME NEW S, NEW s \in Seq(S)
  PROVE  s \in Seq(ToSet(s))
  <1>1. Len(s) \in Nat /\ DOMAIN s = 1 .. Len(s)
    BY LenProperties
  <1>2. PICK k : k = Len(s)
    OBVIOUS
  <1>3. s = [i \in 1 .. k |-> s[i]]
    BY <1>1, <1>2, SeqDef
  <1>. QED
    BY <1>1, <1>2, <1>3, FunctionIsSequence

\* Positions in order: each once, rising.
Rising(K) ==
  [i \in 1 .. Cardinality(K) |-> CHOOSE x \in K : Cardinality({y \in K : y < x}) = i - 1]

\* A set of positions, and a sequence that has each of a set once, rising.
ArePositions(K) == \E m \in Nat : K \in SUBSET (1 .. m)

Lists(s, K) ==
  /\ Cardinality(K) \in Nat /\ DOMAIN s = 1 .. Cardinality(K)
  /\ \A n \in 1 .. Cardinality(K) : s[n] \in K
  /\ \A i, j \in 1 .. Cardinality(K) : i < j => s[i] < s[j]
  /\ \A x \in K : \E n \in 1 .. Cardinality(K) : s[n] = x

LEMMA PositionsInOrder ==
  ASSUME NEW K, ArePositions(K)
  PROVE  Lists(Rising(K), K)
  <1>. PICK m \in Nat : K \in SUBSET (1 .. m)
    BY DEF ArePositions
  <1>. PICK s : s = Rising(K)
    OBVIOUS
  <1>. DEFINE Below(x) == {y \in K : y < x}
  <1>0. K \subseteq 1 .. m /\ \A x \in K : x \in Nat /\ x \in Int
    OBVIOUS
  <1>1. IsFiniteSet(K) /\ Cardinality(K) \in Nat /\ \A x \in K : x \in Nat
    <2>1. IsFiniteSet(1 .. m)
      BY FS_Interval
    <2>2. IsFiniteSet(K)
      BY <1>0, <2>1, FS_Subset
    <2>. QED
      BY <1>0, <2>2, FS_CardinalityType
  <1>2. PICK c : c = Cardinality(K)
    OBVIOUS
  <1>3. s = [i \in 1 .. c |-> CHOOSE x \in K : Cardinality(Below(x)) = i - 1]
    BY <1>2 DEF Rising
  <1>4. \A x \in K : IsFiniteSet(Below(x)) /\ Cardinality(Below(x)) \in Nat
    <2>. SUFFICES ASSUME NEW x \in K PROVE IsFiniteSet(Below(x)) /\ Cardinality(Below(x)) \in Nat
      OBVIOUS
    <2>1. Below(x) \subseteq K
      OBVIOUS
    <2>. QED
      BY <1>1, <2>1, FS_Subset, FS_CardinalityType
  <1>5. ASSUME NEW x \in K
        PROVE  /\ Cardinality({j \in K : j <= x}) = Cardinality(Below(x)) + 1
               /\ Cardinality(Below(x)) + 1 <= c
    <2>1. {j \in K : j <= x} = Below(x) \cup {x} /\ x \notin Below(x)
      <3>1. \A j \in K : j <= x <=> (j < x \/ j = x)
        BY <1>0
      <3>2. ~ (x < x)
        BY <1>0
      <3>. QED
        BY <3>1, <3>2
    <2>2. Cardinality(Below(x) \cup {x}) = Cardinality(Below(x)) + 1
      BY <1>4, <2>1, FS_AddElement
    <2>3. Below(x) \cup {x} \subseteq K
      OBVIOUS
    <2>4. Cardinality(Below(x) \cup {x}) <= c
      BY <1>1, <1>2, <2>3, FS_Subset
    <2>. QED
      BY <2>1, <2>2, <2>4
  <1>6. \A n \in 1 .. c : \E x \in K : Cardinality(Below(x)) = n - 1
    <2>. SUFFICES ASSUME NEW n \in 1 .. c PROVE \E x \in K : Cardinality(Below(x)) = n - 1
      OBVIOUS
    <2>1. PICK x \in K : Cardinality({j \in K : j <= x}) = n
      BY <1>2, RanksAreTaken
    <2>2. Cardinality(Below(x)) + 1 = n
      BY <1>5, <2>1
    <2>3. Cardinality(Below(x)) = n - 1
      <3>. HIDE DEF Below
      <3>. QED
        BY <1>4, <2>2
    <2>. QED
      BY <2>3
  <1>7. \A n \in 1 .. c : s[n] \in K /\ Cardinality(Below(s[n])) = n - 1
    <2>. HIDE DEF Below
    <2>. SUFFICES ASSUME NEW n \in 1 .. c PROVE s[n] \in K /\ Cardinality(Below(s[n])) = n - 1
      OBVIOUS
    <2>1. s[n] = CHOOSE x \in K : Cardinality(Below(x)) = n - 1
      BY <1>3
    <2>. QED
      BY <1>6, <2>1
  <1>8. \A x, y \in K : x <= y => Cardinality(Below(x)) <= Cardinality(Below(y))
    <2>. SUFFICES ASSUME NEW x \in K, NEW y \in K, x <= y
                  PROVE  Cardinality(Below(x)) <= Cardinality(Below(y))
      OBVIOUS
    <2>1. Below(x) \subseteq Below(y)
      <3>1. \A j \in K : j < x => j < y
        BY <1>0
      <3>. QED
        BY <3>1
    <2>. QED
      BY <1>4, <2>1, FS_Subset
  <1>9. \A x, y \in K : x < y => Cardinality(Below(x)) < Cardinality(Below(y))
    <2>. SUFFICES ASSUME NEW x \in K, NEW y \in K, x < y
                  PROVE  Cardinality(Below(x)) < Cardinality(Below(y))
      OBVIOUS
    <2>1. Below(x) \cup {x} \subseteq Below(y) /\ x \notin Below(x)
      <3>1. \A j \in K : j < x => j < y
        BY <1>0
      <3>2. ~ (x < x)
        BY <1>0
      <3>. QED
        BY <3>1, <3>2
    <2>2. Cardinality(Below(x) \cup {x}) = Cardinality(Below(x)) + 1
      BY <1>4, <2>1, FS_AddElement
    <2>3. Cardinality(Below(x) \cup {x}) <= Cardinality(Below(y))
      BY <1>4, <2>1, FS_Subset
    <2>. QED
      BY <1>4, <2>2, <2>3
  <1>. HIDE DEF Below
  <1>10. \A i, j \in 1 .. c : i < j => s[i] < s[j]
    <2>. SUFFICES ASSUME NEW i \in 1 .. c, NEW j \in 1 .. c, i < j PROVE s[i] < s[j]
      OBVIOUS
    <2>1. ~ (s[j] <= s[i])
      <3>1. s[j] <= s[i] => Cardinality(Below(s[j])) <= Cardinality(Below(s[i]))
        BY <1>7, <1>8
      <3>. QED
        BY <3>1, <1>7
    <2>2. s[i] \in Nat /\ s[j] \in Nat
      BY <1>1, <1>7
    <2>. QED
      BY <2>1, <2>2
  <1>11. \A x \in K : \E n \in 1 .. c : s[n] = x
    <2>. SUFFICES ASSUME NEW x \in K PROVE \E n \in 1 .. c : s[n] = x
      OBVIOUS
    <2>1. PICK n : n = Cardinality(Below(x)) + 1
      OBVIOUS
    <2>2. n \in 1 .. c /\ Cardinality(Below(x)) = n - 1
      <3>1. Cardinality(Below(x)) \in Nat /\ Cardinality(Below(x)) + 1 <= c /\ c \in Nat
        BY <1>1, <1>2, <1>4, <1>5
      <3>. QED
        BY <2>1, <3>1
    <2>3. s[n] \in K /\ Cardinality(Below(s[n])) = n - 1
      BY <1>7, <2>2
    <2>4. ~ (s[n] < x) /\ ~ (x < s[n])
      <3>1. s[n] < x => Cardinality(Below(s[n])) < Cardinality(Below(x))
        BY <1>9, <2>3
      <3>2. x < s[n] => Cardinality(Below(x)) < Cardinality(Below(s[n]))
        BY <1>9, <2>3
      <3>. QED
        BY <3>1, <3>2, <2>2, <2>3
    <2>5. s[n] = x
      <3>1. s[n] \in Nat /\ x \in Nat
        BY <1>0, <2>3
      <3>. QED
        BY <2>4, <3>1
    <2>. QED
      BY <2>2, <2>5
  <1>. QED
    BY <1>1, <1>2, <1>3, <1>7, <1>10, <1>11 DEF Lists

-----------------------------------------------------------------------------
(* The ring                                                                *)

\* A ring of slots by its positions: before the head there are holes, fewer than entries; from
\* the head on the entries the index has, by rising sequences below the next one.
IsRing(ring, top, ids, next) ==
  /\ ring \in Seq(ToSet(ring)) /\ top \in Nat /\ next \in Nat
  /\ Len(ring) - top <= MaxEntries /\ top <= Len(ring) - top
  /\ \A i \in 1 .. top : ring[i] = Hole
  /\ \A i \in top + 1 .. Len(ring) : ring[i].sequence \in Nat /\ ring[i].sequence < next
  /\ \A i, j \in top + 1 .. Len(ring) : i < j => ring[i].sequence < ring[j].sequence
  /\ ids = {ring[i] : i \in top + 1 .. Len(ring)}

RingInv == IsRing(slots, head, byId, sequence)

\* The empty ring.
LEMMA RingInvInit == MemoryInit => RingInv
  <1>. SUFFICES ASSUME MemoryInit PROVE RingInv
    OBVIOUS
  <1>1. <<>> \in Seq(ToSet(<<>>)) /\ Len(<<>>) = 0
    OBVIOUS
  <1>2. MaxEntries \in Nat
    BY MemoryAssumption
  <1>3. {<<>>[i] : i \in 0 + 1 .. 0} = {}
    OBVIOUS
  <1>. QED
    BY <1>1, <1>2, <1>3 DEF MemoryInit, RingInv, IsRing

\* The invariant by positions gives the property by the part of the ring that is read.
LEMMA RingIsSoundThen == RingInv => RingIsSound
  <1>. SUFFICES ASSUME RingInv PROVE RingIsSound
    OBVIOUS
  <1>1. /\ slots \in Seq(ToSet(slots)) /\ head \in Nat /\ Len(slots) \in Nat /\ head <= Len(slots)
        /\ Len(slots) - head <= MaxEntries /\ head <= Len(slots) - head
        /\ \A i \in 1 .. head : slots[i] = Hole
        /\ \A i \in head + 1 .. Len(slots) : slots[i].sequence \in Nat
        /\ \A i, j \in head + 1 .. Len(slots) : i < j => slots[i].sequence < slots[j].sequence
        /\ byId = {slots[i] : i \in head + 1 .. Len(slots)}
    <2>1. Len(slots) \in Nat
      BY LenProperties DEF RingInv, IsRing
    <2>. QED
      BY <2>1 DEF RingInv, IsRing
  <1>2. PICK live : live = SubSeq(slots, head + 1, Len(slots))
    OBVIOUS
  <1>3. /\ live \in Seq(ToSet(slots)) /\ Len(live) = Len(slots) - head
        /\ \A i \in 1 .. Len(slots) - head : live[i] = slots[head + i]
        /\ ToSet(live) = {slots[i] : i \in head + 1 .. Len(slots)}
    BY <1>1, <1>2, CutParts
  <1>4. DOMAIN live = 1 .. Len(slots) - head
    BY <1>3, LenProperties
  <1>5. \A i, j \in DOMAIN live : i < j => live[i].sequence < live[j].sequence
    <2>. SUFFICES ASSUME NEW i \in DOMAIN live, NEW j \in DOMAIN live, i < j
                  PROVE  live[i].sequence < live[j].sequence
      OBVIOUS
    <2>1. /\ head + i \in head + 1 .. Len(slots) /\ head + j \in head + 1 .. Len(slots)
          /\ head + i < head + j
      BY <1>1, <1>4
    <2>. QED
      BY <1>1, <1>3, <1>4, <2>1
  <1>6. Hole \notin byId
    BY <1>1 DEF Hole
  <1>. QED
    BY <1>1, <1>2, <1>3, <1>5, <1>6 DEF RingIsSound

\* What is kept of a ring behind a position, the rest cut off.
LEMMA CutIsRing ==
  ASSUME NEW S, NEW ring \in Seq(S), NEW first \in Nat, first <= Len(ring), NEW next \in Nat,
         Len(ring) - first <= MaxEntries,
         \A i \in first + 1 .. Len(ring) : ring[i].sequence \in Nat /\ ring[i].sequence < next,
         \A i, j \in first + 1 .. Len(ring) : i < j => ring[i].sequence < ring[j].sequence
  PROVE  IsRing(SubSeq(ring, first + 1, Len(ring)), 0, {ring[i] : i \in first + 1 .. Len(ring)}, next)
  <1>1. PICK live, k : live = SubSeq(ring, first + 1, Len(ring)) /\ k = Len(ring) - first
    OBVIOUS
  <1>2. /\ live \in Seq(S) /\ Len(live) = k
        /\ \A i \in 1 .. k : live[i] = ring[first + i]
        /\ ToSet(live) = {ring[i] : i \in first + 1 .. Len(ring)}
    BY <1>1, CutParts
  <1>3. Len(ring) \in Nat /\ k \in Nat /\ DOMAIN live = 1 .. k /\ k <= MaxEntries
    BY <1>1, <1>2, LenProperties
  <1>4. live \in Seq(ToSet(live))
    BY <1>2, <1>3, SequenceOfItsOwn
  <1>5. \A i \in 1 .. k : first + i \in first + 1 .. Len(ring)
    BY <1>1, <1>3
  <1>6. \A i \in 1 .. k : live[i].sequence \in Nat /\ live[i].sequence < next
    BY <1>2, <1>5
  <1>7. \A i, j \in 1 .. k : i < j => live[i].sequence < live[j].sequence
    <2>. SUFFICES ASSUME NEW i \in 1 .. k, NEW j \in 1 .. k, i < j
                  PROVE  live[i].sequence < live[j].sequence
      OBVIOUS
    <2>1. first + i < first + j
      BY <1>3
    <2>2. ring[first + i].sequence < ring[first + j].sequence
      BY <1>5, <2>1
    <2>. QED
      BY <1>2, <2>2
  <1>8. {ring[i] : i \in first + 1 .. Len(ring)} = {live[i] : i \in 1 .. k}
    BY <1>2, <1>3 DEF ToSet
  <1>9. 0 + 1 = 1 /\ 1 .. 0 = {} /\ k - 0 = k /\ 0 <= k
    BY <1>3
  <1>. QED
    BY <1>1, <1>2, <1>3, <1>4, <1>6, <1>7, <1>8, <1>9 DEF IsRing

\* The same with holes in place of what is not kept.
LEMMA HoledIsRing ==
  ASSUME NEW S, NEW ring \in Seq(S), NEW first \in Nat, first <= Len(ring) - first, NEW next \in Nat,
         Len(ring) - first <= MaxEntries,
         \A i \in first + 1 .. Len(ring) : ring[i].sequence \in Nat /\ ring[i].sequence < next,
         \A i, j \in first + 1 .. Len(ring) : i < j => ring[i].sequence < ring[j].sequence
  PROVE  IsRing([i \in DOMAIN ring |-> IF i <= first THEN Hole ELSE ring[i]], first,
                {ring[i] : i \in first + 1 .. Len(ring)}, next)
  <1>1. Len(ring) \in Nat /\ DOMAIN ring = 1 .. Len(ring)
    BY LenProperties
  <1>2. PICK k : k = Len(ring)
    OBVIOUS
  <1>3. PICK holed : holed = [i \in DOMAIN ring |-> IF i <= first THEN Hole ELSE ring[i]]
    OBVIOUS
  <1>4. holed = [i \in 1 .. k |-> holed[i]]
    BY <1>1, <1>2, <1>3
  <1>5. holed \in Seq(ToSet(holed)) /\ Len(holed) = k
    BY <1>1, <1>2, <1>4, FunctionIsSequence
  <1>6. \A i \in 1 .. first : i \in 1 .. k /\ i <= first
    BY <1>1, <1>2
  <1>7. \A i \in first + 1 .. k : i \in 1 .. k /\ ~ (i <= first)
    BY <1>1, <1>2
  <1>8. \A i \in 1 .. first : holed[i] = Hole
    BY <1>1, <1>2, <1>3, <1>6
  <1>9. \A i \in first + 1 .. k : holed[i] = ring[i]
    BY <1>1, <1>2, <1>3, <1>7
  <1>10. {ring[i] : i \in first + 1 .. k} = {holed[i] : i \in first + 1 .. k}
    BY <1>9
  <1>11. \A i \in first + 1 .. k : holed[i].sequence \in Nat /\ holed[i].sequence < next
    BY <1>2, <1>9
  <1>12. \A i, j \in first + 1 .. k : i < j => holed[i].sequence < holed[j].sequence
    BY <1>2, <1>9
  <1>. QED
    BY <1>2, <1>3, <1>5, <1>8, <1>10, <1>11, <1>12 DEF IsRing

\* What is evicted from a ring one entry too long is its oldest, and its id with it.
LEMMA EvictionKeeps ==
  ASSUME IsRing(slots, head, byId, sequence), NEW e, e.sequence = sequence,
         EvictOverflow(Append(slots, e), byId \cup {e})
  PROVE  IsRing(slots', head', byId', sequence + 1)
  <1>1. PICK ring, n : ring = Append(slots, e) /\ n = Len(slots) + 1
    OBVIOUS
  <1>2. MaxEntries \in Nat /\ MaxEntries >= 1
    BY MemoryAssumption
  <1>3. /\ slots \in Seq(ToSet(slots)) /\ Len(slots) \in Nat /\ head \in Nat /\ sequence \in Nat
        /\ Len(slots) - head <= MaxEntries /\ head <= Len(slots) - head
        /\ \A i \in head + 1 .. Len(slots) : slots[i].sequence \in Nat /\ slots[i].sequence < sequence
        /\ \A i, j \in head + 1 .. Len(slots) : i < j => slots[i].sequence < slots[j].sequence
        /\ byId = {slots[i] : i \in head + 1 .. Len(slots)}
    BY LenProperties DEF IsRing
  <1>4. PICK S : S = ToSet(slots) \cup {e}
    OBVIOUS
  <1>5. slots \in Seq(S) /\ e \in S
    BY <1>3, <1>4, SeqDef
  <1>6. /\ ring \in Seq(S) /\ Len(ring) = n /\ n \in Nat /\ ring[n] = e
        /\ \A i \in 1 .. Len(slots) : ring[i] = slots[i]
    BY <1>1, <1>3, <1>5, AppendProperties
  <1>7. n = Len(slots) + 1 /\ \A i \in head + 1 .. n : i \in head + 1 .. Len(slots) \/ i = n
    BY <1>1, <1>3
  <1>8. \A i \in head + 1 .. Len(slots) : ring[i] = slots[i] /\ i \in head + 1 .. n
    BY <1>3, <1>6, <1>7
  <1>9. n \in head + 1 .. n
    BY <1>3, <1>7
  <1>10. \A i \in head + 1 .. n : ring[i].sequence \in Nat /\ ring[i].sequence < sequence + 1
    <2>. SUFFICES ASSUME NEW i \in head + 1 .. n
                  PROVE  ring[i].sequence \in Nat /\ ring[i].sequence < sequence + 1
      OBVIOUS
    <2>1. CASE i = n
      BY <1>3, <1>6, <2>1
    <2>2. CASE i \in head + 1 .. Len(slots)
      BY <1>3, <1>8, <2>2
    <2>. QED
      BY <1>7, <2>1, <2>2
  <1>11. \A i, j \in head + 1 .. n : i < j => ring[i].sequence < ring[j].sequence
    <2>. SUFFICES ASSUME NEW i \in head + 1 .. n, NEW j \in head + 1 .. n, i < j
                  PROVE  ring[i].sequence < ring[j].sequence
      OBVIOUS
    <2>1. i \in head + 1 .. Len(slots)
      BY <1>3, <1>7
    <2>2. CASE j = n
      BY <1>3, <1>6, <1>8, <2>1, <2>2
    <2>3. CASE j \in head + 1 .. Len(slots)
      BY <1>3, <1>8, <2>1, <2>3
    <2>. QED
      BY <1>7, <2>2, <2>3
  <1>12. byId \cup {e} = {ring[i] : i \in head + 1 .. n}
    <2>1. ASSUME NEW x \in byId \cup {e} PROVE x \in {ring[i] : i \in head + 1 .. n}
      <3>1. CASE x = e
        BY <1>6, <1>9, <3>1
      <3>2. CASE x \in byId
        BY <1>3, <1>8, <3>2
      <3>. QED
        BY <2>1, <3>1, <3>2
    <2>2. ASSUME NEW i \in head + 1 .. n PROVE ring[i] \in byId \cup {e}
      BY <1>3, <1>6, <1>7, <1>8
    <2>. QED
      BY <2>1, <2>2
  <1>13. PICK first : first = IF n - head - MaxEntries > 0 THEN head + (n - head - MaxEntries) ELSE head
    OBVIOUS
  <1>14. /\ first \in Nat /\ head <= first /\ first <= n /\ n - first <= MaxEntries
    BY <1>2, <1>3, <1>7, <1>13
  <1>15. /\ \A i \in first + 1 .. n : i \in head + 1 .. n
         /\ \A i \in head + 1 .. first : i \in head + 1 .. n
         /\ \A i \in head + 1 .. n : i \in head + 1 .. first \/ i \in first + 1 .. n
         /\ \A i \in head + 1 .. first, j \in first + 1 .. n : i < j
    <2>1. head \in Int /\ n \in Int /\ first \in Int /\ head <= first /\ first <= n
      BY <1>3, <1>6, <1>14
    <2>. QED
      BY <2>1
  <1>16. byId' = {ring[i] : i \in first + 1 .. n}
    <2>1. byId' = {x \in byId \cup {e} : \A i \in head + 1 .. first : ring[i].sequence # x.sequence}
      BY <1>1, <1>6, <1>13 DEF EvictOverflow
    <2>2. ASSUME NEW x \in byId' PROVE x \in {ring[i] : i \in first + 1 .. n}
      <3>1. PICK i \in head + 1 .. n : x = ring[i]
        BY <1>12, <2>1, <2>2
      <3>2. i \notin head + 1 .. first
        BY <2>1, <2>2, <3>1
      <3>. QED
        BY <1>15, <3>1, <3>2
    <2>3. ASSUME NEW i \in first + 1 .. n PROVE ring[i] \in byId'
      <3>1. ring[i] \in byId \cup {e}
        BY <1>12, <1>15
      <3>2. ASSUME NEW j \in head + 1 .. first PROVE ring[j].sequence # ring[i].sequence
        BY <1>10, <1>11, <1>15
      <3>. QED
        BY <2>1, <3>1, <3>2
    <2>. QED
      BY <2>2, <2>3
  <1>17. /\ \A i \in first + 1 .. n : ring[i].sequence \in Nat /\ ring[i].sequence < sequence + 1
         /\ \A i, j \in first + 1 .. n : i < j => ring[i].sequence < ring[j].sequence
    BY <1>10, <1>11, <1>15
  <1>18. CASE first > 0 /\ first >= n - first
    <2>1. slots' = SubSeq(ring, first + 1, n) /\ head' = 0
      BY <1>1, <1>6, <1>13, <1>18 DEF EvictOverflow
    <2>2. IsRing(SubSeq(ring, first + 1, Len(ring)), 0,
                 {ring[i] : i \in first + 1 .. Len(ring)}, sequence + 1)
      <3>1. sequence + 1 \in Nat
        BY <1>3
      <3>. QED
        BY <1>6, <1>14, <1>17, <3>1, CutIsRing
    <2>. QED
      BY <1>6, <1>16, <2>1, <2>2
  <1>19. CASE ~ (first > 0 /\ first >= n - first)
    <2>1. slots' = [i \in DOMAIN ring |-> IF i <= first THEN Hole ELSE ring[i]] /\ head' = first
      BY <1>1, <1>6, <1>13, <1>19 DEF EvictOverflow
    <2>2. first <= n - first
      BY <1>6, <1>14, <1>19
    <2>3. IsRing([i \in DOMAIN ring |-> IF i <= first THEN Hole ELSE ring[i]], first,
                 {ring[i] : i \in first + 1 .. Len(ring)}, sequence + 1)
      <3>1. sequence + 1 \in Nat
        BY <1>3
      <3>. QED
        BY <1>6, <1>14, <1>17, <2>2, <3>1, HoledIsRing
    <2>. QED
      BY <1>6, <1>16, <2>1, <2>3
  <1>. QED
    BY <1>18, <1>19

\* One entry more, and the oldest evicted.
LEMMA RecordKeeps ==
  ASSUME RingInv, NEW input, Record1(input)
  PROVE  RingInv'
  <1>1. PICK e : e = EntryOf(input)
    OBVIOUS
  <1>2. e.sequence = sequence
    BY <1>1 DEF EntryOf
  <1>3. EvictOverflow(Append(slots, e), byId \cup {e}) /\ sequence' = sequence + 1
    BY <1>1 DEF Record1
  <1>4. IsRing(slots', head', byId', sequence + 1)
    BY <1>2, <1>3, EvictionKeeps DEF RingInv
  <1>. QED
    BY <1>3, <1>4 DEF RingInv

\* What pruning keeps stays in its order.
LEMMA PruneKeeps ==
  ASSUME RingInv, NEW olderThan, NEW keepLast, Prune1(olderThan, keepLast)
  PROVE  RingInv'
  <1>1. /\ slots \in Seq(ToSet(slots)) /\ Len(slots) \in Nat /\ head \in Nat /\ sequence \in Nat
        /\ Len(slots) - head <= MaxEntries /\ head <= Len(slots) - head
        /\ \A i \in head + 1 .. Len(slots) : slots[i].sequence \in Nat /\ slots[i].sequence < sequence
        /\ \A i, j \in head + 1 .. Len(slots) : i < j => slots[i].sequence < slots[j].sequence
        /\ byId = {slots[i] : i \in head + 1 .. Len(slots)}
    BY LenProperties DEF IsRing, RingInv
  <1>2. PICK live : live = {i \in head + 1 .. Len(slots) : slots[i] # Hole}
    OBVIOUS
  <1>3. PICK doomed : doomed = {i \in live : slots[i].at < olderThan}
    OBVIOUS
  <1>4. PICK deleted : deleted = {i \in doomed : Cardinality({j \in doomed : j > i}) >= keepLast}
    OBVIOUS
  <1>5. PICK K : K = live \ deleted
    OBVIOUS
  <1>6. PICK kept : kept = Rising(K)
    OBVIOUS
  <1>7. /\ slots' = [n \in DOMAIN kept |-> slots[kept[n]]] /\ head' = 0
        /\ byId' = byId \ {slots[i] : i \in deleted} /\ sequence' = sequence
    BY <1>2, <1>3, <1>4, <1>5, <1>6 DEF Prune1, InOrder, Rising
  <1>8. live = head + 1 .. Len(slots)
    BY <1>1, <1>2 DEF Hole
  <1>9. deleted \subseteq head + 1 .. Len(slots) /\ K \subseteq head + 1 .. Len(slots)
        /\ \A i \in head + 1 .. Len(slots) : i \in K <=> i \notin deleted
    BY <1>3, <1>4, <1>5, <1>8
  <1>10. K \in SUBSET (1 .. Len(slots))
    BY <1>1, <1>9
  <1>11. PICK c : c = Cardinality(K)
    OBVIOUS
  <1>12. /\ c \in Nat /\ DOMAIN kept = 1 .. c /\ \A n \in 1 .. c : kept[n] \in K
         /\ \A i, j \in 1 .. c : i < j => kept[i] < kept[j]
         /\ \A x \in K : \E n \in 1 .. c : kept[n] = x
    <2>1. Lists(Rising(K), K)
      <3>1. ArePositions(K)
        BY <1>1, <1>10 DEF ArePositions
      <3>. QED
        BY <3>1, PositionsInOrder
    <2>. QED
      BY <1>6, <1>11, <2>1 DEF Lists
  <1>13. c <= MaxEntries
    <2>1. IsFiniteSet(head + 1 .. Len(slots))
          /\ Cardinality(head + 1 .. Len(slots)) = Len(slots) - head
      <3>1. head + 1 \in Int /\ Len(slots) \in Int /\ head <= Len(slots)
        BY <1>1
      <3>2. /\ IsFiniteSet(head + 1 .. Len(slots))
            /\ Cardinality(head + 1 .. Len(slots))
                 = IF head + 1 > Len(slots) THEN 0 ELSE Len(slots) - (head + 1) + 1
        BY <3>1, FS_Interval
      <3>. QED
        BY <1>1, <3>1, <3>2
    <2>2. Cardinality(K) <= Cardinality(head + 1 .. Len(slots))
      BY <1>9, <2>1, FS_Subset
    <2>3. MaxEntries \in Nat
      BY MemoryAssumption
    <2>. QED
      BY <1>1, <1>11, <1>12, <2>1, <2>2, <2>3
  <1>14. PICK after : after = slots'
    OBVIOUS
  <1>15. after = [n \in 1 .. c |-> slots[kept[n]]]
    BY <1>7, <1>12, <1>14
  <1>16. after \in Seq(ToSet(after)) /\ Len(after) = c
    <2>1. after = [i \in 1 .. c |-> after[i]]
      BY <1>15
    <2>. QED
      BY <1>12, <2>1, FunctionIsSequence
  <1>17. \A n \in 1 .. c : kept[n] \in head + 1 .. Len(slots) /\ after[n] = slots[kept[n]]
    BY <1>9, <1>12, <1>15
  <1>18. \A n \in 1 .. c : after[n].sequence \in Nat /\ after[n].sequence < sequence
    BY <1>1, <1>17
  <1>19. \A i, j \in 1 .. c : i < j => after[i].sequence < after[j].sequence
    <2>. SUFFICES ASSUME NEW i \in 1 .. c, NEW j \in 1 .. c, i < j
                  PROVE  after[i].sequence < after[j].sequence
      OBVIOUS
    <2>1. kept[i] < kept[j]
      BY <1>12
    <2>2. slots[kept[i]].sequence < slots[kept[j]].sequence
      BY <1>1, <1>17, <2>1
    <2>. QED
      BY <1>17, <2>2
  <1>20. \A i, j \in head + 1 .. Len(slots) : slots[i] = slots[j] => i = j
    <2>. SUFFICES ASSUME NEW i \in head + 1 .. Len(slots), NEW j \in head + 1 .. Len(slots),
                         slots[i] = slots[j]
                  PROVE  i = j
      OBVIOUS
    <2>1. ~ (i < j) /\ ~ (j < i)
      <3>1. slots[i].sequence = slots[j].sequence /\ slots[i].sequence \in Nat
        BY <1>1
      <3>. QED
        BY <1>1, <3>1
    <2>2. i \in Int /\ j \in Int
      BY <1>1
    <2>. QED
      BY <2>1, <2>2
  <1>21. byId' = {after[n] : n \in 1 .. c}
    <2>1. ASSUME NEW x \in byId' PROVE x \in {after[n] : n \in 1 .. c}
      <3>1. PICK i \in head + 1 .. Len(slots) : x = slots[i]
        BY <1>1, <1>7, <2>1
      <3>2. i \in K
        BY <1>7, <1>9, <2>1, <3>1
      <3>3. PICK n \in 1 .. c : kept[n] = i
        BY <1>12, <3>2
      <3>. QED
        BY <1>17, <3>1, <3>3
    <2>2. ASSUME NEW n \in 1 .. c PROVE after[n] \in byId'
      <3>1. after[n] = slots[kept[n]] /\ kept[n] \in head + 1 .. Len(slots) /\ kept[n] \notin deleted
        BY <1>9, <1>12, <1>17
      <3>2. \A i \in deleted : slots[i] # slots[kept[n]]
        BY <1>9, <1>20, <3>1
      <3>. QED
        BY <1>1, <1>7, <3>1, <3>2
    <2>. QED
      BY <2>1, <2>2
  <1>22. 0 + 1 = 1 /\ 1 .. 0 = {} /\ c - 0 = c /\ 0 <= c
    BY <1>12
  <1>23. IsRing(after, 0, byId', sequence)
    BY <1>1, <1>13, <1>16, <1>18, <1>19, <1>21, <1>22 DEF IsRing
  <1>. QED
    BY <1>7, <1>14, <1>23 DEF RingInv

\* The empty ring again.
LEMMA ClearKeeps == ASSUME RingInv, Clear1 PROVE RingInv'
  <1>1. <<>> \in Seq(ToSet(<<>>)) /\ Len(<<>>) = 0
    OBVIOUS
  <1>2. MaxEntries \in Nat
    BY MemoryAssumption
  <1>3. {<<>>[i] : i \in 0 + 1 .. 0} = {}
    OBVIOUS
  <1>4. sequence \in Nat
    BY DEF RingInv, IsRing
  <1>. QED
    BY <1>1, <1>2, <1>3, <1>4 DEF Clear1, RingInv, IsRing

\* What leaves the store alone keeps its invariant.
LEMMA RingInvStays == ASSUME RingInv, UNCHANGED memoryVars PROVE RingInv'
  BY DEF RingInv, IsRing, memoryVars

\* Only the host changes the store: a read of several turns leaves it as it is.
LEMMA ReadsLeaveTheStore ==
  ASSUME ReadsNext, ~ HostMoves
  PROVE  UNCHANGED memoryVars
  <1>1. CASE ReaderLeaves
    BY <1>1 DEF ReaderLeaves, Step
  <1>2. CASE PulseBegins
    BY <1>2 DEF PulseBegins, Begin
  <1>3. CASE PulseDrafts
    BY <1>3 DEF PulseDrafts, Step
  <1>4. CASE PulseAnswers
    BY <1>4 DEF PulseAnswers, Step
  <1>5. CASE TracesBegin
    BY <1>5 DEF TracesBegin, Begin
  <1>6. CASE ReadTraces
    BY <1>6 DEF ReadTraces, Step
  <1>7. CASE Probe
    BY <1>7 DEF Probe, Step
  <1>8. CASE StatsBegin
    BY <1>8 DEF StatsBegin, Begin
  <1>9. CASE StatsAnswers
    BY <1>9 DEF StatsAnswers, Step
  <1>10. CASE \E t \in {Request, ExceptionType} : ReadType(t)
    BY <1>10 DEF ReadType, Step
  <1>11. CASE \E seq \in 0 .. MaxRecords - 1 : ReadSample(seq) \/ ReadLabel(seq)
    BY <1>11 DEF ReadSample, ReadLabel, Step
  <1>. QED
    BY <1>1, <1>2, <1>3, <1>4, <1>5, <1>6, <1>7, <1>8, <1>9, <1>10, <1>11 DEF ReadsNext

\* Every turn keeps the invariant.
LEMMA RingInvStep == RingInv /\ [ReadsNext]_<<memoryVars, readVars>> => RingInv'
  <1>. SUFFICES ASSUME RingInv, [ReadsNext]_<<memoryVars, readVars>> PROVE RingInv'
    OBVIOUS
  <1>1. CASE UNCHANGED memoryVars
    BY <1>1, RingInvStays
  <1>2. CASE HostMoves
    <2>1. ASSUME NEW input \in Inputs[topic], Record1(input) PROVE RingInv'
      BY <2>1, RecordKeeps
    <2>2. ASSUME NEW keepLast \in 0 .. 1, Prune1(clock, keepLast) PROVE RingInv'
      BY <2>2, PruneKeeps
    <2>3. CASE Clear1
      BY <2>3, ClearKeeps
    <2>4. CASE MemoryTick
      BY <2>4 DEF MemoryTick, RingInv, IsRing
    <2>. QED
      BY <1>2, <2>1, <2>2, <2>3, <2>4 DEF HostMoves
  <1>. QED
    BY <1>1, <1>2, ReadsLeaveTheStore

\* The ring and the index by id agree, the newest maxEntries in their order, holes before them
\* and fewer than they are, whatever is recorded, pruned and cleared while reads of several
\* turns are under way, memory.ts.
THEOREM RingStaysSound == ReadsSpec => []RingIsSound
  <1>1. ReadsInit => RingInv
    BY RingInvInit DEF ReadsInit
  <1>2. RingInv /\ [ReadsNext]_<<memoryVars, readVars>> => RingInv'
    BY RingInvStep
  <1>3. RingInv => RingIsSound
    BY RingIsSoundThen
  <1>. QED
    BY <1>1, <1>2, <1>3, PTL DEF ReadsSpec
=============================================================================
