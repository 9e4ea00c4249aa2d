-------------------------- MODULE OrderedSets_proofs --------------------------
(***************************************************************************)
(* What Nth, Sorted, Pick, Least and Greatest return, for every finite set *)
(* of naturals and every sequence.                                         *)
(***************************************************************************)
EXTENDS OrderedSets, FiniteSetTheorems, WellFoundedInduction, TLAPS

(***************************************************************************)
(* A non-empty set of naturals has a least element: the first match of a   *)
(* loop over a slice exists as soon as some position matches.              *)
(***************************************************************************)
LEMMA LeastExists ==
  ASSUME NEW T, T \subseteq Nat, T # {}
  PROVE  /\ Least(T) \in T
         /\ \A j \in T : Least(T) <= j
<1> DEFINE R == OpToRel(<, Nat)
<1>1. \E x \in T : \A y \in T : ~ (<<y, x>> \in R)
  BY NatLessThanWellFounded, WFMin, Zenon
<1>2. \A x, y \in Nat : y < x => <<y, x>> \in R
  BY DEF OpToRel
<1>3. \E x \in T : \A y \in T : x <= y
  <2> HIDE DEF R
  <2>1. PICK x \in T : \A y \in T : ~ (<<y, x>> \in R)
    BY <1>1
  <2>2. \A y \in T : ~ (y < x)
    BY <1>2, <2>1
  <2>3. \A y \in T : x <= y
    BY <2>2
  <2>4. QED BY <2>3
<1>4. QED BY <1>3 DEF Least

(***************************************************************************)
(* A finite set of naturals has an upper bound.  Otherwise some unbounded  *)
(* subset of it would be minimal for strict inclusion, and removing one    *)
(* element from that one would make it bounded.                            *)
(***************************************************************************)
LEMMA FiniteSetBounded ==
  ASSUME NEW K, K \subseteq Nat, IsFiniteSet(K)
  PROVE  \E n \in Nat : \A x \in K : x <= n
<1> DEFINE Bounded(X) == \E n \in Nat : \A x \in X : x <= n
           R == StrictSubsetOrdering(K)
           F == FiniteSubsetsOf(K)
           U == {X \in F : ~Bounded(X)}
<1> SUFFICES ASSUME U # {} PROVE FALSE
  BY DEF FiniteSubsetsOf
<1>1. PICK X \in U : \A Y \in U : ~ (<<Y, X>> \in R)
  <2> HIDE DEF R
  <2>1. IsWellFoundedOn(R, F) BY FS_StrictSubsetOrderingWellFounded DEF R
  <2>2. U \subseteq F OBVIOUS
  <2> HIDE DEF U, F
  <2>3. QED BY <2>1, <2>2, WFMin
<1>2. PICK x \in X : TRUE
  <2>1. Bounded({}) OBVIOUS
  <2>2. X # {} BY <2>1
  <2>3. QED BY <2>2
<1>3. X \ {x} \in F /\ <<X \ {x}, X>> \in R
  BY <1>2, FS_RemoveElement DEF FiniteSubsetsOf, StrictSubsetOrdering
<1>4. PICK n \in Nat : \A y \in X \ {x} : y <= n
  BY <1>1, <1>3
<1>5. x \in Nat BY <1>2 DEF FiniteSubsetsOf
<1>6. \A y \in X : y <= n + x
  BY <1>4, <1>5 DEF FiniteSubsetsOf
<1>7. QED BY <1>6, <1>5

(***************************************************************************)
(* So has a finite non-empty set of integers: one without a least element  *)
(* that is minimal for strict inclusion would have one once an element is  *)
(* removed, and the lesser of the two is least.                            *)
(***************************************************************************)
LEMMA LeastIntegerExists ==
  ASSUME NEW K, K \subseteq Int, IsFiniteSet(K), K # {}
  PROVE  \E x \in K : \A y \in K : x <= y
<1> DEFINE HasLeast(X) == \E x \in X : \A y \in X : x <= y
           R == StrictSubsetOrdering(K)
           F == FiniteSubsetsOf(K)
           U == {X \in F : X # {} /\ ~ HasLeast(X)}
<1> SUFFICES ASSUME U # {} PROVE FALSE
  BY DEF FiniteSubsetsOf
<1>1. PICK X \in U : \A Y \in U : ~ (<<Y, X>> \in R)
  <2> HIDE DEF R
  <2>1. IsWellFoundedOn(R, F) BY FS_StrictSubsetOrderingWellFounded DEF R
  <2>2. U \subseteq F OBVIOUS
  <2> HIDE DEF U, F
  <2>3. QED BY <2>1, <2>2, WFMin
<1>2. PICK x \in X : TRUE
  OBVIOUS
<1>3. X \ {x} \in F /\ <<X \ {x}, X>> \in R
  BY <1>2, FS_RemoveElement DEF FiniteSubsetsOf, StrictSubsetOrdering
<1>4. X \subseteq Int BY DEF FiniteSubsetsOf
<1>5. CASE X \ {x} = {}
  <2>1. \A y \in X : y = x BY <1>5
  <2>2. HasLeast(X) BY <2>1, <1>2, <1>4
  <2>3. QED BY <2>2
<1>6. CASE HasLeast(X \ {x})
  <2>1. PICK z \in X \ {x} : \A y \in X \ {x} : z <= y BY <1>6
  <2>2. CASE z <= x BY <2>1, <2>2, <1>4
  <2>3. CASE x <= z BY <2>1, <2>3, <1>2, <1>4
  <2>4. QED BY <2>1, <2>2, <2>3, <1>2, <1>4
<1>7. QED BY <1>1, <1>3, <1>5, <1>6

(***************************************************************************)
(* The k-th smallest element of a finite set of positive naturals is an    *)
(* element of it.                                                          *)
(***************************************************************************)
LEMMA NthInSet ==
  ASSUME NEW K, K \subseteq Nat \ {0}, IsFiniteSet(K), NEW k \in 1 .. Cardinality(K)
  PROVE  Nth(K, k) \in K
<1> DEFINE Upto(i) == K \cap (1 .. i)
           C(i)    == Cardinality(Upto(i))
           T       == {i \in Nat : C(i) >= k}
<1>0. Cardinality(K) \in Nat /\ k \in Nat /\ 1 <= k /\ k <= Cardinality(K)
  BY FS_CardinalityType
<1>1. \A i \in Nat : IsFiniteSet(Upto(i)) /\ C(i) \in Nat
  <2> TAKE i \in Nat
  <2>1. Upto(i) \subseteq K OBVIOUS
  <2>2. QED BY <2>1, FS_Subset, FS_CardinalityType
<1>2. T # {}
  <2>1. \E n \in Nat : \A x \in K : x <= n
    BY FiniteSetBounded
  <2>2. PICK n \in Nat : \A x \in K : x <= n
    BY <2>1
  <2>3. \A x \in K : x \in 1 .. n
    BY <2>2
  <2>4. Upto(n) = K
    BY <2>3, Zenon
  <2>5. n \in T
    BY <2>4, <1>0
  <2>6. QED BY <2>5
<1>3. PICK m \in T : \A j \in T : m <= j
  <2> HIDE DEF T
  <2>1. T \subseteq Nat BY DEF T
  <2>2. QED BY <2>1, <1>2, LeastExists
<1>4. m # 0
  <2>1. Upto(0) = {} OBVIOUS
  <2>2. C(0) = 0 BY <2>1, FS_EmptySet
  <2>3. QED BY <2>2, <1>0, <1>3
<1>5. m - 1 \in Nat /\ C(m - 1) < k
  <2>1. m - 1 \in Nat BY <1>4, <1>3
  <2>2. m - 1 \notin T BY <2>1, <1>3
  <2>3. QED BY <2>1, <2>2, <1>1, <1>0
<1>6. m \in K /\ C(m) = k
  <2>1. CASE m \notin K
    <3>1. Upto(m) = Upto(m - 1) BY <2>1, <1>3, <1>5
    <3>2. QED BY <3>1, <1>5, <1>3, <1>0
  <2>2. CASE m \in K
    <3>1. Upto(m) = Upto(m - 1) \cup {m} BY <2>2, <1>3, <1>5
    <3>2. m \notin Upto(m - 1) BY <1>3
    <3>3. C(m) = C(m - 1) + 1 BY <3>1, <3>2, <1>1, <1>5, FS_AddElement
    <3>4. C(m - 1) \in Nat /\ C(m - 1) < k /\ C(m) >= k BY <1>1, <1>5, <1>3
    <3>5. C(m) = k
      <4> HIDE DEF C
      <4>1. QED BY <3>3, <3>4, <1>0
    <3>6. QED BY <2>2, <3>5
  <2>3. QED BY <2>1, <2>2
<1>7. QED BY <1>6 DEF Nth

(***************************************************************************)
(* A non-empty finite set of naturals has a greatest element: a backward   *)
(* scan over a slice finds the last match.                                 *)
(***************************************************************************)
LEMMA GreatestExists ==
  ASSUME NEW K, K \subseteq Nat, IsFiniteSet(K), K # {}
  PROVE  /\ Greatest(K) \in K
         /\ \A j \in K : Greatest(K) >= j
<1> DEFINE T == {n \in Nat : \A x \in K : x <= n}
<1>1. T # {} BY FiniteSetBounded
<1>2. PICK m \in T : \A n \in T : m <= n
  <2>1. T \subseteq Nat OBVIOUS
  <2> HIDE DEF T
  <2>2. QED BY <2>1, <1>1, LeastExists
<1>3. m \in Nat /\ \A x \in K : x <= m
  BY <1>2
<1>4. m \in K
  <2> SUFFICES ASSUME m \notin K PROVE FALSE
    OBVIOUS
  <2>1. \A x \in K : x < m
    BY <1>3
  <2>2. m > 0
    <3>1. PICK x \in K : TRUE OBVIOUS
    <3>2. QED BY <3>1, <2>1, <1>3
  <2>3. m - 1 \in T
    BY <2>1, <2>2, <1>3
  <2>4. QED BY <2>3, <1>2, <1>3
<1>5. QED BY <1>3, <1>4 DEF Greatest

(***************************************************************************)
(* Every element of a finite set of positive naturals has a rank.          *)
(***************************************************************************)
LEMMA NthSurjective ==
  ASSUME NEW K, K \subseteq Nat \ {0}, IsFiniteSet(K), NEW i \in K
  PROVE  \E k \in 1 .. Cardinality(K) : Nth(K, k) = i
<1> DEFINE Upto(n) == K \cap (1 .. n)
           C(n)    == Cardinality(Upto(n))
<1>1. \A n \in Nat : /\ IsFiniteSet(Upto(n))
                     /\ C(n) \in Nat
                     /\ C(n) <= Cardinality(K)
  <2> TAKE n \in Nat
  <2>1. Upto(n) \subseteq K OBVIOUS
  <2>2. QED BY <2>1, FS_Subset, FS_CardinalityType
<1>2. \A m, n \in K : m < n => C(m) < C(n)
  <2> SUFFICES ASSUME NEW m \in K, NEW n \in K, m < n PROVE C(m) < C(n)
    OBVIOUS
  <2>1. Upto(m) \cup {n} \subseteq Upto(n) /\ n \notin Upto(m)
    OBVIOUS
  <2>2. m \in Nat /\ n \in Nat OBVIOUS
  <2>3. Cardinality(Upto(m) \cup {n}) = C(m) + 1
    BY <2>1, <2>2, <1>1, FS_AddElement
  <2>4. Cardinality(Upto(m) \cup {n}) <= C(n)
    <3> HIDE DEF Upto
    <3>1. QED BY <2>1, <2>2, <1>1, FS_Subset
  <2>5. C(m) \in Nat /\ C(n) \in Nat BY <2>2, <1>1
  <2> HIDE DEF C
  <2>6. QED BY <2>3, <2>4, <2>5
<1>3. \A j \in K : C(j) = C(i) => j = i
  <2> SUFFICES ASSUME NEW j \in K, C(j) = C(i), j # i PROVE FALSE
    OBVIOUS
  <2>1. C(i) \in Nat /\ C(j) \in Nat BY <1>1
  <2>2. j < i \/ i < j OBVIOUS
  <2> HIDE DEF C
  <2>3. QED BY <2>1, <2>2, <1>2
<1>4. C(i) \in 1 .. Cardinality(K)
  <2>1. C(i) # 0
    BY <1>1, FS_EmptySet
  <2>2. Cardinality(K) \in Nat BY FS_CardinalityType
  <2>3. C(i) \in Nat /\ C(i) <= Cardinality(K) BY <1>1
  <2> HIDE DEF C
  <2>4. QED BY <2>1, <2>2, <2>3
<1>5. Nth(K, C(i)) = i
  BY <1>3 DEF Nth
<1>6. QED BY <1>4, <1>5

(***************************************************************************)
(* A filtering loop returns a sequence over the same elements.             *)
(***************************************************************************)
LEMMA PickType ==
  ASSUME NEW S, NEW s \in Seq(S), NEW K, K \subseteq DOMAIN s
  PROVE  /\ Pick(s, K) \in Seq(S)
         /\ K # {} => Pick(s, K) # << >>
<1>1. K \subseteq Nat \ {0} OBVIOUS
<1>2. IsFiniteSet(K)
  <2>1. IsFiniteSet(1 .. Len(s)) BY FS_Interval
  <2>2. K \subseteq 1 .. Len(s) OBVIOUS
  <2>3. QED BY <2>1, <2>2, FS_Subset
<1>3. Cardinality(K) \in Nat /\ (K # {} => Cardinality(K) # 0)
  BY <1>2, FS_CardinalityType, FS_EmptySet
<1>4. \A k \in 1 .. Cardinality(K) : Nth(K, k) \in DOMAIN s
  BY <1>1, <1>2, NthInSet
<1>5. \A k \in 1 .. Cardinality(K) : s[Nth(K, k)] \in S
  BY <1>4
<1>6. QED BY <1>3, <1>5 DEF Pick

(***************************************************************************)
(* sort.Strings returns the names it was given.                            *)
(***************************************************************************)
LEMMA SortedType ==
  ASSUME NEW K, K \subseteq Nat \ {0}, IsFiniteSet(K)
  PROVE  /\ Sorted(K) \in [1 .. Cardinality(K) -> K]
         /\ \A i \in K : \E k \in 1 .. Cardinality(K) : Sorted(K)[k] = i
<1>1. \A k \in 1 .. Cardinality(K) : Nth(K, k) \in K
  BY NthInSet
<1>2. QED BY <1>1, NthSurjective DEF Sorted
===============================================================================
