-------------------------- MODULE QuorumEngineProofs --------------------------
(****************************************************************************)
(* Theorems of QuorumEngine, for any cluster sizes, telemetry and scale.    *)
(*                                                                          *)
(* The weight of acks is a sum over a set.  What is said of it is proved by *)
(* taking a set with the fewest elements for which it fails: the library's  *)
(* rules of induction take an operator, which the provers do not handle.    *)
(****************************************************************************)
EXTENDS QuorumEngine, FiniteSetTheorems, WellFoundedInduction, TLAPS

LEMMA Fewest ==
  ASSUME NEW T \in SUBSET Nat, T # {}
  PROVE  \E x \in T : \A y \in T : x <= y
<1> DEFINE R == OpToRel(<, Nat)
<1>1. PICK x \in T : \A y \in T : <<y, x>> \notin R
  <2>1. IsWellFoundedOn(R, Nat)
    BY NatLessThanWellFounded
  <2> HIDE DEF R
  <2> QED
    BY <2>1, WFMin
<1>2. \A y \in T : ~(y < x)
  BY <1>1 DEF OpToRel
<1> QED
  BY <1>2

(* Of the subsets with a property, one has the fewest elements. *)
LEMMA SmallestSubset ==
  ASSUME NEW S, IsFiniteSet(S), NEW P \in SUBSET SUBSET S, P # {}
  PROVE  \E s \in P : /\ IsFiniteSet(s)
                      /\ \A x \in s : s \ {x} \notin P
<1> DEFINE T == {Cardinality(s) : s \in P}
<1>1. \A s \in P : IsFiniteSet(s) /\ Cardinality(s) \in Nat
  BY FS_Subset, FS_CardinalityType
<1>2. T \in SUBSET Nat /\ T # {}
  BY <1>1
<1>3. PICK n \in T : \A k \in T : n <= k
  <2> HIDE DEF T
  <2> QED
    BY <1>2, Fewest
<1>4. PICK s \in P : Cardinality(s) = n
  OBVIOUS
<1>5. ASSUME NEW x \in s, s \ {x} \in P
      PROVE  FALSE
  <2>1. Cardinality(s \ {x}) = Cardinality(s) - 1
    BY <1>1, FS_RemoveElement
  <2>2. n <= Cardinality(s \ {x})
    BY <1>3, <1>5
  <2> QED
    BY <2>1, <2>2, <1>1, <1>4
<1> QED
  BY <1>1, <1>5

LEMMA GreatestOfSizes ==
  ASSUME NEW S \in SUBSET Nat, S # {}, IsFiniteSet(S)
  PROVE  Max(S) \in S /\ \A x \in S : x <= Max(S)
<1> DEFINE HasMax(s) == \E x \in s : \A y \in s : x >= y
           P == {s \in SUBSET S : s # {} /\ ~HasMax(s)}
<1>1. ASSUME P # {} PROVE FALSE
  <2>1. PICK s \in P : \A x \in s : s \ {x} \notin P
    <3> HIDE DEF P
    <3>1. P \in SUBSET SUBSET S
      BY DEF P
    <3> QED
      BY <1>1, <3>1, SmallestSubset
  <2>2. PICK x \in s : TRUE
    OBVIOUS
  <2>3. CASE s \ {x} = {}
    BY <2>1, <2>2, <2>3
  <2>4. CASE s \ {x} # {}
    <3>1. HasMax(s \ {x})
      BY <2>1, <2>2, <2>4
    <3>2. PICK y \in s \ {x} : \A z \in s \ {x} : y >= z
      BY <3>1
    <3>3. x \in Nat /\ y \in Nat /\ s \in SUBSET Nat
      BY <2>2, <3>2
    <3>4. CASE y >= x
      BY <3>2, <3>4, <2>1
    <3>5. CASE x >= y
      <4>1. \A z \in s : x >= z
        BY <3>2, <3>3, <3>5
      <4> QED
        BY <4>1, <2>1
    <3> QED
      BY <3>3, <3>4, <3>5
  <2> QED
    BY <2>3, <2>4
<1>2. HasMax(S)
  BY <1>1
<1> QED
  BY <1>2 DEF Max

------------------------------------------------------------------------------
(* Weights. *)


LEMMA GreaterOfTwo ==
  ASSUME NEW a \in Int, NEW b \in Int
  PROVE  Max({a, b}) = IF a >= b THEN a ELSE b
<1>1. \E x \in {a, b} : \A y \in {a, b} : x >= y
  OBVIOUS
<1>2. Max({a, b}) \in {a, b} /\ \A y \in {a, b} : Max({a, b}) >= y
  BY <1>1 DEF Max
<1> QED
  BY <1>2

LEMMA LesserOfTwo ==
  ASSUME NEW a \in Int, NEW b \in Int
  PROVE  Min({a, b}) = IF a <= b THEN a ELSE b
<1>1. \E x \in {a, b} : \A y \in {a, b} : x <= y
  OBVIOUS
<1>2. Min({a, b}) \in {a, b} /\ \A y \in {a, b} : Min({a, b}) <= y
  BY <1>1 DEF Min
<1> QED
  BY <1>2

LEMMA CostRises ==
  ASSUME NEW m, m.rtt \in Nat, m.loss \in Nat
  PROVE  /\ Cost(m) \in Nat /\ Cost(m) >= 100
         /\ \A m2 : m2.rtt \in Nat /\ m2.loss \in Nat
                    /\ m2.rtt >= m.rtt /\ m2.loss >= m.loss
                      => Cost(m2) \in Nat /\ Cost(m2) >= Cost(m)
<1>1. ASSUME NEW k, k.rtt \in Nat, k.loss \in Nat
      PROVE  /\ Cost(k) = 100 + 5 * (IF k.rtt >= 2 THEN k.rtt - 2 ELSE 0)
                              + 2 * (IF k.loss <= 100 THEN k.loss ELSE 100)
             /\ Cost(k) \in Nat /\ Cost(k) >= 100
  <2>1. Max({0, k.rtt - 2}) = IF k.rtt >= 2 THEN k.rtt - 2 ELSE 0
    BY <1>1, GreaterOfTwo
  <2>2. Min({k.loss, 100}) = IF k.loss <= 100 THEN k.loss ELSE 100
    BY <1>1, LesserOfTwo
  <2> QED
    BY <1>1, <2>1, <2>2 DEF Cost
<1> QED
  BY <1>1

LEMMA QuotientFalls ==
  ASSUME NEW a \in Nat, NEW c \in Nat \ {0}, NEW d \in Nat \ {0}, c <= d
  PROVE  /\ a \div c \in Nat /\ a \div d \in Nat
         /\ a \div d <= a \div c
<1> DEFINE p == a \div c
           q == a \div d
<1>1. p \in Int /\ q \in Int /\ q * d <= a /\ a < (p + 1) * c /\ p >= 0 /\ q >= 0
  OBVIOUS
<1> HIDE DEF p, q
<1>2. ASSUME q >= p + 1 PROVE FALSE
  <2>1. q * d >= (p + 1) * d
    BY <1>1, <1>2
  <2>2. (p + 1) * d >= (p + 1) * c
    BY <1>1
  <2> QED
    BY <1>1, <2>1, <2>2
<1> QED
  BY <1>1, <1>2 DEF p, q

LEMMA WeightFalls ==
  ASSUME NEW m, m.rtt \in Nat, m.loss \in Nat
  PROVE  /\ Weight(m) \in Nat /\ Weight(m) <= Scale
         /\ \A m2 : m2.rtt \in Nat /\ m2.loss \in Nat
                    /\ m2.rtt >= m.rtt /\ m2.loss >= m.loss
                      => Weight(m2) \in Nat /\ Weight(m2) <= Weight(m)
<1> DEFINE full == 100 * Scale
<1>1. full \in Nat /\ full \div 100 = Scale /\ Scale \in Nat
  BY EngineAssumption
<1> HIDE DEF full
<1>2. Cost(m) \in Nat \ {0} /\ 100 <= Cost(m)
  BY CostRises
<1>3. ASSUME NEW m2, m2.rtt \in Nat, m2.loss \in Nat,
             m2.rtt >= m.rtt, m2.loss >= m.loss
      PROVE  Weight(m2) \in Nat /\ Weight(m2) <= Weight(m)
  <2>1. Cost(m2) \in Nat \ {0} /\ Cost(m) <= Cost(m2)
    BY <1>2, <1>3, CostRises
  <2> QED
    BY <1>1, <1>2, <2>1, QuotientFalls DEF Weight, full
<1>4. Weight(m) \in Nat /\ Weight(m) <= Scale
  BY <1>1, <1>2, QuotientFalls DEF Weight, full
<1> QED
  BY <1>3, <1>4

LEMMA FreshWeight == Weight(FreshMetric) = Scale
<1>1. Max({0, 2 - 2}) = 0 /\ Min({0, 100}) = 0
  BY GreaterOfTwo, LesserOfTwo
<1>2. Cost(FreshMetric) = 100
  BY <1>1 DEF Cost, FreshMetric
<1> QED
  BY <1>2, EngineAssumption DEF Weight

------------------------------------------------------------------------------
(* The sum of the weights over a set, one element after another. *)
Tallied(m, S, g) ==
  [s \in SUBSET S |->
     IF s = {} THEN 0
     ELSE Weight(m[CHOOSE x \in s : TRUE]) + g[s \ {CHOOSE x \in s : TRUE}]]

Tally(m, S) == CHOOSE g : g = Tallied(m, S, g)

WeightSum(m, S) == Tally(m, S)[S]

LEMMA AckedWeightIsSum ==
  ASSUME NEW acks
  PROVE  AckedWeight(acks) = WeightSum(metrics, acks \cap Healthy)
BY DEF AckedWeight, WeightSum, Tally, Tallied, MapThenSumSet, MapThenFoldSet

LEMMA TallyExists ==
  ASSUME NEW S, IsFiniteSet(S), NEW m
  PROVE  \E g : g = Tallied(m, S, g)
<1> DEFINE Agrees(g, s) == g[s] = Tallied(m, S, g)[s]
           UpTo(n) == \E g : g = [s \in SUBSET S |-> g[s]] /\
                       \A s \in SUBSET S : Cardinality(s) <= n => Agrees(g, s)
           Fails == {n \in Nat : ~UpTo(n)}
<1>1. \A s \in SUBSET S : IsFiniteSet(s) /\ Cardinality(s) \in Nat
                          /\ Cardinality(s) <= Cardinality(S)
  BY FS_Subset, FS_CardinalityType
<1>2. UpTo(0)
  <2> DEFINE g == [s \in SUBSET S |-> 0]
  <2>1. \A s \in SUBSET S : Cardinality(s) <= 0 => Agrees(g, s)
    <3>1. ASSUME NEW s \in SUBSET S, Cardinality(s) <= 0 PROVE Agrees(g, s)
      <4>1. s = {}
        BY <1>1, <3>1, FS_EmptySet
      <4> QED
        BY <4>1 DEF Tallied
    <3> QED
      BY <3>1
  <2> QED
    BY <2>1
<1>3. ASSUME NEW n \in Nat, UpTo(n) PROVE UpTo(n + 1)
  <2>1. PICK g : \A s \in SUBSET S : Cardinality(s) <= n => Agrees(g, s)
    BY <1>3
  <2> DEFINE h == Tallied(m, S, g)
  <2>2. h = [s \in SUBSET S |-> h[s]]
    BY DEF Tallied
  <2>3. ASSUME NEW s \in SUBSET S, Cardinality(s) <= n + 1
        PROVE  Agrees(h, s)
    <3>1. CASE s = {}
      BY <3>1 DEF Tallied
    <3>2. CASE s # {}
      <4> DEFINE x == CHOOSE x \in s : TRUE
      <4>1. x \in s
        BY <3>2
      <4>2. s \ {x} \in SUBSET S /\ Cardinality(s \ {x}) <= n
        <5> HIDE DEF x
        <5>1. Cardinality(s \ {x}) = Cardinality(s) - 1
          BY <1>1, <4>1, FS_RemoveElement
        <5> QED
          BY <1>1, <2>3, <5>1
      <4>3. g[s \ {x}] = h[s \ {x}]
        BY <2>1, <4>2
      <4>4. h[s] = Weight(m[x]) + g[s \ {x}]
        BY <3>2 DEF Tallied
      <4>5. Tallied(m, S, h)[s] = Weight(m[x]) + h[s \ {x}]
        BY <3>2 DEF Tallied
      <4> QED
        BY <4>3, <4>4, <4>5
    <3> QED
      BY <3>1, <3>2
  <2>4. \A s \in SUBSET S : Cardinality(s) <= n + 1 => Agrees(h, s)
    BY <2>3
  <2> HIDE DEF h, Agrees
  <2> QED
    BY <2>2, <2>4
<1>4. \A n \in Nat : UpTo(n)
  <2> HIDE DEF UpTo
  <2> SUFFICES ASSUME Fails # {} PROVE FALSE
    OBVIOUS
  <2>1. PICK n \in Fails : \A k \in Fails : n <= k
    BY Fewest
  <2>2. n # 0 /\ n \in Nat /\ n - 1 \notin Fails
    BY <1>2, <2>1
  <2>3. UpTo(n - 1) /\ n - 1 \in Nat
    BY <2>2
  <2>4. UpTo((n - 1) + 1)
    BY <1>3, <2>3
  <2> QED
    BY <2>1, <2>2, <2>4
<1>5. PICK g : g = [s \in SUBSET S |-> g[s]] /\ \A s \in SUBSET S : Agrees(g, s)
  <2>1. UpTo(Cardinality(S))
    BY <1>4, FS_CardinalityType
  <2> QED
    BY <1>1, <2>1
<1>6. g = Tallied(m, S, g)
  <2>1. Tallied(m, S, g) = [s \in SUBSET S |-> Tallied(m, S, g)[s]]
    BY DEF Tallied
  <2> QED
    BY <1>5, <2>1
<1> QED
  BY <1>6

LEMMA TallyStep ==
  ASSUME NEW S, IsFiniteSet(S), NEW m
  PROVE  /\ Tally(m, S)[{}] = 0
         /\ \A s \in SUBSET S : s # {} =>
              \E x \in s : /\ x = CHOOSE y \in s : TRUE
                           /\ Tally(m, S)[s] = Weight(m[x]) + Tally(m, S)[s \ {x}]
<1> DEFINE g == Tally(m, S)
<1>1. g = Tallied(m, S, g)
  BY TallyExists DEF Tally
<1> HIDE DEF g
<1>2. g[{}] = 0
  <2>1. Tallied(m, S, g)[{}] = 0
    BY DEF Tallied
  <2> QED
    BY <1>1, <2>1
<1>3. ASSUME NEW s \in SUBSET S, s # {}
      PROVE  \E x \in s : /\ x = CHOOSE y \in s : TRUE
                          /\ g[s] = Weight(m[x]) + g[s \ {x}]
  <2> DEFINE x == CHOOSE y \in s : TRUE
  <2>1. x \in s
    BY <1>3
  <2>2. Tallied(m, S, g)[s] = Weight(m[x]) + g[s \ {x}]
    BY <1>3 DEF Tallied
  <2>3. g[s] = Weight(m[x]) + g[s \ {x}]
    BY <1>1, <2>2
  <2> QED
    BY <2>1, <2>3
<1> QED
  BY <1>2, <1>3 DEF g

(* Each element adds its weight: bounds of the weights bound their sum. *)
LEMMA SumBetween ==
  ASSUME NEW S, IsFiniteSet(S), NEW m, NEW lo \in Nat, NEW hi \in Nat,
         \A id \in S : /\ Weight(m[id]) \in Nat
                       /\ lo <= Weight(m[id]) /\ Weight(m[id]) <= hi
  PROVE  /\ WeightSum(m, S) \in Nat
         /\ lo * Cardinality(S) <= WeightSum(m, S)
         /\ WeightSum(m, S) <= hi * Cardinality(S)
<1> DEFINE g == Tally(m, S)
           Within(s) == /\ g[s] \in Nat
                        /\ lo * Cardinality(s) <= g[s]
                        /\ g[s] <= hi * Cardinality(s)
           P == {s \in SUBSET S : ~Within(s)}
<1>1. ASSUME P # {} PROVE FALSE
  <2>1. PICK s \in P : IsFiniteSet(s) /\ \A x \in s : s \ {x} \notin P
    <3> HIDE DEF P
    <3>1. P \in SUBSET SUBSET S
      BY DEF P
    <3> QED
      BY <1>1, <3>1, SmallestSubset
  <2>2. s # {}
    <3>1. g[{}] = 0 /\ Cardinality({}) = 0
      BY TallyStep, FS_EmptySet
    <3>2. Within({})
      <4> HIDE DEF g
      <4> QED
        BY <3>1
    <3> HIDE DEF Within
    <3> QED
      BY <2>1, <3>2
  <2>3. PICK x \in s : g[s] = Weight(m[x]) + g[s \ {x}]
    BY <2>1, <2>2, TallyStep
  <2>4. Within(s \ {x})
    <3> HIDE DEF Within
    <3> QED
      BY <2>1, <2>3
  <2>5. /\ Cardinality(s \ {x}) = Cardinality(s) - 1
        /\ Cardinality(s) \in Nat
    BY <2>1, <2>3, FS_RemoveElement, FS_CardinalityType
  <2>6. Weight(m[x]) \in Nat /\ lo <= Weight(m[x]) /\ Weight(m[x]) <= hi
    BY <2>1, <2>3
  <2>7. /\ lo * (Cardinality(s) - 1) + lo = lo * Cardinality(s)
        /\ hi * (Cardinality(s) - 1) + hi = hi * Cardinality(s)
    <3>1. \A k, n \in Nat : k * (n - 1) + k = k * n
      OBVIOUS
    <3> QED
      BY <2>5, <3>1
  <2>8. Within(s)
    <3> HIDE DEF g, P
    <3> DEFINE l == lo * Cardinality(s)
               l1 == lo * (Cardinality(s) - 1)
               h == hi * Cardinality(s)
               h1 == hi * (Cardinality(s) - 1)
    <3>1. /\ l \in Int /\ l1 \in Int /\ l1 + lo = l
          /\ h \in Int /\ h1 \in Int /\ h1 + hi = h
          /\ l1 <= g[s \ {x}] /\ g[s \ {x}] <= h1 /\ g[s \ {x}] \in Nat
      BY <2>4, <2>5, <2>7
    <3> HIDE DEF l, l1, h, h1
    <3>2. g[s] \in Nat /\ l <= g[s] /\ g[s] <= h
      BY <2>3, <2>6, <3>1
    <3> QED
      BY <3>2 DEF l, h
  <2> HIDE DEF Within
  <2> QED
    BY <2>1, <2>8
<1>2. Within(S)
  <2> HIDE DEF Within
  <2> QED
    BY <1>1
<1> QED
  BY <1>2 DEF WeightSum

LEMMA SumAtMost ==
  ASSUME NEW S, IsFiniteSet(S), NEW m, NEW hi \in Nat,
         \A id \in S : Weight(m[id]) \in Nat /\ Weight(m[id]) <= hi
  PROVE  WeightSum(m, S) \in Nat /\ WeightSum(m, S) <= hi * Cardinality(S)
<1>1. \A id \in S : Weight(m[id]) \in Nat /\ 0 <= Weight(m[id]) /\ Weight(m[id]) <= hi
  OBVIOUS
<1>2. /\ WeightSum(m, S) \in Nat
      /\ 0 * Cardinality(S) <= WeightSum(m, S)
      /\ WeightSum(m, S) <= hi * Cardinality(S)
  <2>1. 0 \in Nat
    OBVIOUS
  <2> QED
    BY <1>1, <2>1, SumBetween
<1> QED
  BY <1>2

(* Where every weight falls or stays, so does their sum. *)
LEMMA SumFalls ==
  ASSUME NEW S, IsFiniteSet(S), NEW m, NEW m2,
         \A id \in S : /\ Weight(m[id]) \in Nat /\ Weight(m2[id]) \in Nat
                       /\ Weight(m2[id]) <= Weight(m[id])
  PROVE  /\ WeightSum(m, S) \in Nat /\ WeightSum(m2, S) \in Nat
         /\ WeightSum(m2, S) <= WeightSum(m, S)
<1> DEFINE g == Tally(m, S)
           g2 == Tally(m2, S)
           Falls(s) == g[s] \in Nat /\ g2[s] \in Nat /\ g2[s] <= g[s]
           P == {s \in SUBSET S : ~Falls(s)}
<1>1. ASSUME P # {} PROVE FALSE
  <2>1. PICK s \in P : \A x \in s : s \ {x} \notin P
    <3> HIDE DEF P
    <3>1. P \in SUBSET SUBSET S
      BY DEF P
    <3> QED
      BY <1>1, <3>1, SmallestSubset
  <2>2. s # {}
    <3>1. g[{}] = 0 /\ g2[{}] = 0
      BY TallyStep
    <3>2. Falls({})
      <4> HIDE DEF g, g2
      <4> QED
        BY <3>1
    <3> HIDE DEF Falls
    <3> QED
      BY <2>1, <3>2
  <2>3. PICK x \in s : /\ g[s] = Weight(m[x]) + g[s \ {x}]
                       /\ g2[s] = Weight(m2[x]) + g2[s \ {x}]
    <3>1. PICK x \in s : /\ x = CHOOSE y \in s : TRUE
                         /\ g[s] = Weight(m[x]) + g[s \ {x}]
      BY <2>1, <2>2, TallyStep
    <3>2. PICK y \in s : /\ y = CHOOSE z \in s : TRUE
                         /\ g2[s] = Weight(m2[y]) + g2[s \ {y}]
      BY <2>1, <2>2, TallyStep
    <3> HIDE DEF g, g2
    <3> QED
      BY <3>1, <3>2
  <2>4. Falls(s \ {x})
    <3> HIDE DEF Falls
    <3> QED
      BY <2>1, <2>3
  <2>5. Falls(s)
    <3>1. /\ Weight(m[x]) \in Nat /\ Weight(m2[x]) \in Nat
          /\ Weight(m2[x]) <= Weight(m[x])
      BY <2>1, <2>3
    <3> HIDE DEF g, g2, P
    <3> QED
      BY <2>3, <2>4, <3>1
  <2> HIDE DEF Falls
  <2> QED
    BY <2>1, <2>5
<1>2. Falls(S)
  <2> HIDE DEF Falls
  <2> QED
    BY <1>1
<1> QED
  BY <1>2 DEF WeightSum

------------------------------------------------------------------------------
(* The engine knows every member of the cluster, in each mode and after any *)
(* (re-)initializations and reports (Cluster::initialize, register_node,    *)
(* update_telemetry).                                                       *)
LEMMA SizeIsId ==
  ASSUME NEW n \in Sizes
  PROVE  n \in Nat \ {0} /\ 1..n \subseteq Id
<1>1. Sizes \in SUBSET Nat /\ Sizes # {} /\ IsFiniteSet(Sizes)
  BY EngineAssumption
<1>2. Max(Sizes) \in Sizes /\ n <= Max(Sizes)
  BY <1>1, GreatestOfSizes
<1>3. n \in Nat \ {0} /\ Max(Sizes) \in Nat
  BY <1>1, <1>2, EngineAssumption
<1>4. 1..n \subseteq 1..Max(Sizes)
  BY <1>2, <1>3
<1> QED
  BY <1>3, <1>4 DEF Id

LEMMA FreshMetricType == FreshMetric \in Metric
<1> DEFINE r == [rtt |-> 2, loss |-> 0]
<1>1. r \in Reports /\ FreshMetric = [rtt |-> r.rtt, loss |-> r.loss, healthy |-> TRUE]
  BY EngineAssumption DEF FreshMetric
<1>2. ASSUME NEW q \in Reports, NEW h \in BOOLEAN
      PROVE  [rtt |-> q.rtt, loss |-> q.loss, healthy |-> h] \in Metric
  BY DEF Metric
<1> HIDE DEF r
<1> QED
  BY <1>1, <1>2

LEMMA MetricType ==
  ASSUME NEW m \in Metric
  PROVE  /\ m.rtt \in Nat /\ m.loss \in Nat /\ m.healthy \in BOOLEAN
         /\ Weight(m) \in Nat /\ Weight(m) <= Scale
<1>1. m.rtt \in Nat /\ m.loss \in Nat /\ m.healthy \in BOOLEAN
  BY EngineAssumption DEF Metric
<1> QED
  BY <1>1, WeightFalls

LEMMA TypesInitially == Init => TypeOK
<1> SUFFICES ASSUME Init PROVE TypeOK
  OBVIOUS
<1>1. total \in Nat \ {0} /\ 1..total \subseteq Id
  BY SizeIsId DEF Init
<1> QED
  BY <1>1, FreshMetricType DEF Init, TypeOK, Members, Modes

LEMMA TypesNext == TypeOK /\ [Next]_vars => TypeOK'
<1> SUFFICES ASSUME TypeOK, [Next]_vars PROVE TypeOK'
  OBVIOUS
<1>1. ASSUME NEW n \in Sizes, Initialize(n) PROVE TypeOK'
  <2>1. DOMAIN metrics' = DOMAIN metrics \cup 1..n
    BY <1>1 DEF Initialize, Registered
  <2>2. \A id \in DOMAIN metrics' : metrics'[id] \in Metric
    BY <1>1, FreshMetricType DEF Initialize, Registered, TypeOK
  <2> QED
    BY <1>1, <2>1, <2>2, SizeIsId DEF TypeOK, Members, Initialize
<1>2. ASSUME NEW m \in Modes, SetMode(m) PROVE TypeOK'
  BY <1>2 DEF TypeOK, Members, SetMode
<1>3. ASSUME NEW id \in Id, NEW m \in Metric, UpdateTelemetry(id, m)
      PROVE  TypeOK'
  BY <1>3 DEF TypeOK, Members, UpdateTelemetry
<1>4. CASE UNCHANGED vars
  BY <1>4 DEF TypeOK, Members, vars
<1> QED
  BY <1>1, <1>2, <1>3, <1>4 DEF Next

(* The engine keeps its types through re-initializations, changes of mode   *)
(* and telemetry, and the metrics cover the nodes the cluster has.          *)
THEOREM EngineTypeCorrect == Spec => []TypeOK
BY TypesInitially, TypesNext, PTL DEF Spec

LEMMA KnownNodes ==
  ASSUME TypeOK
  PROVE  /\ total \in Nat \ {0} /\ IsFiniteSet(Members)
         /\ Cardinality(Members) = total
         /\ IsFiniteSet(DOMAIN metrics) /\ Members \subseteq DOMAIN metrics
         /\ IsFiniteSet(Healthy) /\ Cardinality(Healthy) \in Nat
         /\ \A acks : /\ IsFiniteSet(acks \cap Healthy)
                      /\ Cardinality(acks \cap Healthy) \in Nat
<1>1. total \in Nat \ {0}
  BY SizeIsId DEF TypeOK
<1>2. IsFiniteSet(Members) /\ Cardinality(Members) = total
  BY <1>1, FS_Interval DEF Members
<1>3. Max(Sizes) \in Nat
  BY EngineAssumption, GreatestOfSizes
<1>4. IsFiniteSet(Id) /\ DOMAIN metrics \subseteq Id
  BY <1>3, FS_Interval DEF Id, TypeOK
<1>5. IsFiniteSet(DOMAIN metrics)
  BY <1>4, FS_Subset
<1>6. Healthy \subseteq DOMAIN metrics
  BY DEF Healthy
<1>7. IsFiniteSet(Healthy)
  BY <1>5, <1>6, FS_Subset
<1>8. ASSUME NEW acks
      PROVE  IsFiniteSet(acks \cap Healthy) /\ Cardinality(acks \cap Healthy) \in Nat
  <2>1. acks \cap Healthy \subseteq Healthy
    OBVIOUS
  <2> QED
    BY <1>7, <2>1, FS_Subset, FS_CardinalityType
<1> QED
  BY <1>1, <1>2, <1>5, <1>7, <1>8, FS_CardinalityType DEF TypeOK

(* What is_quorum_satisfied sums up is at most one unit of Scale per node   *)
(* that has acknowledged and is healthy.                                    *)
LEMMA AckedWeightBound ==
  ASSUME TypeOK, NEW acks
  PROVE  /\ AckedWeight(acks) \in Nat
         /\ AckedWeight(acks) <= Scale * Cardinality(acks \cap Healthy)
<1> DEFINE S == acks \cap Healthy
<1>1. IsFiniteSet(S)
  BY KnownNodes
<1>2. \A id \in S : Weight(metrics[id]) \in Nat /\ Weight(metrics[id]) <= Scale
  BY MetricType DEF TypeOK, Healthy
<1>3. AckedWeight(acks) = WeightSum(metrics, S)
  BY AckedWeightIsSum
<1> HIDE DEF S
<1>4. WeightSum(metrics, S) \in Nat /\ WeightSum(metrics, S) <= Scale * Cardinality(S)
  BY <1>1, <1>2, SumAtMost, EngineAssumption
<1> QED
  BY <1>3, <1>4 DEF S

LEMMA ScaleCancels ==
  ASSUME NEW a \in Int, NEW b \in Int, Scale * a >= Scale * b
  PROVE  a >= b
<1>1. ASSUME b >= a + 1 PROVE FALSE
  <2>1. Scale \in Nat /\ Scale >= 1
    BY EngineAssumption
  <2>2. Scale * b >= Scale * (a + 1)
    BY <1>1, <2>1
  <2>3. Scale * (a + 1) = Scale * a + Scale
    BY <2>1
  <2> DEFINE sa == Scale * a
             sb == Scale * b
  <2>4. sa \in Int /\ sb \in Int
    BY <2>1
  <2> QED
    BY <2>1, <2>2, <2>3, <2>4
<1> QED
  BY <1>1

------------------------------------------------------------------------------
(* Slow or lossy nodes weigh less and nothing else (is_quorum_satisfied).   *)
LEMMA HealthyShare ==
  ASSUME TypeOK, mode = "QuorumShiftDynamic",
         NEW acks, Satisfied(acks)
  PROVE  100 * Cardinality(acks \cap Healthy) >= 35 * Cardinality(Healthy)
<1> DEFINE a == Cardinality(acks \cap Healthy)
           h == Cardinality(Healthy)
           w == AckedWeight(acks)
           sa == Scale * a
           sh == Scale * h
<1>1. 100 * w >= 35 * sh
  BY DEF Satisfied, Capacity, CommitShare, Modes
<1>2. a \in Nat /\ h \in Nat /\ Scale \in Nat
  BY KnownNodes, EngineAssumption
<1>3. w \in Nat /\ w <= sa
  BY AckedWeightBound
<1>4. sa \in Nat /\ sh \in Nat
  BY <1>2
<1> HIDE DEF a, h, w
<1>5. 100 * sa >= 35 * sh
  <2> HIDE DEF sa, sh
  <2> QED
    BY <1>1, <1>3, <1>4
<1>6. Scale * (100 * a) = 100 * sa /\ Scale * (35 * h) = 35 * sh
  BY <1>2
<1>7. Scale * (100 * a) >= Scale * (35 * h) /\ 100 * a \in Int /\ 35 * h \in Int
  BY <1>2, <1>5, <1>6
<1>8. 100 * a >= 35 * h
  <2> HIDE DEF sa, sh
  <2> QED
    BY <1>7, ScaleCancels
<1> QED
  BY <1>8 DEF a, h

(* A commit in the dynamic mode has the acks of at least 35 % of the        *)
(* healthy nodes, in number and not only in weight, since no node weighs    *)
(* more than one that is fresh (quorum_engine.cpp:83-87).  Where no node is *)
(* healthy the threshold is 0, and any ack commits.                         *)
THEOREM HealthyNodesBackCommits == Spec => []HealthyAcksCommit
<1>1. ASSUME TypeOK, mode = "QuorumShiftDynamic", Healthy = {}, NEW acks
      PROVE  Satisfied(acks) <=> acks # {}
  <2>1. Cardinality(Healthy) = 0 /\ Cardinality(acks \cap Healthy) = 0
    BY <1>1, FS_EmptySet
  <2>2. AckedWeight(acks) = 0 /\ Capacity = 0
    BY <1>1, <2>1, AckedWeightBound, EngineAssumption DEF Capacity
  <2> QED
    BY <1>1, <2>2 DEF Satisfied, CommitShare
<1>2. TypeOK => HealthyAcksCommit
  BY <1>1, HealthyShare DEF HealthyAcksCommit, CommitShare
<1> QED
  BY <1>2, EngineTypeCorrect, PTL

(* What WeighsLessThanShare says of an RTT and a loss rate it says of the   *)
(* weight (with the weights exact, for rounding could take one below).      *)
LEMMA WeightAndShare ==
  ASSUME TypeOK, NEW id \in Healthy
  PROVE  /\ Weight(metrics[id]) \in Nat /\ Weight(metrics[id]) <= Scale
         /\ WeighsLessThanShare(id) <=> 100 * Weight(metrics[id]) < 35 * Scale
<1> DEFINE c == Cost(metrics[id])
           w == Weight(metrics[id])
           full == 100 * Scale
<1>1. metrics[id] \in Metric
  BY DEF TypeOK, Healthy
<1>2. /\ metrics[id].rtt \in Nat /\ metrics[id].loss \in Nat
      /\ w \in Nat /\ w <= Scale
  BY <1>1, MetricType
<1>3. c \in Nat /\ c >= 100
  BY <1>2, CostRises
<1>4. full % c = 0
  <2>1. PICK r \in Reports : metrics[id].rtt = r.rtt /\ metrics[id].loss = r.loss
    BY <1>1 DEF Metric
  <2>2. Cost(r) = c
    BY <2>1 DEF Cost
  <2> QED
    BY <2>2, WeightsAreExact
<1>5. full \in Nat /\ Scale \in Nat \ {0}
  BY EngineAssumption
<1>6. w = full \div c
  BY DEF Weight
<1>7. WeighsLessThanShare(id) <=> 35 * c > 10000
  BY DEF WeighsLessThanShare, CommitShare
<1> HIDE DEF c, w
<1>8. w * c = 100 * Scale
  <2> HIDE DEF full
  <2>1. full = c * (full \div c) + (full % c)
    BY <1>3, <1>5
  <2>2. full = c * w
    BY <1>2, <1>3, <1>4, <1>6, <2>1
  <2> QED
    BY <1>2, <1>3, <2>2 DEF full
<1>9. ASSUME 35 * c > 10000, 100 * w >= 35 * Scale PROVE FALSE
  <2>1. (100 * w) * c >= (35 * Scale) * c
    BY <1>2, <1>3, <1>5, <1>9
  <2>2. Scale * (35 * c) >= Scale * 10001
    BY <1>3, <1>5, <1>9
  <2>3. (100 * w) * c = 10000 * Scale
    BY <1>2, <1>3, <1>5, <1>8
  <2>4. (35 * Scale) * c = Scale * (35 * c)
    BY <1>3, <1>5
  <2> QED
    BY <1>3, <1>5, <2>1, <2>2, <2>3, <2>4
<1>10. ASSUME 35 * c <= 10000, 100 * w < 35 * Scale PROVE FALSE
  <2>1. (100 * w) * c < (35 * Scale) * c
    BY <1>2, <1>3, <1>5, <1>10
  <2>2. Scale * (35 * c) <= Scale * 10000
    BY <1>3, <1>5, <1>10
  <2>3. (100 * w) * c = 10000 * Scale
    BY <1>2, <1>3, <1>5, <1>8
  <2>4. (35 * Scale) * c = Scale * (35 * c)
    BY <1>3, <1>5
  <2> QED
    BY <1>3, <1>5, <2>1, <2>2, <2>3, <2>4
<1>11. 35 * c > 10000 <=> 100 * w < 35 * Scale
  BY <1>2, <1>3, <1>5, <1>9, <1>10
<1> QED
  BY <1>2, <1>7, <1>11 DEF w

LEMMA AllBelowShare ==
  ASSUME TypeOK, mode = "QuorumShiftDynamic", Healthy # {}, NEW acks,
         \A id \in Healthy : WeighsLessThanShare(id)
  PROVE  ~Satisfied(acks)
<1> DEFINE S == acks \cap Healthy
           hi == (35 * Scale - 1) \div 100
           w == WeightSum(metrics, S)
           a == Cardinality(S)
           h == Cardinality(Healthy)
<1>1. Scale \in Nat \ {0}
  BY EngineAssumption
<1>2. hi \in Nat /\ 100 * hi < 35 * Scale
  BY <1>1
<1>3. ASSUME NEW id \in S
      PROVE  Weight(metrics[id]) \in Nat /\ Weight(metrics[id]) <= hi
  BY <1>1, <1>3, WeightAndShare
<1>4. IsFiniteSet(S) /\ a \in Nat /\ h \in Nat
  BY KnownNodes
<1>5. h > 0 /\ a <= h
  BY <1>4, KnownNodes, FS_EmptySet, FS_Subset
<1> HIDE DEF hi, S
<1>6. w \in Nat /\ w <= hi * a
  BY <1>2, <1>3, <1>4, SumAtMost
<1> HIDE DEF w, a, h
<1>7. hi * a <= hi * h
  BY <1>2, <1>4, <1>5
<1>8. (100 * hi) * h < (35 * Scale) * h
  BY <1>1, <1>2, <1>4, <1>5
<1>9. 100 * (hi * h) = (100 * hi) * h /\ (35 * Scale) * h = 35 * (Scale * h)
  BY <1>1, <1>2, <1>4
<1>10. 100 * w < 35 * (Scale * h)
  <2> DEFINE ha == hi * a
             hh == hi * h
             sh == Scale * h
  <2>1. ha \in Int /\ hh \in Int /\ sh \in Int /\ w <= ha /\ ha <= hh
        /\ 100 * hh < 35 * sh
    BY <1>1, <1>2, <1>4, <1>6, <1>7, <1>8, <1>9
  <2> HIDE DEF ha, hh, sh
  <2>2. 100 * w < 35 * sh
    BY <1>6, <2>1
  <2> QED
    BY <2>2 DEF sh
<1>11. AckedWeight(acks) = w /\ Capacity = Scale * h
  BY AckedWeightIsSum DEF w, S, h, Capacity
<1>12. Capacity \in Int
  BY <1>1, <1>4, <1>11
<1> QED
  BY <1>6, <1>10, <1>11, <1>12 DEF Satisfied, CommitShare

LEMMA NoneBelowShare ==
  ASSUME TypeOK, mode = "QuorumShiftDynamic", Healthy # {}, NEW acks,
         Healthy \subseteq acks,
         \A id \in Healthy : ~WeighsLessThanShare(id)
  PROVE  Satisfied(acks)
<1> DEFINE lo == (35 * Scale + 99) \div 100
           w == WeightSum(metrics, Healthy)
           h == Cardinality(Healthy)
<1>1. Scale \in Nat \ {0}
  BY EngineAssumption
<1>2. lo \in Nat /\ 100 * lo >= 35 * Scale
  BY <1>1
<1>3. ASSUME NEW id \in Healthy
      PROVE  /\ Weight(metrics[id]) \in Nat /\ Weight(metrics[id]) <= Scale
             /\ lo <= Weight(metrics[id])
  BY <1>1, <1>3, WeightAndShare
<1>4. IsFiniteSet(Healthy) /\ h \in Nat
  BY KnownNodes
<1> HIDE DEF lo
<1>5. w \in Nat /\ lo * h <= w
  <2>1. \A id \in Healthy : /\ Weight(metrics[id]) \in Nat
                            /\ lo <= Weight(metrics[id]) /\ Weight(metrics[id]) <= Scale
    BY <1>3
  <2> QED
    BY <1>1, <1>2, <1>4, <2>1, SumBetween
<1> HIDE DEF w, h
<1>6. (100 * lo) * h >= (35 * Scale) * h
  BY <1>1, <1>2, <1>4
<1>7. (100 * lo) * h = 100 * (lo * h) /\ (35 * Scale) * h = 35 * (Scale * h)
  BY <1>1, <1>2, <1>4
<1>8. 100 * w >= 35 * (Scale * h)
  <2> DEFINE lh == lo * h
             sh == Scale * h
  <2>1. lh \in Int /\ sh \in Int /\ lh <= w /\ 100 * lh >= 35 * sh
    BY <1>1, <1>2, <1>4, <1>5, <1>6, <1>7
  <2> HIDE DEF lh, sh
  <2>2. 100 * w >= 35 * sh
    BY <1>5, <2>1
  <2> QED
    BY <2>2 DEF sh
<1>9. acks \cap Healthy = Healthy /\ acks # {}
  OBVIOUS
<1>10. AckedWeight(acks) = w /\ Capacity = Scale * h
  BY <1>9, AckedWeightIsSum DEF w, h, Capacity
<1> QED
  BY <1>8, <1>9, <1>10 DEF Satisfied, CommitShare

(* While some node is healthy, no number of acks commits if every healthy   *)
(* node weighs less than 0.35, and the acks of all healthy nodes do if none *)
(* does (quorum_engine.cpp:79-87), for any sizes and telemetry.             *)
THEOREM SlowClustersStall == Spec => []SlowClusterStalls
<1>1. TypeOK => SlowClusterStalls
  BY AllBelowShare, NoneBelowShare DEF SlowClusterStalls
<1> QED
  BY <1>1, EngineTypeCorrect, PTL

(* Among at most four members, none of them reported unhealthy, and under   *)
(* StaticMajority among any number, the acks of a commit include a member   *)
(* of every election majority (VoteQuorum of start_election).               *)
LEMMA SmallQuorumsMeet ==
  ASSUME TypeOK, mode = "StaticMajority" \/ (total <= 4 /\ Members \subseteq Healthy),
         NEW acks \in SUBSET Members, Satisfied(acks), NEW Q \in ElectionQuorums
  PROVE  Q \cap acks # {}
<1>1. /\ total \in Nat \ {0} /\ IsFiniteSet(Members) /\ Cardinality(Members) = total
      /\ IsFiniteSet(Healthy) /\ Cardinality(Healthy) \in Nat
  BY KnownNodes
<1>2. Q \in SUBSET Members /\ 2 * Cardinality(Q) > total
  BY DEF ElectionQuorums
<1>3. Cardinality(Q) \in Nat /\ Cardinality(acks) \in Nat
  BY <1>1, <1>2, FS_Subset, FS_CardinalityType
<1>4. SUFFICES Cardinality(Q) + Cardinality(acks) > total
  BY <1>1, <1>2, FS_MajoritiesIntersect
<1>5. CASE mode = "StaticMajority"
  BY <1>1, <1>2, <1>3, <1>5 DEF Satisfied, MajorityThreshold
<1>6. CASE mode = "StaticFlexible" /\ total <= 4
  BY <1>1, <1>2, <1>3, <1>6 DEF Satisfied, FlexibleThreshold
<1>7. CASE mode = "QuorumShiftDynamic" /\ total <= 4 /\ Members \subseteq Healthy
  <2>1. acks \cap Healthy = acks
    BY <1>7
  <2>2. 100 * Cardinality(acks) >= 35 * Cardinality(Healthy)
    BY <1>7, <2>1, HealthyShare
  <2>3. Cardinality(Healthy) >= total
    BY <1>1, <1>7, FS_Subset
  <2> QED
    BY <1>1, <1>2, <1>3, <1>7, <2>2, <2>3
<1> QED
  BY <1>5, <1>6, <1>7 DEF TypeOK, Modes

(* With the fixed majority, or in any mode up to four nodes of which none   *)
(* is reported unhealthy, a commit and an election majority share a node,   *)
(* whatever the RTTs, the losses and the metrics left over.                 *)
THEOREM SmallCommitsMeetElections == Spec => []CommitsMeetElectionsWhenSmall
<1>1. TypeOK => CommitsMeetElectionsWhenSmall
  BY SmallQuorumsMeet DEF CommitsMeetElectionsWhenSmall
<1> QED
  BY <1>1, EngineTypeCorrect, PTL

(* With fresh metrics, what the engine asks for is FlatThreshold, the rule  *)
(* of module Cluster; nodes left over in metrics_ only make it harder.      *)
LEMMA FreshThreshold ==
  ASSUME TypeOK, \A id \in DOMAIN metrics : metrics[id] = FreshMetric,
         NEW acks \in SUBSET Members
  PROVE  LET enough == Cardinality(acks) >= FlatThreshold(mode, total) IN
         /\ Satisfied(acks) => enough
         /\ enough /\ DOMAIN metrics = Members => Satisfied(acks)
<1>1. /\ total \in Nat \ {0} /\ IsFiniteSet(Members) /\ Cardinality(Members) = total
      /\ IsFiniteSet(Healthy) /\ Cardinality(Healthy) \in Nat
      /\ Members \subseteq DOMAIN metrics
  BY KnownNodes
<1>2. Healthy = DOMAIN metrics
  BY DEF Healthy, FreshMetric
<1>3. acks \cap Healthy = acks /\ IsFiniteSet(acks) /\ Cardinality(acks) \in Nat
  BY <1>1, <1>2, FS_Subset, FS_CardinalityType
<1>4. Cardinality(Healthy) >= total /\ (DOMAIN metrics = Members => Cardinality(Healthy) = total)
  BY <1>1, <1>2, FS_Subset
<1>5. CASE mode = "StaticMajority"
  BY <1>5 DEF Satisfied, FlatThreshold
<1>6. CASE mode = "StaticFlexible"
  BY <1>6 DEF Satisfied, FlatThreshold
<1>7. CASE mode = "QuorumShiftDynamic"
  <2> DEFINE a == Cardinality(acks)
             h == Cardinality(Healthy)
  <2>1. AckedWeight(acks) = Scale * a
    <3>1. \A id \in acks : Weight(metrics[id]) = Scale
      BY <1>1, FreshWeight
    <3>2. Scale \in Nat
      BY EngineAssumption
    <3> DEFINE top == Scale * a
               sum == WeightSum(metrics, acks)
    <3>3. sum \in Nat /\ top <= sum /\ sum <= top /\ top \in Nat
      <4>1. \A id \in acks : /\ Weight(metrics[id]) \in Nat
                             /\ Scale <= Weight(metrics[id])
                             /\ Weight(metrics[id]) <= Scale
        BY <3>1, <3>2
      <4>2. /\ WeightSum(metrics, acks) \in Nat
            /\ Scale * Cardinality(acks) <= WeightSum(metrics, acks)
            /\ WeightSum(metrics, acks) <= Scale * Cardinality(acks)
        BY <1>3, <3>2, <4>1, SumBetween
      <4> QED
        BY <1>3, <3>2, <4>2
    <3>4. sum = top
      <4> HIDE DEF sum, top
      <4> QED
        BY <3>3
    <3> QED
      BY <1>3, <3>4, AckedWeightIsSum
  <2>2. Satisfied(acks) <=> acks # {} /\ 100 * (Scale * a) >= 35 * (Scale * h)
    BY <1>7, <2>1 DEF Satisfied, Capacity, CommitShare
  <2>3. Satisfied(acks) => 100 * a >= 35 * h
    BY <1>3, <1>7, HealthyShare
  <2>4. 100 * a >= 35 * h /\ h > 0 => Satisfied(acks)
    <3> SUFFICES ASSUME 100 * a >= 35 * h, h > 0
                 PROVE  acks # {} /\ 100 * (Scale * a) >= 35 * (Scale * h)
      BY <2>2
    <3>0. acks # {}
      BY <1>1, FS_EmptySet
    <3> HIDE DEF a, h
    <3>1. a \in Nat /\ h \in Nat /\ Scale \in Nat
      BY <1>1, <1>3, EngineAssumption DEF a, h
    <3>2. Scale * (100 * a) >= Scale * (35 * h)
      BY <3>1
    <3>3. Scale * (100 * a) = 100 * (Scale * a) /\ Scale * (35 * h) = 35 * (Scale * h)
      BY <3>1
    <3> QED
      BY <3>0, <3>2, <3>3
  <2>5. a >= FlatThreshold(mode, total) <=> 100 * a >= 35 * total
    <3>1. FlatThreshold(mode, total) = (35 * total + 99) \div 100
      BY <1>7 DEF FlatThreshold, CommitShare
    <3> HIDE DEF a
    <3>2. a \in Nat
      BY <1>3 DEF a
    <3> QED
      BY <1>1, <3>1, <3>2
  <2> HIDE DEF a, h
  <2>6. a \in Nat /\ h \in Nat /\ h >= total
    BY <1>1, <1>3, <1>4 DEF a, h
  <2>7. Satisfied(acks) => a >= FlatThreshold(mode, total)
    BY <1>1, <2>3, <2>5, <2>6
  <2>8. ASSUME DOMAIN metrics = Members, a >= FlatThreshold(mode, total)
        PROVE  Satisfied(acks)
    <3>1. h = total
      BY <1>4, <2>8 DEF h
    <3> QED
      BY <1>1, <2>4, <2>5, <2>8, <3>1
  <2> QED
    BY <2>7, <2>8 DEF a
<1> QED
  BY <1>5, <1>6, <1>7 DEF TypeOK, Modes

(* On metrics as registered the rule of the engine is the fixed threshold   *)
(* of QuorumRules, which Cluster relies on; metrics left over from a larger *)
(* cluster never make a commit easier.                                      *)
THEOREM FreshMetricsAreFlat == Spec => []FreshMetricsGiveFlatThreshold
<1>1. TypeOK => FreshMetricsGiveFlatThreshold
  BY FreshThreshold DEF FreshMetricsGiveFlatThreshold
<1> QED
  BY <1>1, EngineTypeCorrect, PTL

------------------------------------------------------------------------------
(* Reporting a node slower or lossier never turns acks that were too few    *)
(* into enough (update_telemetry, calculate_node_weight).                   *)
LEMMA SlowerSatisfiesLess ==
  ASSUME TypeOK, TypeOK', DOMAIN metrics' = DOMAIN metrics,
         UNCHANGED <<mode, total>>,
         \A id \in DOMAIN metrics : Slower(metrics[id], metrics'[id]),
         NEW acks, Satisfied(acks)'
  PROVE  Satisfied(acks)
<1>1. mode' = mode /\ total' = total
  OBVIOUS
<1>2. CASE mode # "QuorumShiftDynamic"
  BY <1>1, <1>2 DEF Satisfied, TypeOK, Modes
<1>3. CASE mode = "QuorumShiftDynamic"
  <2> DEFINE S == acks \cap Healthy
  <2>1. Healthy' = Healthy
    BY DEF Healthy, Slower
  <2>2. IsFiniteSet(S)
    BY KnownNodes
  <2>3. \A id \in S : /\ Weight(metrics[id]) \in Nat /\ Weight(metrics'[id]) \in Nat
                      /\ Weight(metrics'[id]) <= Weight(metrics[id])
    <3> SUFFICES ASSUME NEW id \in S
                 PROVE  /\ Weight(metrics[id]) \in Nat /\ Weight(metrics'[id]) \in Nat
                        /\ Weight(metrics'[id]) <= Weight(metrics[id])
      OBVIOUS
    <3>1. id \in DOMAIN metrics
      BY DEF Healthy
    <3>2. metrics[id] \in Metric /\ metrics'[id] \in Metric
      BY <3>1 DEF TypeOK
    <3>3. metrics'[id].rtt >= metrics[id].rtt /\ metrics'[id].loss >= metrics[id].loss
      BY <3>1 DEF Slower
    <3> QED
      BY <3>2, <3>3, MetricType, WeightFalls
  <2>4. AckedWeight(acks) = WeightSum(metrics, S)
    BY AckedWeightIsSum
  <2>5. AckedWeight(acks)' = WeightSum(metrics', S)
    BY <2>1 DEF AckedWeight, WeightSum, Tally, Tallied, MapThenSumSet, MapThenFoldSet
  <2>6. Capacity' = Capacity /\ Capacity \in Nat
    BY <2>1, KnownNodes, EngineAssumption DEF Capacity
  <2>7. acks # {} /\ 100 * AckedWeight(acks)' >= 35 * Capacity
    BY <1>1, <1>3, <2>6 DEF Satisfied, CommitShare
  <2>8. /\ AckedWeight(acks) \in Nat /\ AckedWeight(acks)' \in Nat
        /\ AckedWeight(acks)' <= AckedWeight(acks)
    <3> HIDE DEF S
    <3>1. /\ WeightSum(metrics, S) \in Nat /\ WeightSum(metrics', S) \in Nat
          /\ WeightSum(metrics', S) <= WeightSum(metrics, S)
      BY <2>2, <2>3, SumFalls
    <3> QED
      BY <2>4, <2>5, <3>1
  <2>9. 100 * AckedWeight(acks) >= 35 * Capacity
    BY <2>6, <2>7, <2>8
  <2> QED
    BY <1>3, <2>7, <2>9 DEF Satisfied, CommitShare
<1> QED
  BY <1>2, <1>3

(* Telemetry that makes nodes slower or lossier, and changes nothing else,  *)
(* never turns acks that were not enough into acks that are.                *)
THEOREM SlowdownIsSafe == Spec => SlowdownNeverEasesCommit
<1> DEFINE A == (/\ DOMAIN metrics' = DOMAIN metrics /\ UNCHANGED <<mode, total>>
                 /\ \A id \in DOMAIN metrics : Slower(metrics[id], metrics'[id]))
                  => \A acks \in SUBSET Members : Satisfied(acks)' => Satisfied(acks)
<1>1. TypeOK /\ TypeOK' /\ [Next]_vars => [A]_vars
  BY SlowerSatisfiesLess
<1>2. Spec => [][A]_vars
  <2> HIDE DEF A
  <2> QED
    BY <1>1, EngineTypeCorrect, PTL DEF Spec
<1> QED
  BY <1>2 DEF SlowdownNeverEasesCommit
==============================================================================
