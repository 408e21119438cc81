------------------------ MODULE AdaptiveReplicaProofs ------------------------
(****************************************************************************)
(* Theorems of AdaptiveReplica, for any number of nodes that its assumption *)
(* allows, any reports and any workloads, and for every order in which      *)
(* std::sort and the hash map of racks may leave equals.                    *)
(****************************************************************************)
EXTENDS AdaptiveReplica, FiniteSetTheorems, WellFoundedInduction, TLAPS

LEMMA Smallest ==
  ASSUME NEW T \in SUBSET Nat, T # {}
  PROVE  \E x \in T : \A y \in T : x <= y
<1> DEFINE R == OpToRel(<, Nat)
<1>1. PICK x \in T : \A y \in T : <<y, x>> \notin R
  <2>1. IsWellFoundedOn(R, Nat)
    BY NatLessThanWellFounded
  <2> HIDE DEF R
  <2> QED
    BY <2>1, WFMin
<1>2. \A y \in T : ~(y < x)
  BY <1>1 DEF OpToRel
<1> QED
  BY <1>2

LEMMA MinOfSet ==
  ASSUME NEW T \in SUBSET Nat, T # {}
  PROVE  Min(T) \in T
<1>1. \E x \in T : \A y \in T : x <= y
  BY Smallest
<1> QED
  BY <1>1 DEF Min

LEMMA MinOfTwo ==
  ASSUME NEW a \in Int, NEW b \in Int
  PROVE  Min({a, b}) = IF a <= b THEN a ELSE b
<1>1. \E x \in {a, b} : \A y \in {a, b} : x <= y
  OBVIOUS
<1>2. Min({a, b}) \in {a, b} /\ \A y \in {a, b} : Min({a, b}) <= y
  BY <1>1 DEF Min
<1> QED
  BY <1>2

LEMMA MaxOfTwo ==
  ASSUME NEW a \in Int, NEW b \in Int
  PROVE  Max({a, b}) = IF a >= b THEN a ELSE b
<1>1. \E x \in {a, b} : \A y \in {a, b} : x >= y
  OBVIOUS
<1>2. Max({a, b}) \in {a, b} /\ \A y \in {a, b} : Max({a, b}) >= y
  BY <1>1 DEF Max
<1> QED
  BY <1>2

------------------------------------------------------------------------------
(* The first k of a set in an order without ties: as many as there are, up  *)
(* to k.                                                                    *)
Before(S, f, x) == {y \in S : f[y] < f[x]}
FirstBy(S, f, k) == {x \in S : Cardinality(Before(S, f, x)) < k}

LEMMA RanksRise ==
  ASSUME NEW S, IsFiniteSet(S), NEW f \in [S -> Nat],
         NEW x \in S, NEW y \in S, f[x] < f[y]
  PROVE  Cardinality(Before(S, f, x)) < Cardinality(Before(S, f, y))
<1> DEFINE A == Before(S, f, x)
           B == Before(S, f, y)
<1>1. A \in SUBSET B /\ B \in SUBSET S /\ x \in B /\ x \notin A
  <2>1. \A z \in S : f[z] \in Nat
    OBVIOUS
  <2> QED
    BY <2>1 DEF Before
<1> HIDE DEF A, B
<1>2. IsFiniteSet(B) /\ Cardinality(B) \in Nat
  BY <1>1, FS_Subset, FS_CardinalityType
<1>3. IsFiniteSet(A) /\ Cardinality(A) \in Nat /\ Cardinality(A) <= Cardinality(B)
      /\ Cardinality(A) # Cardinality(B)
  BY <1>1, <1>2, FS_Subset, FS_CardinalityType
<1> QED
  BY <1>2, <1>3 DEF A, B

LEMMA FirstAreAtMost ==
  ASSUME NEW S, IsFiniteSet(S), NEW f \in [S -> Nat], NEW k \in Nat,
         \A x, y \in S : f[x] = f[y] => x = y
  PROVE  /\ FirstBy(S, f, k) \in SUBSET S
         /\ IsFiniteSet(FirstBy(S, f, k))
         /\ Cardinality(FirstBy(S, f, k)) \in Nat
         /\ Cardinality(FirstBy(S, f, k)) <= k
<1> DEFINE L == FirstBy(S, f, k)
           rank == [x \in L |-> Cardinality(Before(S, f, x)) + 1]
<1>1. L \in SUBSET S
  BY DEF FirstBy
<1>2. \A x \in S : Cardinality(Before(S, f, x)) \in Nat
  <2> TAKE x \in S
  <2>1. Before(S, f, x) \in SUBSET S
    BY DEF Before
  <2> QED
    BY <2>1, FS_Subset, FS_CardinalityType
<1>3. \A x \in L : Cardinality(Before(S, f, x)) < k
  BY DEF FirstBy
<1> HIDE DEF L
<1>4. rank \in [L -> 1..k]
  BY <1>1, <1>2, <1>3
<1>5. ASSUME NEW x \in L, NEW y \in L, rank[x] = rank[y] PROVE x = y
  <2>1. x \in S /\ y \in S /\ f[x] \in Nat /\ f[y] \in Nat
    BY <1>1
  <2>2. Cardinality(Before(S, f, x)) = Cardinality(Before(S, f, y))
    BY <1>2, <1>5, <2>1
  <2>3. ~(f[x] < f[y]) /\ ~(f[y] < f[x])
    BY <1>2, <2>1, <2>2, RanksRise
  <2> QED
    BY <2>1, <2>3
<1>6. rank \in Injection(L, 1..k)
  BY <1>4, <1>5 DEF Injection, IsInjective
<1>7. IsFiniteSet(1..k) /\ Cardinality(1..k) = k
  BY FS_Interval
<1> HIDE DEF rank
<1>8. IsFiniteSet(L) /\ Cardinality(L) <= Cardinality(1..k)
  BY <1>6, <1>7, FS_Injection
<1>9. Cardinality(L) \in Nat
  BY <1>8, FS_CardinalityType
<1> QED
  BY <1>1, <1>7, <1>8, <1>9 DEF L

LEMMA FirstAreAll ==
  ASSUME NEW S, IsFiniteSet(S), NEW f \in [S -> Nat], NEW k \in Nat,
         \A x, y \in S : f[x] = f[y] => x = y
  PROVE  \/ FirstBy(S, f, k) = S /\ Cardinality(S) <= k
         \/ Cardinality(FirstBy(S, f, k)) = k /\ k <= Cardinality(S)
<1> DEFINE L == FirstBy(S, f, k)
<1>1. /\ L \in SUBSET S /\ IsFiniteSet(L)
      /\ Cardinality(L) \in Nat /\ Cardinality(L) <= k
  BY FirstAreAtMost
<1>2. Cardinality(S) \in Nat /\ Cardinality(L) <= Cardinality(S)
  <2> HIDE DEF L
  <2> QED
    BY <1>1, FS_Subset, FS_CardinalityType
<1>3. CASE L = S
  BY <1>1, <1>3
<1>4. CASE L # S
  <2> DEFINE T == {f[x] : x \in S \ L}
  <2>1. T \in SUBSET Nat /\ T # {}
    BY <1>1, <1>4
  <2>2. PICK t \in T : \A u \in T : t <= u
    <3> HIDE DEF T
    <3> QED
      BY <2>1, Smallest
  <2>3. PICK x \in S \ L : f[x] = t
    BY <2>2
  <2> DEFINE B == Before(S, f, x)
  <2>4. B \in SUBSET L
    <3>1. ASSUME NEW y \in B PROVE y \in L
      <4>1. y \in S /\ f[y] < t
        BY <2>3 DEF Before
      <4>2. f[y] \in Nat /\ t \in Nat
        BY <2>1, <2>2, <4>1
      <4>3. f[y] \notin T
        <5> HIDE DEF T
        <5> QED
          BY <2>2, <4>1, <4>2
      <4> QED
        BY <4>1, <4>3
    <3> QED
      BY <3>1
  <2>5. ~(Cardinality(B) < k)
    BY <2>3 DEF FirstBy
  <2> HIDE DEF B
  <2>6. Cardinality(B) \in Nat /\ Cardinality(B) <= Cardinality(L)
    <3> HIDE DEF L
    <3> QED
      BY <1>1, <2>4, FS_Subset, FS_CardinalityType
  <2> QED
    BY <1>1, <1>2, <2>5, <2>6
<1> QED
  BY <1>3, <1>4

LEMMA LowestSize ==
  ASSUME NEW ids \in SUBSET Nat, IsFiniteSet(ids), NEW k \in Nat
  PROVE  /\ Lowest(ids, k) \in SUBSET ids /\ IsFiniteSet(Lowest(ids, k))
         /\ Cardinality(Lowest(ids, k))
              = IF k <= Cardinality(ids) THEN k ELSE Cardinality(ids)
<1> DEFINE f == [i \in ids |-> i]
<1>1. Lowest(ids, k) = FirstBy(ids, f, k)
  <2>1. \A x \in ids : Before(ids, f, x) = {j \in ids : j < x}
    BY DEF Before
  <2> QED
    BY <2>1 DEF Lowest, FirstBy
<1>2. f \in [ids -> Nat] /\ \A x, y \in ids : f[x] = f[y] => x = y
  OBVIOUS
<1> HIDE DEF f
<1>3. Cardinality(ids) \in Nat
  BY FS_CardinalityType
<1>4. /\ FirstBy(ids, f, k) \in SUBSET ids /\ IsFiniteSet(FirstBy(ids, f, k))
      /\ Cardinality(FirstBy(ids, f, k)) \in Nat
      /\ Cardinality(FirstBy(ids, f, k)) <= k
  BY <1>2, FirstAreAtMost
<1>5. \/ FirstBy(ids, f, k) = ids /\ Cardinality(ids) <= k
      \/ Cardinality(FirstBy(ids, f, k)) = k /\ k <= Cardinality(ids)
  BY <1>2, FirstAreAll
<1> QED
  BY <1>1, <1>3, <1>4, <1>5

------------------------------------------------------------------------------
(* The state, and the decisions it allows. *)

LEMMA HealthyIsFinite ==
  ASSUME TypeOK
  PROVE  /\ healthy \in SUBSET Nat /\ healthy \in SUBSET Id
         /\ IsFiniteSet(healthy) /\ Cardinality(healthy) \in 0..Total
<1>1. Total \in Nat /\ IsFiniteSet(Id) /\ Cardinality(Id) = Total
  <2>1. Total \in Nat /\ Total >= 1
    BY ControllerAssumption
  <2>2. IsFiniteSet(1..Total) /\ Cardinality(1..Total) = Total
    BY <2>1, FS_Interval
  <2> QED
    BY <2>1, <2>2 DEF Id
<1>2. healthy \in SUBSET Id /\ Id \in SUBSET Nat
  BY DEF TypeOK, Id
<1>3. IsFiniteSet(healthy) /\ Cardinality(healthy) <= Cardinality(Id)
  BY <1>1, <1>2, FS_Subset
<1>4. Cardinality(healthy) \in Nat
  BY <1>3, FS_CardinalityType
<1> QED
  BY <1>1, <1>2, <1>3, <1>4

LEMMA BestSize ==
  ASSUME NEW ids, IsFiniteSet(ids), NEW k \in Nat, NEW key, NEW S \in Best(ids, k, key)
  PROVE  /\ S \in SUBSET ids /\ IsFiniteSet(S)
         /\ Cardinality(S) = IF k <= Cardinality(ids) THEN k ELSE Cardinality(ids)
<1>1. S \in SUBSET ids /\ Cardinality(S) = Min({k, Cardinality(ids)})
  BY DEF Best, kSubset
<1>2. Cardinality(ids) \in Nat
  BY FS_CardinalityType
<1> QED
  BY <1>1, <1>2, MinOfTwo, FS_Subset

(* The racks that have a healthy node, and the first node of each. *)
Racks == {Rack(id) : id \in healthy}
InRack(r) == {id \in healthy : Rack(id) = r}
First(r) == Min(InRack(r))

LEMMA FirstOfRack ==
  ASSUME TypeOK, NEW r \in Racks
  PROVE  First(r) \in healthy /\ Rack(First(r)) = r
<1>1. InRack(r) \in SUBSET Nat /\ InRack(r) # {}
  BY HealthyIsFinite DEF InRack, Racks
<1>2. First(r) \in InRack(r)
  BY <1>1, MinOfSet DEF First
<1> QED
  BY <1>2 DEF InRack

LEMMA RacksAreThree ==
  ASSUME TypeOK
  PROVE  Racks \in SUBSET (1..3) /\ IsFiniteSet(Racks) /\ Cardinality(Racks) \in Nat
<1>1. \A id \in healthy : Rack(id) \in 1..3
  BY HealthyIsFinite DEF Rack
<1>2. Racks \in SUBSET (1..3)
  BY <1>1 DEF Racks
<1>3. IsFiniteSet(1..3)
  <2>1. \A n \in Nat : IsFiniteSet(1..n)
    BY FS_Interval
  <2> QED
    BY <2>1
<1> QED
  BY <1>2, <1>3, FS_Subset, FS_CardinalityType

(* A placement of the failure-domain policy has the first nodes of the      *)
(* chosen racks and, with them, as many nodes as there are, up to three.    *)
LEMMA RackPlacement ==
  ASSUME TypeOK, NEW S \in OnePerRack
  PROVE  /\ S \in SUBSET healthy /\ IsFiniteSet(S)
         /\ Cardinality(S) = IF 3 <= Cardinality(healthy) THEN 3 ELSE Cardinality(healthy)
         /\ \E chosen \in SUBSET Racks :
              /\ Cardinality(chosen) = Min({3, Cardinality(Racks)})
              /\ \A r \in chosen : First(r) \in S
<1>1. PICK chosen \in kSubset(Min({3, Cardinality(Racks)}), Racks) :
        LET F == {First(r) : r \in chosen}
        IN  S = F \cup Lowest(healthy \ F, 3 - Cardinality(F))
  BY DEF OnePerRack, Racks, First, InRack
<1> DEFINE F == {First(r) : r \in chosen}
           rest == healthy \ F
           more == Lowest(rest, 3 - Cardinality(F))
<1>2. S = F \cup more
  BY <1>1
<1>3. chosen \in SUBSET Racks /\ Cardinality(chosen) = Min({3, Cardinality(Racks)})
  BY DEF kSubset
<1>4. \A r \in chosen : First(r) \in healthy /\ Rack(First(r)) = r
  BY <1>3, FirstOfRack
<1>5. F \in SUBSET healthy /\ \A x \in F : Rack(x) \in chosen /\ First(Rack(x)) = x
  BY <1>4
<1>6. IsFiniteSet(chosen) /\ Cardinality(chosen) \in 0..3
  <2>1. IsFiniteSet(chosen) /\ Cardinality(chosen) \in Nat
    BY <1>3, RacksAreThree, FS_Subset, FS_CardinalityType
  <2>2. Cardinality(chosen) <= 3
    BY <1>3, RacksAreThree, MinOfTwo
  <2> QED
    BY <2>1, <2>2
<1>7. IsFiniteSet(F) /\ Cardinality(F) \in 0..3
  <2> DEFINE g == [x \in F |-> Rack(x)]
  <2> HIDE DEF F
  <2>1. g \in Injection(F, chosen)
    BY <1>5 DEF Injection, IsInjective
  <2> HIDE DEF g
  <2>2. IsFiniteSet(F) /\ Cardinality(F) <= Cardinality(chosen)
    BY <1>6, <2>1, FS_Injection
  <2>3. Cardinality(F) \in Nat
    BY <2>2, FS_CardinalityType
  <2> QED
    BY <1>6, <2>2, <2>3
<1> HIDE DEF F
<1>8. /\ rest \in SUBSET Nat /\ IsFiniteSet(rest)
      /\ Cardinality(rest) = Cardinality(healthy) - Cardinality(F)
  <2>1. healthy \cap F = F
    BY <1>5
  <2> QED
    BY <1>5, <2>1, HealthyIsFinite, FS_Difference
<1> HIDE DEF rest
<1>9. /\ more \in SUBSET rest /\ IsFiniteSet(more)
      /\ Cardinality(more) = IF 3 - Cardinality(F) <= Cardinality(rest)
                             THEN 3 - Cardinality(F) ELSE Cardinality(rest)
  <2>1. 3 - Cardinality(F) \in Nat
    BY <1>7
  <2> QED
    BY <1>8, <2>1, LowestSize
<1> HIDE DEF more
<1>10. IsFiniteSet(S) /\ Cardinality(S) = Cardinality(F) + Cardinality(more)
  <2>1. F \cap more = {}
    BY <1>9 DEF rest
  <2>2. Cardinality(F \cap more) = 0
    BY <2>1, FS_EmptySet
  <2>3. /\ IsFiniteSet(F \cup more)
        /\ Cardinality(F \cup more)
             = Cardinality(F) + Cardinality(more) - Cardinality(F \cap more)
    BY <1>7, <1>9, FS_Union
  <2>4. Cardinality(F) \in Nat /\ Cardinality(more) \in Nat
    BY <1>7, <1>9, FS_CardinalityType
  <2> QED
    BY <1>2, <2>2, <2>3, <2>4
<1>11. Cardinality(healthy) \in Nat /\ Cardinality(F) <= Cardinality(healthy)
  BY <1>5, HealthyIsFinite, FS_Subset
<1>12. S \in SUBSET healthy
  BY <1>2, <1>5, <1>9 DEF rest
<1>13. Cardinality(S) = IF 3 <= Cardinality(healthy) THEN 3 ELSE Cardinality(healthy)
  BY <1>7, <1>8, <1>9, <1>10, <1>11
<1>14. \A r \in chosen : First(r) \in S
  BY <1>2 DEF F
<1> QED
  BY <1>3, <1>10, <1>12, <1>13, <1>14

------------------------------------------------------------------------------
(* The types. *)

LEMMA TypesInitially == Init => TypeOK
<1> SUFFICES ASSUME Init PROVE TypeOK
  OBVIOUS
<1>1. \A id \in Id : report[id] = FreshReport
  BY DEF Init
<1> QED
  BY <1>1 DEF Init, TypeOK, Strategies

LEMMA TelemetryKeepsTypes ==
  ASSUME TypeOK, NEW id \in Id, NEW r, NEW up \in BOOLEAN,
         IF up THEN r \in Reports \cup {FreshReport} ELSE r = DownReport,
         UpdateTelemetry(id, r, up)
  PROVE  TypeOK'
<1>1. r \in Reports \cup {FreshReport, DownReport}
  OBVIOUS
<1>2. /\ report' = [report EXCEPT ![id] = r]
      /\ report \in [Id -> Reports \cup {FreshReport, DownReport}]
  BY DEF UpdateTelemetry, TypeOK
<1>3. /\ report' \in [Id -> Reports \cup {FreshReport, DownReport}]
      /\ report'[id] = r /\ \A j \in Id \ {id} : report'[j] = report[j]
  BY <1>1, <1>2
<1>4. /\ healthy' \subseteq Id /\ (id \in healthy' <=> up)
      /\ \A j \in Id \ {id} : j \in healthy' <=> j \in healthy
  BY DEF UpdateTelemetry, TypeOK
<1>5. \A j \in Id : IF j \in healthy' THEN report'[j] \in Reports \cup {FreshReport}
                                      ELSE report'[j] = DownReport
  BY <1>3, <1>4 DEF TypeOK
<1> QED
  BY <1>3, <1>4, <1>5 DEF UpdateTelemetry, TypeOK

LEMMA TypesNext == TypeOK /\ [Next]_vars => TypeOK'
<1> SUFFICES ASSUME TypeOK, [Next]_vars PROVE TypeOK'
  OBVIOUS
<1>1. ASSUME NEW s \in Strategies, SetStrategy(s) PROVE TypeOK'
  BY <1>1 DEF TypeOK, SetStrategy
<1>2. ASSUME NEW id \in Id, NEW r \in Reports, UpdateTelemetry(id, r, TRUE)
      PROVE  TypeOK'
  BY <1>2, TelemetryKeepsTypes
<1>3. ASSUME NEW id \in Id, UpdateTelemetry(id, FreshReport, TRUE) PROVE TypeOK'
  BY <1>3, TelemetryKeepsTypes
<1>4. ASSUME NEW id \in Id, UpdateTelemetry(id, DownReport, FALSE) PROVE TypeOK'
  BY <1>4, TelemetryKeepsTypes
<1>5. ASSUME NEW s \in Signals, UpdateWorkload(s) PROVE TypeOK'
  BY <1>5, ControllerAssumption DEF TypeOK, UpdateWorkload
<1>6. CASE UNCHANGED vars
  BY <1>6 DEF TypeOK, vars
<1> QED
  BY <1>1, <1>2, <1>3, <1>4, <1>5, <1>6 DEF Next

(* The controller knows of every node what was last reported of it, and has *)
(* just those for healthy that were not last reported down.                 *)
THEOREM ControllerTypeCorrect == Spec => []TypeOK
BY TypesInitially, TypesNext, PTL DEF Spec

------------------------------------------------------------------------------
(* How many replicas a decision names, and how many it asks for. *)

Fixed == {"FixedR3", "FixedR5"}

LEMMA FactorRange ==
  ASSUME TypeOK
  PROVE  /\ Factor \in 3..7
         /\ Factor <= 3 \/ Factor <= Cardinality(healthy)
<1>1. Wanted \in {3, 5, 7}
  BY DEF Wanted
<1>2. Cardinality(healthy) \in Nat
  BY HealthyIsFinite
<1>3. Max({3, Cardinality(healthy)})
        = IF 3 >= Cardinality(healthy) THEN 3 ELSE Cardinality(healthy)
  BY <1>2, MaxOfTwo
<1>4. Factor = IF Wanted <= Max({3, Cardinality(healthy)})
               THEN Wanted ELSE Max({3, Cardinality(healthy)})
  BY <1>1, <1>2, <1>3, MinOfTwo DEF Factor
<1> QED
  BY <1>1, <1>2, <1>3, <1>4

(* The policies that choose name as many healthy nodes as there are, up to  *)
(* the factor, and ask for more than half of the factor.                    *)
LEMMA ChosenReplicas ==
  ASSUME TypeOK, strategy \notin Fixed, NEW d \in Decisions
  PROVE  \E k \in 3..7 :
           /\ k <= 3 \/ k <= Cardinality(healthy)
           /\ d.quorum = k \div 2 + 1
           /\ d.replicas \in SUBSET healthy /\ IsFiniteSet(d.replicas)
           /\ Cardinality(d.replicas)
                = IF k <= Cardinality(healthy) THEN k ELSE Cardinality(healthy)
<1> DEFINE Names(k) ==
             /\ k <= 3 \/ k <= Cardinality(healthy)
             /\ d.quorum = k \div 2 + 1
             /\ d.replicas \in SUBSET healthy /\ IsFiniteSet(d.replicas)
             /\ Cardinality(d.replicas)
                  = IF k <= Cardinality(healthy) THEN k ELSE Cardinality(healthy)
<1>1. /\ healthy \in SUBSET Nat /\ IsFiniteSet(healthy)
      /\ Cardinality(healthy) \in Nat
  BY HealthyIsFinite
<1>2. CASE strategy = "RandomPlacement"
  <2>1. d.quorum = 2 /\ d.replicas = Lowest(healthy, 3)
    BY <1>2 DEF Decisions, Decided
  <2>2. Names(3)
    BY <1>1, <2>1, LowestSize
  <2> QED
    BY <2>2
<1>3. CASE strategy = "LatencyAwarePlacement"
  <2>1. d.quorum = 2 /\ d.replicas \in Best(healthy, 3, [id \in Id |-> report[id].rtt])
    BY <1>3 DEF Decisions, Decided
  <2>2. Names(3)
    BY <1>1, <2>1, BestSize
  <2> QED
    BY <2>2
<1>4. CASE strategy = "FailureDomainStatic"
  <2>1. d.quorum = 2 /\ d.replicas \in OnePerRack
    BY <1>4 DEF Decisions, Decided
  <2>2. Names(3)
    BY <1>1, <2>1, RackPlacement
  <2> QED
    BY <2>2
<1>5. CASE strategy = "AdaptiveReplicaProposed"
  <2>1. /\ d.quorum = Factor \div 2 + 1
        /\ d.replicas \in Best(healthy, Factor, [id \in Id |-> Score(id)])
    BY <1>5 DEF Decisions, Decided, Proposed
  <2>2. Names(Factor)
    BY <1>1, <2>1, BestSize, FactorRange
  <2> QED
    BY <2>2, FactorRange
<1> QED
  BY <1>2, <1>3, <1>4, <1>5 DEF TypeOK, Strategies, Fixed

LEMMA ChosenQuorumsMeet ==
  ASSUME TypeOK, strategy \notin Fixed, NEW d \in Decisions,
         NEW A \in SUBSET d.replicas
  PROVE  ~(Satisfied(A, d) /\ Satisfied(d.replicas \ A, d))
<1>1. PICK k \in 3..7 :
        /\ d.quorum = k \div 2 + 1 /\ IsFiniteSet(d.replicas)
        /\ Cardinality(d.replicas) <= k
  BY ChosenReplicas, HealthyIsFinite
<1> DEFINE B == d.replicas \ A
<1>2. /\ IsFiniteSet(A) /\ IsFiniteSet(B)
      /\ Cardinality(A) \in Nat /\ Cardinality(B) \in Nat
  BY <1>1, FS_Subset, FS_CardinalityType
<1>3. Cardinality(d.replicas) = Cardinality(A) + Cardinality(B)
  <2>1. A \cup B = d.replicas /\ A \cap B = {}
    OBVIOUS
  <2>2. Cardinality(A \cap B) = 0
    BY <2>1, FS_EmptySet
  <2> HIDE DEF B
  <2>3. Cardinality(A \cup B)
          = Cardinality(A) + Cardinality(B) - Cardinality(A \cap B)
    BY <1>2, FS_Union
  <2>4. Cardinality(A \cup B) = Cardinality(A) + Cardinality(B)
    BY <1>2, <2>2, <2>3
  <2> QED
    BY <2>1, <2>4
<1>4. A \cap d.replicas = A /\ B \cap d.replicas = B
  OBVIOUS
<1> HIDE DEF B
<1>5. ~(Cardinality(A) >= d.quorum /\ Cardinality(B) >= d.quorum)
  BY <1>1, <1>2, <1>3
<1> QED
  BY <1>4, <1>5 DEF Satisfied, B

(* Two disjoint sets of acks never both satisfy a decision of a policy that *)
(* chooses, whatever the telemetry, the workload and the ties: its replicas *)
(* never outnumber the factor its quorum is taken from.                     *)
THEOREM DecisionQuorumsMeet == Spec => []QuorumsOfDecisionMeet
<1>1. TypeOK => QuorumsOfDecisionMeet
  BY ChosenQuorumsMeet DEF QuorumsOfDecisionMeet, Fixed
<1> QED
  BY <1>1, ControllerTypeCorrect, PTL

LEMMA ReplicasSuffice ==
  ASSUME TypeOK, NEW d \in Decisions,
         Cardinality(healthy) >= (IF strategy = "FixedR5" THEN 3 ELSE 2)
  PROVE  Satisfied(d.replicas, d)
<1>1. /\ healthy \in SUBSET Nat /\ IsFiniteSet(healthy)
      /\ Cardinality(healthy) \in Nat
  BY HealthyIsFinite
<1>2. d.replicas \cap d.replicas = d.replicas
  OBVIOUS
<1>3. CASE strategy = "FixedR3"
  <2>1. d.quorum = 2 /\ d.replicas = healthy
    BY <1>3 DEF Decisions, Decided
  <2> QED
    BY <1>2, <1>3, <2>1 DEF Satisfied
<1>4. CASE strategy = "FixedR5"
  <2>1. d.quorum = 3 /\ d.replicas = healthy
    BY <1>4 DEF Decisions, Decided
  <2> QED
    BY <1>2, <1>4, <2>1 DEF Satisfied
<1>5. CASE strategy \notin Fixed
  <2>1. PICK k \in 3..7 :
          /\ k <= 3 \/ k <= Cardinality(healthy)
          /\ d.quorum = k \div 2 + 1
          /\ Cardinality(d.replicas)
               = IF k <= Cardinality(healthy) THEN k ELSE Cardinality(healthy)
    BY <1>5, ChosenReplicas
  <2>2. Cardinality(healthy) >= 2
    BY <1>5 DEF Fixed
  <2>3. Cardinality(d.replicas) >= d.quorum
    BY <1>1, <2>1, <2>2
  <2> QED
    BY <1>2, <2>3 DEF Satisfied
<1> QED
  BY <1>3, <1>4, <1>5 DEF Fixed

(* No policy asks for more acks than it names replicas while two nodes (for *)
(* FixedR5, three) are healthy: the factor is held back to those that are.  *)
THEOREM DecisionsCanBeMet == Spec => []DecisionCanBeMet
<1>1. TypeOK => DecisionCanBeMet
  BY ReplicasSuffice DEF DecisionCanBeMet
<1> QED
  BY <1>1, ControllerTypeCorrect, PTL

LEMMA RacksApart ==
  ASSUME TypeOK, strategy = "FailureDomainStatic",
         \A r \in 1..3 : \E id \in healthy : Rack(id) = r,
         NEW d \in Decisions, NEW r \in 1..3
  PROVE  Satisfied({id \in d.replicas : Rack(id) # r}, d)
<1>1. d.quorum = 2 /\ d.replicas \in OnePerRack
  BY DEF Decisions, Decided
<1>2. 1..3 = Racks /\ \A n \in Nat : IsFiniteSet(1..n) /\ Cardinality(1..n) = n
  <2>1. 1..3 \in SUBSET Racks
    BY DEF Racks
  <2> QED
    BY <2>1, RacksAreThree, FS_Interval
<1>3. /\ Cardinality(Racks) = 3 /\ IsFiniteSet(Racks)
      /\ Min({3, Cardinality(Racks)}) = 3
  <2>1. Cardinality(1..3) = 3 /\ IsFiniteSet(1..3)
    BY <1>2
  <2>2. Cardinality(Racks) = 3 /\ IsFiniteSet(Racks)
    BY <1>2, <2>1
  <2>3. \A n \in Nat : n = 3 => Min({3, n}) = 3
    BY MinOfTwo
  <2> QED
    BY <2>2, <2>3
<1>4. /\ IsFiniteSet(d.replicas)
      /\ \A s \in 1..3 : First(s) \in d.replicas /\ Rack(First(s)) = s
  <2>1. PICK chosen \in SUBSET Racks :
          /\ Cardinality(chosen) = 3
          /\ \A s \in chosen : First(s) \in d.replicas
    BY <1>1, <1>3, RackPlacement
  <2>2. chosen = Racks
    BY <1>3, <2>1, FS_Subset
  <2> QED
    BY <1>1, <1>2, <2>1, <2>2, FirstOfRack, RackPlacement
<1>5. PICK a \in 1..3, b \in 1..3 : a # b /\ a # r /\ b # r
  <2>1. \/ r = 1 /\ 2 # r /\ 3 # r
        \/ r = 2 /\ 1 # r /\ 3 # r
        \/ r = 3 /\ 1 # r /\ 2 # r
    OBVIOUS
  <2> QED
    BY <2>1
<1> DEFINE left == {id \in d.replicas : Rack(id) # r}
           two == {First(a), First(b)}
<1>6. two \in SUBSET left /\ First(a) # First(b)
  BY <1>4, <1>5
<1>7. IsFiniteSet({First(a)}) /\ Cardinality({First(a)}) = 1
  BY FS_Singleton
<1>8. Cardinality(two) = 2
  <2>1. two = {First(a)} \cup {First(b)} /\ First(b) \notin {First(a)}
    BY <1>6
  <2> QED
    BY <1>7, <2>1, FS_AddElement
<1>9. left \in SUBSET d.replicas /\ left \cap d.replicas = left
  OBVIOUS
<1> HIDE DEF left, two
<1>10. IsFiniteSet(left) /\ Cardinality(left) \in Nat
  BY <1>4, <1>9, FS_Subset, FS_CardinalityType
<1>11. Cardinality(two) <= Cardinality(left)
  BY <1>6, <1>10, FS_Subset
<1> QED
  BY <1>1, <1>8, <1>9, <1>10, <1>11 DEF Satisfied, left

(* Under the failure-domain policy the loss of any one rack leaves a quorum *)
(* of each decision, as long as three racks have a healthy node.            *)
THEOREM RackLossIsSurvived == Spec => []RackLossLeavesQuorum
<1>1. TypeOK => RackLossLeavesQuorum
  BY RacksApart DEF RackLossLeavesQuorum
<1> QED
  BY <1>1, ControllerTypeCorrect, PTL

------------------------------------------------------------------------------
(* Who may be named.  The better nodes come first whatever the order of     *)
(* equals is, and some order of equals puts a given node before its own.    *)
Better(ids, key, id) == {j \in ids : key[j] < key[id]}

(* An order without ties that agrees with key and puts id before its equals. *)
IdFirst(ids, key, id) == [j \in ids |-> 10 * key[j] + (IF j = id THEN 0 ELSE j)]

LEMMA IdFirstOrder ==
  ASSUME NEW ids \in SUBSET (1..9), NEW key, \A j \in ids : key[j] \in Nat,
         NEW id \in ids
  PROVE  LET f == IdFirst(ids, key, id) IN
         /\ f \in [ids -> Nat]
         /\ \A x, y \in ids : /\ f[x] = f[y] => x = y
                              /\ f[x] <= f[y] => key[x] <= key[y]
         /\ \A x \in ids : f[x] < f[id] <=> key[x] < key[id]
<1> DEFINE f == IdFirst(ids, key, id)
           low(j) == IF j = id THEN 0 ELSE j
<1>1. \A j \in ids : /\ low(j) \in 0..9 /\ f[j] = 10 * key[j] + low(j)
                     /\ f[j] \in Nat
  <2> TAKE j \in ids
  <2>1. j \in 1..9 /\ key[j] \in Nat
    OBVIOUS
  <2>2. f[j] = 10 * key[j] + low(j) /\ low(j) \in 0..9
    BY <2>1 DEF IdFirst
  <2> HIDE DEF f, low
  <2> QED
    BY <2>1, <2>2
<1>2. f = [j \in ids |-> f[j]]
  BY DEF IdFirst
<1>3. low(id) = 0 /\ \A x, y \in ids : low(x) = low(y) => x = y
  OBVIOUS
<1> HIDE DEF f, low
<1>4. ASSUME NEW x \in ids, NEW y \in ids
      PROVE  /\ f[x] = f[y] => low(x) = low(y)
             /\ f[x] <= f[y] => key[x] <= key[y]
             /\ low(y) = 0 => (f[x] < f[y] <=> key[x] < key[y])
  <2>1. \A a, b \in Nat, c, d \in 0..9 :
          /\ 10 * a + c = 10 * b + d => c = d
          /\ 10 * a + c <= 10 * b + d => a <= b
          /\ d = 0 => (10 * a + c < 10 * b + d <=> a < b)
    OBVIOUS
  <2> QED
    BY <1>1, <2>1
<1>5. f \in [ids -> Nat]
  BY <1>1, <1>2
<1> QED
  BY <1>3, <1>4, <1>5 DEF f

LEMMA NamedHasFewBetter ==
  ASSUME NEW ids, IsFiniteSet(ids), NEW k \in Nat, NEW key,
         \A j \in ids : key[j] \in Nat,
         NEW S \in Best(ids, k, key), NEW id \in S
  PROVE  Cardinality(Better(ids, key, id)) < k
<1>1. /\ S \in SUBSET ids /\ IsFiniteSet(S)
      /\ Cardinality(S) = IF k <= Cardinality(ids) THEN k ELSE Cardinality(ids)
  BY BestSize
<1>2. Cardinality(ids) \in Nat /\ Cardinality(S) \in Nat
  BY <1>1, FS_CardinalityType
<1>3. Better(ids, key, id) \in SUBSET S /\ id \notin Better(ids, key, id)
  <2>1. ASSUME NEW b \in Better(ids, key, id) PROVE b \in S
    <3>1. b \in ids /\ key[b] < key[id] /\ key[b] \in Nat /\ key[id] \in Nat
      BY <1>1, <2>1 DEF Better
    <3>2. b \in ids \ S => key[id] <= key[b]
      BY DEF Best
    <3> QED
      BY <3>1, <3>2
  <2>2. key[id] \in Nat
    BY <1>1
  <2> QED
    BY <2>1, <2>2 DEF Better
<1>4. /\ Cardinality(Better(ids, key, id)) \in Nat
      /\ Cardinality(Better(ids, key, id)) <= Cardinality(S)
      /\ Cardinality(Better(ids, key, id)) # Cardinality(S)
  BY <1>1, <1>3, FS_Subset, FS_CardinalityType
<1> QED
  BY <1>1, <1>2, <1>4

LEMMA FewBetterMayBeNamed ==
  ASSUME NEW ids \in SUBSET (1..9), IsFiniteSet(ids), NEW k \in Nat, NEW key,
         \A j \in ids : key[j] \in Nat,
         NEW id \in ids, Cardinality(Better(ids, key, id)) < k
  PROVE  \E S \in Best(ids, k, key) : id \in S
<1> DEFINE f == IdFirst(ids, key, id)
           S == FirstBy(ids, f, k)
<1>1. /\ f \in [ids -> Nat]
      /\ \A x, y \in ids : /\ f[x] = f[y] => x = y
                           /\ f[x] <= f[y] => key[x] <= key[y]
      /\ \A x \in ids : f[x] < f[id] <=> key[x] < key[id]
  BY IdFirstOrder
<1> HIDE DEF f
<1>2. Cardinality(ids) \in Nat
  BY FS_CardinalityType
<1>3. /\ S \in SUBSET ids
      /\ Cardinality(S) = IF k <= Cardinality(ids) THEN k ELSE Cardinality(ids)
  <2>1. S \in SUBSET ids /\ Cardinality(S) \in Nat /\ Cardinality(S) <= k
    BY <1>1, FirstAreAtMost
  <2>2. \/ S = ids /\ Cardinality(ids) <= k
        \/ Cardinality(S) = k /\ k <= Cardinality(ids)
    BY <1>1, FirstAreAll
  <2> HIDE DEF S
  <2> QED
    BY <1>2, <2>1, <2>2
<1>4. ASSUME NEW a \in S, NEW b \in ids \ S PROVE key[a] <= key[b]
  <2>1. a \in ids /\ Cardinality(Before(ids, f, a)) < k
        /\ ~(Cardinality(Before(ids, f, b)) < k)
    BY DEF FirstBy
  <2>2. /\ Cardinality(Before(ids, f, a)) \in Nat
        /\ Cardinality(Before(ids, f, b)) \in Nat
    <3>1. Before(ids, f, a) \in SUBSET ids /\ Before(ids, f, b) \in SUBSET ids
      BY DEF Before
    <3> QED
      BY <3>1, FS_Subset, FS_CardinalityType
  <2>3. f[a] \in Nat /\ f[b] \in Nat
    BY <1>1, <2>1
  <2>4. ~(f[b] < f[a])
    <3>1. f[b] < f[a] => Cardinality(Before(ids, f, b)) < Cardinality(Before(ids, f, a))
      BY <1>1, <2>1, RanksRise
    <3> QED
      BY <2>1, <2>2, <3>1
  <2> QED
    BY <1>1, <2>1, <2>3, <2>4
<1>5. id \in S
  <2>1. Before(ids, f, id) = Better(ids, key, id)
    BY <1>1 DEF Before, Better
  <2> QED
    BY <2>1 DEF FirstBy
<1> HIDE DEF S
<1>6. S \in Best(ids, k, key)
  <2>1. Cardinality(S) = Min({k, Cardinality(ids)})
    BY <1>2, <1>3, MinOfTwo
  <2> QED
    BY <1>3, <1>4, <2>1 DEF Best, kSubset
<1> QED
  BY <1>5, <1>6

(* When the keys of the others stay and its own rises, a node that may be   *)
(* named could have been named before.                                      *)
LEMMA RisenKey ==
  ASSUME NEW ids \in SUBSET (1..9), IsFiniteSet(ids), NEW k \in Nat,
         NEW key, \A j \in ids : key[j] \in Nat,
         NEW key2, \A j \in ids : key2[j] \in Nat,
         NEW id \in ids, key2[id] >= key[id],
         \A j \in ids \ {id} : key2[j] = key[j],
         NEW S2 \in Best(ids, k, key2), id \in S2
  PROVE  \E S \in Best(ids, k, key) : id \in S
<1>1. Cardinality(Better(ids, key2, id)) < k
  BY NamedHasFewBetter
<1>2. Better(ids, key, id) \in SUBSET Better(ids, key2, id)
  <2>1. ASSUME NEW j \in ids, key[j] < key[id] PROVE key2[j] < key2[id]
    <3>1. key[id] \in Nat /\ key[j] \in Nat /\ key2[id] \in Nat
      OBVIOUS
    <3>2. j # id
      BY <2>1, <3>1
    <3> QED
      BY <2>1, <3>1, <3>2
  <2> QED
    BY <2>1 DEF Better
<1>3. Better(ids, key2, id) \in SUBSET ids
  BY DEF Better
<1>4. Cardinality(Better(ids, key, id)) < k
  <2>1. /\ Cardinality(Better(ids, key2, id)) \in Nat
        /\ Cardinality(Better(ids, key, id)) \in Nat
        /\ Cardinality(Better(ids, key, id)) <= Cardinality(Better(ids, key2, id))
    BY <1>2, <1>3, FS_Subset, FS_CardinalityType
  <2> QED
    BY <1>1, <2>1
<1> QED
  BY <1>4, FewBetterMayBeNamed

(* What the decisions are made from. *)
LEMMA ReportIsNat ==
  ASSUME TypeOK, NEW j \in Id
  PROVE  /\ report[j].rtt \in Nat /\ report[j].loss \in Nat
         /\ report[j].cpu \in Nat /\ Score(j) \in Nat
<1>1. /\ FreshReport \in [rtt : Nat, loss : 0..100, cpu : 0..100]
      /\ DownReport \in [rtt : Nat, loss : 0..100, cpu : 0..100]
  BY DEF FreshReport, DownReport
<1>2. report[j] \in [rtt : Nat, loss : 0..100, cpu : 0..100]
  BY <1>1, ControllerAssumption DEF TypeOK
<1>3. /\ report[j].rtt \in Nat /\ report[j].loss \in 0..100
      /\ report[j].cpu \in 0..100
  BY <1>2
<1>4. \A r \in Nat, l, c \in 0..100 :
        l \in Nat /\ c \in Nat /\ 10 * r + 5 * l + c \in Nat
  OBVIOUS
<1>5. Score(j) = 10 * report[j].rtt + 5 * report[j].loss + report[j].cpu
  BY DEF Score
<1> QED
  BY <1>3, <1>4, <1>5

OnlyHealthyNamed == \A d \in Decisions : d.replicas \in SUBSET healthy

RatesAreNat ==
  \A j \in Id : /\ report[j].rtt \in Nat /\ report[j].loss \in Nat
                /\ report[j].cpu \in Nat /\ Score(j) \in Nat

LEMMA ReplicasAreHealthy == TypeOK => OnlyHealthyNamed
<1> SUFFICES ASSUME TypeOK, NEW d \in Decisions PROVE d.replicas \in SUBSET healthy
  BY DEF OnlyHealthyNamed
<1>1. CASE strategy \in Fixed
  <2>1. d.replicas = healthy
    BY <1>1 DEF Fixed, Decisions, Decided
  <2> QED
    BY <2>1
<1> QED
  BY <1>1, ChosenReplicas

LEMMA HealthyIds == TypeOK => healthy \in SUBSET (1..9) /\ IsFiniteSet(healthy)
<1>1. \A n \in 1..9 : \A i \in 1..n : i \in 1..9
  OBVIOUS
<1>2. Id \in SUBSET (1..9)
  BY <1>1, ControllerAssumption DEF Id
<1> QED
  BY <1>2, HealthyIsFinite

LEMMA ReportsAreNat == TypeOK => RatesAreNat
BY ReportIsNat DEF RatesAreNat

LEMMA FactorIsNat == TypeOK => Factor \in Nat
BY FactorRange

LEMMA WorseStaysOut ==
  ASSUME TypeOK, TypeOK', NEW id \in Id,
         UNCHANGED <<strategy, signal>>, Worse(id),
         \A j \in Id \ {id} : report'[j] = report[j] /\ (j \in healthy' <=> j \in healthy),
         MayBeNamed(id)'
  PROVE  MayBeNamed(id)
<1>1. PICK d2 \in Decisions' : id \in d2.replicas
  BY DEF MayBeNamed
<1>2. id \in healthy' /\ id \in healthy
  <2>1. TypeOK' => OnlyHealthyNamed'
    BY ReplicasAreHealthy, PTL
  <2> QED
    BY <1>1, <2>1 DEF OnlyHealthyNamed, Worse
<1>3. healthy' = healthy
  BY <1>2 DEF TypeOK
<1>4. healthy \in SUBSET (1..9) /\ IsFiniteSet(healthy) /\ healthy \in SUBSET Id
  BY HealthyIds DEF TypeOK
<1>5. \A j \in healthy : /\ report[j].rtt \in Nat /\ report[j].loss \in Nat
                         /\ report[j].cpu \in Nat /\ Score(j) \in Nat
  BY <1>4, ReportsAreNat DEF RatesAreNat
<1>6. \A j \in healthy : /\ report'[j].rtt \in Nat /\ report'[j].loss \in Nat
                         /\ report'[j].cpu \in Nat /\ Score(j)' \in Nat
  <2>1. TypeOK' => RatesAreNat'
    BY ReportsAreNat, PTL
  <2> QED
    BY <1>4, <2>1 DEF RatesAreNat
<1>7. \A j \in healthy \ {id} : report'[j] = report[j]
  BY <1>4
<1>8. strategy' = strategy /\ signal' = signal
  OBVIOUS
<1> DEFINE rtt == [j \in Id |-> report[j].rtt]
           rtt2 == [j \in Id |-> report'[j].rtt]
           score == [j \in Id |-> Score(j)]
           score2 == [j \in Id |-> Score(j)']
<1>9. CASE strategy = "LatencyAwarePlacement"
  <2>1. d2.replicas \in Best(healthy, 3, rtt2)
    BY <1>1, <1>3, <1>8, <1>9 DEF Decisions, Decided
  <2>2. /\ \A j \in healthy : rtt[j] \in Nat /\ rtt2[j] \in Nat
        /\ \A j \in healthy \ {id} : rtt2[j] = rtt[j]
        /\ rtt2[id] >= rtt[id]
    BY <1>2, <1>4, <1>5, <1>6, <1>7 DEF Worse, RatesRise
  <2> HIDE DEF rtt, rtt2
  <2>3. PICK S \in Best(healthy, 3, rtt) : id \in S
    BY <1>1, <1>2, <1>4, <2>1, <2>2, RisenKey
  <2>4. [factor |-> 3, quorum |-> 2, replicas |-> S] \in Decisions
    BY <1>9, <2>3 DEF Decisions, Decided, rtt
  <2> QED
    BY <2>3, <2>4 DEF MayBeNamed
<1>10. CASE strategy = "AdaptiveReplicaProposed"
  <2>1. Factor' = Factor
    BY <1>3, <1>8 DEF Factor, Wanted, Unhealthy
  <2>2. d2.replicas \in Best(healthy, Factor, score2)
    BY <1>1, <1>3, <1>8, <1>10, <2>1 DEF Decisions, Decided, Proposed
  <2>3. /\ \A j \in healthy : score[j] \in Nat /\ score2[j] \in Nat
        /\ \A j \in healthy \ {id} : score2[j] = score[j]
        /\ score2[id] >= score[id]
    <3>1. \A j \in healthy : score[j] = Score(j) /\ score2[j] = Score(j)'
      BY <1>4
    <3>2. \A j \in healthy \ {id} : Score(j)' = Score(j)
      BY <1>7 DEF Score
    <3>3. Score(id)' >= Score(id)
      <4>1. \A r, l, c, r2, l2, c2 \in Nat :
              r2 >= r /\ l2 >= l /\ c2 >= c
                => 10 * r2 + 5 * l2 + c2 >= 10 * r + 5 * l + c
        OBVIOUS
      <4> QED
        BY <1>2, <1>5, <1>6, <4>1 DEF Score, Worse, RatesRise
    <3> HIDE DEF score, score2
    <3> QED
      BY <1>2, <1>5, <1>6, <3>1, <3>2, <3>3
  <2> HIDE DEF score, score2
  <2>4. PICK S \in Best(healthy, Factor, score) : id \in S
    BY <1>1, <1>2, <1>4, <2>2, <2>3, FactorIsNat, RisenKey
  <2>5. [factor |-> Factor, quorum |-> Factor \div 2 + 1, replicas |-> S] \in Decisions
    BY <1>10, <2>4 DEF Decisions, Decided, Proposed, score
  <2> QED
    BY <2>4, <2>5 DEF MayBeNamed
<1>11. CASE strategy \notin {"LatencyAwarePlacement", "AdaptiveReplicaProposed"}
  <2>1. OnePerRack' = OnePerRack
    BY <1>3 DEF OnePerRack
  <2>2. d2 \in Decisions
    BY <1>1, <1>3, <1>8, <1>11, <2>1 DEF Decisions, TypeOK, Strategies
  <2> QED
    BY <1>1, <2>2 DEF MayBeNamed
<1> QED
  BY <1>9, <1>10, <1>11

(* A node that no decision would have named is not named because it alone   *)
(* got slower, lossier or busier, under any policy: the better ones are     *)
(* still as many, and they come first however ties are broken.  Nor is it   *)
(* named because it alone failed, whatever rates come with the failure:     *)
(* evaluate_policy names nodes that are healthy, and no others.             *)
THEOREM WorseIsNotNamed == Spec => WorseNodeIsNotNamed
<1> DEFINE Alone(id) ==
             /\ UNCHANGED <<strategy, signal>> /\ Worse(id)
             /\ \A j \in Id \ {id} : report'[j] = report[j] /\ (j \in healthy' <=> j \in healthy)
<1>1. TypeOK /\ TypeOK' =>
        [\A id \in Id : Alone(id) => (MayBeNamed(id)' => MayBeNamed(id))]_vars
  BY WorseStaysOut
<1> QED
  BY <1>1, ControllerTypeCorrect, PTL DEF WorseNodeIsNotNamed
==============================================================================
