----------------------------- MODULE QuorumEngine -----------------------------
(****************************************************************************)
(* The QuorumEngine (src/src/quorum_engine.cpp) of a Cluster: the mode and  *)
(* the metrics that decide when a write has enough acks, as set_mode,       *)
(* update_telemetry and the cluster's (re-)initialization leave them.       *)
(*                                                                          *)
(* RTTs are whole milliseconds and loss rates whole percents.  A weight is  *)
(* a number of 1/Scale units, and the telemetry of the model is such that   *)
(* each weight is a whole number of them: the code's doubles are compared   *)
(* exactly.  Racks, which no quorum depends on, are left out.               *)
(****************************************************************************)
EXTENDS QuorumRules, FiniteSets, FiniteSetsExt

CONSTANTS Sizes,     \* the sizes the cluster is initialized with
          Reports,   \* what may be reported of a node: [rtt, loss], an
                     \* RTT in ms and a loss rate in percent
          Scale      \* weight 1.0 in units

ASSUME EngineAssumption ==
  /\ Sizes \subseteq Nat \ {0} /\ Sizes # {} /\ IsFiniteSet(Sizes)
  /\ Reports \subseteq [rtt : Nat, loss : Nat]
  /\ [rtt |-> 2, loss |-> 0] \in Reports
  /\ Scale \in Nat \ {0}

VARIABLES mode,      \* mode_
          metrics,   \* metrics_: from the ids ever registered
          total      \* node_count() of the cluster

vars == <<mode, metrics, total>>

Id == 1..Max(Sizes)
Metric == {[rtt |-> r.rtt, loss |-> r.loss, healthy |-> h] :
              r \in Reports, h \in BOOLEAN}
FreshMetric == [rtt |-> 2, loss |-> 0, healthy |-> TRUE]

------------------------------------------------------------------------------
(* W = 1 / (1 + 0.05 * max(0, rtt - 2) + 2 * clamp(loss, 0, 1)): the        *)
(* denominator, in percent, and the weight.                                 *)
Cost(m) == 100 + 5 * Max({0, m.rtt - 2}) + 2 * Min({m.loss, 100})

Weight(m) == (100 * Scale) \div Cost(m)

ASSUME WeightsAreExact == \A r \in Reports : (100 * Scale) % Cost(r) = 0

Healthy == {id \in DOMAIN metrics : metrics[id].healthy}

(* Mutant: a node reported unhealthy still counts. *)
AckedWeight_AnyHealth(acks) ==
  MapThenSumSet(LAMBDA id : Weight(metrics[id]), acks \cap DOMAIN metrics)

AckedWeight(acks) ==
  MapThenSumSet(LAMBDA id : Weight(metrics[id]), acks \cap Healthy)

(* Mutant: the share is taken of the weights and not of the healthy nodes. *)
Capacity_Weighted ==
  MapThenSumSet(LAMBDA id : Weight(metrics[id]), Healthy)

Capacity == Scale * Cardinality(Healthy)

(* is_quorum_satisfied.  Node::client_write never lists a node twice. *)
Satisfied(acks) ==
  CASE mode = "StaticMajority" -> Cardinality(acks) >= MajorityThreshold(total)
    [] mode = "StaticFlexible" -> Cardinality(acks) >= FlexibleThreshold(total)
    [] mode = "QuorumShiftDynamic" ->
         acks # {} /\ 100 * AckedWeight(acks) >= CommitShare * Capacity

------------------------------------------------------------------------------
(* register_node for 1..n: what is known of other ids stays. *)
Registered(old, n) ==
  [id \in DOMAIN old \cup 1..n |->
     IF id \in 1..n THEN FreshMetric ELSE old[id]]

(* Mutant: the new nodes are not registered with the engine. *)
Initialize_NoRegister(n) == total' = n /\ UNCHANGED <<mode, metrics>>

(* Cluster::initialize drops the nodes, and nothing of the engine. *)
Initialize(n) ==
  /\ total' = n
  /\ metrics' = Registered(metrics, n)
  /\ UNCHANGED mode

SetMode(m) == mode' = m /\ UNCHANGED <<metrics, total>>

(* Telemetry of an id the engine does not know is ignored. *)
UpdateTelemetry(id, m) ==
  /\ id \in DOMAIN metrics
  /\ metrics' = [metrics EXCEPT ![id] = m]
  /\ UNCHANGED <<mode, total>>

Init == /\ mode = "QuorumShiftDynamic"
        /\ total \in Sizes
        /\ metrics = [id \in 1..total |-> FreshMetric]

Next == \/ \E n \in Sizes : Initialize(n)
        \/ \E m \in Modes : SetMode(m)
        \/ \E id \in Id, m \in Metric : UpdateTelemetry(id, m)

Spec == Init /\ [][Next]_vars

------------------------------------------------------------------------------
Members == 1..total

(* The engine knows every member of the cluster, whatever it was initialized *)
(* with before.                                                             *)
TypeOK == /\ mode \in Modes /\ total \in Sizes
          /\ Members \subseteq DOMAIN metrics /\ DOMAIN metrics \subseteq Id
          /\ \A id \in DOMAIN metrics : metrics[id] \in Metric

(* With fresh metrics of its members, the cluster commits exactly by        *)
(* FlatThreshold, the rule Cluster has.  Nodes left over in metrics_ from a *)
(* larger cluster (cluster.cpp:13 clears only nodes_) can make a commit     *)
(* harder, never easier.                                                    *)
FreshMetricsGiveFlatThreshold ==
  (\A id \in DOMAIN metrics : metrics[id] = FreshMetric) =>
    \A acks \in SUBSET Members :
      LET enough == Cardinality(acks) >= FlatThreshold(mode, total) IN
      /\ Satisfied(acks) => enough
      /\ enough /\ DOMAIN metrics = Members => Satisfied(acks)

(* A dynamic commit has the acks of 35 % of the healthy nodes by number,    *)
(* and so of one at least: a node that is slow or lossy weighs less, never  *)
(* more, and one reported unhealthy backs no commit.  The exception is a    *)
(* cluster without a healthy node: its threshold is 0, the acks weigh 0,    *)
(* and since the code compares with >= (quorum_engine.cpp:86-87), where its *)
(* comment says "> 35%", any ack commits.                                   *)
HealthyAcksCommit ==
  mode = "QuorumShiftDynamic" =>
    \A acks \in SUBSET Members :
      IF Healthy = {} THEN Satisfied(acks) <=> acks # {}
      ELSE Satisfied(acks) => 100 * Cardinality(acks \cap Healthy)
                                >= CommitShare * Cardinality(Healthy)

(* Where writes stall although every node acknowledges them: where all      *)
(* healthy nodes weigh less than the share, over 39 ms each without loss,   *)
(* no number of acks is enough; where none does, and none is left over from *)
(* a larger cluster, the acks of the healthy nodes are.                     *)
WeighsLessThanShare(id) == CommitShare * Cost(metrics[id]) > 100 * 100

SlowClusterStalls ==
  mode = "QuorumShiftDynamic" /\ Healthy # {} =>
    \A acks \in SUBSET Members :
      /\ (\A id \in Healthy : WeighsLessThanShare(id)) => ~Satisfied(acks)
      /\ (\A id \in Healthy : ~WeighsLessThanShare(id)) /\ Healthy \subseteq acks
           => Satisfied(acks)

(* Every commit quorum meets every election majority, as long as no member  *)
(* is reported unhealthy and the cluster has at most four, and under        *)
(* StaticMajority at any size.  Beyond that only StaticFlexible keeps it,   *)
(* at even sizes (see CommitsMeetElections).                                *)
ElectionQuorums == {Q \in SUBSET Members : 2 * Cardinality(Q) > total}

CommitsMeetElectionsWhenSmall ==
  (mode = "StaticMajority" \/ (total <= 4 /\ Members \subseteq Healthy)) =>
    \A acks \in SUBSET Members : Satisfied(acks) =>
      \A Q \in ElectionQuorums : Q \cap acks # {}

(* Reporting a node slower or lossier, without touching its health, never   *)
(* turns acks that were too few into enough.                                *)
Slower(m, m2) == /\ m2.rtt >= m.rtt /\ m2.loss >= m.loss
                 /\ m2.healthy = m.healthy

SlowdownNeverEasesCommit ==
  [][(/\ DOMAIN metrics' = DOMAIN metrics /\ UNCHANGED <<mode, total>>
      /\ \A id \in DOMAIN metrics : Slower(metrics[id], metrics'[id]))
       => \A acks \in SUBSET Members : Satisfied(acks)' => Satisfied(acks)]_vars

------------------------------------------------------------------------------
(* A claim of the repository that the code does not keep:                    *)
(* "the non-negotiable safety constraint: for all Q1, Q2(t), Q1 and Q2(t)   *)
(* meet" (research/NOVELTY.md:30-31), Q1 an election quorum and Q2(t) a     *)
(* commit quorum.                                                           *)
CommitsMeetElections ==
  \A acks \in SUBSET Members : Satisfied(acks) =>
    \A Q \in ElectionQuorums : Q \cap acks # {}
==============================================================================
