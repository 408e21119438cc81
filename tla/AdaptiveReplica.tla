--------------------------- MODULE AdaptiveReplica ---------------------------
(****************************************************************************)
(* The AdaptiveReplicaController (src/src/adaptive_replica.cpp): telemetry  *)
(* and workload signals come in, and evaluate_policy says on which nodes an *)
(* entry should be placed and how many of them must acknowledge it.  A      *)
(* decision is a value: "Decisions" holds every one the code may return,    *)
(* since it sorts with std::sort and walks a hash map of racks, which leave *)
(* the order of equals open.                                                *)
(*                                                                          *)
(* Rates are whole percents.  read_ratio_ and uncommitted_backlog are       *)
(* stored and never read, and left out.                                     *)
(****************************************************************************)
EXTENDS Integers, FiniteSets, FiniteSetsExt

CONSTANTS Total,     \* total_cluster_nodes; the registered nodes are 1..Total
          Reports,   \* what may be reported of a healthy node:
                     \* [rtt, loss, cpu], in ms and percents
          Signals    \* workload signals: [write, skew], in percent

(* At ten nodes 1.0 - 7 / 10 > 0.3 holds of doubles; below, the code's      *)
(* comparisons of ratios are exact.                                         *)
ASSUME ControllerAssumption ==
  /\ Total \in 1..9
  /\ Reports \subseteq [rtt : Nat, loss : 0..100, cpu : 0..100]
  /\ Signals \subseteq [write : 0..100, skew : Nat] /\ Signals # {}

Id == 1..Total

(* Cluster::initialize spreads the nodes over three racks. *)
Rack(id) == ((id - 1) % 3) + 1

Strategies == {"FixedR3", "FixedR5", "RandomPlacement",
               "LatencyAwarePlacement", "FailureDomainStatic",
               "AdaptiveReplicaProposed"}

FreshReport == [rtt |-> 2, loss |-> 0, cpu |-> 10]
DownReport  == [rtt |-> 999, loss |-> 100, cpu |-> 0]   \* as kill_node sends it

VARIABLES strategy,   \* strategy_
          report,     \* telemetry_: the rates last reported of a node
          healthy,    \* telemetry_: the nodes with is_healthy
          signal      \* write_ratio_ and key_skew_theta_

vars == <<strategy, report, healthy, signal>>

------------------------------------------------------------------------------
(* Mutant: loss counts in a node's favour. *)
Score_LossCredited(id) == 10 * report[id].rtt - 5 * report[id].loss + report[id].cpu

(* The score of the proposed policy, ten times rtt + 50 loss + 0.1 cpu. *)
Score(id) == 10 * report[id].rtt + 5 * report[id].loss + report[id].cpu

(* Sort by a key and cut off after k: with equal keys, any of these sets. *)
Best(ids, k, key) ==
  {S \in kSubset(Min({k, Cardinality(ids)}), ids) :
     \A a \in S, b \in ids \ S : key[a] <= key[b]}

Lowest(ids, k) == {id \in ids : Cardinality({j \in ids : j < id}) < k}

(* Mutant: the racks are not looked at. *)
OnePerRack_LowestIds == {Lowest(healthy, 3)}

(* The first node of each rack, three racks at most, and then the lowest    *)
(* ids that are left.                                                       *)
OnePerRack ==
  LET Racks == {Rack(id) : id \in healthy}
      First(r) == Min({id \in healthy : Rack(id) = r})
      Filled(ids) == ids \cup Lowest(healthy \ ids, 3 - Cardinality(ids))
  IN  {Filled({First(r) : r \in chosen}) :
         chosen \in kSubset(Min({3, Cardinality(Racks)}), Racks)}

------------------------------------------------------------------------------
(* The proposed replication factor. *)
Unhealthy(percent) == 100 * (Total - Cardinality(healthy)) > percent * Total

Wanted ==
  IF Unhealthy(50) /\ Total >= 7 THEN 7
  ELSE IF Unhealthy(30) \/ signal.write > 70 \/ signal.skew > 100 THEN 5
  ELSE 3

(* Mutant: the factor is not held back to the healthy nodes. *)
Factor_Unclamped == Wanted

Factor == Min({Wanted, Max({3, Cardinality(healthy)})})

Decided(factor, quorum, sets) ==
  {[factor |-> factor, quorum |-> quorum, replicas |-> S] : S \in sets}

(* Mutant: the proposed placement keeps every healthy node. *)
Proposed_NotCut == Decided(Factor, Factor \div 2 + 1, {healthy})

Proposed ==
  Decided(Factor, Factor \div 2 + 1,
          Best(healthy, Factor, [id \in Id |-> Score(id)]))

Decisions ==
  CASE strategy = "FixedR3"         -> Decided(3, 2, {healthy})
    [] strategy = "FixedR5"         -> Decided(5, 3, {healthy})
    [] strategy = "RandomPlacement" -> Decided(3, 2, {Lowest(healthy, 3)})
    [] strategy = "LatencyAwarePlacement" ->
         Decided(3, 2, Best(healthy, 3, [id \in Id |-> report[id].rtt]))
    [] strategy = "FailureDomainStatic"   -> Decided(3, 2, OnePerRack)
    [] strategy = "AdaptiveReplicaProposed" -> Proposed

(* is_quorum_satisfied, for acks that name a node once. *)
Satisfied(acks, d) == Cardinality(acks \cap d.replicas) >= d.quorum

------------------------------------------------------------------------------
SetStrategy(s) == strategy' = s /\ UNCHANGED <<report, healthy, signal>>

(* Mutant: a node that is reported down stays among the healthy ones. *)
UpdateTelemetry_StaysHealthy(id, r, isHealthy) ==
  /\ report' = [report EXCEPT ![id] = r]
  /\ healthy' = IF isHealthy THEN healthy \cup {id} ELSE healthy
  /\ UNCHANGED <<strategy, signal>>

(* update_telemetry and, with a fresh report, register_node. *)
UpdateTelemetry(id, r, isHealthy) ==
  /\ report' = [report EXCEPT ![id] = r]
  /\ healthy' = IF isHealthy THEN healthy \cup {id} ELSE healthy \ {id}
  /\ UNCHANGED <<strategy, signal>>

UpdateWorkload(s) == signal' = s /\ UNCHANGED <<strategy, report, healthy>>

Init == /\ strategy = "AdaptiveReplicaProposed"
        /\ report = [id \in Id |-> FreshReport]
        /\ healthy = Id
        /\ signal = [write |-> 50, skew |-> 0]

Next == \/ \E s \in Strategies : SetStrategy(s)
        \/ \E id \in Id, r \in Reports : UpdateTelemetry(id, r, TRUE)
        \/ \E id \in Id : UpdateTelemetry(id, FreshReport, TRUE)
        \/ \E id \in Id : UpdateTelemetry(id, DownReport, FALSE)
        \/ \E s \in Signals : UpdateWorkload(s)

Spec == Init /\ [][Next]_vars

------------------------------------------------------------------------------
(* The types of the state: what is known of a node is what was last         *)
(* reported of it, and that it is healthy just if it was not reported down. *)
TypeOK ==
  /\ strategy \in Strategies
  /\ report \in [Id -> Reports \cup {FreshReport, DownReport}]
  /\ healthy \subseteq Id
  /\ \A id \in Id : IF id \in healthy THEN report[id] \in Reports \cup {FreshReport}
                                      ELSE report[id] = DownReport
  /\ signal \in [write : 0..100, skew : Nat]

(* No two disjoint sets of acks both satisfy a decision, however many nodes *)
(* are left and whatever the workload is.  The two fixed baselines do not   *)
(* have this: they name every healthy node.                                 *)
QuorumsOfDecisionMeet ==
  strategy \notin {"FixedR3", "FixedR5"} =>
    \A d \in Decisions :
      \A A \in SUBSET d.replicas :
        ~(Satisfied(A, d) /\ Satisfied(d.replicas \ A, d))

(* Two healthy nodes are enough for a decision that its replicas can meet,  *)
(* except under FixedR5, which asks for three.                              *)
DecisionCanBeMet ==
  Cardinality(healthy) >= (IF strategy = "FixedR5" THEN 3 ELSE 2) =>
    \A d \in Decisions : Satisfied(d.replicas, d)

(* Under the static failure-domain policy no rack takes the quorum with it, *)
(* as long as three racks have a healthy node.                              *)
RackLossLeavesQuorum ==
  /\ strategy = "FailureDomainStatic"
  /\ \A r \in 1..3 : \E id \in healthy : Rack(id) = r
  => \A d \in Decisions, r \in 1..3 :
       Satisfied({id \in d.replicas : Rack(id) # r}, d)

(* A node that no decision would have named is not named because it alone   *)
(* has got slower, lossier or busier, or has failed (whatever rates its     *)
(* failure is reported with).                                               *)
MayBeNamed(id) == \E d \in Decisions : id \in d.replicas

RatesRise(id) == /\ report'[id].rtt >= report[id].rtt
                 /\ report'[id].loss >= report[id].loss
                 /\ report'[id].cpu >= report[id].cpu

Worse(id) == id \in healthy /\ (id \in healthy' => RatesRise(id))

WorseNodeIsNotNamed ==
  [][\A id \in Id :
       /\ UNCHANGED <<strategy, signal>> /\ Worse(id)
       /\ \A j \in Id \ {id} : report'[j] = report[j] /\ (j \in healthy' <=> j \in healthy)
       => (MayBeNamed(id)' => MayBeNamed(id))]_vars
==============================================================================
