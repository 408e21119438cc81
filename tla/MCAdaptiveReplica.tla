-------------------------- MODULE MCAdaptiveReplica --------------------------
(* Values for the constants of AdaptiveReplica: a slow node, a lossy one    *)
(* and a busy one beside the fresh report, and the workloads on both sides  *)
(* of the thresholds 0.7 and 1.0.                                           *)
EXTENDS AdaptiveReplica

Slow   == [rtt |-> 102, loss |-> 0, cpu |-> 10]
Lossy  == [rtt |-> 2, loss |-> 20, cpu |-> 10]
Loaded == [rtt |-> 2, loss |-> 0, cpu |-> 90]

SlowLossyOrLoaded == {Slow, Lossy, Loaded}

Steady == [write |-> 50, skew |-> 0]
Writes == [write |-> 80, skew |-> 0]
Skewed == [write |-> 50, skew |-> 120]

Workloads == {Steady, Writes, Skewed}
==============================================================================
