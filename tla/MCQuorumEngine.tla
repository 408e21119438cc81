---------------------------- MODULE MCQuorumEngine ----------------------------
(* Values for the constants of QuorumEngine.  An RTT of 102 ms with 20 %    *)
(* loss is the degraded rack of tests/test_quorum.cpp:35; 39 ms is the      *)
(* slowest a node may be and still weigh 0.35.  With Scale = 1824 the       *)
(* weights 1, 20/57 and 5/32 are exact.                                     *)
EXTENDS QuorumEngine

OneToFive == 1..5
OnlyFive  == {5}

Normal   == [rtt |-> 2, loss |-> 0]
Slow     == [rtt |-> 39, loss |-> 0]
Degraded == [rtt |-> 102, loss |-> 20]

NormalSlowDegraded == {Normal, Slow, Degraded}
NormalSlow         == {Normal, Slow}
==============================================================================
