------------------------------ MODULE MCCluster ------------------------------
(* Instances of Cluster for TLC.  Threads, and values when there are        *)
(* several, are interchangeable; node ids are not: loops run through them   *)
(* in order.                                                                *)
EXTENDS Cluster, TLC

CONSTANTS t1, t2, k1, v1, v2

OneThread  == {t1}
TwoThreads == {t1, t2}
NoKeys     == {}
OneKey     == {k1}
NoValues   == {}
OneValue   == {v1}
TwoValues  == {v1, v2}

FirstNode == {1}
LastNode == {N}
AllButLast == Node \ {N}
AnyNode == Node
NoNodes == {}

NoCuts == {}
(* Node 1 cut off from the rest. *)
FirstCutOff == {<<{1}, Node \ {1}>>}

Symmetry == Permutations(Thread) \cup Permutations(Value)
==============================================================================
