--------------------------- MODULE MCClusterDriver ---------------------------
(* Values for the constants of ClusterDriver.  EachCutOff are the           *)
(* partitions of one node from the others.                                  *)
EXTENDS ClusterDriver

CONSTANTS k1

OneKey     == {k1}
Writes     == 1..MaxWrites
NoCuts     == {}
EachCutOff == {<<{n}, Node \ {n}>> : n \in Node}
==============================================================================
