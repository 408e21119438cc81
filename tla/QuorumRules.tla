----------------------------- MODULE QuorumRules -----------------------------
(****************************************************************************)
(* What a commit needs when the quorum engine knows every node of the       *)
(* cluster as register_node enters it: healthy, at 2 ms, without loss, so   *)
(* of weight 1.  QuorumEngine has the rule for any metrics.                 *)
(****************************************************************************)
EXTENDS Integers

Modes == {"StaticMajority", "StaticFlexible", "QuorumShiftDynamic"}

(* Mutant: half of the nodes for a majority. *)
MajorityThreshold_Half(total) == total \div 2

MajorityThreshold(total) == (total \div 2) + 1

FlexibleThreshold(total) == IF total \div 2 > 2 THEN total \div 2 ELSE 2

(* The commit share, 0.35 of the healthy nodes, in percent. *)
CommitShare == 35

FlatThreshold(mode, total) ==
  CASE mode = "StaticMajority"     -> MajorityThreshold(total)
    [] mode = "StaticFlexible"     -> FlexibleThreshold(total)
    [] mode = "QuorumShiftDynamic" -> (CommitShare * total + 99) \div 100
==============================================================================
