------------------------------- MODULE Election -------------------------------
(****************************************************************************)
(* What an election of this program comes to, seen from its ballots: terms, *)
(* votes and winners, with no log, timer, thread or call.  Nodes that       *)
(* follow these rules elect one winner per term (ElectionProofs); Cluster   *)
(* implements them.                                                         *)
(*                                                                          *)
(* The rules are Raft's but for what recover() and a candidate that steps   *)
(* down do in the code.  The first erases the vote of a present term, and   *)
(* the rules say no more of that term.  The second may vote for another     *)
(* besides itself, if it has not won.                                       *)
(*                                                                          *)
(* The actions say what may become of "term" without naming a new value, so *)
(* that they can be evaluated on the steps of Cluster.                      *)
(****************************************************************************)
EXTENDS Integers

CONSTANTS Voter,
          Quorum    \* the sets of voters whose votes win an election

VARIABLES term,     \* term[v]: the latest term that v has heard of
          votes,    \* <<term, voter, candidate>>
          won,      \* <<term, winner>>
          erased    \* the terms in which a node has forgotten its vote

ballots == <<term, votes, won, erased>>

Reaches(v) == /\ term' = [term EXCEPT ![v] = term'[v]]
              /\ term'[v] \in Nat /\ term'[v] >= term[v]

Learn(v) == Reaches(v) /\ UNCHANGED <<votes, won, erased>>

VotedForOther(t, v, c) == \E d \in Voter \ {v, c} : <<t, v, d>> \in votes

(* A campaign is a vote for oneself, in a term that is new.  Another gets   *)
(* the vote of a node that has neither won the term nor voted for a third.  *)
Vote(v, c) ==
  /\ Reaches(v)
  /\ votes' = votes \cup {<<term'[v], v, c>>}
  /\ \/ c = v /\ term'[v] > term[v]
     \/ c # v /\ (term'[v] \notin erased =>
                    <<term'[v], v>> \notin won /\ ~VotedForOther(term'[v], v, c))
  /\ UNCHANGED <<won, erased>>

Win(n) ==
  /\ \E Q \in Quorum : \A v \in Q : <<term[n], v, n>> \in votes
  /\ ~VotedForOther(term[n], n, n)
  /\ won' = won \cup {<<term[n], n>>}
  /\ UNCHANGED <<term, votes, erased>>

Erase(v) ==
  /\ erased' = erased \cup {term[v]}
  /\ UNCHANGED <<term, votes, won>>

Init == term = [v \in Voter |-> 0] /\ votes = {} /\ won = {} /\ erased = {}

Next == \E v \in Voter : \/ Learn(v) \/ Win(v) \/ Erase(v)
                         \/ \E c \in Voter : Vote(v, c)

Spec == Init /\ [][Next]_ballots

------------------------------------------------------------------------------
(* A term no vote of which was erased has one winner.                       *)
OneWinner ==
  \A w1, w2 \in won : w1[1] = w2[1] /\ w1[1] \notin erased => w1[2] = w2[2]

(* Why: in such a term nobody votes for two others, no winner has voted for *)
(* another, and behind every winner there is a quorum.                      *)
BallotTypes == /\ term \in [Voter -> Nat] /\ erased \subseteq Nat
               /\ votes \subseteq Nat \X Voter \X Voter
               /\ won \subseteq Nat \X Voter

OneOtherEach ==
  \A t \in Nat \ erased, v \in Voter : \A c \in Voter \ {v} :
    <<t, v, c>> \in votes => <<t, v>> \notin won /\ ~VotedForOther(t, v, c)

QuorumBehind ==
  \A w \in won : \E Q \in Quorum : \A v \in Q : <<w[1], v, w[2]>> \in votes

BallotInv == BallotTypes /\ OneOtherEach /\ QuorumBehind
==============================================================================
