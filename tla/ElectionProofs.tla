---------------------------- MODULE ElectionProofs ----------------------------
(* The rules of Election elect one winner per term, proved for any voters   *)
(* and any quorums that meet.                                               *)
EXTENDS Election, TLAPS

LEMMA BallotsInitially == Init => BallotInv
BY DEF Init, BallotInv, BallotTypes, OneOtherEach, QuorumBehind

(* Votes are never withdrawn, so the quorum behind a winner stays. *)
LEMMA QuorumsStay ==
  ASSUME QuorumBehind, votes \subseteq votes', won' = won
  PROVE  QuorumBehind'
BY DEF QuorumBehind

LEMMA LearnKeepsBallots ==
  ASSUME BallotInv, NEW v \in Voter, Learn(v) PROVE BallotInv'
<1>1. BallotTypes'
  BY DEF BallotInv, BallotTypes, Learn, Reaches
<1>2. OneOtherEach'
  BY DEF BallotInv, OneOtherEach, VotedForOther, Learn
<1>3. QuorumBehind'
  BY QuorumsStay DEF BallotInv, Learn
<1>. QED BY <1>1, <1>2, <1>3 DEF BallotInv

LEMMA VoteKeepsBallots ==
  ASSUME BallotInv, NEW v \in Voter, NEW c \in Voter, Vote(v, c)
  PROVE  BallotInv'
<1>1. BallotTypes'
  BY DEF BallotInv, BallotTypes, Vote, Reaches
<1>2. OneOtherEach'
  <2>. SUFFICES ASSUME NEW t \in Nat \ erased, NEW u \in Voter,
                       NEW d \in Voter \ {u}, <<t, u, d>> \in votes'
                PROVE  <<t, u>> \notin won /\ ~VotedForOther(t, u, d)'
    BY DEF OneOtherEach, Vote
  <2>1. votes' = votes \cup {<<term'[v], v, c>>}
    BY DEF Vote
  <2>2. CASE u = v /\ t = term'[v] /\ c # v
    <3>1. <<t, u>> \notin won /\ ~VotedForOther(t, v, c)
      BY <2>2 DEF Vote
    <3>2. d = c
      BY <2>1, <2>2, <3>1 DEF VotedForOther
    <3>. QED BY <2>1, <2>2, <3>1, <3>2 DEF VotedForOther
  <2>3. CASE ~(u = v /\ t = term'[v] /\ c # v)
    <3>1. \A e \in Voter \ {u} : <<t, u, e>> \in votes' => <<t, u, e>> \in votes
      BY <2>1, <2>3
    <3>2. <<t, u>> \notin won /\ ~VotedForOther(t, u, d)
      BY <3>1 DEF BallotInv, OneOtherEach
    <3>. QED BY <3>1, <3>2 DEF VotedForOther
  <2>. QED BY <2>2, <2>3
<1>3. QuorumBehind'
  BY QuorumsStay DEF BallotInv, Vote
<1>. QED BY <1>1, <1>2, <1>3 DEF BallotInv

LEMMA WinKeepsBallots ==
  ASSUME BallotInv, NEW n \in Voter, Win(n) PROVE BallotInv'
<1>1. BallotTypes'
  BY DEF BallotInv, BallotTypes, Win
<1>2. OneOtherEach'
  BY DEF BallotInv, OneOtherEach, VotedForOther, Win
<1>3. QuorumBehind'
  <2>. SUFFICES ASSUME NEW w \in won'
                PROVE  \E Q \in Quorum :
                         \A v \in Q : <<w[1], v, w[2]>> \in votes
    BY DEF QuorumBehind, Win
  <2>1. CASE w \in won
    BY <2>1 DEF BallotInv, QuorumBehind
  <2>2. CASE w = <<term[n], n>>
    BY <2>2 DEF Win
  <2>. QED BY <2>1, <2>2 DEF Win
<1>. QED BY <1>1, <1>2, <1>3 DEF BallotInv

LEMMA EraseKeepsBallots ==
  ASSUME BallotInv, NEW v \in Voter, Erase(v) PROVE BallotInv'
<1>1. BallotTypes'
  BY DEF BallotInv, BallotTypes, Erase
<1>2. OneOtherEach'
  BY DEF BallotInv, OneOtherEach, VotedForOther, Erase
<1>3. QuorumBehind'
  BY QuorumsStay DEF BallotInv, Erase
<1>. QED BY <1>1, <1>2, <1>3 DEF BallotInv

LEMMA BallotsUnchanged == BallotInv /\ UNCHANGED ballots => BallotInv'
BY DEF BallotInv, BallotTypes, OneOtherEach, VotedForOther, QuorumBehind,
       ballots

(* Two winners of a term have a common voter, and whoever that is, it has   *)
(* voted for two others or won against its own vote, unless they are one.   *)
LEMMA BallotsGiveOneWinner ==
  ASSUME Quorum \subseteq SUBSET Voter, \A Q, R \in Quorum : Q \cap R # {},
         BallotInv
  PROVE  OneWinner
<1>. SUFFICES ASSUME NEW w \in won, NEW x \in won,
                     w[1] = x[1], w[1] \notin erased
              PROVE  w[2] = x[2]
  BY DEF OneWinner
<1>1. /\ w \in Nat \X Voter /\ x \in Nat \X Voter
      /\ w = <<w[1], w[2]>> /\ x = <<x[1], x[2]>>
  BY DEF BallotInv, BallotTypes
<1>2. PICK Q \in Quorum : \A v \in Q : <<w[1], v, w[2]>> \in votes
  BY DEF BallotInv, QuorumBehind
<1>3. PICK R \in Quorum : \A v \in R : <<x[1], v, x[2]>> \in votes
  BY DEF BallotInv, QuorumBehind
<1>4. PICK v \in Voter : v \in Q \cap R
  OBVIOUS
<1>. DEFINE t == w[1]
<1>5. <<t, v, w[2]>> \in votes /\ <<t, v, x[2]>> \in votes
  BY <1>2, <1>3, <1>4
<1>6. \A c \in Voter \ {v} : <<t, v, c>> \in votes =>
         <<t, v>> \notin won /\ \A d \in Voter \ {v, c} : <<t, v, d>> \notin votes
  BY <1>1, <1>4 DEF BallotInv, OneOtherEach, VotedForOther
<1>7. <<t, w[2]>> \in won /\ <<t, x[2]>> \in won
  BY <1>1
<1>. QED BY <1>1, <1>5, <1>6, <1>7

(* The rules of voting are enough: whatever is known of the candidates'     *)
(* logs, of calls and of threads, a term of which no vote has been erased   *)
(* has one winner (handle_request_vote and start_election, node.cpp).       *)
THEOREM OneWinnerPerTerm ==
  ASSUME Quorum \subseteq SUBSET Voter, \A Q, R \in Quorum : Q \cap R # {}
  PROVE  Spec => []OneWinner
<1>1. BallotInv /\ [Next]_ballots => BallotInv'
  <2>. SUFFICES ASSUME BallotInv, [Next]_ballots PROVE BallotInv'
    OBVIOUS
  <2>. QED BY LearnKeepsBallots, VoteKeepsBallots, WinKeepsBallots,
              EraseKeepsBallots, BallotsUnchanged DEF Next
<1>2. BallotInv => OneWinner
  BY BallotsGiveOneWinner
<1>. QED BY BallotsInitially, <1>1, <1>2, PTL DEF Spec
==============================================================================
