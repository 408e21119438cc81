------------------------------ MODULE NodeState ------------------------------
(****************************************************************************)
(* One Node (src/src/node.cpp): its fields under Node::mutex_ and, as       *)
(* operators on them, the critical sections of its methods.  A method that  *)
(* releases the mutex to call its peers is several operators, one for each  *)
(* stretch under the lock; the modules that use this one say what happens   *)
(* between them.                                                            *)
(*                                                                          *)
(* next_index_ and match_index_ are written at node.cpp:124-129 and never   *)
(* read; they are left out.                                                 *)
(****************************************************************************)
EXTENDS Storage

CONSTANTS N,                  \* the cluster's size; node ids are 1..N
          ElectionTimeout,    \* election_timeout_threshold_ (3)
          HeartbeatInterval   \* heartbeat_interval_ (1)

ASSUME SizeAssumption == N \in Nat \ {0}
ASSUME TimerAssumption == /\ ElectionTimeout \in Nat \ {0}
                          /\ HeartbeatInterval \in Nat \ {0}

Node == 1..N
NoNode == 0                   \* voted_for_ without a value

NodeRecord == [role : {"Follower", "Candidate", "Leader", "Offline"},
               term : Nat, votedFor : Node \cup {NoNode}, alive : BOOLEAN,
               commitIndex : Nat, storage : StorageState,
               electionTicks : 0..ElectionTimeout,
               heartbeatTicks : 0..HeartbeatInterval]

NewNode == [role |-> "Follower", term |-> 0, votedFor |-> NoNode,
            alive |-> TRUE, commitIndex |-> 0, storage |-> EmptyStorage,
            electionTicks |-> 0, heartbeatTicks |-> 0]

LiveLeader(nd) == nd.role = "Leader" /\ nd.alive

Crashed(nd) == [nd EXCEPT !.alive = FALSE, !.role = "Offline"]

(* recover keeps the term and the log, and erases the vote. *)
Recovered(nd) == [nd EXCEPT !.alive = TRUE, !.role = "Follower",
                            !.electionTicks = 0, !.votedFor = NoNode]

ConvertedToFollower(nd, term) ==
  [nd EXCEPT !.role = "Follower", !.term = term, !.votedFor = NoNode,
             !.electionTicks = 0]

------------------------------------------------------------------------------
(* tick_timer, up to its unlock: which timer fires, and the counters. *)
HeartbeatDue(nd) == LiveLeader(nd) /\ nd.heartbeatTicks + 1 >= HeartbeatInterval

ElectionDue(nd) == /\ nd.alive /\ nd.role # "Leader"
                   /\ nd.electionTicks + 1 >= ElectionTimeout

(* Mutant: the election timer is not reset when it fires. *)
Ticked_NoReset(nd) ==
  IF ~nd.alive THEN nd
  ELSE IF nd.role = "Leader"
       THEN [nd EXCEPT !.heartbeatTicks = IF HeartbeatDue(nd) THEN 0 ELSE @ + 1]
       ELSE [nd EXCEPT !.electionTicks = @ + 1]

(* Mutant: a node that has voted waits for its candidate for ever. *)
Ticked_VoterWaits(nd) ==
  IF ~nd.alive THEN nd
  ELSE IF nd.role = "Leader"
       THEN [nd EXCEPT !.heartbeatTicks = IF HeartbeatDue(nd) THEN 0 ELSE @ + 1]
       ELSE [nd EXCEPT !.electionTicks = IF ElectionDue(nd) THEN 0
                                         ELSE IF nd.votedFor # NoNode THEN @
                                         ELSE @ + 1]

Ticked(nd) ==
  IF ~nd.alive THEN nd
  ELSE IF nd.role = "Leader"
       THEN [nd EXCEPT !.heartbeatTicks = IF HeartbeatDue(nd) THEN 0 ELSE @ + 1]
       ELSE [nd EXCEPT !.electionTicks = IF ElectionDue(nd) THEN 0 ELSE @ + 1]

(* Mutant: a candidate leaves its own vote open. *)
Campaigning_NoVote(nd, self) == [nd EXCEPT !.role = "Candidate", !.term = @ + 1]

(* start_election's first critical section, for a live node. *)
Campaigning(nd, self) == [nd EXCEPT !.role = "Candidate", !.term = @ + 1,
                                    !.votedFor = self]

VoteQuorum == (N \div 2) + 1

(* Mutant: the term is not compared with the campaign's. *)
WinsElection_AnyTerm(nd, electionTerm, votes) ==
  nd.role = "Candidate" /\ votes >= VoteQuorum

(* Its second one: the election is decided only if nothing moved the node   *)
(* meanwhile.  Liveness is not looked at again, but crash() leaves a role   *)
(* that is not Candidate.                                                   *)
WinsElection(nd, electionTerm, votes) ==
  /\ nd.role = "Candidate" /\ nd.term = electionTerm
  /\ votes >= VoteQuorum

------------------------------------------------------------------------------
(* handle_request_vote, with args = [term, candidate, lastIndex, lastTerm].   *)
(* Mutant: the candidate's log is not looked at. *)
UpToDate_Always(st, args) == TRUE

(* Mutant: a log as long as the voter's is not enough. *)
UpToDate_Strict(st, args) ==
  \/ args.lastTerm > LastLogTerm(st)
  \/ args.lastTerm = LastLogTerm(st) /\ args.lastIndex > LastLogIndex(st)

UpToDate(st, args) ==
  \/ args.lastTerm > LastLogTerm(st)
  \/ args.lastTerm = LastLogTerm(st) /\ args.lastIndex >= LastLogIndex(st)

(* The node as it stands when the vote is decided. *)
HeardCandidate(nd, args) ==
  IF nd.alive /\ args.term > nd.term THEN ConvertedToFollower(nd, args.term)
                                     ELSE nd

(* Mutant: a node votes again in a term it has voted in. *)
GrantsVote_Again(nd, args) ==
  LET heard == HeardCandidate(nd, args)
  IN  nd.alive /\ args.term = heard.term /\ UpToDate(nd.storage, args)

GrantsVote(nd, args) ==
  LET heard == HeardCandidate(nd, args)
  IN  /\ nd.alive
      /\ args.term = heard.term
      /\ heard.votedFor \in {NoNode, args.candidate}
      /\ UpToDate(nd.storage, args)

AfterRequestVote(nd, args) ==
  LET heard == HeardCandidate(nd, args)
  IN  IF GrantsVote(nd, args)
      THEN [heard EXCEPT !.votedFor = args.candidate, !.electionTicks = 0]
      ELSE heard

------------------------------------------------------------------------------
(* handle_append_entries, with args = [term, entries, leaderCommit].  The     *)
(* handler reads neither prev_log_index nor prev_log_term: entries go to    *)
(* the end of the log, whatever it holds.                                   *)
AcceptsAppend(nd, args) == nd.alive /\ args.term >= nd.term

(* Mutant: only a candidate takes over the leader's term. *)
HeardLeader_KeepsTerm(nd, args) ==
  IF nd.role = "Candidate" THEN ConvertedToFollower(nd, args.term)
                           ELSE [nd EXCEPT !.electionTicks = 0]

HeardLeader(nd, args) ==
  IF args.term > nd.term \/ nd.role = "Candidate"
  THEN ConvertedToFollower(nd, args.term)
  ELSE [nd EXCEPT !.electionTicks = 0]

(* Mutant: a node that learns of the term returns before the entries. *)
WithEntries_OnlyKnownTerm(nd, args) ==
  [HeardLeader(nd, args) EXCEPT
     !.storage.wal = IF args.term = nd.term THEN @ \o args.entries ELSE @]

WithEntries(nd, args) ==
  [HeardLeader(nd, args) EXCEPT !.storage.wal = @ \o args.entries]

(* Mutant: the commit index moves and nothing is applied. *)
CommittedUpTo_NoApply(nd, index) == [nd EXCEPT !.commitIndex = index]

CommittedUpTo(nd, index) ==
  [nd EXCEPT !.commitIndex = index, !.storage = ApplyCommitted(@, index)]

(* Mutant: a follower commits its whole log as soon as the leader's commit  *)
(* index is ahead of its own.                                               *)
AfterAppendEntries_CommitsAll(nd, args) ==
  LET appended == WithEntries(nd, args)
  IN  IF ~AcceptsAppend(nd, args) THEN nd
      ELSE IF args.leaderCommit > nd.commitIndex
           THEN CommittedUpTo(appended, LastLogIndex(appended.storage))
           ELSE appended

(* Mutant: a heartbeat leaves the commit index alone. *)
AfterAppendEntries_EntriesCommit(nd, args) ==
  LET appended == WithEntries(nd, args)
  IN  IF ~AcceptsAppend(nd, args) THEN nd
      ELSE IF args.entries # << >> /\ args.leaderCommit > nd.commitIndex
           THEN CommittedUpTo(appended, Lesser(args.leaderCommit,
                                             LastLogIndex(appended.storage)))
           ELSE appended

AfterAppendEntries(nd, args) ==
  LET appended == WithEntries(nd, args)
  IN  IF ~AcceptsAppend(nd, args) THEN nd
      ELSE IF args.leaderCommit > nd.commitIndex
           THEN CommittedUpTo(appended, Lesser(args.leaderCommit,
                                             LastLogIndex(appended.storage)))
           ELSE appended
==============================================================================
