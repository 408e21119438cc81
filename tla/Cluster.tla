------------------------------- MODULE Cluster -------------------------------
(****************************************************************************)
(* A Cluster (src/src/cluster.cpp) of N Nodes called from several threads.  *)
(*                                                                          *)
(* There are no messages: an RPC is a call that the sender's thread makes   *)
(* on the receiver, one peer after another, with no lock of the sender      *)
(* held.  What interleaves are the threads, at every point where none of    *)
(* the locks protects the caller.  A thread is at one of the points of      *)
(* "Point", and an action takes it from one to the next.  An RPC has two:   *)
(* the network's verdict, and the handler at the receiver.                  *)
(*                                                                          *)
(* find_leader holds the cluster's mutex for its scan and is one step.      *)
(* A thread that calls it holding its own node's mutex, at a node that is   *)
(* not the leader the scan meets first, locks that mutex twice: it is left  *)
(* "hung", with both mutexes held.  That only takes steps away from the     *)
(* other threads; the model leaves them theirs, as if the call that hangs   *)
(* had been put off, and misses no state that the code can reach.  What     *)
(* the mutexes themselves do is in Locks.                                   *)
(****************************************************************************)
EXTENDS NodeState, QuorumRules, FiniteSets

CONSTANTS Thread,   \* the threads that call into the cluster
          Mode,     \* the quorum engine's mode
          Lossy,    \* drop_rate_ > 0: any RPC may be dropped
          Cuts,     \* the pairs of groups that partition() is called with
          Timed,    \* bound: the nodes whose timers are ticked
          Victims,  \* bound: the nodes that are killed and recovered
          MaxTerm   \* bound: no election is started in a later term

ASSUME ClusterAssumption ==
  /\ Mode \in Modes
  /\ Lossy \in BOOLEAN
  /\ Cuts \subseteq (SUBSET Node) \X (SUBSET Node)
  /\ Timed \subseteq Node /\ Victims \subseteq Node
  /\ MaxTerm \in Nat

VARIABLES node,         \* node[n]: the fields of node n
          isolated,     \* isolated_nodes_ of the network
          partitioned,  \* partitioned_pairs_ of the network
          healthy,      \* the nodes the adaptive controller holds healthy
          frame,        \* frame[t]: where thread t is, with its locals
          won,          \* history: <<term, node>> of every election won
          granted,      \* history: <<term, voter, candidate>> of every vote
          forgot,       \* history: the terms a vote of which recover erased
          acked         \* history: <<index, entry>> of every write that
                        \* reported success

network == <<isolated, partitioned, healthy>>
history == <<won, granted, forgot, acked>>
vars == <<node, isolated, partitioned, healthy, frame,
          won, granted, forgot, acked>>

------------------------------------------------------------------------------
Point == {"idle", "start_election", "request_votes", "send_heartbeats",
          "heartbeat", "client_write", "leader_commit", "replicate",
          "client_read", "isolate", "recover", "hung"}

(* The loops over the peers, each of which makes an RPC per peer. *)
Calling == {"request_votes", "heartbeat", "replicate"}

Frame == [at : Point, node : Node \cup {NoNode}, peer : 0..(N + 1),
          sent : BOOLEAN, acks : SUBSET Node, term : Nat,
          lastIndex : Nat, lastTerm : Nat, commit : Nat, index : Nat,
          key : Key \cup {Nil}, value : Value \cup {Nil}]

Idle == [at |-> "idle", node |-> NoNode, peer |-> 0, sent |-> FALSE,
         acks |-> {}, term |-> 0, lastIndex |-> 0, lastTerm |-> 0,
         commit |-> 0, index |-> 0, key |-> Nil, value |-> Nil]

(* Mutant: the loop does not skip the node itself. *)
PeerAfter_WithSelf(self, p) == p + 1

(* The next id of the loop "1..N, skipping self"; N + 1 or more ends it. *)
PeerAfter(self, p) == IF p + 1 = self THEN p + 2 ELSE p + 1

Goto(t, f) == frame' = [frame EXCEPT ![t] = f]
Return(t)  == Goto(t, Idle)

(* Mutant: every peer called is counted, whatever it answered. *)
NextPeer_CountsAll(f, counted) ==
  [f EXCEPT !.peer = PeerAfter(f.node, f.peer), !.sent = FALSE,
            !.acks = @ \cup {f.peer}]

(* The loop's next round, with the peer just called counted or not. *)
NextPeer(f, counted) ==
  [f EXCEPT !.peer = PeerAfter(f.node, f.peer), !.sent = FALSE,
            !.acks = IF counted THEN @ \cup {f.peer} ELSE @]

RoundsLeft(f) == f.at \in Calling /\ f.peer <= N

------------------------------------------------------------------------------
(* send_request_vote and send_append_entries: the network's verdict. *)
Reachable(a, b) == /\ a \notin isolated /\ b \notin isolated
                   /\ <<a, b>> \notin partitioned

Send(t) ==
  LET f == frame[t] IN
  /\ RoundsLeft(f) /\ ~f.sent
  /\ Reachable(f.node, f.peer)
  /\ Goto(t, [f EXCEPT !.sent = TRUE])
  /\ UNCHANGED <<node, network, history>>

LoseCall(t) ==
  LET f == frame[t] IN
  /\ RoundsLeft(f) /\ ~f.sent
  /\ Lossy \/ ~Reachable(f.node, f.peer)
  /\ Goto(t, NextPeer(f, FALSE))
  /\ UNCHANGED <<node, network, history>>

(* The receiver's handler.  A dead receiver answers nothing (is_alive), or  *)
(* refuses if it died just after: the sender counts neither.                *)
RequestVote(t) ==
  LET f == frame[t]
      args == [term |-> f.term, candidate |-> f.node,
             lastIndex |-> f.lastIndex, lastTerm |-> f.lastTerm]
      grants == GrantsVote(node[f.peer], args)
  IN
  /\ f.at = "request_votes" /\ f.sent
  /\ node' = [node EXCEPT ![f.peer] = AfterRequestVote(@, args)]
  /\ granted' = granted \cup
                 (IF grants THEN {<<f.term, f.peer, f.node>>} ELSE {})
  /\ Goto(t, NextPeer(f, grants))
  /\ UNCHANGED <<network, won, forgot, acked>>

AppendEntries(t) ==
  LET f == frame[t]
      args == [term |-> f.term, leaderCommit |-> f.commit,
             entries |-> IF f.at = "replicate"
                         THEN <<Put(f.term, f.key, f.value)>> ELSE << >>]
  IN
  /\ f.at \in {"heartbeat", "replicate"} /\ f.sent
  /\ node' = [node EXCEPT ![f.peer] = AfterAppendEntries(@, args)]
  /\ Goto(t, NextPeer(f, f.at = "replicate"
                         /\ AcceptsAppend(node[f.peer], args)))
  /\ UNCHANGED <<network, history>>

------------------------------------------------------------------------------
(* tick_timer, up to the call it makes after its unlock. *)
Tick(t, n) ==
  LET nd == node[n] IN
  /\ frame[t].at = "idle" /\ nd.alive
  /\ ElectionDue(nd) => nd.term < MaxTerm
  /\ node' = [node EXCEPT ![n] = Ticked(@)]
  /\ \/ ElectionDue(nd)  /\ Goto(t, [Idle EXCEPT !.at = "start_election",
                                                 !.node = n])
     \/ HeartbeatDue(nd) /\ Goto(t, [Idle EXCEPT !.at = "send_heartbeats",
                                                 !.node = n])
     \/ ~ElectionDue(nd) /\ ~HeartbeatDue(nd) /\ UNCHANGED frame
  /\ UNCHANGED <<network, history>>

StartElection(t) ==
  LET n == frame[t].node
      nd == node[n]
  IN
  /\ frame[t].at = "start_election"
  /\ nd.alive /\ nd.term < MaxTerm
  /\ node' = [node EXCEPT ![n] = Campaigning(@, n)]
  /\ granted' = granted \cup {<<nd.term + 1, n, n>>}
  /\ Goto(t, [Idle EXCEPT !.at = "request_votes", !.node = n,
                          !.peer = PeerAfter(n, 0), !.acks = {n},
                          !.term = nd.term + 1,
                          !.lastIndex = LastLogIndex(nd.storage),
                          !.lastTerm = LastLogTerm(nd.storage)])
  /\ UNCHANGED <<network, won, forgot, acked>>

FinishElection(t) ==
  LET f == frame[t]
      wins == WinsElection(node[f.node], f.term, Cardinality(f.acks))
  IN
  /\ f.at = "request_votes" /\ f.peer > N
  /\ node' = [node EXCEPT ![f.node].role = IF wins THEN "Leader" ELSE @]
  /\ won' = won \cup (IF wins THEN {<<f.term, f.node>>} ELSE {})
  /\ Return(t)
  /\ UNCHANGED <<network, granted, forgot, acked>>

SendHeartbeats(t) ==
  LET n == frame[t].node IN
  /\ frame[t].at = "send_heartbeats" /\ LiveLeader(node[n])
  /\ Goto(t, [Idle EXCEPT !.at = "heartbeat", !.node = n,
                          !.peer = PeerAfter(n, 0), !.term = node[n].term,
                          !.commit = node[n].commitIndex])
  /\ UNCHANGED <<node, network, history>>

FinishHeartbeat(t) ==
  /\ frame[t].at = "heartbeat" /\ frame[t].peer > N
  /\ Return(t)
  /\ UNCHANGED <<node, network, history>>

------------------------------------------------------------------------------
(* The quorum engine as Cluster::initialize leaves it: every node healthy,  *)
(* at 2 ms and without loss.  QuorumEngine has the rule for other metrics,  *)
(* and its runs check that on these it is this threshold.                   *)
CommitThreshold == FlatThreshold(Mode, N)

QuorumSatisfied(acks) == Cardinality(acks) >= CommitThreshold

(* Each write of the model stores a value of its own. *)
Fresh(v) ==
  /\ \A n \in Node : \A i \in 1..Len(node[n].storage.wal) :
                        node[n].storage.wal[i].value # v
  /\ \A t \in Thread : frame[t].value # v

(* Cluster::write and Cluster::read: find_leader, then the call on the      *)
(* leader found; a read without a leader goes to node 1.                    *)
Write(t, n, k, v) ==
  /\ frame[t].at = "idle" /\ Fresh(v)
  /\ LiveLeader(node[n])
  /\ Goto(t, [Idle EXCEPT !.at = "client_write", !.node = n,
                          !.key = k, !.value = v])
  /\ UNCHANGED <<node, network, history>>

Read(t, n, k) ==
  /\ frame[t].at = "idle"
  /\ \/ LiveLeader(node[n])
     \/ n = 1 /\ \A m \in Node : ~LiveLeader(node[m])
  /\ Goto(t, [Idle EXCEPT !.at = "client_read", !.node = n, !.key = k])
  /\ UNCHANGED <<node, network, history>>

(* Mutant: client_write trusts the leader that find_leader returned. *)
ClientWrite_NoRecheck(t) ==
  LET f == frame[t]
      nd == node[f.node]
  IN
  /\ f.at = "client_write" /\ nd.alive
  /\ node' = [node EXCEPT ![f.node].storage =
                              AppendLog(@, Put(nd.term, f.key, f.value))]
  /\ Goto(t, [f EXCEPT !.at = "leader_commit", !.acks = {f.node},
                       !.term = nd.term,
                       !.index = LastLogIndex(nd.storage) + 1])
  /\ UNCHANGED <<network, history>>

ClientWrite(t) ==
  LET f == frame[t]
      nd == node[f.node]
  IN
  /\ f.at = "client_write" /\ LiveLeader(nd)
  /\ node' = [node EXCEPT ![f.node].storage =
                              AppendLog(@, Put(nd.term, f.key, f.value))]
  /\ Goto(t, [f EXCEPT !.at = "leader_commit", !.acks = {f.node},
                       !.term = nd.term,
                       !.index = LastLogIndex(nd.storage) + 1])
  /\ UNCHANGED <<network, history>>

(* commit_index_ is read for the RPC's arguments after the unlock. *)
ReadCommit(t) ==
  LET f == frame[t] IN
  /\ f.at = "leader_commit"
  /\ Goto(t, [f EXCEPT !.at = "replicate", !.peer = PeerAfter(f.node, 0),
                       !.commit = node[f.node].commitIndex])
  /\ UNCHANGED <<node, network, history>>

(* The relock looks at nothing but the acks: the node may be dead, deposed  *)
(* or in another term by now, or have committed a later entry.              *)
FinishWrite(t) ==
  LET f == frame[t]
      ok == QuorumSatisfied(f.acks)
  IN
  /\ f.at = "replicate" /\ f.peer > N
  /\ node' = [node EXCEPT ![f.node] =
                  IF ok THEN CommittedUpTo(@, f.index) ELSE @]
  /\ acked' = acked \cup
                (IF ok THEN {<<f.index, Put(f.term, f.key, f.value)>>} ELSE {})
  /\ Return(t)
  /\ UNCHANGED <<network, won, granted, forgot>>

(* A call that finds its node dead, or no longer leading: it returns        *)
(* without an effect.  client_write and client_read at a live node that     *)
(* does not lead look for the leader first, and return if they meet one     *)
(* before they come to their own node.                                      *)
OtherLeader(n) == \E m \in Node \ {n} : LiveLeader(node[m])

ReturnEarly(t) ==
  LET f == frame[t] IN
  /\ \/ f.at = "start_election" /\ ~node[f.node].alive
     \/ f.at = "send_heartbeats" /\ ~LiveLeader(node[f.node])
     \/ /\ f.at \in {"client_write", "client_read"}
        /\ ~node[f.node].alive \/ OtherLeader(f.node)
        /\ ~LiveLeader(node[f.node])
     \/ f.at = "client_read" /\ LiveLeader(node[f.node])
  /\ Return(t)
  /\ UNCHANGED <<node, network, history>>

(* ... and lock that node's mutex again if they come to it first. *)
SelfDeadlock(t) ==
  LET f == frame[t] IN
  /\ f.at \in {"client_write", "client_read"}
  /\ node[f.node].alive /\ ~LiveLeader(node[f.node])
  /\ Goto(t, [f EXCEPT !.at = "hung"])
  /\ UNCHANGED <<node, network, history>>

------------------------------------------------------------------------------
(* kill_node and recover_node: the node and the network, each under a lock  *)
(* of its own.  The report to the adaptive controller, which nothing in the *)
(* cluster reads, is made together with the step before it.                 *)
Kill(t, n) ==
  /\ frame[t].at = "idle"
  /\ node' = [node EXCEPT ![n] = Crashed(@)]
  /\ Goto(t, [Idle EXCEPT !.at = "isolate", !.node = n])
  /\ UNCHANGED <<network, history>>

Isolate(t) ==
  LET n == frame[t].node IN
  /\ frame[t].at = "isolate"
  /\ isolated' = isolated \cup {n}
  /\ healthy' = healthy \ {n}
  /\ Return(t)
  /\ UNCHANGED <<node, partitioned, history>>

Unisolate(t, n) ==
  /\ frame[t].at = "idle"
  /\ isolated' = isolated \ {n}
  /\ Goto(t, [Idle EXCEPT !.at = "recover", !.node = n])
  /\ UNCHANGED <<node, partitioned, healthy, history>>

Recover(t) ==
  LET n == frame[t].node IN
  /\ frame[t].at = "recover"
  /\ node' = [node EXCEPT ![n] = Recovered(@)]
  /\ healthy' = healthy \cup {n}
  /\ forgot' = forgot \cup
                 (IF node[n].votedFor # NoNode THEN {node[n].term} ELSE {})
  /\ Return(t)
  /\ UNCHANGED <<isolated, partitioned, won, granted, acked>>

(* partition and heal.  heal_partitions clears the isolated nodes too. *)
Partition(t, cut) ==
  /\ frame[t].at = "idle"
  /\ partitioned' = partitioned \cup (cut[1] \X cut[2]) \cup (cut[2] \X cut[1])
  /\ UNCHANGED <<node, isolated, healthy, frame, history>>

Heal(t) ==
  /\ frame[t].at = "idle"
  /\ partitioned' = {} /\ isolated' = {}
  /\ UNCHANGED <<node, healthy, frame, history>>

------------------------------------------------------------------------------
Init ==
  /\ node = [n \in Node |-> NewNode]
  /\ isolated = {} /\ partitioned = {} /\ healthy = Node
  /\ frame = [t \in Thread |-> Idle]
  /\ won = {} /\ granted = {} /\ forgot = {} /\ acked = {}

(* A thread goes on with the call it is in ... *)
Continue(t) ==
  \/ Send(t) \/ LoseCall(t) \/ RequestVote(t) \/ AppendEntries(t)
  \/ StartElection(t) \/ FinishElection(t)
  \/ SendHeartbeats(t) \/ FinishHeartbeat(t)
  \/ ClientWrite(t) \/ ReadCommit(t) \/ FinishWrite(t)
  \/ ReturnEarly(t) \/ SelfDeadlock(t)
  \/ Isolate(t) \/ Recover(t)

(* ... or, idle, starts another. *)
Call(t) ==
  \/ \E n \in Timed : Tick(t, n)
  \/ \E n \in Victims : Kill(t, n) \/ Unisolate(t, n)
  \/ \E n \in Node, k \in Key : Read(t, n, k)
  \/ \E n \in Node, k \in Key, v \in Value : Write(t, n, k, v)
  \/ \E cut \in Cuts : Partition(t, cut)
  \/ Heal(t)

Next == \E t \in Thread : Continue(t) \/ Call(t)

Spec == Init /\ [][Next]_vars

------------------------------------------------------------------------------
(* A thread inside a call has the node, the peer and the data it works on.  *)
FrameOK(f) ==
  /\ f.at # "idle" => f.node \in Node
  /\ f.at \in Calling => f.peer \in 1..(N + 1) /\ f.peer # f.node
  /\ f.sent => RoundsLeft(f)
  /\ f.at \in {"client_write", "leader_commit", "replicate"} =>
        f.key \in Key /\ f.value \in Value

HistoryOK ==
  /\ won \subseteq Nat \X Node
  /\ granted \subseteq Nat \X Node \X Node
  /\ forgot \subseteq Nat
  /\ acked \subseteq Nat \X Entry

TypeOK ==
  /\ node \in [Node -> NodeRecord]
  /\ isolated \subseteq Node /\ healthy \subseteq Node
  /\ partitioned \subseteq Node \X Node
  /\ frame \in [Thread -> Frame] /\ \A t \in Thread : FrameOK(frame[t])
  /\ HistoryOK

------------------------------------------------------------------------------
(* Why ElectionSafetyUnlessRecovered holds: how a node's vote, its role and *)
(* the votes it has given hang together, in the terms no vote of which has  *)
(* been erased.                                                             *)
Votes(t, v, c) == <<t, v, c>> \in granted
Remembered(t)  == t \notin forgot

(* Votes and victories are of terms the node has reached. *)
PastTerms ==
  /\ \A g \in granted : g[1] <= node[g[2]].term
  /\ \A w \in won : w[1] <= node[w[2]].term

RolesMatchVotes ==
  \A v \in Node :
    LET nd == node[v] IN
    /\ nd.alive <=> nd.role # "Offline"
    /\ nd.role = "Candidate" => /\ nd.votedFor = v
                                /\ <<nd.term, v>> \notin won
                                /\ \A c \in Node : Votes(nd.term, v, c) => c = v

(* In its present term a node still has the vote it gave to another, and a  *)
(* winner the vote it gave itself.                                          *)
PresentVote ==
  \A v \in Node :
    LET nd == node[v] IN
    Remembered(nd.term) =>
      /\ \A c \in Node \ {v} : Votes(nd.term, v, c) => nd.votedFor = c
      /\ <<nd.term, v>> \in won => nd.votedFor = v

(* In no term does a node vote for two others, nor a winner for another. *)
OneVote ==
  \A v \in Node : \A g \in granted : g[2] = v /\ g[3] # v /\ Remembered(g[1]) =>
    /\ \A c \in Node \ {v} : Votes(g[1], v, c) => c = g[3]
    /\ <<g[1], v>> \notin won

(* A campaign counts votes it has, and a victory rests on a quorum of them. *)
BallotsCounted ==
  /\ \A t \in Thread :
       frame[t].at = "request_votes" =>
         \A v \in frame[t].acks : Votes(frame[t].term, v, frame[t].node)
  /\ \A w \in won : \E Q \in SUBSET Node :
       Cardinality(Q) >= VoteQuorum /\ \A v \in Q : Votes(w[1], v, w[2])

ElectionInv == PastTerms /\ RolesMatchVotes /\ PresentVote /\ OneVote
                         /\ BallotsCounted

(* Election safety, as far as the code has it: two nodes win the same term  *)
(* only if recover() erased a vote of that term (node.cpp:47).  A candidate *)
(* that steps down in its own term (node.cpp:203) loses its vote as well,   *)
(* and that is not enough for a second winner.                              *)
ElectionSafetyUnlessRecovered ==
  \A w1, w2 \in won : w1[1] = w2[1] /\ w1[1] \notin forgot => w1[2] = w2[2]

(* Elections are decided by the ballots alone: whatever the threads, the    *)
(* network, the timers and the logs do, each step of the cluster is one     *)
(* that the rules of Election allow, or none that they see.                 *)
Ballots == INSTANCE Election
             WITH Voter <- Node,
                  Quorum <- {Q \in SUBSET Node : Cardinality(Q) >= VoteQuorum},
                  term <- [n \in Node |-> node[n].term],
                  votes <- granted, won <- won, erased <- forgot

ElectsByBallots == Ballots!Spec

------------------------------------------------------------------------------
Holds(n, entry) ==
  \E i \in 1..Len(node[n].storage.wal) : node[n].storage.wal[i] = entry

(* Some acknowledged write has this index or a higher one. *)
Acknowledged(i) == i = 0 \/ \E a \in acked : i <= a[1]

(* The node's commit index, its storage's and what has been applied agree   *)
(* between any two critical sections, and the map is the log's applied      *)
(* prefix, though a late write moves the commit index back (node.cpp:272).  *)
StorageAgreesWithNode ==
  \A n \in Node :
    LET st == node[n].storage IN
    /\ node[n].commitIndex = st.commitIndex
    /\ st.commitIndex <= st.lastApplied /\ st.lastApplied <= Len(st.wal)
    /\ st.kv = Replay(EmptyStorage.kv, st.wal, 0, st.lastApplied)

(* Along a log the terms never decrease, and none is beyond the node's own: *)
(* handle_append_entries appends without looking at the log's end, and the  *)
(* order rests on the rejection of older terms alone (node.cpp:199).        *)
LogTermsMonotonic ==
  \A n \in Node :
    LET wal == node[n].storage.wal IN
    \A i \in 1..Len(wal) : /\ wal[i].term <= node[n].term
                           /\ \A j \in 1..i : wal[j].term <= wal[i].term

(* An entry of term t, wherever it is, is in the log of a winner of t.      *)
EntriesFromWinners ==
  \A n \in Node : \A i \in 1..Len(node[n].storage.wal) :
    LET e == node[n].storage.wal[i] IN
    \E w \in won : w[1] = e.term /\ Holds(w[2], e)

(* No log holds a write twice, although no handler looks for duplicates.    *)
AppendedOnce ==
  \A n \in Node : LET wal == node[n].storage.wal IN
    \A i, j \in 1..Len(wal) : wal[i].value = wal[j].value => i = j

(* An acknowledged write is in the logs of a commit quorum, whatever has    *)
(* crashed, been cut off or been deposed since: logs are never cut short.   *)
AckedOnQuorum ==
  \A a \in acked :
    QuorumSatisfied({n \in Node : Holds(n, a[2])})

(* No node applies an index beyond the highest one acknowledged to a        *)
(* client: leader_commit is never ahead of a leader's acknowledged writes.  *)
AppliedAfterAck ==
  \A n \in Node : Acknowledged(node[n].storage.lastApplied)

(* What is left of leader completeness under StaticMajority: the winner of  *)
(* a term later than that of an acknowledged write has in its log an entry  *)
(* of the write's term or of a later one.  (The write itself may be         *)
(* missing: a log that skipped it passes for as long as one that has it.)   *)
AckedTermReachesLaterWinners ==
  \A a \in acked : \A w \in won :
    w[1] > a[2].term => LastLogTerm(node[w[2]].storage) >= a[2].term

(* What a node has applied it never unapplies or sees replaced, across      *)
(* elections, crashes and recoveries, and its term never goes back.         *)
AppliedForGood ==
  [][\A n \in Node :
       LET st == node[n].storage
           st2 == node'[n].storage
       IN /\ node'[n].term >= node[n].term
          /\ st2.lastApplied >= st.lastApplied
          /\ \A i \in 1..st.lastApplied : st2.wal[i] = st.wal[i]]_vars

------------------------------------------------------------------------------
(* Why the properties of logs and commits hold: what a thread in the middle *)
(* of a call may rely on, although every lock it took is open again.        *)
EntryOf(f) == Put(f.term, f.key, f.value)

LeadersWon ==
  \A n \in Node : node[n].role = "Leader" => <<node[n].term, n>> \in won

(* A write under way is in its leader's log where it was put, and in that   *)
(* of each node that is counted.                                            *)
WritesEntered ==
  \A t \in Thread :
    LET f == frame[t]
        wal == node[f.node].storage.wal
    IN f.at \in {"leader_commit", "replicate"} =>
         /\ <<f.term, f.node>> \in won
         /\ f.index \in 1..Len(wal) /\ wal[f.index] = EntryOf(f)
         /\ \A n \in f.acks : Holds(n, EntryOf(f))

(* Each thread writes a value of its own, and no node has it before the     *)
(* thread has come to that node.                                            *)
NotReached(f, n) ==
  \/ f.at = "client_write"
  \/ f.at = "leader_commit" /\ n # f.node
  \/ f.at = "replicate" /\ n # f.node /\ n >= f.peer

ValuesApart ==
  \A t \in Thread : frame[t].value # Nil =>
    /\ \A s \in Thread \ {t} : frame[s].value # frame[t].value
    /\ \A n \in Node : NotReached(frame[t], n) =>
         \A i \in 1..Len(node[n].storage.wal) :
           node[n].storage.wal[i].value # frame[t].value

(* What is sent as leader_commit has been acknowledged. *)
CommitsAcked ==
  \A t \in Thread : frame[t].at \in {"heartbeat", "replicate"} =>
                      Acknowledged(frame[t].commit)

(* A candidate's log ends in no earlier term than its campaign says, and    *)
(* than the entries its voters had when they voted.                         *)
VotersLogsSeen ==
  /\ \A t \in Thread : frame[t].at = "request_votes" =>
       frame[t].lastTerm <= LastLogTerm(node[frame[t].node].storage)
  /\ \A g \in granted :
       LET wal == node[g[2]].storage.wal IN
       \A i \in 1..Len(wal) : wal[i].term < g[1] =>
                               wal[i].term <= LastLogTerm(node[g[3]].storage)

LogInv == LeadersWon /\ WritesEntered /\ ValuesApart /\ CommitsAcked
                     /\ VotersLogsSeen

------------------------------------------------------------------------------
(* Claims of the repository's documents and tests that the code does not    *)
(* keep; each is refuted by a run of its own.                               *)

(* The nodes execute "Raft consensus" (research/THREAT_FAILURE_MODEL.md:12),*)
(* through crashes of single nodes: a term has one winner.                  *)
ElectionSafety == \A w1, w2 \in won : w1[1] = w2[1] => w1[2] = w2[2]

(* The nodes are "replicated state machines" (the same line) under          *)
(* concurrent clients (research/EXPERIMENT_PROTOCOL.md:12): two nodes that  *)
(* have both applied an index have applied the same entry there.            *)
AppliedPrefixesAgree ==
  \A m, n \in Node :
    \A i \in 1..Lesser(node[m].storage.lastApplied, node[n].storage.lastApplied) :
      node[m].storage.wal[i] = node[n].storage.wal[i]
==============================================================================
