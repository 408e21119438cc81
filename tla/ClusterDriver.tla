---------------------------- MODULE ClusterDriver ----------------------------
(****************************************************************************)
(* A Cluster driven by a single thread, as the CLI, its demo and the tests  *)
(* drive it (src/src/main.cpp, src/tests/test_cluster.cpp): every call runs *)
(* to its end before the next one starts, RPCs and handlers included, and   *)
(* time passes only in tick_all, which ticks every node once, in the order  *)
(* of a hash map that no call but initialize changes.  The nodes differ in  *)
(* nothing but their ids, so one order stands for all: that of the ids.     *)
(*                                                                          *)
(* No packet is dropped at random (drop_rate_ is 0 unless a caller sets     *)
(* it).  An RPC changes the receiver alone, so the loop over the peers is   *)
(* one update of all of them.                                               *)
(****************************************************************************)
EXTENDS NodeState, QuorumRules, FiniteSets

CONSTANTS Mode,       \* the quorum engine's mode
          Cuts,       \* the pairs of groups that partition() is called with;
                      \* not to prefer some nodes, which come early or late
          MaxTerm,    \* bound: see Frozen
          MaxWrites,  \* bound: calls of write
          MaxFaults,  \* bound: see Fault
          Patience    \* rounds of ticks waited for before something is expected

ASSUME DriverAssumption ==
  /\ Mode \in Modes
  /\ Cuts \subseteq (SUBSET Node) \X (SUBSET Node)
  /\ MaxTerm \in Nat /\ MaxFaults \in Nat /\ Patience \in Nat
  /\ MaxWrites \in Nat
  /\ Nil = 0 /\ Value = 1..MaxWrites   \* the w-th write stores w

VARIABLES node, isolated, partitioned,   \* as in Cluster
          due,      \* the nodes tick_all has still to tick
          faults,   \* how many calls have changed who can reach whom
          calm,     \* history: full rounds of ticks since the last other call
          split,    \* history: whether partition() has been called
          writes,   \* history: how many writes have been tried
          acked,    \* history: by key, the last that reported success
          missed    \* history: the nodes an entry was not sent to, or that
                    \* refused it

network == <<isolated, partitioned>>
history == <<split, writes, acked, missed>>
vars == <<node, isolated, partitioned, due, faults, calm,
          split, writes, acked, missed>>

------------------------------------------------------------------------------
Reachable(a, b) == /\ a \notin isolated /\ b \notin isolated
                   /\ <<a, b>> \notin partitioned

(* The live nodes that reach each other and no other live node, if they are *)
(* a majority (at most one such set).                                       *)
ConnectedMajorities ==
  {Q \in SUBSET Node :
     /\ Cardinality(Q) >= VoteQuorum
     /\ \A a \in Q : /\ node[a].alive
                     /\ \A b \in Node \ {a} : node[b].alive =>
                                               (Reachable(a, b) <=> b \in Q)}

Answers(from, to) == from # to /\ Reachable(from, to) /\ node[to].alive

(* start_election, from its first lock to the end. *)
AfterElection(n) ==
  LET own  == Campaigning(Ticked(node[n]), n)
      args == [term |-> own.term, candidate |-> n,
               lastIndex |-> LastLogIndex(own.storage),
               lastTerm |-> LastLogTerm(own.storage)]
      votes == {n} \cup {m \in Node : Answers(n, m) /\ GrantsVote(node[m], args)}
  IN [m \in Node |->
        IF m = n
        THEN [own EXCEPT !.role = IF WinsElection(own, own.term, Cardinality(votes))
                                  THEN "Leader" ELSE @]
        ELSE IF Answers(n, m) THEN AfterRequestVote(node[m], args) ELSE node[m]]

(* send_heartbeats. *)
AfterHeartbeats(n) ==
  LET args == [term |-> node[n].term, entries |-> << >>,
               leaderCommit |-> node[n].commitIndex]
  IN [m \in Node |->
        IF m = n THEN Ticked(node[n])
        ELSE IF Answers(n, m) THEN AfterAppendEntries(node[m], args) ELSE node[m]]

------------------------------------------------------------------------------
(* The nodes the round has still to tick; a new round starts with all. *)
Pending == IF due = {} THEN Node ELSE due

Lower(a, b) == IF a < b THEN a ELSE b

(* The bound on terms: a node that is not in a connected majority starts no *)
(* election after MaxTerm, its timer stands still.                          *)
Frozen(n) == /\ ElectionDue(node[n]) /\ node[n].term >= MaxTerm
             /\ \A Q \in ConnectedMajorities : n \notin Q

(* tick_timer of the next node of tick_all. *)
Tick(n) ==
  /\ n \in Pending /\ \A m \in Pending : n <= m
  /\ node' = IF Frozen(n) THEN node
             ELSE IF ElectionDue(node[n]) THEN AfterElection(n)
             ELSE IF HeartbeatDue(node[n]) THEN AfterHeartbeats(n)
             ELSE [node EXCEPT ![n] = Ticked(@)]
  /\ due' = Pending \ {n}
  /\ calm' = IF due' = {} THEN Lower(calm + 1, Patience) ELSE calm
  /\ UNCHANGED <<network, faults, history>>

(* Cluster::write, with client_write at a leader that find_leader finds.    *)
Write(n, k) ==
  LET nd == node[n]
      v == writes + 1
      entry == Put(nd.term, k, v)
      args == [term |-> nd.term, entries |-> <<entry>>,
               leaderCommit |-> nd.commitIndex]
      logged == [nd EXCEPT !.storage = AppendLog(@, entry)]
      acks == {n} \cup {m \in Node : Answers(n, m)
                                /\ AcceptsAppend(node[m], args)}
      ok == Cardinality(acks) >= FlatThreshold(Mode, N)
  IN
  /\ due = {} /\ LiveLeader(nd) /\ v \in Value
  /\ node' = [m \in Node |->
                IF m = n
                THEN IF ok THEN CommittedUpTo(logged, LastLogIndex(logged.storage))
                           ELSE logged
                ELSE IF Answers(n, m) THEN AfterAppendEntries(node[m], args)
                                      ELSE node[m]]
  /\ writes' = v
  /\ acked' = IF ok THEN [acked EXCEPT ![k] = v] ELSE acked
  /\ missed' = missed \cup (Node \ acks)
  /\ calm' = 0
  /\ UNCHANGED <<network, due, faults, split>>

------------------------------------------------------------------------------
(* Calls of kill, recover, partition, heal and initialize are bounded. *)
Fault == /\ due = {} /\ faults < MaxFaults
         /\ faults' = faults + 1
         /\ calm' = 0
         /\ UNCHANGED <<due, writes>>

Kill(n) ==
  /\ Fault
  /\ node' = [node EXCEPT ![n] = Crashed(@)]
  /\ isolated' = isolated \cup {n}
  /\ UNCHANGED <<partitioned, split, acked, missed>>

Recover(n) ==
  /\ Fault
  /\ node' = [node EXCEPT ![n] = Recovered(@)]
  /\ isolated' = isolated \ {n}
  /\ UNCHANGED <<partitioned, split, acked, missed>>

Partition(cut) ==
  /\ Fault
  /\ partitioned' = partitioned \cup (cut[1] \X cut[2]) \cup (cut[2] \X cut[1])
  /\ split' = TRUE
  /\ UNCHANGED <<node, isolated, acked, missed>>

Heal ==
  /\ Fault
  /\ partitioned' = {} /\ isolated' = {}
  /\ UNCHANGED <<node, split, acked, missed>>

(* Cluster::initialize, of a cluster of the same size: the nodes are new,   *)
(* the network is the process's one NetworkSimulator and stays as it was.   *)
Initialize ==
  /\ Fault
  /\ node' = [n \in Node |-> NewNode]
  /\ acked' = [k \in Key |-> 0] /\ missed' = {}
  /\ UNCHANGED <<network, split>>

------------------------------------------------------------------------------
Init ==
  /\ node = [n \in Node |-> NewNode]
  /\ isolated = {} /\ partitioned = {}
  /\ due = {} /\ faults = 0 /\ calm = 0
  /\ split = FALSE /\ writes = 0 /\ missed = {}
  /\ acked = [k \in Key |-> 0]

TickAll == \E n \in Node : Tick(n)

Next ==
  \/ TickAll
  \/ \E n \in Node, k \in Key : Write(n, k)
  \/ \E n \in Node : Kill(n) \/ Recover(n)
  \/ \E cut \in Cuts : Partition(cut)
  \/ Heal \/ Initialize

Spec == Init /\ [][Next]_vars

(* A program that waits for the cluster keeps calling tick_all. *)
FairSpec == Spec /\ WF_vars(TickAll)

------------------------------------------------------------------------------
(* The types of the state; a node's timers stay within their thresholds.    *)
TypeOK ==
  /\ node \in [Node -> NodeRecord]
  /\ isolated \subseteq Node /\ partitioned \subseteq Node \X Node
  /\ due \subseteq Node /\ missed \subseteq Node
  /\ faults \in 0..MaxFaults /\ calm \in 0..Patience
  /\ writes \in {0} \cup Value /\ acked \in [Key -> 0..writes]
  /\ split \in BOOLEAN

(* Patience rounds of ticks after the last other call, a connected majority *)
(* has a leader.  After up to two kills, recoveries, heals or initializes   *)
(* the five that tests/test_cluster.cpp:35 and main.cpp:143 wait are        *)
(* enough; logs and terms that differ after more, or after a partition,     *)
(* take longer.                                                             *)
TestedRounds == 5

LeaderWithinPatience ==
  \/ calm = Patience
  \/ calm >= TestedRounds /\ faults <= 2 /\ ~split
  => \A Q \in ConnectedMajorities : \E n \in Q : LiveLeader(node[n])

(* After Patience rounds every node of that majority has committed what its *)
(* leaders have, as far as its own log goes: heartbeats carry the commit    *)
(* index.                                                                   *)
HeartbeatsSpreadCommit ==
  calm = Patience => \A Q \in ConnectedMajorities : \A m, n \in Q :
    LiveLeader(node[n]) =>
      node[m].commitIndex >= Lesser(node[n].commitIndex, Len(node[m].storage.wal))

(* Nodes that every write has reached have the same log, whoever led and    *)
(* whoever else has crashed, been cut off or come back.                     *)
SameLogUnlessMissed ==
  \A m, n \in Node \ missed : node[m].storage.wal = node[n].storage.wal

(* What makes a read stale is a missed entry, or one not yet applied: as    *)
(* soon as a node that every write has reached has applied its log, it      *)
(* returns the last acknowledged write of a key or one tried since, through *)
(* whatever failovers, cuts and returns it came there.                      *)
FreshOnceApplied ==
  \A n \in Node \ missed :
    node[n].storage.lastApplied = Len(node[n].storage.wal) =>
      \A k \in Key : node[n].storage.kv[k] >= acked[k]

(* If in the end a majority is up and connected, there is a leader again    *)
(* and again: elections never block each other for good.                    *)
LeaderReturns ==
  <>[](ConnectedMajorities # {}) => []<>(\E n \in Node : LiveLeader(node[n]))

------------------------------------------------------------------------------
(* A claim of the repository that the code does not keep:                    *)
(* "Stale Reads 0" (RESEARCH.md:29), a stale read being one that returns a  *)
(* value "strictly older than the last committed write"                     *)
(* (research/METRICS.md:15): whatever leader a read is sent to returns the  *)
(* last acknowledged write of the key, or one tried since.                  *)
NoStaleReads ==
  due = {} => \A n \in Node, k \in Key :
                LiveLeader(node[n]) => node[n].storage.kv[k] >= acked[k]
==============================================================================
