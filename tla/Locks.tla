--------------------------------- MODULE Locks ---------------------------------
(****************************************************************************)
(* The mutexes of a Cluster and of its Nodes, and the threads that call     *)
(* into it (src/src/cluster.cpp, node.cpp): who holds what while asking for *)
(* what.                                                                    *)
(*                                                                          *)
(* A stretch of code under a mutex that locks no other mutex of these is    *)
(* one step, possible when that mutex is free.  What remains are the        *)
(* stretches that ask for a second mutex: node_count with the node locked,  *)
(* and the scans over all nodes with the cluster locked.  The mutexes of    *)
(* the network, the storage, the quorum engine, the controller and the      *)
(* logger are never held while another is asked for, and are left out.      *)
(*                                                                          *)
(* Terms, logs, timers and the network decide which way a call goes; here   *)
(* every way is possible.  get_node at the very start of a call, and the    *)
(* copy of the nodes that tick_all makes, hold nothing and are part of the  *)
(* first step after them.                                                   *)
(****************************************************************************)
EXTENDS Integers, FiniteSets

CONSTANTS N,          \* the cluster's size; node ids are 1..N
          Thread,
          Nobody,     \* the owner of a free mutex
          MaxCalls    \* bound: calls that are started

Node == 1..N
NoNode == 0
ClusterMutex == 0         \* a node's mutex has the node's id
Mutex == Node \cup {ClusterMutex}

ASSUME LocksAssumption ==
  N \in Nat \ {0} /\ Nobody \notin Thread /\ MaxCalls \in Nat

VARIABLES role,     \* role[n]: role_; Offline stands for ~alive_ too
          owner,    \* owner[m]: the thread that holds mutex m
          frame,    \* frame[t]: where thread t is, with its locals
          calls     \* how many calls have been started

vars == <<role, owner, frame, calls>>

Role == {"Follower", "Candidate", "Leader", "Offline"}

Point == {"idle", "start_election", "send_heartbeats", "node_count",
          "get_node", "handler", "relock", "client_write", "client_read",
          "find_leader", "scan", "confirm"}

(* What the call is about: an RPC's kind; who scans, and why. *)
Reason == {"none", "vote", "heartbeat", "replicate",
           "write", "read", "hint", "status"}

Frame == [at : Point, why : Reason, node : Node \cup {NoNode},
          peer : Node \cup {NoNode}, left : SUBSET Node]

Idle == [at |-> "idle", why |-> "none", node |-> NoNode, peer |-> NoNode,
         left |-> {}]

Goto(t, f) == frame' = [frame EXCEPT ![t] = f]
Free(m)    == owner[m] = Nobody
Lock(t, m) == Free(m) /\ owner' = [owner EXCEPT ![m] = t]

(* Mutant: a scan made for a call on a node leaves the node locked. *)
UnlockAll_NotTheNode(t) ==
  owner' = [m \in Mutex |-> IF m = ClusterMutex THEN Nobody ELSE owner[m]]

UnlockAll(t) ==
  owner' = [m \in Mutex |-> IF owner[m] = t THEN Nobody ELSE owner[m]]

------------------------------------------------------------------------------
(* Calls that an idle thread starts. *)
Begin(t) == frame[t].at = "idle" /\ calls < MaxCalls /\ calls' = calls + 1

(* tick_timer, when a timer is due: its own stretch, up to the unlock. *)
Tick(t, n) ==
  /\ Begin(t) /\ Free(n)
  /\ role[n] # "Offline"
  /\ Goto(t, [Idle EXCEPT !.node = n,
                          !.at = IF role[n] = "Leader" THEN "send_heartbeats"
                                                      ELSE "start_election"])
  /\ UNCHANGED <<role, owner>>

(* Cluster::write, Cluster::read and get_cluster_status begin with a scan. *)
StartScan(t, why) ==
  /\ Begin(t)
  /\ Goto(t, [Idle EXCEPT !.at = "find_leader", !.why = why])
  /\ UNCHANGED <<role, owner>>

(* crash and recover, which lock nothing else. *)
SetRole(t, n, r) ==
  /\ Begin(t) /\ Free(n) /\ role[n] # r
  /\ role' = [role EXCEPT ![n] = r]
  /\ UNCHANGED <<owner, frame>>

Kill(t, n)    == SetRole(t, n, "Offline")
Recover(t, n) == SetRole(t, n, "Follower")

------------------------------------------------------------------------------
(* start_election, send_heartbeats and client_write lock the node and, with *)
(* it locked, ask the cluster how many nodes there are.                     *)
EnterNode(t, why) ==
  /\ Lock(t, frame[t].node)
  /\ Goto(t, [frame[t] EXCEPT !.at = "node_count", !.why = why])
  /\ UNCHANGED calls

StartElection(t) ==
  LET n == frame[t].node IN
  /\ frame[t].at = "start_election" /\ role[n] # "Offline"
  /\ role' = [role EXCEPT ![n] = "Candidate"]
  /\ EnterNode(t, "vote")

SendHeartbeats(t) ==
  /\ frame[t].at = "send_heartbeats" /\ role[frame[t].node] = "Leader"
  /\ EnterNode(t, "heartbeat")
  /\ UNCHANGED role

ClientWrite(t) ==
  /\ frame[t].at = "client_write" /\ role[frame[t].node] = "Leader"
  /\ EnterNode(t, "replicate")
  /\ UNCHANGED role

(* A node that is up and does not lead is asked to write or to read: it     *)
(* looks for the leader, its own mutex held.                                *)
AskForLeader(t) ==
  /\ frame[t].at \in {"client_write", "client_read"}
  /\ role[frame[t].node] \in {"Follower", "Candidate"}
  /\ Lock(t, frame[t].node)
  /\ Goto(t, [frame[t] EXCEPT !.at = "find_leader", !.why = "hint"])
  /\ UNCHANGED <<role, calls>>

(* The calls that return before they ask for a second mutex. *)
ReturnEarly(t) ==
  LET f == frame[t] IN
  /\ \/ f.at \in {"start_election", "client_write"} /\ role[f.node] = "Offline"
     \/ f.at = "send_heartbeats" /\ role[f.node] # "Leader"
     \/ f.at = "client_read" /\ role[f.node] \in {"Offline", "Leader"}
  /\ Free(f.node)
  /\ Goto(t, Idle)
  /\ UNCHANGED <<role, owner, calls>>

------------------------------------------------------------------------------
(* After the peer f.peer: an RPC to one of the next, those between being    *)
(* unreachable, or what comes after the loop.                               *)
AfterLoop(f) == IF f.why = "heartbeat" THEN Idle
                ELSE [f EXCEPT !.at = "relock", !.peer = NoNode]

(* Mutant: an RPC without an answer is made again. *)
Onward_Retries(f) ==
  {[f EXCEPT !.at = "get_node", !.peer = p] :
     p \in {q \in Node \ {f.node} : q >= f.peer}} \cup {AfterLoop(f)}

Onward(f) ==
  {[f EXCEPT !.at = "get_node", !.peer = p] :
     p \in {q \in Node \ {f.node} : q > f.peer}} \cup {AfterLoop(f)}

(* Mutant: the node stays locked while its peers are called. *)
NodeCount_StaysLocked(t) ==
  /\ frame[t].at = "node_count"
  /\ Free(ClusterMutex)
  /\ \E f \in Onward(frame[t]) : Goto(t, f)
  /\ UNCHANGED <<role, owner, calls>>

(* node_count, then the unlock. *)
NodeCount(t) ==
  /\ frame[t].at = "node_count"
  /\ Free(ClusterMutex)
  /\ UnlockAll(t)
  /\ \E f \in Onward(frame[t]) : Goto(t, f)
  /\ UNCHANGED <<role, calls>>

(* get_node, with nothing held: for an RPC, or for the leader just found. *)
GetNode(t) ==
  LET f == frame[t] IN
  /\ f.at = "get_node" /\ Free(ClusterMutex)
  /\ Goto(t, [f EXCEPT !.at = CASE f.why = "write" -> "client_write"
                                [] f.why = "read"  -> "client_read"
                                [] OTHER           -> "handler"])
  /\ UNCHANGED <<role, owner, calls>>

(* is_alive and the handler at the receiver: a live one may step down. *)
Handle(t) ==
  LET f == frame[t] IN
  /\ f.at = "handler" /\ Free(f.peer)
  /\ \/ UNCHANGED role
     \/ role[f.peer] # "Offline" /\ role' = [role EXCEPT ![f.peer] = "Follower"]
  /\ \E g \in Onward(f) : Goto(t, g)
  /\ UNCHANGED <<owner, calls>>

(* The last stretch of start_election and of client_write. *)
Relock(t) ==
  LET f == frame[t] IN
  /\ f.at = "relock" /\ Free(f.node)
  /\ \/ UNCHANGED role
     \/ /\ f.why = "vote" /\ role[f.node] = "Candidate"
        /\ role' = [role EXCEPT ![f.node] = "Leader"]
  /\ Goto(t, Idle)
  /\ UNCHANGED <<owner, calls>>

------------------------------------------------------------------------------
(* find_leader and get_cluster_status: the cluster stays locked while one   *)
(* node after another is locked and unlocked, in the order of a hash map.   *)
(* "scan" is role() or get_status(), "confirm" the is_alive() of a leader.  *)
LockCluster(t) ==
  /\ frame[t].at = "find_leader"
  /\ Lock(t, ClusterMutex)
  /\ \E m \in Node :
       Goto(t, [frame[t] EXCEPT !.at = "scan", !.peer = m, !.left = Node \ {m}])
  /\ UNCHANGED <<role, calls>>

(* A write without a leader gives up, a read goes to node 1. *)
AfterScan(f, found) ==
  CASE f.why = "write" /\ found # NoNode ->
         [Idle EXCEPT !.at = "get_node", !.why = "write", !.node = found]
    [] f.why = "read" ->
         [Idle EXCEPT !.at = "get_node", !.why = "read",
                      !.node = IF found = NoNode THEN 1 ELSE found]
    [] OTHER -> Idle

EndScan(t, found) == UnlockAll(t) /\ Goto(t, AfterScan(frame[t], found))

NextNode(t) ==
  LET f == frame[t] IN
  \/ /\ \E m \in f.left :
          Goto(t, [f EXCEPT !.at = "scan", !.peer = m, !.left = @ \ {m}])
     /\ UNCHANGED owner
  \/ f.left = {} /\ EndScan(t, NoNode)

Scan(t) ==
  LET f == frame[t] IN
  /\ f.at = "scan" /\ Free(f.peer)
  /\ IF f.why # "status" /\ role[f.peer] = "Leader"
     THEN Goto(t, [f EXCEPT !.at = "confirm"]) /\ UNCHANGED owner
     ELSE NextNode(t)
  /\ UNCHANGED <<role, calls>>

Confirm(t) ==
  LET f == frame[t] IN
  /\ f.at = "confirm" /\ Free(f.peer)
  /\ IF role[f.peer] # "Offline" THEN EndScan(t, f.peer) ELSE NextNode(t)
  /\ UNCHANGED <<role, calls>>

------------------------------------------------------------------------------
Init ==
  /\ role = [n \in Node |-> "Follower"]
  /\ owner = [m \in Mutex |-> Nobody]
  /\ frame = [t \in Thread |-> Idle]
  /\ calls = 0

Continue(t) ==
  \/ StartElection(t) \/ SendHeartbeats(t) \/ ClientWrite(t)
  \/ AskForLeader(t) \/ ReturnEarly(t)
  \/ NodeCount(t) \/ GetNode(t) \/ Handle(t) \/ Relock(t)
  \/ LockCluster(t) \/ Scan(t) \/ Confirm(t)

Call(t) ==
  \/ \E n \in Node : Tick(t, n) \/ Kill(t, n) \/ Recover(t, n)
  \/ \E why \in {"write", "read", "status"} : StartScan(t, why)

Next == \E t \in Thread : Continue(t) \/ Call(t)

Spec == Init /\ [][Next]_vars

(* The operating system runs a thread that can go on.  It owes no thread a  *)
(* mutex that others take in turns, which with finitely many calls does not *)
(* happen for ever.                                                         *)
FairSpec == Spec /\ \A t \in Thread : WF_vars(Continue(t))

------------------------------------------------------------------------------
(* The mutexes a thread holds at a point, and the one its next step needs.  *)
Holds(f) ==
  CASE f.at = "node_count" -> {f.node}
    [] f.at = "find_leader" -> IF f.why = "hint" THEN {f.node} ELSE {}
    [] f.at \in {"scan", "confirm"} ->
         {ClusterMutex} \cup (IF f.why = "hint" THEN {f.node} ELSE {})
    [] OTHER -> {}

Wants(f) ==
  CASE f.at \in {"node_count", "get_node", "find_leader"} -> ClusterMutex
    [] f.at \in {"handler", "scan", "confirm"} -> f.peer
    [] OTHER -> f.node

(* A thread has the node and the peer that it works on. *)
FrameOK(f) ==
  /\ \/ f.at \in {"idle", "find_leader", "scan", "confirm"} /\ f.why # "hint"
     \/ f.node \in Node
  /\ \/ f.at \notin {"get_node", "handler", "scan", "confirm"}
     \/ f.at = "get_node" /\ f.why \in {"write", "read"}
     \/ f.peer \in Node

(* Types, and a mutex is held by just the threads whose point says so:      *)
(* every way out of a call unlocks what it locked.                          *)
TypeOK ==
  /\ role \in [Node -> Role]
  /\ owner \in [Mutex -> Thread \cup {Nobody}]
  /\ frame \in [Thread -> Frame] /\ \A t \in Thread : FrameOK(frame[t])
  /\ calls \in 0..MaxCalls
  /\ \A m \in Mutex, t \in Thread : owner[m] = t <=> m \in Holds(frame[t])

(* Threads that wait for each other, and so for ever. *)
Stuck(S) ==
  /\ S # {}
  /\ \A t \in S : frame[t].at # "idle" /\ owner[Wants(frame[t])] \in S

(* Every deadlock has a scan in it that waits for a node locked by a thread *)
(* that asks for the cluster, or by the scanning thread itself.  RPCs and   *)
(* handlers alone never deadlock, whoever calls whom, since the node is     *)
(* unlocked around them (node.cpp:99, 142 and 249).                         *)
DeadlocksNeedScan ==
  \A S \in SUBSET Thread : Stuck(S) =>
    \E t, u \in S : /\ frame[t].at \in {"scan", "confirm"}
                    /\ owner[frame[t].peer] = u
                    /\ u = t \/ Wants(frame[u]) = ClusterMutex

(* Every call returns, unless it waits for threads that wait for each       *)
(* other: no loop runs for ever, and no call leaves a mutex locked.         *)
CallsReturnOrHang ==
  \A t \in Thread :
    (frame[t].at # "idle") ~>
      \/ frame[t].at = "idle"
      \/ \E S \in SUBSET Thread : t \in S /\ Stuck(S)

------------------------------------------------------------------------------
(* "Evaluation is conducted in a thread-safe simulation engine"             *)
(* (research/paper/limitations.tex:6): no threads wait for each other for   *)
(* ever.  Refuted by a run of its own.                                      *)
NoDeadlock == \A S \in SUBSET Thread : ~Stuck(S)
==============================================================================
