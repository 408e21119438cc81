------------------------------ MODULE LocksProofs ------------------------------
(* Theorems of Locks, for any number of nodes, threads and calls.           *)
EXTENDS Locks, TLAPS

LEMMA MutexesDiffer == ClusterMutex \notin Node /\ ClusterMutex \in Mutex
                       /\ Node \subseteq Mutex /\ NoNode \notin Node
BY DEF ClusterMutex, Mutex, Node, NoNode

(* A step that takes thread t to f locks one mutex, none, or unlocks all.   *)
LEMMA StepKeepsTypes ==
  ASSUME TypeOK, NEW t \in Thread, NEW f \in Frame, FrameOK(f), Goto(t, f),
         role' \in [Node -> Role], calls' \in 0..MaxCalls,
         \/ owner' = owner /\ Holds(f) = Holds(frame[t])
         \/ \E m \in Mutex : Lock(t, m) /\ Holds(f) = Holds(frame[t]) \cup {m}
         \/ UnlockAll(t) /\ Holds(f) = {}
  PROVE  TypeOK'
<1>1. /\ frame' \in [Thread -> Frame] /\ frame'[t] = f
      /\ \A s \in Thread \ {t} : frame'[s] = frame[s]
  BY DEF Goto, TypeOK
<1>2. \A s \in Thread : FrameOK(frame'[s])
  BY <1>1 DEF TypeOK
<1>3. Nobody \notin Thread
  BY LocksAssumption
<1>4. /\ owner' \in [Mutex -> Thread \cup {Nobody}]
      /\ \A m \in Mutex, s \in Thread : owner'[m] = s <=> m \in Holds(frame'[s])
  <2>1. CASE owner' = owner /\ Holds(f) = Holds(frame[t])
    BY <1>1, <2>1 DEF TypeOK
  <2>2. CASE \E m \in Mutex : Lock(t, m) /\ Holds(f) = Holds(frame[t]) \cup {m}
    <3>1. PICK m \in Mutex : Lock(t, m) /\ Holds(f) = Holds(frame[t]) \cup {m}
      BY <2>2
    <3>2. owner[m] = Nobody /\ owner' = [owner EXCEPT ![m] = t]
      BY <3>1 DEF Lock, Free
    <3>. QED BY <1>1, <1>3, <3>1, <3>2 DEF TypeOK
  <2>3. CASE UnlockAll(t) /\ Holds(f) = {}
    <3>1. owner' = [m \in Mutex |-> IF owner[m] = t THEN Nobody ELSE owner[m]]
      BY <2>3 DEF UnlockAll
    <3>. QED BY <1>1, <1>3, <2>3, <3>1 DEF TypeOK
  <2>. QED BY <2>1, <2>2, <2>3
<1>. QED BY <1>1, <1>2, <1>4 DEF TypeOK, FrameOK, Holds

LEMMA IdleType == Idle \in Frame /\ FrameOK(Idle) /\ Holds(Idle) = {}
BY DEF Idle, Frame, Point, Reason, FrameOK, Holds, NoNode

LEMMA OnwardType ==
  ASSUME NEW f \in Frame, f.node \in Node, NEW g \in Onward(f)
  PROVE  g \in Frame /\ FrameOK(g) /\ Holds(g) = {}
<1>1. CASE g = AfterLoop(f) /\ f.why = "heartbeat"
  BY <1>1, IdleType DEF AfterLoop
<1>2. CASE g = AfterLoop(f) /\ f.why # "heartbeat"
  <2>1. g = [f EXCEPT !.at = "relock", !.peer = NoNode]
    BY <1>2 DEF AfterLoop
  <2>. QED BY <2>1 DEF Frame, Point, FrameOK, Holds
<1>3. CASE \E p \in Node : g = [f EXCEPT !.at = "get_node", !.peer = p]
  BY <1>3 DEF Frame, Point, FrameOK, Holds
<1>. QED BY <1>1, <1>2, <1>3 DEF Onward

LEMMA TypesInitially == Init => TypeOK
BY IdleType, LocksAssumption DEF Init, TypeOK, Role

LEMMA CallKeepsTypes ==
  ASSUME TypeOK, NEW t \in Thread, Call(t) PROVE TypeOK'
<1>1. /\ frame[t].at = "idle" /\ frame[t] \in Frame
      /\ Holds(frame[t]) = {} /\ calls' \in 0..MaxCalls
  <2>1. Begin(t)
    BY DEF Call, Tick, StartScan, Kill, Recover, SetRole
  <2>2. frame[t].at = "idle" /\ calls' = calls + 1 /\ calls < MaxCalls
    BY <2>1 DEF Begin
  <2>3. frame[t] \in Frame /\ calls \in 0..MaxCalls
    BY DEF TypeOK
  <2>4. Holds(frame[t]) = {}
    BY <2>2 DEF Holds
  <2>. QED BY LocksAssumption, <2>2, <2>3, <2>4
<1>2. ASSUME NEW n \in Node, Tick(t, n) PROVE TypeOK'
  <2>. DEFINE f == [Idle EXCEPT !.node = n,
                      !.at = IF role[n] = "Leader" THEN "send_heartbeats"
                                                   ELSE "start_election"]
  <2>1. f \in Frame /\ FrameOK(f) /\ Holds(f) = {}
    BY IdleType DEF Idle, Frame, Point, FrameOK, Holds
  <2>2. Goto(t, f) /\ role' = role /\ owner' = owner
    BY <1>2 DEF Tick
  <2>. HIDE DEF f
  <2>. QED BY <1>1, <2>1, <2>2, StepKeepsTypes DEF TypeOK
<1>3. ASSUME NEW why \in {"write", "read", "status"}, StartScan(t, why)
      PROVE  TypeOK'
  <2>. DEFINE f == [Idle EXCEPT !.at = "find_leader", !.why = why]
  <2>1. f \in Frame /\ FrameOK(f) /\ Holds(f) = {}
    BY IdleType DEF Idle, Frame, Point, Reason, FrameOK, Holds
  <2>2. Goto(t, f) /\ role' = role /\ owner' = owner
    BY <1>3 DEF StartScan
  <2>. HIDE DEF f
  <2>. QED BY <1>1, <2>1, <2>2, StepKeepsTypes DEF TypeOK
<1>4. ASSUME NEW n \in Node, Kill(t, n) \/ Recover(t, n) PROVE TypeOK'
  <2>1. role' \in [Node -> Role] /\ UNCHANGED <<owner, frame>>
    BY <1>4 DEF Kill, Recover, SetRole, TypeOK, Role
  <2>. QED BY <1>1, <2>1 DEF TypeOK, FrameOK, Holds
<1>. QED BY <1>2, <1>3, <1>4 DEF Call

(* The steps that lock a node and keep it, and the one that takes them on.  *)
LEMMA EnterKeepsTypes ==
  ASSUME TypeOK, NEW t \in Thread,
         StartElection(t) \/ SendHeartbeats(t) \/ ClientWrite(t)
  PROVE  TypeOK'
<1>. DEFINE n == frame[t].node
<1>1. /\ frame[t] \in Frame /\ n \in Node /\ n \in Mutex /\ Holds(frame[t]) = {}
  BY MutexesDiffer DEF StartElection, SendHeartbeats, ClientWrite, TypeOK,
                       FrameOK, Holds
<1>2. PICK why \in {"vote", "heartbeat", "replicate"} : EnterNode(t, why)
  BY DEF StartElection, SendHeartbeats, ClientWrite
<1>3. role' \in [Node -> Role]
  BY <1>1 DEF StartElection, SendHeartbeats, ClientWrite, TypeOK, Role
<1>. DEFINE f == [frame[t] EXCEPT !.at = "node_count", !.why = why]
<1>4. f \in Frame /\ FrameOK(f) /\ Holds(f) = Holds(frame[t]) \cup {n}
  BY <1>1 DEF Frame, Point, Reason, FrameOK, Holds
<1>5. Goto(t, f) /\ Lock(t, n) /\ calls' = calls
  BY <1>2 DEF EnterNode
<1>. HIDE DEF f, n
<1>6. calls' \in 0..MaxCalls
  BY <1>5 DEF TypeOK
<1>. QED BY <1>1, <1>3, <1>4, <1>5, <1>6, StepKeepsTypes

LEMMA AskKeepsTypes ==
  ASSUME TypeOK, NEW t \in Thread, AskForLeader(t) PROVE TypeOK'
<1>. DEFINE n == frame[t].node
            f == [frame[t] EXCEPT !.at = "find_leader", !.why = "hint"]
<1>1. frame[t] \in Frame /\ n \in Node /\ n \in Mutex /\ Holds(frame[t]) = {}
  BY MutexesDiffer DEF AskForLeader, TypeOK, FrameOK, Holds
<1>2. f \in Frame /\ FrameOK(f) /\ Holds(f) = Holds(frame[t]) \cup {n}
  BY <1>1 DEF Frame, Point, Reason, FrameOK, Holds
<1>3. Goto(t, f) /\ Lock(t, n) /\ UNCHANGED <<role, calls>>
  BY DEF AskForLeader
<1>. HIDE DEF f, n
<1>4. role' \in [Node -> Role] /\ calls' \in 0..MaxCalls
  BY <1>3 DEF TypeOK
<1>. QED BY <1>1, <1>2, <1>3, <1>4, StepKeepsTypes

LEMMA ReturnKeepsTypes ==
  ASSUME TypeOK, NEW t \in Thread, ReturnEarly(t) \/ Relock(t) PROVE TypeOK'
<1>1. frame[t] \in Frame /\ Holds(frame[t]) = {} /\ FrameOK(frame[t])
  BY DEF ReturnEarly, Relock, TypeOK, Holds
<1>2. Goto(t, Idle) /\ owner' = owner /\ calls' \in 0..MaxCalls
  BY DEF ReturnEarly, Relock, TypeOK
<1>3. role' \in [Node -> Role]
  BY DEF ReturnEarly, Relock, TypeOK, Role
<1>. QED BY <1>1, <1>2, <1>3, IdleType, StepKeepsTypes

LEMMA NodeCountKeepsTypes ==
  ASSUME TypeOK, NEW t \in Thread, NodeCount(t) PROVE TypeOK'
<1>1. frame[t] \in Frame /\ frame[t].node \in Node
  BY DEF NodeCount, TypeOK, FrameOK
<1>2. PICK f \in Onward(frame[t]) : Goto(t, f)
  BY DEF NodeCount
<1>3. /\ UnlockAll(t) /\ role' \in [Node -> Role] /\ calls' \in 0..MaxCalls
  BY DEF NodeCount, TypeOK
<1>4. f \in Frame /\ FrameOK(f) /\ Holds(f) = {}
  BY <1>1, OnwardType
<1>. QED BY <1>2, <1>3, <1>4, StepKeepsTypes

LEMMA HandleKeepsTypes ==
  ASSUME TypeOK, NEW t \in Thread, Handle(t) PROVE TypeOK'
<1>1. /\ frame[t] \in Frame /\ frame[t].node \in Node /\ frame[t].peer \in Node
      /\ Holds(frame[t]) = {}
  BY DEF Handle, TypeOK, FrameOK, Holds
<1>2. PICK f \in Onward(frame[t]) : Goto(t, f)
  BY DEF Handle
<1>3. role' \in [Node -> Role] /\ calls' \in 0..MaxCalls /\ owner' = owner
  BY <1>1 DEF Handle, TypeOK, Role
<1>4. f \in Frame /\ FrameOK(f) /\ Holds(f) = {}
  BY <1>1, OnwardType
<1>. QED BY <1>1, <1>2, <1>3, <1>4, StepKeepsTypes

LEMMA GetNodeKeepsTypes ==
  ASSUME TypeOK, NEW t \in Thread, GetNode(t) PROVE TypeOK'
<1>1. /\ frame[t] \in Frame /\ FrameOK(frame[t]) /\ frame[t].at = "get_node"
      /\ Holds(frame[t]) = {}
  BY DEF GetNode, TypeOK, Holds
<1>2. PICK at \in {"client_write", "client_read", "handler"} :
        /\ Goto(t, [frame[t] EXCEPT !.at = at])
        /\ at = "handler" => frame[t].why \notin {"write", "read"}
  BY DEF GetNode
<1>. DEFINE f == [frame[t] EXCEPT !.at = at]
<1>3. f \in Frame /\ FrameOK(f) /\ Holds(f) = {}
  BY <1>1, <1>2 DEF Frame, Point, FrameOK, Holds
<1>4. Goto(t, f) /\ owner' = owner
  BY <1>2 DEF GetNode
<1>5. role' \in [Node -> Role] /\ calls' \in 0..MaxCalls
  BY DEF GetNode, TypeOK
<1>. HIDE DEF f
<1>. QED BY <1>1, <1>3, <1>4, <1>5, StepKeepsTypes

LEMMA LockClusterKeepsTypes ==
  ASSUME TypeOK, NEW t \in Thread, LockCluster(t) PROVE TypeOK'
<1>1. /\ frame[t] \in Frame /\ FrameOK(frame[t]) /\ frame[t].at = "find_leader"
  BY DEF LockCluster, TypeOK
<1>2. PICK m \in Node :
        Goto(t, [frame[t] EXCEPT !.at = "scan", !.peer = m, !.left = Node \ {m}])
  BY DEF LockCluster
<1>. DEFINE f == [frame[t] EXCEPT !.at = "scan", !.peer = m, !.left = Node \ {m}]
<1>3. f \in Frame /\ FrameOK(f) /\ Holds(f) = Holds(frame[t]) \cup {ClusterMutex}
  BY <1>1 DEF Frame, Point, FrameOK, Holds
<1>4. /\ Goto(t, f) /\ Lock(t, ClusterMutex)
      /\ role' \in [Node -> Role] /\ calls' \in 0..MaxCalls
  BY <1>2 DEF LockCluster, TypeOK
<1>. HIDE DEF f
<1>. QED BY <1>3, <1>4, MutexesDiffer, StepKeepsTypes

(* A scan ends with nothing locked and its caller at a node, or idle. *)
LEMMA EndScanKeepsTypes ==
  ASSUME TypeOK, NEW t \in Thread, NEW found \in Node \cup {NoNode},
         EndScan(t, found), UNCHANGED <<role, calls>>
  PROVE  TypeOK'
<1>. DEFINE f == AfterScan(frame[t], found)
<1>1. f \in Frame /\ FrameOK(f) /\ Holds(f) = {}
  <2>1. 1 \in Node
    BY LocksAssumption DEF Node
  <2>. DEFINE g(why, n) == [Idle EXCEPT !.at = "get_node", !.why = why, !.node = n]
  <2>2. ASSUME NEW why \in {"write", "read"}, NEW n \in Node
        PROVE  /\ g(why, n) \in Frame /\ FrameOK(g(why, n))
               /\ Holds(g(why, n)) = {}
    BY DEF Idle, Frame, Point, Reason, FrameOK, Holds
  <2>3. \/ f = Idle
        \/ \E why \in {"write", "read"}, n \in Node : f = g(why, n)
    BY <2>1 DEF AfterScan
  <2>. HIDE DEF f, g
  <2>. QED BY <2>2, <2>3, IdleType
<1>2. Goto(t, f) /\ UnlockAll(t)
  BY DEF EndScan
<1>3. role' \in [Node -> Role] /\ calls' \in 0..MaxCalls
  BY DEF TypeOK
<1>. HIDE DEF f
<1>. QED BY <1>1, <1>2, <1>3, StepKeepsTypes

LEMMA ScanKeepsTypes ==
  ASSUME TypeOK, NEW t \in Thread, Scan(t) \/ Confirm(t) PROVE TypeOK'
<1>1. /\ frame[t] \in Frame /\ FrameOK(frame[t])
      /\ frame[t].at \in {"scan", "confirm"} /\ frame[t].peer \in Node
      /\ UNCHANGED <<role, calls>>
      /\ role' \in [Node -> Role] /\ calls' \in 0..MaxCalls
  BY DEF Scan, Confirm, TypeOK, FrameOK
<1>2. ASSUME NEW f, f = [frame[t] EXCEPT !.at = "confirm"],
             Goto(t, f), owner' = owner
      PROVE  TypeOK'
  <2>1. f \in Frame /\ FrameOK(f) /\ Holds(f) = Holds(frame[t])
    BY <1>1, <1>2 DEF Frame, Point, FrameOK, Holds
  <2>. QED BY <1>1, <1>2, <2>1, StepKeepsTypes
<1>3. ASSUME NEW m \in frame[t].left, NEW f,
             f = [frame[t] EXCEPT !.at = "scan", !.peer = m, !.left = @ \ {m}],
             Goto(t, f), owner' = owner
      PROVE  TypeOK'
  <2>1. f \in Frame /\ FrameOK(f) /\ Holds(f) = Holds(frame[t])
    BY <1>1, <1>3 DEF Frame, Point, FrameOK, Holds
  <2>. QED BY <1>1, <1>3, <2>1, StepKeepsTypes
<1>4. EndScan(t, NoNode) \/ EndScan(t, frame[t].peer) => TypeOK'
  BY <1>1, EndScanKeepsTypes
<1>. QED BY <1>2, <1>3, <1>4 DEF Scan, Confirm, NextNode

LEMMA TypesKept == TypeOK /\ [Next]_vars => TypeOK'
<1>. SUFFICES ASSUME TypeOK, [Next]_vars PROVE TypeOK'
  OBVIOUS
<1>1. CASE UNCHANGED vars
  BY <1>1 DEF vars, TypeOK, FrameOK, Holds
<1>2. ASSUME NEW t \in Thread, Continue(t) PROVE TypeOK'
  BY <1>2, EnterKeepsTypes, AskKeepsTypes, ReturnKeepsTypes, NodeCountKeepsTypes,
     HandleKeepsTypes, GetNodeKeepsTypes, LockClusterKeepsTypes, ScanKeepsTypes
     DEF Continue
<1>. QED BY <1>1, <1>2, CallKeepsTypes DEF Next

(* Whatever calls overlap, the mutexes held are those that the code at the  *)
(* threads' points has locked and not unlocked: none is left behind.        *)
THEOREM LocksTypeCorrect == Spec => []TypeOK
BY TypesInitially, TypesKept, PTL DEF Spec

------------------------------------------------------------------------------
(* Who holds a node's mutex and waits either asks for the cluster's, or     *)
(* holds that too, in a scan.                                               *)
LEMMA ClusterIsWantedOrHeld ==
  ASSUME TypeOK, NEW u \in Thread, NEW m \in Mutex, owner[m] = u
  PROVE  \/ Wants(frame[u]) = ClusterMutex
         \/ owner[ClusterMutex] = u
<1>1. m \in Holds(frame[u])
  BY DEF TypeOK
<1>2. CASE frame[u].at \in {"node_count", "find_leader"}
  BY <1>2 DEF Wants
<1>3. CASE frame[u].at \in {"scan", "confirm"}
  <2>1. ClusterMutex \in Holds(frame[u])
    BY <1>3 DEF Holds
  <2>. QED BY <2>1, MutexesDiffer DEF TypeOK
<1>. QED BY <1>1, <1>2, <1>3 DEF Holds

LEMMA TypesGiveDeadlocksNeedScan ==
  ASSUME TypeOK PROVE DeadlocksNeedScan
<1>. SUFFICES ASSUME NEW S \in SUBSET Thread, Stuck(S)
              PROVE  \E t, u \in S :
                       /\ frame[t].at \in {"scan", "confirm"}
                       /\ owner[frame[t].peer] = u
                       /\ u = t \/ Wants(frame[u]) = ClusterMutex
  BY DEF DeadlocksNeedScan
<1>1. \A t \in S : Wants(frame[t]) \in Mutex /\ owner[Wants(frame[t])] \in S
  <2>. SUFFICES ASSUME NEW t \in S
                PROVE  Wants(frame[t]) \in Mutex /\ owner[Wants(frame[t])] \in S
    OBVIOUS
  <2>1. frame[t].at # "idle" /\ frame[t] \in Frame /\ FrameOK(frame[t])
    BY DEF Stuck, TypeOK
  <2>2. Wants(frame[t]) \in Mutex
    BY <2>1, MutexesDiffer DEF Wants, FrameOK, Frame, Point
  <2>. QED BY <2>2 DEF Stuck
<1>2. PICK t \in S : owner[ClusterMutex] = t
  <2>1. PICK s \in S : TRUE
    BY DEF Stuck
  <2>2. PICK u \in S : owner[Wants(frame[s])] = u
    BY <1>1
  <2>3. Wants(frame[u]) = ClusterMutex \/ owner[ClusterMutex] = u
    BY <1>1, <2>2, ClusterIsWantedOrHeld
  <2>. QED BY <1>1, <2>3
<1>3. frame[t].at \in {"scan", "confirm"} /\ Wants(frame[t]) = frame[t].peer
  <2>1. ClusterMutex \in Holds(frame[t])
    BY <1>2, MutexesDiffer DEF TypeOK
  <2>2. frame[t].at # "idle" /\ FrameOK(frame[t])
    BY DEF Stuck, TypeOK
  <2>3. frame[t].at \in {"scan", "confirm"}
    BY <2>1, <2>2, MutexesDiffer DEF Holds, FrameOK
  <2>. QED BY <2>3 DEF Wants
<1>4. PICK u \in S : owner[frame[t].peer] = u
  BY <1>1, <1>3
<1>5. u = t \/ Wants(frame[u]) = ClusterMutex
  BY <1>1, <1>2, <1>3, <1>4, ClusterIsWantedOrHeld
<1>. QED BY <1>3, <1>4, <1>5

(* The only deadlocks are those of a scan: for any number of threads and    *)
(* nodes, threads that wait for each other include one that holds the       *)
(* cluster's mutex in find_leader or get_cluster_status, and the node it    *)
(* waits for is locked by a thread asking for the cluster, or by itself.    *)
THEOREM OnlyScansDeadlock == Spec => []DeadlocksNeedScan
BY LocksTypeCorrect, TypesGiveDeadlocksNeedScan, PTL
==============================================================================
