---------------------------- MODULE ClusterProofs ----------------------------
(****************************************************************************)
(* Theorems of Cluster, for any number of nodes and of threads, any keys,   *)
(* values, mode, cuts and bounds.  First its type invariant, election       *)
(* safety as far as recover() leaves it, and that it implements Election.   *)
(* Then its logs: what a log holds comes from a winner, once and in the     *)
(* order of terms; it only grows; and what was acknowledged is on a quorum  *)
(* and comes before whatever is applied.                                    *)
(****************************************************************************)
EXTENDS Cluster, NodeStateProofs, FiniteSetTheorems, SequenceTheorems

------------------------------------------------------------------------------
(* Type correctness. *)

NetworkOK == /\ isolated \subseteq Node /\ healthy \subseteq Node
             /\ partitioned \subseteq Node \X Node
FramesOK == /\ frame \in [Thread -> Frame]
            /\ \A t \in Thread : FrameOK(frame[t])

LEMMA IdleOK == Idle \in Frame /\ FrameOK(Idle)
BY SizeAssumption DEF Idle, Frame, Point, FrameOK, NoNode, Calling

LEMMA PeerAfterType ==
  ASSUME NEW self \in Node, NEW p \in 0..N
  PROVE  PeerAfter(self, p) \in 1..(N + 1) /\ PeerAfter(self, p) # self
BY SizeAssumption DEF PeerAfter, Node

LEMMA GotoOK ==
  ASSUME FramesOK, NEW t \in Thread, NEW f \in Frame, FrameOK(f), Goto(t, f)
  PROVE  FramesOK'
<1>1. frame' = [frame EXCEPT ![t] = f]
  BY DEF Goto
<1>2. frame' \in [Thread -> Frame]
  BY <1>1 DEF FramesOK
<1>3. ASSUME NEW s \in Thread
      PROVE  FrameOK(frame'[s])
  BY <1>1 DEF FramesOK
<1> QED
  BY <1>2, <1>3 DEF FramesOK, FrameOK, RoundsLeft

LEMMA ReturnOK ==
  ASSUME FramesOK, NEW t \in Thread, Return(t)
  PROVE  FramesOK'
BY IdleOK, GotoOK DEF Return

LEMMA NextPeerOK ==
  ASSUME NEW f \in Frame, FrameOK(f), RoundsLeft(f), NEW counted \in BOOLEAN
  PROVE  /\ NextPeer(f, counted) \in Frame /\ FrameOK(NextPeer(f, counted))
         /\ f.node \in Node /\ f.peer \in Node /\ f.peer # f.node
<1>1. f.node \in Node /\ f.peer \in Node /\ f.peer # f.node
  BY SizeAssumption DEF FrameOK, RoundsLeft, Calling, Node
<1>2. PeerAfter(f.node, f.peer) \in 1..(N + 1) /\ PeerAfter(f.node, f.peer) # f.node
  BY <1>1, PeerAfterType, SizeAssumption DEF Node
<1> DEFINE p == PeerAfter(f.node, f.peer)
           acks == IF counted THEN f.acks \cup {f.peer} ELSE f.acks
           f2 == NextPeer(f, counted)
<1>3. f2 = [f EXCEPT !.peer = p, !.sent = FALSE, !.acks = acks]
  BY DEF NextPeer
<1>4. acks \in SUBSET Node
  BY <1>1 DEF Frame
<1> HIDE DEF p, acks, f2
<1>5. p \in 0..(N + 1)
  BY <1>2, SizeAssumption DEF p
<1>6. /\ f2 \in Frame
      /\ f2.at = f.at /\ f2.node = f.node /\ f2.peer = p /\ f2.sent = FALSE
      /\ f2.key = f.key /\ f2.value = f.value
  BY <1>3, <1>4, <1>5 DEF Frame
<1>7. FrameOK(f2)
  BY <1>1, <1>2, <1>6 DEF FrameOK, p
<1> QED
  BY <1>1, <1>6, <1>7 DEF f2

LEMMA TypeInit == Init => TypeOK
<1> SUFFICES ASSUME Init PROVE TypeOK
  OBVIOUS
<1>1. EmptyStorage \in StorageState
  BY DEF EmptyStorage, StorageState
<1>2. NewNode \in NodeRecord
  BY <1>1, ZeroTicks DEF NewNode, NodeRecord
<1> QED
  BY <1>2, IdleOK DEF Init, TypeOK, HistoryOK

LEMMA TypeNext == TypeOK /\ [Next]_vars => TypeOK'
<1> SUFFICES ASSUME TypeOK, [Next]_vars PROVE TypeOK'
  OBVIOUS
<1> USE DEF network, history
<1>0. /\ node \in [Node -> NodeRecord] /\ NetworkOK /\ FramesOK /\ HistoryOK
  BY DEF TypeOK, NetworkOK, FramesOK
<1>h. history' = history => HistoryOK'
  BY <1>0 DEF HistoryOK
<1>w. network' = network => NetworkOK'
  BY <1>0 DEF NetworkOK
<1>f. \A t \in Thread : /\ frame[t] \in Frame /\ FrameOK(frame[t])
                        /\ Return(t) => FramesOK'
  BY <1>0, ReturnOK DEF FramesOK
<1>n. ASSUME NEW n \in Node, NEW x \in NodeRecord, node' = [node EXCEPT ![n] = x]
      PROVE  node' \in [Node -> NodeRecord]
  BY <1>0, <1>n
<1>1. ASSUME NEW t \in Thread, Send(t)
      PROVE  TypeOK'
  <2> DEFINE f == frame[t]
  <2>1. [f EXCEPT !.sent = TRUE] \in Frame /\ FrameOK([f EXCEPT !.sent = TRUE])
    BY <1>1, <1>f DEF Send, Frame, FrameOK, RoundsLeft
  <2> QED
    BY <1>0, <1>1, <1>h, <1>w, <2>1, GotoOK DEF Send, TypeOK, NetworkOK, FramesOK
<1>2. ASSUME NEW t \in Thread, LoseCall(t)
      PROVE  TypeOK'
  <2>1. /\ NextPeer(frame[t], FALSE) \in Frame /\ FrameOK(NextPeer(frame[t], FALSE))
    BY <1>2, <1>f, NextPeerOK DEF LoseCall
  <2> QED
    BY <1>0, <1>2, <1>h, <1>w, <2>1, GotoOK DEF LoseCall, TypeOK, NetworkOK, FramesOK
<1>3. ASSUME NEW t \in Thread, RequestVote(t)
      PROVE  TypeOK'
  <2> DEFINE f == frame[t]
             args == [term |-> f.term, candidate |-> f.node,
                      lastIndex |-> f.lastIndex, lastTerm |-> f.lastTerm]
             grants == GrantsVote(node[f.peer], args)
             x == AfterRequestVote(node[f.peer], args)
  <2>1. RoundsLeft(f) /\ f \in Frame /\ FrameOK(f) /\ grants \in BOOLEAN
    BY <1>3, <1>f DEF RequestVote, FrameOK, GrantsVote
  <2>2. /\ NextPeer(f, grants) \in Frame /\ FrameOK(NextPeer(f, grants))
        /\ f.node \in Node /\ f.peer \in Node
    BY <2>1, NextPeerOK
  <2>3. args \in VoteArgs
    BY <2>1, <2>2 DEF VoteArgs, Frame
  <2>4. x \in NodeRecord
    BY <1>0, <2>2, <2>3, RequestVoteEffect
  <2>5. /\ node' = [node EXCEPT ![f.peer] = x]
        /\ Goto(t, NextPeer(f, grants))
        /\ granted' = granted \cup (IF grants THEN {<<f.term, f.peer, f.node>>} ELSE {})
        /\ UNCHANGED <<network, won, forgot, acked>>
    BY <1>3 DEF RequestVote
  <2> HIDE DEF grants, x, args
  <2>6. HistoryOK'
    BY <1>0, <2>1, <2>2, <2>5 DEF HistoryOK, Frame
  <2>7. FramesOK'
    BY <1>0, <2>2, <2>5, GotoOK
  <2>8. node' \in [Node -> NodeRecord]
    BY <1>n, <2>2, <2>4, <2>5
  <2> QED
    BY <1>w, <2>5, <2>6, <2>7, <2>8 DEF TypeOK, NetworkOK, FramesOK
<1>4. ASSUME NEW t \in Thread, AppendEntries(t)
      PROVE  TypeOK'
  <2> DEFINE f == frame[t]
             args == [term |-> f.term, leaderCommit |-> f.commit,
                      entries |-> IF f.at = "replicate"
                                  THEN <<Put(f.term, f.key, f.value)>> ELSE << >>]
             counted == f.at = "replicate" /\ AcceptsAppend(node[f.peer], args)
             x == AfterAppendEntries(node[f.peer], args)
  <2>1. RoundsLeft(f) /\ f \in Frame /\ FrameOK(f) /\ counted \in BOOLEAN
    BY <1>4, <1>f DEF AppendEntries, FrameOK, AcceptsAppend
  <2>2. /\ NextPeer(f, counted) \in Frame /\ FrameOK(NextPeer(f, counted))
        /\ f.node \in Node /\ f.peer \in Node
    BY <2>1, NextPeerOK
  <2>3. f.at = "replicate" => Put(f.term, f.key, f.value) \in Entry
    BY <2>1 DEF FrameOK, Frame, Put, Entry
  <2>4. args.entries \in Seq(Entry)
    BY <2>3
  <2>5. args \in AppendArgs
    BY <2>1, <2>4 DEF AppendArgs, Frame
  <2>6. x \in NodeRecord
    BY <1>0, <2>2, <2>5, AppendEntriesEffect
  <2>7. /\ node' = [node EXCEPT ![f.peer] = x]
        /\ Goto(t, NextPeer(f, counted))
        /\ UNCHANGED <<network, history>>
    BY <1>4 DEF AppendEntries
  <2> HIDE DEF counted, x, args
  <2>8. FramesOK' /\ node' \in [Node -> NodeRecord]
    BY <1>0, <1>n, <2>2, <2>6, <2>7, GotoOK
  <2> QED
    BY <1>w, <1>h, <2>7, <2>8 DEF TypeOK, NetworkOK, FramesOK
<1>5. ASSUME NEW t \in Thread, NEW n \in Timed, Tick(t, n)
      PROVE  TypeOK'
  <2> DEFINE x == Ticked(node[n])
             Due(at) == [Idle EXCEPT !.at = at, !.node = n]
  <2>0. n \in Node
    BY ClusterAssumption
  <2>1. x \in NodeRecord
    <3>1. node[n] \in NodeRecord
      BY <1>0, <2>0
    <3> QED
      BY <3>1, TimerAssumption, ZeroTicks
         DEF Ticked, ElectionDue, HeartbeatDue, LiveLeader, NodeRecord
  <2>2. \A at \in {"start_election", "send_heartbeats"} :
           Due(at) \in Frame /\ FrameOK(Due(at))
    BY <2>0, IdleOK DEF Idle, Frame, Point, FrameOK, Calling
  <2>3. node' = [node EXCEPT ![n] = x] /\ UNCHANGED <<network, history>>
    BY <1>5 DEF Tick
  <2>4. \/ Goto(t, Due("start_election")) \/ Goto(t, Due("send_heartbeats"))
        \/ UNCHANGED frame
    BY <1>5 DEF Tick
  <2> HIDE DEF x, Due
  <2>5. FramesOK'
    BY <1>0, <2>2, <2>4, GotoOK DEF FramesOK, FrameOK, RoundsLeft
  <2> QED
    BY <1>h, <1>w, <1>n, <2>0, <2>1, <2>3, <2>5 DEF TypeOK, NetworkOK, FramesOK
<1>6. ASSUME NEW t \in Thread, StartElection(t)
      PROVE  TypeOK'
  <2> DEFINE n == frame[t].node
             x == Campaigning(node[n], n)
             f2 == [Idle EXCEPT !.at = "request_votes", !.node = n,
                                !.peer = PeerAfter(n, 0), !.acks = {n},
                                !.term = node[n].term + 1,
                                !.lastIndex = LastLogIndex(node[n].storage),
                                !.lastTerm = LastLogTerm(node[n].storage)]
  <2>1. n \in Node /\ frame[t].at = "start_election"
    BY <1>6, <1>f DEF StartElection, FrameOK
  <2>2. node[n] \in NodeRecord
    BY <1>0, <2>1
  <2>3. x \in NodeRecord /\ node[n].term + 1 \in Nat
    BY <2>1, <2>2, CampaigningEffect DEF NodeRecord
  <2>4. LastLogIndex(node[n].storage) \in Nat /\ LastLogTerm(node[n].storage) \in Nat
    BY <2>2, LogEndType DEF NodeRecord
  <2>5. PeerAfter(n, 0) \in 0..(N + 1) /\ PeerAfter(n, 0) \in 1..(N + 1)
          /\ PeerAfter(n, 0) # n
    BY <2>1, PeerAfterType, SizeAssumption
  <2>6. f2 \in Frame /\ FrameOK(f2)
    BY <2>1, <2>3, <2>4, <2>5, IdleOK DEF Idle, Frame, Point, FrameOK, Calling
  <2>7. /\ node' = [node EXCEPT ![n] = x]
        /\ granted' = granted \cup {<<node[n].term + 1, n, n>>}
        /\ Goto(t, f2)
        /\ UNCHANGED <<network, won, forgot, acked>>
    BY <1>6 DEF StartElection
  <2> HIDE DEF x, f2
  <2>8. HistoryOK'
    BY <1>0, <2>1, <2>3, <2>7 DEF HistoryOK
  <2>9. FramesOK'
    BY <1>0, <2>6, <2>7, GotoOK
  <2> QED
    BY <1>w, <1>n, <2>1, <2>3, <2>7, <2>8, <2>9 DEF TypeOK, NetworkOK, FramesOK
<1>7. ASSUME NEW t \in Thread, FinishElection(t)
      PROVE  TypeOK'
  <2> DEFINE f == frame[t]
             wins == WinsElection(node[f.node], f.term, Cardinality(f.acks))
             x == [node[f.node] EXCEPT !.role = IF wins THEN "Leader" ELSE @]
  <2>1. f.node \in Node /\ f.term \in Nat
    BY <1>7, <1>f DEF FinishElection, FrameOK, Frame
  <2>2. node[f.node] \in NodeRecord
    BY <1>0, <2>1
  <2>3. x \in NodeRecord
    BY <2>2 DEF NodeRecord
  <2>4. /\ node' = [node EXCEPT ![f.node] = x]
        /\ won' = won \cup (IF wins THEN {<<f.term, f.node>>} ELSE {})
        /\ Return(t)
        /\ UNCHANGED <<network, granted, forgot, acked>>
    BY <1>7 DEF FinishElection
  <2> HIDE DEF wins, x
  <2>5. HistoryOK'
    BY <1>0, <2>1, <2>4 DEF HistoryOK
  <2> QED
    BY <1>f, <1>w, <1>n, <2>1, <2>3, <2>4, <2>5 DEF TypeOK, NetworkOK, FramesOK
<1>8. ASSUME NEW t \in Thread, SendHeartbeats(t)
      PROVE  TypeOK'
  <2> DEFINE n == frame[t].node
             f2 == [Idle EXCEPT !.at = "heartbeat", !.node = n,
                                !.peer = PeerAfter(n, 0), !.term = node[n].term,
                                !.commit = node[n].commitIndex]
  <2>1. n \in Node
    BY <1>8, <1>f DEF SendHeartbeats, FrameOK
  <2>2. node[n].term \in Nat /\ node[n].commitIndex \in Nat
    BY <1>0, <2>1 DEF NodeRecord
  <2>3. PeerAfter(n, 0) \in 0..(N + 1) /\ PeerAfter(n, 0) \in 1..(N + 1)
          /\ PeerAfter(n, 0) # n
    BY <2>1, PeerAfterType, SizeAssumption
  <2>4. f2 \in Frame /\ FrameOK(f2)
    BY <2>1, <2>2, <2>3, IdleOK DEF Idle, Frame, Point, FrameOK, Calling
  <2>5. Goto(t, f2) /\ UNCHANGED <<node, network, history>>
    BY <1>8 DEF SendHeartbeats
  <2> HIDE DEF f2
  <2> QED
    BY <1>0, <1>h, <1>w, <2>4, <2>5, GotoOK DEF TypeOK, NetworkOK, FramesOK
<1>9. ASSUME NEW t \in Thread,
             \/ FinishHeartbeat(t) \/ ReturnEarly(t)
      PROVE  TypeOK'
  <2>1. Return(t) /\ UNCHANGED <<node, network, history>>
    BY <1>9 DEF FinishHeartbeat, ReturnEarly
  <2> QED
    BY <1>0, <1>f, <1>h, <1>w, <2>1 DEF TypeOK, NetworkOK, FramesOK
<1>10. ASSUME NEW t \in Thread, ClientWrite(t)
       PROVE  TypeOK'
  <2> DEFINE f == frame[t]
             nd == node[f.node]
             st2 == AppendLog(nd.storage, Put(nd.term, f.key, f.value))
             x == [nd EXCEPT !.storage = st2]
             f2 == [f EXCEPT !.at = "leader_commit", !.acks = {f.node},
                             !.term = nd.term,
                             !.index = LastLogIndex(nd.storage) + 1]
  <2>1. /\ f \in Frame /\ FrameOK(f) /\ f.node \in Node
        /\ f.key \in Key /\ f.value \in Value /\ f.at = "client_write"
    BY <1>10, <1>f DEF ClientWrite, FrameOK
  <2>2. nd \in NodeRecord /\ nd.term \in Nat /\ nd.storage \in StorageState
    BY <1>0, <2>1 DEF NodeRecord
  <2>3. Put(nd.term, f.key, f.value) \in Entry
    BY <2>1, <2>2 DEF Put, Entry
  <2>4. st2 \in StorageState /\ LastLogIndex(nd.storage) + 1 \in Nat
    BY <2>2, <2>3, LogEndType, AppendLogType
  <2>5. x \in NodeRecord
    BY <2>2, <2>4 DEF NodeRecord
  <2>6. f2 \in Frame /\ f2.at = "leader_commit" /\ f2.node = f.node
        /\ f2.sent = f.sent /\ f2.key = f.key /\ f2.value = f.value
    BY <2>1, <2>2, <2>4 DEF Frame, Point
  <2>7. /\ node' = [node EXCEPT ![f.node] = x] /\ Goto(t, f2)
        /\ UNCHANGED <<network, history>>
    BY <1>10 DEF ClientWrite
  <2> HIDE DEF f2, x
  <2>8. FrameOK(f2)
    BY <2>1, <2>6 DEF FrameOK, Calling, RoundsLeft
  <2>9. FramesOK'
    BY <1>0, <2>6, <2>7, <2>8, GotoOK
  <2> QED
    BY <1>h, <1>w, <1>n, <2>1, <2>5, <2>7, <2>9 DEF TypeOK, NetworkOK, FramesOK
<1>11. ASSUME NEW t \in Thread, ReadCommit(t)
       PROVE  TypeOK'
  <2> DEFINE f == frame[t]
             f2 == [f EXCEPT !.at = "replicate", !.peer = PeerAfter(f.node, 0),
                             !.commit = node[f.node].commitIndex]
  <2>1. /\ f \in Frame /\ FrameOK(f) /\ f.node \in Node
        /\ f.key \in Key /\ f.value \in Value /\ f.at = "leader_commit"
    BY <1>11, <1>f DEF ReadCommit, FrameOK
  <2>2. node[f.node].commitIndex \in Nat
    BY <1>0, <2>1 DEF NodeRecord
  <2>3. PeerAfter(f.node, 0) \in 0..(N + 1) /\ PeerAfter(f.node, 0) \in 1..(N + 1)
          /\ PeerAfter(f.node, 0) # f.node
    BY <2>1, PeerAfterType, SizeAssumption
  <2>4. f.sent = FALSE
    BY <2>1 DEF FrameOK, RoundsLeft, Calling, Frame
  <2>5. f2 \in Frame /\ f2.at = "replicate" /\ f2.node = f.node
        /\ f2.sent = f.sent /\ f2.key = f.key /\ f2.value = f.value
        /\ f2.peer = PeerAfter(f.node, 0)
    BY <2>1, <2>2, <2>3 DEF Frame, Point
  <2>6. Goto(t, f2) /\ UNCHANGED <<node, network, history>>
    BY <1>11 DEF ReadCommit
  <2> HIDE DEF f2
  <2>7. FrameOK(f2)
    BY <2>1, <2>3, <2>4, <2>5 DEF FrameOK, Calling
  <2> QED
    BY <1>0, <1>h, <1>w, <2>5, <2>6, <2>7, GotoOK DEF TypeOK, NetworkOK, FramesOK
<1>12. ASSUME NEW t \in Thread, FinishWrite(t)
       PROVE  TypeOK'
  <2> DEFINE f == frame[t]
             ok == QuorumSatisfied(f.acks)
             x == IF ok THEN CommittedUpTo(node[f.node], f.index) ELSE node[f.node]
             entry == Put(f.term, f.key, f.value)
  <2>1. /\ f \in Frame /\ f.node \in Node /\ f.index \in Nat
        /\ f.key \in Key /\ f.value \in Value /\ f.term \in Nat
    BY <1>12, <1>f DEF FinishWrite, FrameOK, Frame
  <2>2. entry \in Entry
    BY <2>1 DEF Put, Entry
  <2>3. x \in NodeRecord
    BY <1>0, <2>1, CommittedUpToEffect
  <2>4. /\ node' = [node EXCEPT ![f.node] = x]
        /\ acked' = acked \cup (IF ok THEN {<<f.index, entry>>} ELSE {})
        /\ Return(t)
        /\ UNCHANGED <<network, won, granted, forgot>>
    BY <1>12 DEF FinishWrite
  <2> HIDE DEF ok, x, entry
  <2>5. HistoryOK'
    BY <1>0, <2>1, <2>2, <2>4 DEF HistoryOK
  <2> QED
    BY <1>f, <1>w, <1>n, <2>1, <2>3, <2>4, <2>5 DEF TypeOK, NetworkOK, FramesOK
<1>13. ASSUME NEW t \in Thread, SelfDeadlock(t)
       PROVE  TypeOK'
  <2> DEFINE f == frame[t]
             f2 == [f EXCEPT !.at = "hung"]
  <2>1. f \in Frame /\ FrameOK(f) /\ f.at \in {"client_write", "client_read"}
    BY <1>13, <1>f DEF SelfDeadlock
  <2>2. f2 \in Frame /\ FrameOK(f2)
    BY <2>1 DEF Frame, Point, FrameOK, RoundsLeft, Calling
  <2>3. Goto(t, f2) /\ UNCHANGED <<node, network, history>>
    BY <1>13 DEF SelfDeadlock
  <2> HIDE DEF f2
  <2> QED
    BY <1>0, <1>h, <1>w, <2>2, <2>3, GotoOK DEF TypeOK, NetworkOK, FramesOK
<1>14. ASSUME NEW t \in Thread, Isolate(t)
       PROVE  TypeOK'
  <2>1. frame[t].node \in Node
    BY <1>14, <1>f DEF Isolate, FrameOK
  <2>2. /\ isolated' = isolated \cup {frame[t].node}
        /\ healthy' = healthy \ {frame[t].node}
        /\ Return(t) /\ UNCHANGED <<node, partitioned, history>>
    BY <1>14 DEF Isolate
  <2>3. NetworkOK'
    BY <1>0, <2>1, <2>2 DEF NetworkOK
  <2> QED
    BY <1>0, <1>f, <1>h, <2>2, <2>3 DEF TypeOK, NetworkOK, FramesOK
<1>15. ASSUME NEW t \in Thread, Recover(t)
       PROVE  TypeOK'
  <2> DEFINE n == frame[t].node
             x == Recovered(node[n])
  <2>1. n \in Node
    BY <1>15, <1>f DEF Recover, FrameOK
  <2>2. node[n] \in NodeRecord
    BY <1>0, <2>1
  <2>3. x \in NodeRecord /\ node[n].term \in Nat
    BY <2>2, ZeroTicks DEF Recovered, NodeRecord
  <2>4. /\ node' = [node EXCEPT ![n] = x]
        /\ healthy' = healthy \cup {n}
        /\ forgot' = forgot \cup
                       (IF node[n].votedFor # NoNode THEN {node[n].term} ELSE {})
        /\ Return(t)
        /\ UNCHANGED <<isolated, partitioned, won, granted, acked>>
    BY <1>15 DEF Recover
  <2> HIDE DEF x
  <2>5. NetworkOK' /\ HistoryOK'
    BY <1>0, <2>1, <2>3, <2>4 DEF NetworkOK, HistoryOK
  <2> QED
    BY <1>f, <1>n, <2>1, <2>3, <2>4, <2>5 DEF TypeOK, NetworkOK, FramesOK
<1>16. ASSUME NEW t \in Thread, NEW n \in Victims, Kill(t, n)
       PROVE  TypeOK'
  <2> DEFINE x == Crashed(node[n])
             f2 == [Idle EXCEPT !.at = "isolate", !.node = n]
  <2>0. n \in Node
    BY ClusterAssumption
  <2>1. node[n] \in NodeRecord
    BY <1>0, <2>0
  <2>2. x \in NodeRecord
    BY <2>1 DEF Crashed, NodeRecord
  <2>3. f2 \in Frame /\ FrameOK(f2)
    BY <2>0, IdleOK DEF Idle, Frame, Point, FrameOK, Calling
  <2>4. /\ node' = [node EXCEPT ![n] = x] /\ Goto(t, f2)
        /\ UNCHANGED <<network, history>>
    BY <1>16 DEF Kill
  <2> HIDE DEF x, f2
  <2>5. FramesOK'
    BY <1>0, <2>3, <2>4, GotoOK
  <2> QED
    BY <1>h, <1>w, <1>n, <2>0, <2>2, <2>4, <2>5 DEF TypeOK, NetworkOK, FramesOK
<1>17. ASSUME NEW t \in Thread, NEW n \in Victims, Unisolate(t, n)
       PROVE  TypeOK'
  <2> DEFINE f2 == [Idle EXCEPT !.at = "recover", !.node = n]
  <2>0. n \in Node
    BY ClusterAssumption
  <2>1. f2 \in Frame /\ FrameOK(f2)
    BY <2>0, IdleOK DEF Idle, Frame, Point, FrameOK, Calling
  <2>2. /\ isolated' = isolated \ {n} /\ Goto(t, f2)
        /\ UNCHANGED <<node, partitioned, healthy, history>>
    BY <1>17 DEF Unisolate
  <2> HIDE DEF f2
  <2>3. NetworkOK' /\ FramesOK'
    BY <1>0, <2>1, <2>2, GotoOK DEF NetworkOK
  <2> QED
    BY <1>0, <1>h, <2>2, <2>3 DEF TypeOK, NetworkOK, FramesOK
<1>18. ASSUME NEW t \in Thread, NEW n \in Node, NEW k \in Key, Read(t, n, k)
       PROVE  TypeOK'
  <2> DEFINE f2 == [Idle EXCEPT !.at = "client_read", !.node = n, !.key = k]
  <2>1. f2 \in Frame /\ FrameOK(f2)
    BY IdleOK DEF Idle, Frame, Point, FrameOK, Calling
  <2>2. Goto(t, f2) /\ UNCHANGED <<node, network, history>>
    BY <1>18 DEF Read
  <2> HIDE DEF f2
  <2> QED
    BY <1>0, <1>h, <1>w, <2>1, <2>2, GotoOK DEF TypeOK, NetworkOK, FramesOK
<1>19. ASSUME NEW t \in Thread, NEW n \in Node, NEW k \in Key, NEW v \in Value,
              Write(t, n, k, v)
       PROVE  TypeOK'
  <2> DEFINE f2 == [Idle EXCEPT !.at = "client_write", !.node = n,
                                !.key = k, !.value = v]
  <2>1. f2 \in Frame /\ FrameOK(f2)
    BY IdleOK DEF Idle, Frame, Point, FrameOK, Calling
  <2>2. Goto(t, f2) /\ UNCHANGED <<node, network, history>>
    BY <1>19 DEF Write
  <2> HIDE DEF f2
  <2> QED
    BY <1>0, <1>h, <1>w, <2>1, <2>2, GotoOK DEF TypeOK, NetworkOK, FramesOK
<1>20. ASSUME NEW t \in Thread, NEW cut \in Cuts, Partition(t, cut)
       PROVE  TypeOK'
  <2>1. cut[1] \subseteq Node /\ cut[2] \subseteq Node
    BY ClusterAssumption
  <2>2. /\ partitioned' = partitioned \cup (cut[1] \X cut[2])
                                      \cup (cut[2] \X cut[1])
        /\ UNCHANGED <<node, isolated, healthy, frame, history>>
    BY <1>20 DEF Partition
  <2>3. partitioned' \subseteq Node \X Node
    BY <1>0, <2>1, <2>2 DEF NetworkOK
  <2>4. FramesOK'
    BY <1>0, <2>2 DEF FramesOK, FrameOK, RoundsLeft
  <2> QED
    BY <1>0, <1>h, <2>2, <2>3, <2>4 DEF TypeOK, NetworkOK, FramesOK
<1>21. ASSUME NEW t \in Thread, Heal(t)
       PROVE  TypeOK'
  <2>1. /\ partitioned' = {} /\ isolated' = {}
        /\ UNCHANGED <<node, healthy, frame, history>>
    BY <1>21 DEF Heal
  <2> QED
    BY <1>0, <1>h, <2>1 DEF TypeOK, NetworkOK, FramesOK, FrameOK, RoundsLeft
<1>22. CASE UNCHANGED vars
  <2>1. FramesOK'
    BY <1>0, <1>22 DEF vars, FramesOK, FrameOK, RoundsLeft
  <2> QED
    BY <1>0, <1>22, <1>h, <1>w, <2>1 DEF vars, TypeOK, NetworkOK, FramesOK
<1> QED
  BY <1>1, <1>2, <1>3, <1>4, <1>5, <1>6, <1>7, <1>8, <1>9, <1>10, <1>11, <1>12,
     <1>13, <1>14, <1>15, <1>16, <1>17, <1>18, <1>19, <1>20, <1>21, <1>22
     DEF Next, Continue, Call

(* The types of the node, network, thread and history state hold in every   *)
(* reachable state; in particular every index into a log, every peer called *)
(* and every thread's local is in range.                                    *)
THEOREM TypeCorrect == Spec => []TypeOK
BY TypeInit, TypeNext, PTL DEF Spec
------------------------------------------------------------------------------
(* Election safety. *)

LEMMA QuorumsMeet ==
  ASSUME NEW Q1 \in SUBSET Node, Cardinality(Q1) >= VoteQuorum,
         NEW Q2 \in SUBSET Node, Cardinality(Q2) >= VoteQuorum
  PROVE  Q1 \cap Q2 # {}
<1>1. IsFiniteSet(Node) /\ Cardinality(Node) = N
  BY FS_Interval, SizeAssumption DEF Node
<1>2. IsFiniteSet(Q1) /\ IsFiniteSet(Q2)
  BY <1>1, FS_Subset
<1>3. /\ Cardinality(Q1) \in Nat /\ Cardinality(Q2) \in Nat
      /\ Cardinality(Q1 \cap Q2) \in Nat
  BY <1>2, FS_Intersection, FS_CardinalityType
<1>4. Cardinality(Q1 \cup Q2) = Cardinality(Q1) + Cardinality(Q2)
                                  - Cardinality(Q1 \cap Q2)
  BY <1>2, FS_Union
<1>5. Cardinality(Q1 \cup Q2) <= N
  BY <1>1, FS_Subset, Q1 \cup Q2 \in SUBSET Node
<1>6. 2 * VoteQuorum > N /\ VoteQuorum \in Nat
  BY SizeAssumption DEF VoteQuorum
<1>7. Cardinality(Q1 \cap Q2) > 0
  BY <1>3, <1>4, <1>5, <1>6, SizeAssumption
<1> QED
  BY <1>7, FS_EmptySet

LEMMA ElectionSafetyFromInv ==
  ASSUME TypeOK, ElectionInv
  PROVE  ElectionSafetyUnlessRecovered
<1> SUFFICES ASSUME NEW w1 \in won, NEW w2 \in won,
                    w1[1] = w2[1], Remembered(w1[1]), w1[2] # w2[2]
             PROVE  FALSE
  BY DEF ElectionSafetyUnlessRecovered, Remembered
<1> DEFINE T == w1[1]  a == w1[2]  b == w2[2]
<1>1. a \in Node /\ b \in Node /\ <<T, a>> \in won /\ <<T, b>> \in won
  BY DEF TypeOK, HistoryOK
<1>2. PICK v \in Node : Votes(T, v, a) /\ Votes(T, v, b)
  <2>1. PICK Q1 \in SUBSET Node :
          Cardinality(Q1) >= VoteQuorum /\ \A v \in Q1 : Votes(T, v, a)
    BY DEF ElectionInv, BallotsCounted
  <2>2. PICK Q2 \in SUBSET Node :
          Cardinality(Q2) >= VoteQuorum /\ \A v \in Q2 : Votes(T, v, b)
    BY DEF ElectionInv, BallotsCounted
  <2> QED
    BY <2>1, <2>2, QuorumsMeet
<1>3. \A c, d \in Node : Votes(T, v, c) /\ c # v /\ Votes(T, v, d) /\ d # v => d = c
  BY <1>2 DEF ElectionInv, OneVote, Votes
<1>4. \A c \in Node : Votes(T, v, c) /\ c # v => <<T, v>> \notin won
  BY <1>2 DEF ElectionInv, OneVote, Votes
<1>5. CASE v = a
  BY <1>1, <1>2, <1>4, <1>5
<1>6. CASE v = b
  BY <1>1, <1>2, <1>4, <1>6
<1>7. CASE v # a /\ v # b
  BY <1>1, <1>2, <1>3, <1>7
<1> QED
  BY <1>5, <1>6, <1>7

LEMMA ElectionInit == Init => ElectionInv
BY DEF Init, NewNode, NoNode, Idle, ElectionInv, PastTerms, RolesMatchVotes,
       PresentVote, OneVote, BallotsCounted, Votes

(* A step that leaves every vote, role and victory, and every campaign that *)
(* goes on, as they were.                                                   *)
SameCampaign(f, f2) ==
  f2.at = "request_votes" => /\ f.at = "request_votes" /\ f2.acks = f.acks
                             /\ f2.term = f.term /\ f2.node = f.node

LEMMA ElectionNeutral ==
  ASSUME ElectionInv,
         \A n \in Node : /\ node'[n].role = node[n].role
                         /\ node'[n].term = node[n].term
                         /\ node'[n].votedFor = node[n].votedFor
                         /\ node'[n].alive = node[n].alive,
         TypeOK, UNCHANGED <<won, granted, forgot>>,
         \A t \in Thread : SameCampaign(frame[t], frame'[t])
  PROVE  ElectionInv'
<1>1. PastTerms'
  BY DEF ElectionInv, PastTerms, TypeOK, HistoryOK
<1>2. RolesMatchVotes'
  BY DEF ElectionInv, RolesMatchVotes, Votes
<1>3. PresentVote'
  BY DEF ElectionInv, PresentVote, Votes, Remembered
<1>4. OneVote'
  BY DEF ElectionInv, OneVote, Votes, Remembered
<1>5. BallotsCounted'
  BY DEF ElectionInv, BallotsCounted, Votes, SameCampaign
<1> QED
  BY <1>1, <1>2, <1>3, <1>4, <1>5 DEF ElectionInv

(* After Goto, every thread but one is in the campaign it was in. *)
LEMMA GotoCampaign ==
  ASSUME TypeOK, NEW t \in Thread, NEW f, Goto(t, f)
  PROVE  /\ frame'[t] = f
         /\ \A s \in Thread \ {t} : frame'[s] = frame[s]
         /\ SameCampaign(frame[t], f) =>
              \A s \in Thread : SameCampaign(frame[s], frame'[s])
BY DEF TypeOK, Goto, SameCampaign

(* Node v moves to another role or vote, and no vote or victory is added.   *)
LEMMA ElectionStepDown ==
  ASSUME TypeOK, ElectionInv, NEW v \in Node, NEW x \in NodeRecord,
         node' = [node EXCEPT ![v] = x],
         UNCHANGED <<won, granted>>, forgot \subseteq forgot',
         x.alive <=> x.role # "Offline", x.role # "Candidate",
         \/ x.term > node[v].term
         \/ /\ x.term = node[v].term
            /\ \/ x.votedFor = node[v].votedFor
               \/ node[v].role = "Candidate"
               \/ node[v].votedFor = NoNode
               \/ node[v].term \in forgot',
         \A t \in Thread : SameCampaign(frame[t], frame'[t])
  PROVE  ElectionInv'
<1> USE DEF ElectionInv
<1>0. /\ node'[v] = x /\ \A n \in Node \ {v} : node'[n] = node[n]
      /\ node[v] \in NodeRecord /\ node[v].term \in Nat /\ x.term \in Nat
      /\ \A c : Votes(x.term, v, c)' = Votes(x.term, v, c)
  BY DEF TypeOK, NodeRecord, Votes
<1>1. /\ \A c : Votes(x.term, v, c) => x.term = node[v].term
      /\ <<x.term, v>> \in won => x.term = node[v].term
  BY <1>0 DEF PastTerms, Votes
<1>2. PastTerms'
  BY <1>0 DEF PastTerms, TypeOK, HistoryOK, NodeRecord
<1>3. RolesMatchVotes'
  BY <1>0 DEF RolesMatchVotes, Votes
<1>4. ASSUME node[v].term \notin forgot', x.term = node[v].term
      PROVE  /\ \A c \in Node \ {v} : Votes(x.term, v, c) => x.votedFor = c
             /\ <<x.term, v>> \in won => x.votedFor = v
  <2>1. /\ \A c \in Node \ {v} : Votes(x.term, v, c) => node[v].votedFor = c
        /\ <<x.term, v>> \in won => node[v].votedFor = v
    BY <1>4 DEF PresentVote, Remembered
  <2>2. node[v].role = "Candidate" =>
          /\ \A c \in Node : Votes(x.term, v, c) => c = v
          /\ <<x.term, v>> \notin won
    BY <1>4 DEF RolesMatchVotes
  <2>3. NoNode \notin Node
    BY DEF NoNode, Node
  <2>4. ~(x.term > node[v].term)
    BY <1>0, <1>4
  <2> QED
    BY <1>4, <2>1, <2>2, <2>3, <2>4
<1>7. PresentVote'
  <2>1. \A s, n, c : Votes(s, n, c)' <=> Votes(s, n, c)
    BY DEF Votes
  <2> QED
    BY <1>0, <1>1, <1>4, <2>1 DEF PresentVote, Remembered
<1>5. OneVote'
  BY DEF OneVote, Votes, Remembered
<1>6. BallotsCounted'
  BY DEF BallotsCounted, Votes, SameCampaign
<1> QED
  BY <1>2, <1>3, <1>5, <1>6, <1>7

LEMMA ElectionStart ==
  ASSUME TypeOK, ElectionInv, NEW t \in Thread, StartElection(t)
  PROVE  ElectionInv'
<1> USE DEF ElectionInv
<1> DEFINE n == frame[t].node
           T == node[n].term + 1
           x == Campaigning(node[n], n)
<1>1. /\ n \in Node /\ node[n] \in NodeRecord /\ node[n].term \in Nat
      /\ node[n].alive
  BY DEF StartElection, TypeOK, FrameOK, NodeRecord
<1>2. /\ x \in NodeRecord /\ x.role = "Candidate" /\ x.term = T
      /\ x.votedFor = n /\ x.alive
  BY <1>1, CampaigningEffect
<1>3. /\ node' = [node EXCEPT ![n] = x]
      /\ granted' = granted \cup {<<T, n, n>>}
      /\ UNCHANGED <<won, forgot>>
  BY DEF StartElection
<1>4. /\ frame'[t].at = "request_votes" /\ frame'[t].node = n
      /\ frame'[t].acks = {n} /\ frame'[t].term = T
      /\ \A s \in Thread \ {t} : frame'[s] = frame[s]
  <2>1. frame[t].node = n /\ TypeOK
    OBVIOUS
  <2> QED
    BY <2>1 DEF StartElection, Goto, TypeOK, Idle
<1> HIDE DEF n, x
<1>5. node'[n] = x /\ \A v \in Node \ {n} : node'[v] = node[v]
  BY <1>1, <1>3 DEF TypeOK
<1>6. /\ \A c : ~Votes(T, n, c) /\ <<T, n>> \notin won
  BY <1>1 DEF PastTerms, Votes
<1>7. \A s, v, c : Votes(s, v, c)' <=> Votes(s, v, c) \/ <<s, v, c>> = <<T, n, n>>
  BY <1>3 DEF Votes
<1>8. PastTerms'
  BY <1>1, <1>2, <1>3, <1>5 DEF PastTerms, TypeOK, HistoryOK, NodeRecord
<1>9. RolesMatchVotes'
  BY <1>1, <1>2, <1>3, <1>5, <1>6, <1>7 DEF RolesMatchVotes
<1>10. PresentVote'
  BY <1>1, <1>2, <1>3, <1>5, <1>6, <1>7 DEF PresentVote, Remembered
<1>11. OneVote'
  BY <1>3, <1>7 DEF OneVote, Remembered
<1>12. BallotsCounted'
  BY <1>3, <1>4, <1>7 DEF BallotsCounted
<1> QED
  BY <1>8, <1>9, <1>10, <1>11, <1>12
(* A vote is given: to another than the voter, who had no other candidate   *)
(* of that term and, if it won that term, would still hold its own vote.    *)
LEMMA ElectionVote ==
  ASSUME TypeOK, ElectionInv, NEW t \in Thread, RequestVote(t),
         NEW args \in VoteArgs,
         args = [term |-> frame[t].term, candidate |-> frame[t].node,
                 lastIndex |-> frame[t].lastIndex, lastTerm |-> frame[t].lastTerm],
         GrantsVote(node[frame[t].peer], args)
  PROVE  ElectionInv'
<1> USE DEF ElectionInv
<1> DEFINE f == frame[t]
           v == f.peer
           c == f.node
           T == f.term
           x == AfterRequestVote(node[v], args)
<1>1. f \in Frame /\ FrameOK(f) /\ RoundsLeft(f) /\ f.at = "request_votes"
  BY DEF RequestVote, TypeOK, FrameOK
<1>2. v \in Node /\ c \in Node /\ c # v /\ T \in Nat
  BY <1>1, NextPeerOK DEF Frame
<1>3. node[v] \in NodeRecord /\ node[v].term \in Nat
  BY <1>2 DEF TypeOK, NodeRecord
<1>4. /\ x \in NodeRecord /\ x.alive /\ node[v].alive
      /\ x.term = T /\ x.votedFor = c
      /\ \/ T > node[v].term /\ x.role = "Follower"
         \/ /\ T = node[v].term /\ x.role = node[v].role
            /\ node[v].votedFor \in {NoNode, c}
  BY <1>3, RequestVoteEffect
<1>5. /\ node' = [node EXCEPT ![v] = x]
      /\ granted' = granted \cup {<<T, v, c>>}
      /\ Goto(t, NextPeer(f, TRUE))
      /\ UNCHANGED <<won, forgot>>
  <2>1. GrantsVote(node[v], args) = TRUE
    BY DEF GrantsVote
  <2> QED
    BY <2>1 DEF RequestVote
<1>6. NextPeer(f, TRUE) = [f EXCEPT !.peer = PeerAfter(f.node, f.peer),
                                    !.sent = FALSE, !.acks = @ \cup {f.peer}]
  BY DEF NextPeer
<1>7. /\ frame'[t].at = "request_votes" /\ frame'[t].node = c
      /\ frame'[t].acks = f.acks \cup {v} /\ frame'[t].term = T
      /\ \A s \in Thread \ {t} : frame'[s] = frame[s]
  BY <1>1, <1>5, <1>6 DEF Goto, TypeOK, Frame
<1>8. \A s, u, d : Votes(s, u, d)' <=> Votes(s, u, d) \/ <<s, u, d>> = <<T, v, c>>
  BY <1>5 DEF Votes
<1> HIDE DEF x, v, c, T, f
<1>9. node'[v] = x /\ \A n \in Node \ {v} : node'[n] = node[n]
  BY <1>2, <1>5 DEF TypeOK
<1>10. NoNode \notin Node
  BY DEF NoNode, Node
<1>11. ASSUME T \notin forgot
       PROVE  /\ \A d \in Node \ {v} : Votes(T, v, d) => d = c
              /\ <<T, v>> \notin won
  <2>1. CASE T > node[v].term
    BY <1>2, <1>3, <2>1 DEF PastTerms, Votes
  <2>2. CASE T = node[v].term /\ node[v].votedFor \in {NoNode, c}
    <3>1. /\ \A d \in Node \ {v} : Votes(T, v, d) => node[v].votedFor = d
          /\ <<T, v>> \in won => node[v].votedFor = v
      BY <1>2, <1>11, <2>2 DEF PresentVote, Remembered
    <3> QED
      BY <1>2, <1>10, <2>2, <3>1
  <2> QED
    BY <1>4, <2>1, <2>2
<1>12. PastTerms'
  BY <1>2, <1>3, <1>4, <1>5, <1>9 DEF PastTerms, TypeOK, HistoryOK, NodeRecord
<1>13. RolesMatchVotes'
  <2>1. x.role # "Candidate"
    BY <1>2, <1>4, <1>10 DEF RolesMatchVotes
  <2> QED
    BY <1>2, <1>4, <1>5, <1>8, <1>9, <2>1 DEF RolesMatchVotes
<1>14. PresentVote'
  BY <1>2, <1>4, <1>5, <1>8, <1>9, <1>11 DEF PresentVote, Remembered
<1>15. OneVote'
  BY <1>2, <1>5, <1>8, <1>11 DEF OneVote, Remembered, Votes, TypeOK, HistoryOK
<1>16. BallotsCounted'
  <2>1. \A u \in f.acks : Votes(T, u, c)
    BY <1>1 DEF BallotsCounted, f, T, c
  <2>2. \A u \in frame'[t].acks : <<T, u, c>> \in granted'
    BY <1>5, <1>7, <2>1 DEF Votes
  <2>3. \A s \in Thread : frame'[s].at = "request_votes" =>
          \A u \in frame'[s].acks : <<frame'[s].term, u, frame'[s].node>> \in granted'
    BY <1>5, <1>7, <2>2 DEF BallotsCounted, Votes
  <2>4. ASSUME NEW w \in won
        PROVE  \E Q \in SUBSET Node :
                 /\ Cardinality(Q) >= VoteQuorum
                 /\ \A u \in Q : <<w[1], u, w[2]>> \in granted'
    BY <1>5 DEF BallotsCounted, Votes
  <2> QED
    BY <1>5, <2>3, <2>4 DEF BallotsCounted, Votes
<1> QED
  BY <1>12, <1>13, <1>14, <1>15, <1>16

(* An election is won: the winner is a candidate still, so it has voted for *)
(* nobody else in the term, and its campaign has counted the quorum.        *)
LEMMA ElectionWin ==
  ASSUME TypeOK, ElectionInv, NEW t \in Thread, FinishElection(t),
         WinsElection(node[frame[t].node], frame[t].term,
                      Cardinality(frame[t].acks))
  PROVE  ElectionInv'
<1> USE DEF ElectionInv
<1> DEFINE f == frame[t]
           v == f.node
           T == f.term
<1>1. /\ v \in Node /\ node[v] \in NodeRecord /\ f.at = "request_votes"
      /\ T \in Nat /\ f.acks \in SUBSET Node
  BY DEF FinishElection, TypeOK, FrameOK, Frame
<1>2. /\ node[v].role = "Candidate" /\ node[v].term = T
      /\ Cardinality(f.acks) >= VoteQuorum
  BY DEF WinsElection
<1>3. /\ node' = [node EXCEPT ![v].role = "Leader"]
      /\ won' = won \cup {<<T, v>>}
      /\ Return(t) /\ UNCHANGED <<granted, forgot>>
  BY DEF FinishElection
<1>4. /\ frame'[t].at = "idle" /\ \A s \in Thread \ {t} : frame'[s] = frame[s]
  BY <1>3 DEF Return, Goto, TypeOK, Idle
<1>5. \A u \in f.acks : Votes(T, u, v)
  BY <1>1 DEF BallotsCounted
<1>6. /\ node'[v].role = "Leader" /\ node'[v].term = T
      /\ node'[v].votedFor = node[v].votedFor /\ node'[v].alive = node[v].alive
      /\ \A n \in Node \ {v} : node'[n] = node[n]
  BY <1>1, <1>2, <1>3 DEF TypeOK, NodeRecord
<1>7. /\ node[v].votedFor = v /\ node[v].alive
      /\ \A c \in Node : Votes(T, v, c) => c = v
  BY <1>1, <1>2 DEF RolesMatchVotes
<1> HIDE DEF f, v, T
<1>8. PastTerms'
  BY <1>1, <1>2, <1>3, <1>6 DEF PastTerms, TypeOK, HistoryOK
<1>9. RolesMatchVotes'
  BY <1>1, <1>3, <1>6, <1>7 DEF RolesMatchVotes, Votes
<1>10. PresentVote'
  BY <1>1, <1>2, <1>3, <1>6, <1>7 DEF PresentVote, Remembered, Votes
<1>11. OneVote'
  <2>1. \A g \in granted : g[1] \in Nat /\ g[3] \in Node /\ g = <<g[1], g[2], g[3]>>
    BY DEF TypeOK, HistoryOK
  <2>2. \A g \in granted : g[2] = v /\ g[3] # v => g[1] # T
    BY <1>7, <2>1 DEF Votes
  <2> QED
    BY <1>1, <1>3, <2>2 DEF OneVote, Remembered, Votes
<1>12. BallotsCounted'
  BY <1>1, <1>2, <1>3, <1>4, <1>5 DEF BallotsCounted, Votes
<1> QED
  BY <1>8, <1>9, <1>10, <1>11, <1>12

(* A call that changes nothing of a node, and starts or ends no campaign.   *)
LEMMA ElectionQuiet ==
  ASSUME TypeOK, ElectionInv, UNCHANGED <<node, won, granted, forgot>>,
         \A t \in Thread : SameCampaign(frame[t], frame'[t])
  PROVE  ElectionInv'
BY ElectionNeutral

LEMMA ElectionNext == TypeOK /\ ElectionInv /\ [Next]_vars => ElectionInv'
<1> SUFFICES ASSUME TypeOK, ElectionInv, [Next]_vars PROVE ElectionInv'
  OBVIOUS
<1> USE DEF history
<1>0. ASSUME NEW t \in Thread
      PROVE  frame[t] \in Frame /\ FrameOK(frame[t])
  BY DEF TypeOK
<1>r. ASSUME NEW t \in Thread, Return(t)
      PROVE  \A s \in Thread : SameCampaign(frame[s], frame'[s])
  <2>1. SameCampaign(frame[t], Idle)
    BY DEF SameCampaign, Idle
  <2> QED
    BY <1>r, <2>1, GotoCampaign DEF Return
<1>g. ASSUME NEW t \in Thread, NEW f, Goto(t, f), f.at # "request_votes"
      PROVE  \A s \in Thread : SameCampaign(frame[s], frame'[s])
  <2>1. SameCampaign(frame[t], f)
    BY <1>g DEF SameCampaign
  <2> QED
    BY <1>g, <2>1, GotoCampaign
<1>u. UNCHANGED frame => \A s \in Thread : SameCampaign(frame[s], frame'[s])
  BY DEF SameCampaign
<1>n. ASSUME NEW t \in Thread
      PROVE  LET f == NextPeer(frame[t], FALSE)
             IN  SameCampaign(frame[t], f) /\ f.at = frame[t].at
  BY <1>0 DEF NextPeer, SameCampaign, Frame
<1>1. ASSUME NEW t \in Thread, Send(t)
      PROVE  ElectionInv'
  <2>1. SameCampaign(frame[t], [frame[t] EXCEPT !.sent = TRUE])
    BY <1>0 DEF SameCampaign, Frame
  <2>2. Goto(t, [frame[t] EXCEPT !.sent = TRUE])
    BY <1>1 DEF Send
  <2> QED
    BY <1>1, <2>1, <2>2, GotoCampaign, ElectionQuiet DEF Send
<1>2. ASSUME NEW t \in Thread, LoseCall(t)
      PROVE  ElectionInv'
  <2>1. Goto(t, NextPeer(frame[t], FALSE))
    BY <1>2 DEF LoseCall
  <2> QED
    BY <1>2, <1>n, <2>1, GotoCampaign, ElectionQuiet DEF LoseCall
<1>3. ASSUME NEW t \in Thread, RequestVote(t)
      PROVE  ElectionInv'
  <2> DEFINE f == frame[t]
             args == [term |-> f.term, candidate |-> f.node,
                      lastIndex |-> f.lastIndex, lastTerm |-> f.lastTerm]
             x == AfterRequestVote(node[f.peer], args)
  <2>1. f \in Frame /\ FrameOK(f) /\ RoundsLeft(f)
    BY <1>3, <1>0 DEF RequestVote, FrameOK
  <2>2. f.node \in Node /\ f.peer \in Node
    BY <2>1, NextPeerOK
  <2>3. args \in VoteArgs /\ node[f.peer] \in NodeRecord
    BY <2>1, <2>2 DEF VoteArgs, Frame, TypeOK
  <2>4. CASE GrantsVote(node[f.peer], args)
    BY <1>3, <2>3, <2>4, ElectionVote
  <2>5. CASE ~GrantsVote(node[f.peer], args)
    <3>1. GrantsVote(node[f.peer], args) = FALSE
      BY <2>5 DEF GrantsVote
    <3>2. /\ node' = [node EXCEPT ![f.peer] = x]
          /\ UNCHANGED <<won, granted, forgot>>
          /\ Goto(t, NextPeer(f, FALSE))
      BY <1>3, <3>1 DEF RequestVote
    <3>3. \A s \in Thread : SameCampaign(frame[s], frame'[s])
      BY <1>n, <3>2, GotoCampaign
    <3>4. /\ x \in NodeRecord /\ x.alive = node[f.peer].alive
          /\ \/ x = node[f.peer]
             \/ /\ node[f.peer].alive /\ x.term > node[f.peer].term
                /\ x.role = "Follower" /\ x.votedFor = NoNode
      BY <2>3, <2>5, RequestVoteEffect
    <3> HIDE DEF x, args, f
    <3>5. CASE x = node[f.peer]
      <4>1. node' = node
        BY <2>2, <3>2, <3>5 DEF TypeOK
      <4> QED
        BY <3>2, <3>3, <4>1, ElectionQuiet
    <3>6. CASE /\ node[f.peer].alive /\ x.term > node[f.peer].term
               /\ x.role = "Follower"
      BY <2>2, <3>2, <3>3, <3>4, <3>6, ElectionStepDown
    <3> QED
      BY <3>4, <3>5, <3>6
  <2> QED
    BY <2>4, <2>5
<1>4. ASSUME NEW t \in Thread, AppendEntries(t)
      PROVE  ElectionInv'
  <2> DEFINE f == frame[t]
             args == [term |-> f.term, leaderCommit |-> f.commit,
                      entries |-> IF f.at = "replicate"
                                  THEN <<Put(f.term, f.key, f.value)>> ELSE << >>]
             x == AfterAppendEntries(node[f.peer], args)
             f2 == NextPeer(f, f.at = "replicate"
                               /\ AcceptsAppend(node[f.peer], args))
  <2>1. /\ f \in Frame /\ FrameOK(f) /\ RoundsLeft(f)
        /\ f.at # "request_votes"
    BY <1>4, <1>0 DEF AppendEntries, FrameOK
  <2>2. f.node \in Node /\ f.peer \in Node
    BY <2>1, NextPeerOK
  <2>3. args \in AppendArgs /\ node[f.peer] \in NodeRecord
    <3>1. f.at = "replicate" => Put(f.term, f.key, f.value) \in Entry
      BY <2>1 DEF FrameOK, Frame, Put, Entry
    <3>2. args.entries \in Seq(Entry)
      BY <3>1
    <3> QED
      BY <2>1, <2>2, <3>2 DEF AppendArgs, Frame, TypeOK
  <2>4. /\ node' = [node EXCEPT ![f.peer] = x]
        /\ UNCHANGED <<won, granted, forgot>>
        /\ Goto(t, f2)
    BY <1>4 DEF AppendEntries
  <2>5. f2.at # "request_votes"
    BY <2>1 DEF NextPeer, Frame
  <2>6. \A s \in Thread : SameCampaign(frame[s], frame'[s])
    BY <1>g, <2>4, <2>5
  <2>7. /\ x \in NodeRecord /\ x.alive = node[f.peer].alive
        /\ \/ /\ x.role = node[f.peer].role /\ x.term = node[f.peer].term
              /\ x.votedFor = node[f.peer].votedFor
           \/ /\ node[f.peer].alive /\ x.role = "Follower"
              /\ \/ x.term > node[f.peer].term
                 \/ x.term = node[f.peer].term /\ node[f.peer].role = "Candidate"
    BY <2>3, AppendEntriesEffect
  <2> HIDE DEF x, args, f, f2
  <2>8. CASE /\ x.role = node[f.peer].role /\ x.term = node[f.peer].term
             /\ x.votedFor = node[f.peer].votedFor
    <3>1. \A n \in Node : /\ node'[n].role = node[n].role
                          /\ node'[n].term = node[n].term
                          /\ node'[n].votedFor = node[n].votedFor
                          /\ node'[n].alive = node[n].alive
      BY <2>2, <2>4, <2>7, <2>8 DEF TypeOK
    <3> QED
      BY <2>4, <2>6, <3>1, ElectionNeutral
  <2>9. CASE /\ node[f.peer].alive /\ x.role = "Follower"
             /\ \/ x.term > node[f.peer].term
                \/ x.term = node[f.peer].term /\ node[f.peer].role = "Candidate"
    BY <2>2, <2>4, <2>6, <2>7, <2>9, ElectionStepDown
  <2> QED
    BY <2>7, <2>8, <2>9
<1>5. ASSUME NEW t \in Thread, StartElection(t)
      PROVE  ElectionInv'
  BY <1>5, ElectionStart
<1>6. ASSUME NEW t \in Thread, FinishElection(t)
      PROVE  ElectionInv'
  <2> DEFINE wins == WinsElection(node[frame[t].node], frame[t].term,
                                  Cardinality(frame[t].acks))
  <2>1. CASE wins
    BY <1>6, <2>1, ElectionWin
  <2>2. CASE ~wins
    <3>1. frame[t].node \in Node
      BY <1>6, <1>0 DEF FinishElection, FrameOK
    <3>2. /\ node' = [node EXCEPT ![frame[t].node].role = @]
          /\ won' = won \cup {} /\ Return(t) /\ UNCHANGED <<granted, forgot>>
      BY <1>6, <2>2 DEF FinishElection
    <3>3. node' = node /\ won' = won
      BY <3>1, <3>2 DEF TypeOK, NodeRecord
    <3> QED
      BY <1>r, <3>2, <3>3, ElectionQuiet
  <2> QED
    BY <2>1, <2>2
<1>7. ASSUME NEW t \in Thread, NEW n \in Timed, Tick(t, n)
      PROVE  ElectionInv'
  <2>1. n \in Node /\ node[n] \in NodeRecord
    BY ClusterAssumption DEF TypeOK
  <2>2. /\ Ticked(node[n]).role = node[n].role /\ Ticked(node[n]).term = node[n].term
        /\ Ticked(node[n]).votedFor = node[n].votedFor
        /\ Ticked(node[n]).alive = node[n].alive
    BY <2>1 DEF Ticked, NodeRecord
  <2>3. node' = [node EXCEPT ![n] = Ticked(node[n])] /\ UNCHANGED history
    BY <1>7 DEF Tick
  <2>4. \A m \in Node : /\ node'[m].role = node[m].role
                        /\ node'[m].term = node[m].term
                        /\ node'[m].votedFor = node[m].votedFor
                        /\ node'[m].alive = node[m].alive
    BY <2>1, <2>2, <2>3 DEF TypeOK
  <2> DEFINE f1 == [Idle EXCEPT !.at = "start_election", !.node = n]
             f2 == [Idle EXCEPT !.at = "send_heartbeats", !.node = n]
  <2>5. f1.at # "request_votes" /\ f2.at # "request_votes"
    BY DEF Idle
  <2>6. Goto(t, f1) \/ Goto(t, f2) \/ UNCHANGED frame
    BY <1>7 DEF Tick
  <2> HIDE DEF f1, f2
  <2>7. \A s \in Thread : SameCampaign(frame[s], frame'[s])
    BY <1>g, <1>u, <2>5, <2>6
  <2> QED
    BY <2>3, <2>4, <2>7, ElectionNeutral
<1>8. ASSUME NEW t \in Thread, SendHeartbeats(t)
      PROVE  ElectionInv'
  <2> DEFINE n == frame[t].node
             f == [Idle EXCEPT !.at = "heartbeat", !.node = n,
                               !.peer = PeerAfter(n, 0), !.term = node[n].term,
                               !.commit = node[n].commitIndex]
  <2>1. f.at # "request_votes"
    BY DEF Idle
  <2>2. Goto(t, f) /\ UNCHANGED <<node, history>>
    BY <1>8 DEF SendHeartbeats
  <2> HIDE DEF f
  <2> QED
    BY <1>g, <2>1, <2>2, ElectionQuiet
<1>9. ASSUME NEW t \in Thread,
             FinishHeartbeat(t) \/ ReturnEarly(t) \/ Isolate(t)
      PROVE  ElectionInv'
  BY <1>9, <1>r, ElectionQuiet DEF FinishHeartbeat, ReturnEarly, Isolate
<1>10. ASSUME NEW t \in Thread, ClientWrite(t)
       PROVE  ElectionInv'
  <2> DEFINE f == frame[t]
             nd == node[f.node]
             f2 == [f EXCEPT !.at = "leader_commit", !.acks = {f.node},
                             !.term = nd.term,
                             !.index = LastLogIndex(nd.storage) + 1]
             st == AppendLog(nd.storage, Put(nd.term, f.key, f.value))
  <2>1. f \in Frame /\ f.node \in Node /\ nd \in NodeRecord
    BY <1>10, <1>0 DEF ClientWrite, FrameOK, TypeOK
  <2>2. f2.at # "request_votes"
    BY <2>1 DEF Frame
  <2>3. /\ node' = [node EXCEPT ![f.node].storage = st]
        /\ Goto(t, f2) /\ UNCHANGED history
    BY <1>10 DEF ClientWrite
  <2> HIDE DEF f2, st
  <2>4. \A m \in Node : /\ node'[m].role = node[m].role
                        /\ node'[m].term = node[m].term
                        /\ node'[m].votedFor = node[m].votedFor
                        /\ node'[m].alive = node[m].alive
    BY <2>1, <2>3 DEF TypeOK, NodeRecord
  <2> QED
    BY <1>g, <2>2, <2>3, <2>4, ElectionNeutral
<1>11. ASSUME NEW t \in Thread, ReadCommit(t)
       PROVE  ElectionInv'
  <2> DEFINE f == [frame[t] EXCEPT !.at = "replicate",
                                   !.peer = PeerAfter(frame[t].node, 0),
                                   !.commit = node[frame[t].node].commitIndex]
  <2>1. f.at # "request_votes"
    BY <1>0 DEF Frame
  <2>2. Goto(t, f) /\ UNCHANGED <<node, history>>
    BY <1>11 DEF ReadCommit
  <2> HIDE DEF f
  <2> QED
    BY <1>g, <2>1, <2>2, ElectionQuiet
<1>12. ASSUME NEW t \in Thread, FinishWrite(t)
       PROVE  ElectionInv'
  <2> DEFINE f == frame[t]
             ok == QuorumSatisfied(f.acks)
             x == IF ok THEN CommittedUpTo(node[f.node], f.index) ELSE node[f.node]
  <2>1. /\ f.node \in Node /\ node[f.node] \in NodeRecord /\ f.index \in Nat
    BY <1>12, <1>0 DEF FinishWrite, FrameOK, Frame, TypeOK
  <2>2. /\ x.role = node[f.node].role /\ x.term = node[f.node].term
        /\ x.votedFor = node[f.node].votedFor /\ x.alive = node[f.node].alive
    BY <2>1, CommittedUpToEffect
  <2>3. /\ node' = [node EXCEPT ![f.node] = x]
        /\ Return(t) /\ UNCHANGED <<won, granted, forgot>>
    BY <1>12 DEF FinishWrite
  <2> HIDE DEF x
  <2>4. \A m \in Node : /\ node'[m].role = node[m].role
                        /\ node'[m].term = node[m].term
                        /\ node'[m].votedFor = node[m].votedFor
                        /\ node'[m].alive = node[m].alive
    BY <2>1, <2>2, <2>3 DEF TypeOK
  <2> QED
    BY <1>r, <2>3, <2>4, ElectionNeutral
<1>13. ASSUME NEW t \in Thread, SelfDeadlock(t)
       PROVE  ElectionInv'
  <2> DEFINE f == [frame[t] EXCEPT !.at = "hung"]
  <2>1. f.at # "request_votes"
    BY <1>0 DEF Frame
  <2>2. Goto(t, f) /\ UNCHANGED <<node, history>>
    BY <1>13 DEF SelfDeadlock
  <2> HIDE DEF f
  <2> QED
    BY <1>g, <2>1, <2>2, ElectionQuiet
<1>14. ASSUME NEW t \in Thread, Recover(t)
       PROVE  ElectionInv'
  <2> DEFINE n == frame[t].node
             x == Recovered(node[n])
  <2>1. n \in Node /\ node[n] \in NodeRecord
    BY <1>14, <1>0 DEF Recover, FrameOK, TypeOK
  <2>2. /\ x \in NodeRecord /\ x.alive /\ x.role = "Follower"
        /\ x.term = node[n].term
    BY <2>1, ZeroTicks DEF Recovered, NodeRecord
  <2>3. /\ node' = [node EXCEPT ![n] = x]
        /\ forgot' = forgot \cup
                       (IF node[n].votedFor # NoNode THEN {node[n].term} ELSE {})
        /\ Return(t) /\ UNCHANGED <<won, granted>>
    BY <1>14 DEF Recover
  <2> HIDE DEF x
  <2>4. node[n].votedFor = NoNode \/ node[n].term \in forgot'
    BY <2>3
  <2> QED
    BY <1>r, <2>1, <2>2, <2>3, <2>4, ElectionStepDown
<1>15. ASSUME NEW t \in Thread, NEW n \in Victims, Kill(t, n)
       PROVE  ElectionInv'
  <2> DEFINE x == Crashed(node[n])
             f == [Idle EXCEPT !.at = "isolate", !.node = n]
  <2>1. n \in Node /\ node[n] \in NodeRecord
    BY ClusterAssumption DEF TypeOK
  <2>2. /\ x \in NodeRecord /\ ~x.alive /\ x.role = "Offline"
        /\ x.term = node[n].term /\ x.votedFor = node[n].votedFor
    BY <2>1 DEF Crashed, NodeRecord
  <2>3. f.at # "request_votes"
    BY DEF Idle
  <2>4. node' = [node EXCEPT ![n] = x] /\ Goto(t, f) /\ UNCHANGED history
    BY <1>15 DEF Kill
  <2> HIDE DEF x, f
  <2> QED
    BY <1>g, <2>1, <2>2, <2>3, <2>4, ElectionStepDown
<1>16. ASSUME NEW t \in Thread, NEW n \in Victims, Unisolate(t, n)
       PROVE  ElectionInv'
  <2> DEFINE f == [Idle EXCEPT !.at = "recover", !.node = n]
  <2>1. f.at # "request_votes"
    BY DEF Idle
  <2>2. Goto(t, f) /\ UNCHANGED <<node, history>>
    BY <1>16 DEF Unisolate
  <2> HIDE DEF f
  <2> QED
    BY <1>g, <2>1, <2>2, ElectionQuiet
<1>17. ASSUME NEW t \in Thread, NEW n \in Node, NEW k \in Key, Read(t, n, k)
       PROVE  ElectionInv'
  <2> DEFINE f == [Idle EXCEPT !.at = "client_read", !.node = n, !.key = k]
  <2>1. f.at # "request_votes"
    BY DEF Idle
  <2>2. Goto(t, f) /\ UNCHANGED <<node, history>>
    BY <1>17 DEF Read
  <2> HIDE DEF f
  <2> QED
    BY <1>g, <2>1, <2>2, ElectionQuiet
<1>18. ASSUME NEW t \in Thread, NEW n \in Node, NEW k \in Key, NEW v \in Value,
              Write(t, n, k, v)
       PROVE  ElectionInv'
  <2> DEFINE f == [Idle EXCEPT !.at = "client_write", !.node = n,
                               !.key = k, !.value = v]
  <2>1. f.at # "request_votes"
    BY DEF Idle
  <2>2. Goto(t, f) /\ UNCHANGED <<node, history>>
    BY <1>18 DEF Write
  <2> HIDE DEF f
  <2> QED
    BY <1>g, <2>1, <2>2, ElectionQuiet
<1>19. ASSUME NEW t \in Thread, (\E cut \in Cuts : Partition(t, cut)) \/ Heal(t)
       PROVE  ElectionInv'
  BY <1>19, <1>u, ElectionQuiet DEF Partition, Heal
<1>20. CASE UNCHANGED vars
  BY <1>20, <1>u, ElectionQuiet DEF vars
<1> QED
  BY <1>1, <1>2, <1>3, <1>4, <1>5, <1>6, <1>7, <1>8, <1>9, <1>10, <1>11, <1>12,
     <1>13, <1>14, <1>15, <1>16, <1>17, <1>18, <1>19, <1>20
     DEF Next, Continue, Call

(* The invariant that election safety rests on is inductive, given the      *)
(* types: how votes, roles, counted ballots and victories hang together.    *)
THEOREM ElectionInvariant == Spec => []ElectionInv
BY TypeCorrect, ElectionInit, ElectionNext, PTL DEF Spec

(* Two nodes never win the same term, for any number of nodes and threads   *)
(* and any interleaving of calls, crashes, cuts and losses, unless recover  *)
(* erased a vote of that term.                                              *)
THEOREM ElectionSafe == Spec => []ElectionSafetyUnlessRecovered
BY TypeCorrect, ElectionInvariant, ElectionSafetyFromInv, PTL

------------------------------------------------------------------------------
(* Cluster implements Election, for any number of nodes and of threads.     *)
(*                                                                          *)
(*   RequestVote that grants            Vote(receiver, sender)              *)
(*   RequestVote or AppendEntries       Learn(receiver), if its term rises  *)
(*   StartElection                      Vote(n, n)                          *)
(*   FinishElection that wins           Win(n)                              *)
(*   Recover of a node with a vote      Erase(n)                            *)
(*                                                                          *)
(* and every other step leaves the ballots as they are.                     *)

(* What Election sees of a node is its term. *)
LEMMA BallotsUntouched ==
  ASSUME UNCHANGED <<won, granted, forgot>>,
         \A n \in Node : node'[n].term = node[n].term
  PROVE  UNCHANGED Ballots!ballots
BY DEF Ballots!ballots

LEMMA TermReached ==
  ASSUME TypeOK, NEW v \in Node, NEW x \in NodeRecord,
         node' = [node EXCEPT ![v] = x], x.term >= node[v].term
  PROVE  /\ Ballots!Reaches(v)
         /\ [n \in Node |-> node[n].term]'[v] = x.term
<1>1. /\ node'[v] = x /\ \A n \in Node \ {v} : node'[n] = node[n]
      /\ x.term \in Nat
  BY DEF TypeOK, NodeRecord
<1>2. [n \in Node |-> node[n].term]' = [n \in Node |-> node'[n].term]
  OBVIOUS
<1>3. [n \in Node |-> node'[n].term]
        = [[n \in Node |-> node[n].term] EXCEPT ![v] = x.term]
  <2>1. \A n \in Node : node'[n].term = IF n = v THEN x.term ELSE node[n].term
    BY <1>1
  <2>. QED BY <2>1
<1>4. [n \in Node |-> node[n].term]'[v] = x.term
  BY <1>1, <1>2
<1>. QED BY <1>1, <1>2, <1>3, <1>4 DEF Ballots!Reaches

LEMMA Learns ==
  ASSUME TypeOK, NEW v \in Node, NEW x \in NodeRecord,
         node' = [node EXCEPT ![v] = x], x.term >= node[v].term,
         UNCHANGED <<won, granted, forgot>>
  PROVE  Ballots!Next
BY TermReached DEF Ballots!Next, Ballots!Learn

(* A vote for another, in a term no vote of which is erased: the voter has  *)
(* not won that term, nor voted for a third.                                *)
LEMMA VoteIsFree ==
  ASSUME TypeOK, ElectionInv, NEW v \in Node, NEW c \in Node, NEW T \in Nat,
         T \notin forgot,
         \/ T > node[v].term
         \/ T = node[v].term /\ node[v].votedFor \in {NoNode, c} /\ c # v
  PROVE  /\ <<T, v>> \notin won
         /\ \A d \in Node \ {v, c} : <<T, v, d>> \notin granted
<1>1. CASE T > node[v].term
  <2>1. node[v].term \in Nat
    BY DEF TypeOK, NodeRecord
  <2>. QED BY <1>1, <2>1 DEF ElectionInv, PastTerms
<1>2. CASE T = node[v].term /\ node[v].votedFor \in {NoNode, c} /\ c # v
  <2>1. /\ \A d \in Node \ {v} : <<T, v, d>> \in granted => node[v].votedFor = d
        /\ <<T, v>> \in won => node[v].votedFor = v
    BY <1>2 DEF ElectionInv, PresentVote, Remembered, Votes
  <2>2. NoNode \notin Node
    BY DEF NoNode, Node
  <2>. QED BY <1>2, <2>1, <2>2
<1>. QED BY <1>1, <1>2

LEMMA RequestVoteRefines ==
  ASSUME TypeOK, ElectionInv, NEW t \in Thread, RequestVote(t)
  PROVE  Ballots!Next
<1>. DEFINE f == frame[t]
            args == [term |-> f.term, candidate |-> f.node,
                     lastIndex |-> f.lastIndex, lastTerm |-> f.lastTerm]
<1>1. f \in Frame /\ FrameOK(f) /\ RoundsLeft(f)
  BY DEF RequestVote, TypeOK, FrameOK
<1>2. PICK v \in Node, c \in Node, T \in Nat :
        c = f.node /\ v = f.peer /\ c # v /\ T = f.term
  BY <1>1, NextPeerOK DEF Frame
<1>. DEFINE x == AfterRequestVote(node[v], args)
<1>3. args \in VoteArgs /\ node[v] \in NodeRecord /\ node[v].term \in Nat
  BY <1>1, <1>2 DEF VoteArgs, Frame, TypeOK, NodeRecord
<1>4. /\ node' = [node EXCEPT ![v] = x]
      /\ granted' = granted \cup (IF GrantsVote(node[v], args)
                                  THEN {<<T, v, c>>} ELSE {})
      /\ UNCHANGED <<won, forgot>>
  BY <1>2 DEF RequestVote
<1>5. CASE GrantsVote(node[v], args)
  <2>1. /\ x \in NodeRecord /\ x.term = T
        /\ \/ T > node[v].term
           \/ T = node[v].term /\ node[v].votedFor \in {NoNode, c}
    BY <1>2, <1>3, <1>5, RequestVoteEffect
  <2>2. x.term >= node[v].term
    BY <1>3, <2>1
  <2>. HIDE DEF x, args, f
  <2>3. /\ Ballots!Reaches(v)
        /\ [n \in Node |-> node[n].term]'[v] = T
    BY <1>4, <2>1, <2>2, TermReached
  <2>4. T \notin forgot =>
          /\ <<T, v>> \notin won
          /\ \A d \in Node \ {v, c} : <<T, v, d>> \notin granted
    BY <1>2, <2>1, VoteIsFree
  <2>5. Ballots!Vote(v, c)
    BY <1>2, <1>4, <1>5, <2>3, <2>4 DEF Ballots!Vote, Ballots!VotedForOther
  <2>. QED BY <2>5 DEF Ballots!Next
<1>6. CASE ~GrantsVote(node[v], args)
  <2>1. x \in NodeRecord /\ (x = node[v] \/ x.term > node[v].term)
    BY <1>3, <1>6, RequestVoteEffect
  <2>2. granted' = granted
    BY <1>4, <1>6
  <2>. HIDE DEF x, args, f
  <2>3. x.term >= node[v].term
    BY <1>3, <2>1 DEF NodeRecord
  <2>. QED BY <1>2, <1>4, <2>1, <2>2, <2>3, Learns
<1>. QED BY <1>5, <1>6

LEMMA AppendEntriesRefines ==
  ASSUME TypeOK, NEW t \in Thread, AppendEntries(t)
  PROVE  Ballots!Next
<1>. DEFINE f == frame[t]
            args == [term |-> f.term, leaderCommit |-> f.commit,
                     entries |-> IF f.at = "replicate"
                                 THEN <<Put(f.term, f.key, f.value)>> ELSE << >>]
            x == AfterAppendEntries(node[f.peer], args)
<1>1. f \in Frame /\ FrameOK(f) /\ RoundsLeft(f)
  BY DEF AppendEntries, TypeOK, FrameOK
<1>2. f.peer \in Node /\ node[f.peer] \in NodeRecord
  BY <1>1, NextPeerOK DEF TypeOK
<1>3. f.at = "replicate" => Put(f.term, f.key, f.value) \in Entry
  BY <1>1 DEF FrameOK, Frame, Put, Entry
<1>4. args.entries \in Seq(Entry)
  BY <1>3
<1>5. args \in AppendArgs
  BY <1>1, <1>4 DEF AppendArgs, Frame
<1>6. x \in NodeRecord /\ (x.term = node[f.peer].term \/ x.term > node[f.peer].term)
  BY <1>2, <1>5, AppendEntriesEffect
<1>7. node' = [node EXCEPT ![f.peer] = x] /\ UNCHANGED <<won, granted, forgot>>
  BY DEF AppendEntries, history
<1>. HIDE DEF x, args, f
<1>8. x.term >= node[f.peer].term
  BY <1>2, <1>6 DEF NodeRecord
<1>. QED BY <1>2, <1>6, <1>7, <1>8, Learns

LEMMA StartElectionRefines ==
  ASSUME TypeOK, NEW t \in Thread, StartElection(t)
  PROVE  Ballots!Next
<1>1. PICK n \in Node : /\ n = frame[t].node
                        /\ node[n] \in NodeRecord /\ node[n].term \in Nat
  BY DEF StartElection, TypeOK, FrameOK, NodeRecord
<1>. DEFINE x == Campaigning(node[n], n)
<1>2. x \in NodeRecord /\ x.term = node[n].term + 1
  BY <1>1, CampaigningEffect DEF StartElection
<1>3. /\ node' = [node EXCEPT ![n] = x]
      /\ granted' = granted \cup {<<node[n].term + 1, n, n>>}
      /\ UNCHANGED <<won, forgot>>
  BY <1>1 DEF StartElection
<1>. HIDE DEF x
<1>5. x.term >= node[n].term
  BY <1>1, <1>2
<1>4. Ballots!Reaches(n) /\ [m \in Node |-> node[m].term]'[n] = x.term
  BY <1>2, <1>3, <1>5, TermReached
<1>6. Ballots!Vote(n, n)
  BY <1>1, <1>2, <1>3, <1>4 DEF Ballots!Vote
<1>. QED BY <1>6 DEF Ballots!Next

(* The winner is a candidate still, so it voted for nobody else, and it has *)
(* counted votes of a quorum.                                               *)
LEMMA FinishElectionRefines ==
  ASSUME TypeOK, ElectionInv, NEW t \in Thread, FinishElection(t)
  PROVE  Ballots!Next \/ UNCHANGED Ballots!ballots
<1>. DEFINE f == frame[t]
<1>1. PICK n \in Node, Q \in SUBSET Node, T \in Nat :
        /\ n = f.node /\ Q = f.acks /\ T = f.term
        /\ node[n] \in NodeRecord /\ f.at = "request_votes"
  BY DEF FinishElection, TypeOK, FrameOK, Frame
<1>. DEFINE wins == WinsElection(node[n], T, Cardinality(Q))
<1>2. /\ node' = [node EXCEPT ![n].role = IF wins THEN "Leader" ELSE @]
      /\ won' = won \cup (IF wins THEN {<<T, n>>} ELSE {})
      /\ UNCHANGED <<granted, forgot>>
  BY <1>1 DEF FinishElection
<1>3. \A m \in Node : node'[m].term = node[m].term
  BY <1>1, <1>2 DEF TypeOK, NodeRecord
<1>4. CASE wins
  <2>1. /\ node[n].role = "Candidate" /\ node[n].term = T
        /\ Cardinality(Q) >= VoteQuorum
    BY <1>4 DEF WinsElection
  <2>2. /\ \A u \in Q : <<T, u, n>> \in granted
        /\ \A d \in Node : <<T, n, d>> \in granted => d = n
    BY <1>1, <2>1 DEF ElectionInv, BallotsCounted, RolesMatchVotes, Votes
  <2>3. Ballots!Win(n)
    BY <1>2, <1>3, <1>4, <2>1, <2>2 DEF Ballots!Win, Ballots!VotedForOther
  <2>. QED BY <2>3 DEF Ballots!Next
<1>5. CASE ~wins
  BY <1>2, <1>3, <1>5, BallotsUntouched
<1>. QED BY <1>4, <1>5

LEMMA RecoverRefines ==
  ASSUME TypeOK, NEW t \in Thread, Recover(t)
  PROVE  Ballots!Next \/ UNCHANGED Ballots!ballots
<1>1. PICK n \in Node : n = frame[t].node /\ node[n] \in NodeRecord
  BY DEF Recover, TypeOK, FrameOK
<1>2. /\ node' = [node EXCEPT ![n] = Recovered(@)]
      /\ forgot' = forgot \cup
                     (IF node[n].votedFor # NoNode THEN {node[n].term} ELSE {})
      /\ UNCHANGED <<won, granted>>
  BY <1>1 DEF Recover
<1>3. \A m \in Node : node'[m].term = node[m].term
  BY <1>1, <1>2 DEF TypeOK, NodeRecord, Recovered
<1>4. CASE node[n].votedFor # NoNode
  BY <1>1, <1>2, <1>3, <1>4 DEF Ballots!Erase, Ballots!Next
<1>5. CASE node[n].votedFor = NoNode
  BY <1>2, <1>3, <1>5, BallotsUntouched
<1>. QED BY <1>4, <1>5

(* The steps that change a node without touching its term, or no node.      *)
LEMMA OthersRefine ==
  ASSUME TypeOK, NEW t \in Thread,
         \/ \E n \in Timed : Tick(t, n)
         \/ \E n \in Victims : Kill(t, n)
         \/ ClientWrite(t) \/ FinishWrite(t)
  PROVE  UNCHANGED Ballots!ballots
<1>. USE DEF history
<1>0. \A n \in Node : node[n] \in NodeRecord
  BY DEF TypeOK
<1>1. ASSUME NEW n \in Timed, Tick(t, n) PROVE UNCHANGED Ballots!ballots
  <2>1. n \in Node /\ Ticked(node[n]).term = node[n].term
    BY <1>0, ClusterAssumption DEF Ticked, NodeRecord
  <2>2. \A m \in Node : node'[m].term = node[m].term
    BY <1>1, <2>1 DEF Tick, TypeOK
  <2>. QED BY <1>1, <2>2, BallotsUntouched DEF Tick
<1>2. ASSUME NEW n \in Victims, Kill(t, n) PROVE UNCHANGED Ballots!ballots
  <2>1. n \in Node /\ Crashed(node[n]).term = node[n].term
    BY <1>0, ClusterAssumption DEF Crashed, NodeRecord
  <2>2. \A m \in Node : node'[m].term = node[m].term
    BY <1>2, <2>1 DEF Kill, TypeOK
  <2>. QED BY <1>2, <2>2, BallotsUntouched DEF Kill
<1>3. CASE ClientWrite(t)
  <2>1. frame[t].node \in Node
    BY <1>3 DEF ClientWrite, TypeOK, FrameOK
  <2>2. \A m \in Node : node'[m].term = node[m].term
    BY <1>0, <1>3, <2>1 DEF ClientWrite, TypeOK, NodeRecord
  <2>. QED BY <1>3, <2>2, BallotsUntouched DEF ClientWrite
<1>4. CASE FinishWrite(t)
  <2>. DEFINE f == frame[t]
              x == IF QuorumSatisfied(f.acks)
                   THEN CommittedUpTo(node[f.node], f.index) ELSE node[f.node]
  <2>1. f.node \in Node /\ f.index \in Nat
    BY <1>4 DEF FinishWrite, TypeOK, FrameOK, Frame
  <2>2. x.term = node[f.node].term
    BY <1>0, <2>1, CommittedUpToEffect
  <2>3. node' = [node EXCEPT ![f.node] = x] /\ UNCHANGED <<won, granted, forgot>>
    BY <1>4 DEF FinishWrite
  <2>. HIDE DEF x
  <2>4. \A m \in Node : node'[m].term = node[m].term
    BY <2>1, <2>2, <2>3 DEF TypeOK
  <2>. QED BY <2>3, <2>4, BallotsUntouched
<1>. QED BY <1>1, <1>2, <1>3, <1>4

LEMMA StepRefines ==
  ASSUME TypeOK, ElectionInv, [Next]_vars
  PROVE  Ballots!Next \/ UNCHANGED Ballots!ballots
<1>1. CASE UNCHANGED <<node, history>>
  BY <1>1, BallotsUntouched DEF history
<1>2. ASSUME NEW t \in Thread,
             \/ Send(t) \/ LoseCall(t) \/ SendHeartbeats(t) \/ FinishHeartbeat(t)
             \/ ReadCommit(t) \/ ReturnEarly(t) \/ SelfDeadlock(t) \/ Isolate(t)
             \/ \E n \in Victims : Unisolate(t, n)
             \/ \E n \in Node, k \in Key : Read(t, n, k)
             \/ \E n \in Node, k \in Key, v \in Value : Write(t, n, k, v)
             \/ \E cut \in Cuts : Partition(t, cut)
             \/ Heal(t)
      PROVE  UNCHANGED <<node, history>>
  BY <1>2 DEF Send, LoseCall, SendHeartbeats, FinishHeartbeat, ReadCommit,
              ReturnEarly, SelfDeadlock, Isolate, Unisolate, Read, Write,
              Partition, Heal
<1>3. ASSUME NEW t \in Thread,
             \/ RequestVote(t) \/ AppendEntries(t) \/ StartElection(t)
             \/ FinishElection(t) \/ Recover(t)
      PROVE  Ballots!Next \/ UNCHANGED Ballots!ballots
  BY <1>3, RequestVoteRefines, AppendEntriesRefines, StartElectionRefines,
     FinishElectionRefines, RecoverRefines
<1>4. ASSUME NEW t \in Thread,
             \/ \E n \in Timed : Tick(t, n)
             \/ \E n \in Victims : Kill(t, n)
             \/ ClientWrite(t) \/ FinishWrite(t)
      PROVE  UNCHANGED Ballots!ballots
  BY <1>4, OthersRefine
<1>5. CASE Next
  <2>1. PICK t \in Thread : Continue(t) \/ Call(t)
    BY <1>5 DEF Next
  <2>. QED BY <1>1, <1>2, <1>3, <1>4, <2>1 DEF Continue, Call
<1>6. CASE UNCHANGED vars
  BY <1>1, <1>6 DEF vars, history
<1>. QED BY <1>5, <1>6

(* Whatever the threads, the network, the timers, the logs and the crashes  *)
(* do, the elections of a cluster are ruled by its ballots: node.cpp keeps  *)
(* the rules of Election, so what follows from those rules alone holds of   *)
(* it.                                                                      *)
THEOREM ImplementsElection == Spec => ElectsByBallots
<1>1. Init => Ballots!Init
  BY DEF Init, Ballots!Init, NewNode
<1>2. TypeOK /\ ElectionInv /\ [Next]_vars => [Ballots!Next]_(Ballots!ballots)
  BY StepRefines
<1>. QED
  BY <1>1, <1>2, TypeCorrect, ElectionInvariant, PTL
     DEF Spec, ElectsByBallots, Ballots!Spec

------------------------------------------------------------------------------
(* The logs. *)

(* One step of thread t. *)
Step(t) == Continue(t) \/ Call(t)

------------------------------------------------------------------------------
(* What a step leaves of the thread that makes it: a frame of which nothing *)
(* is claimed that was not claimed before.                                  *)
Relying == {"request_votes", "heartbeat", "client_write", "leader_commit",
            "replicate"}

CarriesOn(f, f2) ==
  /\ f2.value \in {f.value, Nil}
  /\ f2.at \in Relying =>
       /\ f2.at = f.at /\ f2.node = f.node /\ f2.term = f.term
       /\ f2.lastTerm = f.lastTerm /\ f2.commit = f.commit
       /\ f2.index = f.index /\ f2.key = f.key /\ f2.value = f.value
       /\ f2.peer >= f.peer
       /\ f2.at # "request_votes" => f2.acks \subseteq f.acks

(* The steps after which more is claimed. *)
Claims(t) ==
  \/ StartElection(t) \/ SendHeartbeats(t) \/ ClientWrite(t) \/ ReadCommit(t)
  \/ AppendEntries(t)
  \/ \E n \in Node, k \in Key, v \in Value : Write(t, n, k, v)

LEMMA GotoFrame ==
  ASSUME TypeOK, NEW t \in Thread, NEW f, Goto(t, f)
  PROVE  frame'[t] = f /\ \A s \in Thread \ {t} : frame'[s] = frame[s]
BY DEF TypeOK, Goto

LEMMA CarriesSame ==
  ASSUME NEW f \in Frame
  PROVE  CarriesOn(f, f)
BY DEF CarriesOn, Frame

LEMMA CarriesIdle ==
  ASSUME NEW f \in Frame, NEW f2, f2.at \notin Relying, f2.value = Nil
  PROVE  CarriesOn(f, f2)
BY DEF CarriesOn

LEMMA CarriesNextPeer ==
  ASSUME NEW f \in Frame, NEW counted \in BOOLEAN,
         f.at = "request_votes" \/ counted = FALSE
  PROVE  CarriesOn(f, NextPeer(f, counted))
<1> DEFINE p == PeerAfter(f.node, f.peer)
           acks == IF counted THEN f.acks \cup {f.peer} ELSE f.acks
           f2 == NextPeer(f, counted)
<1>1. f2 = [f EXCEPT !.peer = p, !.sent = FALSE, !.acks = acks]
  BY DEF NextPeer
<1>2. p >= f.peer /\ (f.at # "request_votes" => acks = f.acks)
  BY SizeAssumption DEF PeerAfter, Frame
<1> HIDE DEF p, acks, f2
<1>3. /\ f2.at = f.at /\ f2.node = f.node /\ f2.term = f.term /\ f2.acks = acks
      /\ f2.lastTerm = f.lastTerm /\ f2.commit = f.commit /\ f2.peer = p
      /\ f2.index = f.index /\ f2.key = f.key /\ f2.value = f.value
  BY <1>1 DEF Frame
<1>4. CarriesOn(f, f2)
  BY <1>2, <1>3 DEF CarriesOn
<1> QED
  BY <1>4 DEF f2

LEMMA FramesOf ==
  ASSUME TypeOK, NEW t \in Thread, Step(t)
  PROVE  /\ \A s \in Thread \ {t} : frame'[s] = frame[s]
         /\ Claims(t) \/ CarriesOn(frame[t], frame'[t])
<1>0. frame[t] \in Frame /\ FrameOK(frame[t])
  BY DEF TypeOK
<1>g. ASSUME NEW f, Goto(t, f), CarriesOn(frame[t], f)
      PROVE  /\ \A s \in Thread \ {t} : frame'[s] = frame[s]
             /\ CarriesOn(frame[t], frame'[t])
  BY <1>g, GotoFrame
<1>i. ASSUME NEW f, Goto(t, f), f.at \notin Relying, f.value = Nil
      PROVE  /\ \A s \in Thread \ {t} : frame'[s] = frame[s]
             /\ CarriesOn(frame[t], frame'[t])
  BY <1>0, <1>g, <1>i, CarriesIdle
<1>u. ASSUME UNCHANGED frame
      PROVE  /\ \A s \in Thread \ {t} : frame'[s] = frame[s]
             /\ CarriesOn(frame[t], frame'[t])
  BY <1>0, <1>u, CarriesSame
<1>1. CASE Send(t)
  <2> DEFINE f == [frame[t] EXCEPT !.sent = TRUE]
  <2>1. CarriesOn(frame[t], f)
    BY <1>0 DEF CarriesOn, Frame
  <2>2. Goto(t, f)
    BY <1>1 DEF Send
  <2> HIDE DEF f
  <2> QED
    BY <1>g, <2>1, <2>2
<1>2. CASE LoseCall(t)
  <2>1. CarriesOn(frame[t], NextPeer(frame[t], FALSE))
    BY <1>0, CarriesNextPeer
  <2> QED
    BY <1>2, <1>g, <2>1 DEF LoseCall
<1>3. CASE RequestVote(t)
  <2> DEFINE f == frame[t]
             args == [term |-> f.term, candidate |-> f.node,
                      lastIndex |-> f.lastIndex, lastTerm |-> f.lastTerm]
             grants == GrantsVote(node[f.peer], args)
  <2>1. Goto(t, NextPeer(f, grants)) /\ f.at = "request_votes"
    BY <1>3 DEF RequestVote
  <2>2. grants \in BOOLEAN
    BY DEF GrantsVote
  <2> HIDE DEF grants
  <2>3. CarriesOn(f, NextPeer(f, grants))
    BY <1>0, <2>1, <2>2, CarriesNextPeer
  <2> QED
    BY <1>g, <2>1, <2>3
<1>4. CASE \E n \in Timed : Tick(t, n)
  <2>1. PICK n \in Timed : Tick(t, n)
    BY <1>4
  <2> DEFINE f1 == [Idle EXCEPT !.at = "start_election", !.node = n]
             f2 == [Idle EXCEPT !.at = "send_heartbeats", !.node = n]
  <2>2. /\ f1.at \notin Relying /\ f2.at \notin Relying
        /\ f1.value = Nil /\ f2.value = Nil
    BY DEF Idle, Relying
  <2>3. Goto(t, f1) \/ Goto(t, f2) \/ UNCHANGED frame
    BY <2>1 DEF Tick
  <2> HIDE DEF f1, f2
  <2> QED
    BY <1>i, <1>u, <2>2, <2>3
<1>5. CASE \/ FinishElection(t) \/ FinishHeartbeat(t) \/ FinishWrite(t)
           \/ ReturnEarly(t) \/ Isolate(t) \/ Recover(t)
  <2>1. Idle.at \notin Relying /\ Idle.value = Nil
    BY DEF Idle, Relying
  <2>2. Goto(t, Idle)
    BY <1>5 DEF FinishElection, FinishHeartbeat, FinishWrite, ReturnEarly,
                Isolate, Recover, Return
  <2> QED
    BY <1>i, <2>1, <2>2
<1>6. CASE SelfDeadlock(t)
  <2> DEFINE f == [frame[t] EXCEPT !.at = "hung"]
  <2>1. CarriesOn(frame[t], f)
    BY <1>0 DEF CarriesOn, Frame, Relying
  <2>2. Goto(t, f)
    BY <1>6 DEF SelfDeadlock
  <2> HIDE DEF f
  <2> QED
    BY <1>g, <2>1, <2>2
<1>7. CASE \E n \in Victims : Kill(t, n) \/ Unisolate(t, n)
  <2>1. PICK n \in Victims : Kill(t, n) \/ Unisolate(t, n)
    BY <1>7
  <2> DEFINE f1 == [Idle EXCEPT !.at = "isolate", !.node = n]
             f2 == [Idle EXCEPT !.at = "recover", !.node = n]
  <2>2. /\ f1.at \notin Relying /\ f2.at \notin Relying
        /\ f1.value = Nil /\ f2.value = Nil
    BY DEF Idle, Relying
  <2>3. Goto(t, f1) \/ Goto(t, f2)
    BY <2>1 DEF Kill, Unisolate
  <2> HIDE DEF f1, f2
  <2> QED
    BY <1>i, <2>2, <2>3
<1>8. CASE \E n \in Node, k \in Key : Read(t, n, k)
  <2>1. PICK n \in Node, k \in Key : Read(t, n, k)
    BY <1>8
  <2> DEFINE f == [Idle EXCEPT !.at = "client_read", !.node = n, !.key = k]
  <2>2. f.at \notin Relying /\ f.value = Nil
    BY DEF Idle, Relying
  <2>3. Goto(t, f)
    BY <2>1 DEF Read
  <2> HIDE DEF f
  <2> QED
    BY <1>i, <2>2, <2>3
<1>9. CASE (\E cut \in Cuts : Partition(t, cut)) \/ Heal(t)
  BY <1>9, <1>u DEF Partition, Heal
<1>10. CASE Claims(t)
  <2>1. \E f : Goto(t, f)
    BY <1>10 DEF Claims, StartElection, SendHeartbeats, ClientWrite, ReadCommit,
                 AppendEntries, Write
  <2> QED
    BY <1>10, <2>1, GotoFrame
<1> QED
  BY <1>1, <1>2, <1>3, <1>4, <1>5, <1>6, <1>7, <1>8, <1>9, <1>10
     DEF Step, Continue, Call, Claims

(* The steps after which more is claimed, as far as they touch the frame. *)
LEMMA StartElectionStep ==
  ASSUME TypeOK, NEW t \in Thread, StartElection(t)
  PROVE  LET n == frame[t].node
             f2 == frame'[t]
         IN  /\ n \in Node /\ node[n].term \in Nat
             /\ granted' = granted \cup {<<node[n].term + 1, n, n>>}
             /\ f2.at = "request_votes" /\ f2.node = n /\ f2.value = Nil
             /\ f2.lastTerm = LastLogTerm(node[n].storage)
<1> DEFINE n == frame[t].node
           g == [Idle EXCEPT !.at = "request_votes", !.node = n,
                             !.peer = PeerAfter(n, 0), !.acks = {n},
                             !.term = node[n].term + 1,
                             !.lastIndex = LastLogIndex(node[n].storage),
                             !.lastTerm = LastLogTerm(node[n].storage)]
<1>1. n \in Node /\ node[n].term \in Nat
  BY DEF StartElection, TypeOK, FrameOK, NodeRecord
<1>2. Goto(t, g) /\ granted' = granted \cup {<<node[n].term + 1, n, n>>}
  BY DEF StartElection
<1>3. /\ g.at = "request_votes" /\ g.node = n /\ g.value = Nil
      /\ g.lastTerm = LastLogTerm(node[n].storage)
  BY DEF Idle
<1> HIDE DEF g
<1>4. frame'[t] = g
  BY <1>2, GotoFrame
<1> QED
  BY <1>1, <1>2, <1>3, <1>4

LEMMA SendHeartbeatsStep ==
  ASSUME TypeOK, NEW t \in Thread, SendHeartbeats(t)
  PROVE  LET n == frame[t].node
             f2 == frame'[t]
         IN  /\ n \in Node /\ f2.at = "heartbeat" /\ f2.value = Nil
             /\ f2.commit = node[n].commitIndex
<1> DEFINE n == frame[t].node
           g == [Idle EXCEPT !.at = "heartbeat", !.node = n,
                             !.peer = PeerAfter(n, 0), !.term = node[n].term,
                             !.commit = node[n].commitIndex]
<1>1. n \in Node
  BY DEF SendHeartbeats, TypeOK, FrameOK
<1>2. Goto(t, g)
  BY DEF SendHeartbeats
<1>3. g.at = "heartbeat" /\ g.value = Nil /\ g.commit = node[n].commitIndex
  BY DEF Idle
<1> HIDE DEF g
<1>4. frame'[t] = g
  BY <1>2, GotoFrame
<1> QED
  BY <1>1, <1>3, <1>4

LEMMA ReadCommitStep ==
  ASSUME TypeOK, NEW t \in Thread, ReadCommit(t)
  PROVE  LET f == frame[t]
             f2 == frame'[t]
         IN  /\ f.at = "leader_commit" /\ f.node \in Node /\ f2.at = "replicate"
             /\ f2.term = f.term /\ f2.node = f.node /\ f2.index = f.index
             /\ f2.key = f.key /\ f2.value = f.value /\ f2.acks = f.acks
             /\ f2.commit = node[f.node].commitIndex
<1> DEFINE f == frame[t]
           g == [f EXCEPT !.at = "replicate", !.peer = PeerAfter(f.node, 0),
                          !.commit = node[f.node].commitIndex]
<1>1. f \in Frame /\ f.node \in Node /\ f.at = "leader_commit"
  BY DEF ReadCommit, TypeOK, FrameOK
<1>2. Goto(t, g)
  BY DEF ReadCommit
<1>3. /\ g.at = "replicate" /\ g.term = f.term /\ g.node = f.node
      /\ g.index = f.index /\ g.key = f.key /\ g.value = f.value
      /\ g.acks = f.acks /\ g.commit = node[f.node].commitIndex
  BY <1>1 DEF Frame
<1> HIDE DEF g
<1>4. frame'[t] = g
  BY <1>2, GotoFrame
<1> QED
  BY <1>1, <1>3, <1>4

LEMMA WriteStep ==
  ASSUME TypeOK, NEW t \in Thread, NEW n \in Node, NEW k \in Key, NEW v \in Value,
         Write(t, n, k, v)
  PROVE  frame'[t].at = "client_write" /\ frame'[t].value = v /\ Fresh(v)
<1> DEFINE g == [Idle EXCEPT !.at = "client_write", !.node = n,
                             !.key = k, !.value = v]
<1>1. Goto(t, g) /\ Fresh(v)
  BY DEF Write
<1>2. g.at = "client_write" /\ g.value = v
  BY DEF Idle
<1> HIDE DEF g
<1>3. frame'[t] = g
  BY <1>1, GotoFrame
<1> QED
  BY <1>1, <1>2, <1>3

------------------------------------------------------------------------------
(* What a step leaves of the history, of the logs and of the roles. *)

LEMMA HistoryOf ==
  ASSUME NEW t \in Thread, Step(t)
  PROVE  /\ won \subseteq won' /\ acked \subseteq acked'
         /\ acked' = acked \/ FinishWrite(t)
         /\ granted' = granted \/ RequestVote(t) \/ StartElection(t)
<1> USE DEF history
<1>1. CASE \/ Send(t) \/ LoseCall(t) \/ AppendEntries(t)
           \/ SendHeartbeats(t) \/ FinishHeartbeat(t) \/ ClientWrite(t)
           \/ ReadCommit(t) \/ ReturnEarly(t) \/ SelfDeadlock(t) \/ Isolate(t)
  BY <1>1 DEF Send, LoseCall, AppendEntries, SendHeartbeats, FinishHeartbeat,
              ClientWrite, ReadCommit, ReturnEarly, SelfDeadlock, Isolate
<1>2. CASE RequestVote(t) \/ StartElection(t)
  BY <1>2 DEF RequestVote, StartElection
<1>3. CASE FinishElection(t) \/ FinishWrite(t) \/ Recover(t)
  BY <1>3 DEF FinishElection, FinishWrite, Recover
<1>4. CASE Call(t)
  BY <1>4 DEF Call, Tick, Kill, Unisolate, Read, Write, Partition, Heal
<1> QED
  BY <1>1, <1>2, <1>3, <1>4 DEF Step, Continue

SameLog(nd, nd2) == /\ nd2.storage = nd.storage /\ nd2.commitIndex = nd.commitIndex
                    /\ nd2.term >= nd.term

(* A leader has been one in its term, or has just won it. *)
StaysLeader(n) ==
  node'[n].role = "Leader" =>
    \/ node[n].role = "Leader" /\ node'[n].term = node[n].term
    \/ <<node'[n].term, n>> \in won'

LEMMA OneNode ==
  ASSUME TypeOK, NEW m \in Node, NEW x, node' = [node EXCEPT ![m] = x],
         SameLog(node[m], x),
         \/ x.role = node[m].role /\ x.term = node[m].term
         \/ x.role # "Leader"
         \/ <<x.term, m>> \in won'
  PROVE  \A n \in Node : SameLog(node[n], node'[n]) /\ StaysLeader(n)
<1>1. \A n \in Node : node[n].term \in Nat
  BY DEF TypeOK, NodeRecord
<1>2. node'[m] = x /\ \A n \in Node \ {m} : node'[n] = node[n]
  BY DEF TypeOK
<1> QED
  BY <1>1, <1>2 DEF SameLog, StaysLeader

LEMMA NodesOf ==
  ASSUME TypeOK, NEW t \in Thread, Step(t),
         ~(AppendEntries(t) \/ ClientWrite(t) \/ FinishWrite(t))
  PROVE  \A n \in Node : SameLog(node[n], node'[n]) /\ StaysLeader(n)
<1> USE DEF network, history
<1>0. /\ \A n \in Node : node[n] \in NodeRecord /\ node[n].term \in Nat
      /\ frame[t] \in Frame /\ FrameOK(frame[t])
  BY DEF TypeOK, NodeRecord
<1>1. CASE UNCHANGED node
  BY <1>0, <1>1 DEF SameLog, StaysLeader
<1>2. CASE RequestVote(t)
  <2> DEFINE f == frame[t]
             args == [term |-> f.term, candidate |-> f.node,
                      lastIndex |-> f.lastIndex, lastTerm |-> f.lastTerm]
             x == AfterRequestVote(node[f.peer], args)
  <2>1. RoundsLeft(f)
    BY <1>0, <1>2 DEF RequestVote, FrameOK
  <2>2. f.node \in Node /\ f.peer \in Node
    BY <1>0, <2>1, NextPeerOK
  <2>3. args \in VoteArgs /\ node[f.peer] \in NodeRecord
    BY <1>0, <2>2 DEF VoteArgs, Frame
  <2>4. SameLog(node[f.peer], x)
    BY <2>3, RequestVoteLog DEF SameLog
  <2>5. (x.role = node[f.peer].role /\ x.term = node[f.peer].term) \/ x.role # "Leader"
    BY <2>3, RequestVoteEffect
  <2>6. node' = [node EXCEPT ![f.peer] = x]
    BY <1>2 DEF RequestVote
  <2> HIDE DEF x
  <2> QED
    BY <2>2, <2>4, <2>5, <2>6, OneNode
<1>3. CASE \E n \in Timed : Tick(t, n)
  <2>1. PICK n \in Timed : Tick(t, n)
    BY <1>3
  <2>2. n \in Node /\ node[n] \in NodeRecord
    BY <1>0, ClusterAssumption
  <2>3. node' = [node EXCEPT ![n] = Ticked(node[n])]
    BY <2>1 DEF Tick
  <2>4. /\ SameLog(node[n], Ticked(node[n]))
        /\ Ticked(node[n]).role = node[n].role /\ Ticked(node[n]).term = node[n].term
    BY <1>0, <2>2, TickedLog DEF SameLog
  <2> QED
    BY <2>2, <2>3, <2>4, OneNode
<1>4. CASE StartElection(t)
  <2> DEFINE n == frame[t].node
             x == Campaigning(node[n], n)
  <2>1. n \in Node /\ node[n] \in NodeRecord /\ node[n].term \in Nat
    BY <1>0, <1>4 DEF StartElection, FrameOK
  <2>2. SameLog(node[n], x) /\ x.role = "Candidate"
    BY <2>1 DEF Campaigning, NodeRecord, SameLog
  <2>3. node' = [node EXCEPT ![n] = x]
    BY <1>4 DEF StartElection
  <2> HIDE DEF x
  <2> QED
    BY <2>1, <2>2, <2>3, OneNode
<1>5. CASE FinishElection(t)
  <2> DEFINE f == frame[t]
             wins == WinsElection(node[f.node], f.term, Cardinality(f.acks))
             x == [node[f.node] EXCEPT !.role = IF wins THEN "Leader" ELSE @]
  <2>1. /\ f.node \in Node /\ node[f.node] \in NodeRecord
        /\ node[f.node].term \in Nat
    BY <1>0, <1>5 DEF FinishElection, FrameOK
  <2>2. /\ SameLog(node[f.node], x) /\ x.term = node[f.node].term
        /\ ~wins => x.role = node[f.node].role
    BY <2>1 DEF NodeRecord, SameLog
  <2>3. /\ node' = [node EXCEPT ![f.node] = x]
        /\ won' = won \cup (IF wins THEN {<<f.term, f.node>>} ELSE {})
    BY <1>5 DEF FinishElection
  <2>4. wins => node[f.node].term = f.term
    BY DEF WinsElection
  <2> HIDE DEF x, wins
  <2> QED
    BY <2>1, <2>2, <2>3, <2>4, OneNode
<1>6. CASE Recover(t)
  <2> DEFINE n == frame[t].node
             x == Recovered(node[n])
  <2>1. n \in Node /\ node[n] \in NodeRecord /\ node[n].term \in Nat
    BY <1>0, <1>6 DEF Recover, FrameOK
  <2>2. SameLog(node[n], x) /\ x.role = "Follower"
    BY <2>1 DEF Recovered, NodeRecord, SameLog
  <2>3. node' = [node EXCEPT ![n] = x]
    BY <1>6 DEF Recover
  <2> HIDE DEF x
  <2> QED
    BY <2>1, <2>2, <2>3, OneNode
<1>7. CASE \E n \in Victims : Kill(t, n)
  <2>1. PICK n \in Victims : Kill(t, n)
    BY <1>7
  <2> DEFINE x == Crashed(node[n])
  <2>2. n \in Node /\ node[n] \in NodeRecord /\ node[n].term \in Nat
    BY <1>0, ClusterAssumption
  <2>3. SameLog(node[n], x) /\ x.role = "Offline"
    BY <2>2 DEF Crashed, NodeRecord, SameLog
  <2>4. node' = [node EXCEPT ![n] = x]
    BY <2>1 DEF Kill
  <2> HIDE DEF x
  <2> QED
    BY <2>2, <2>3, <2>4, OneNode
<1>8. \/ UNCHANGED node
      \/ RequestVote(t) \/ StartElection(t) \/ FinishElection(t) \/ Recover(t)
      \/ \E n \in Timed : Tick(t, n)
      \/ \E n \in Victims : Kill(t, n)
  BY DEF Step, Continue, Call, Send, LoseCall, SendHeartbeats, FinishHeartbeat,
         ReadCommit, ReturnEarly, SelfDeadlock, Isolate, Unisolate, Read, Write,
         Partition, Heal
<1> QED
  BY <1>1, <1>2, <1>3, <1>4, <1>5, <1>6, <1>7, <1>8

(* An entry comes into a log: from its client, at the leader that gives it  *)
(* its term; or by replication, at a node of no later term.                 *)
Taken(t, n) ==
  LET f == frame[t]
      args == [term |-> f.term, leaderCommit |-> f.commit,
               entries |-> <<EntryOf(f)>>]
  IN  f.at = "replicate" /\ n = f.peer /\ AcceptsAppend(node[n], args)

Enters(t, n, e) ==
  LET f == frame[t] IN
  \/ /\ ClientWrite(t) /\ n = f.node /\ LiveLeader(node[n])
     /\ e = Put(node[n].term, f.key, f.value)
  \/ AppendEntries(t) /\ Taken(t, n) /\ e = EntryOf(f)

LEMMA ClientWriteStep ==
  ASSUME TypeOK, NEW t \in Thread, ClientWrite(t)
  PROVE  LET f == frame[t]
             nd == node[f.node]
             e == Put(nd.term, f.key, f.value)
             f2 == frame'[t]
         IN  /\ f \in Frame /\ f.at = "client_write" /\ f.node \in Node
             /\ f.key \in Key /\ f.value \in Value /\ e \in Entry
             /\ LiveLeader(nd) /\ nd.term \in Nat
             /\ node'[f.node] \in NodeRecord
             /\ node'[f.node].storage = [nd.storage EXCEPT !.wal = Append(@, e)]
             /\ node'[f.node].commitIndex = nd.commitIndex
             /\ node'[f.node].role = nd.role /\ node'[f.node].term = nd.term
             /\ \A n \in Node \ {f.node} : node'[n] = node[n]
             /\ f2.at = "leader_commit" /\ f2.node = f.node /\ f2.acks = {f.node}
             /\ f2.term = nd.term /\ f2.index = Len(nd.storage.wal) + 1
             /\ f2.key = f.key /\ f2.value = f.value
<1> DEFINE f == frame[t]
           nd == node[f.node]
           e == Put(nd.term, f.key, f.value)
           st2 == AppendLog(nd.storage, e)
           f2 == [f EXCEPT !.at = "leader_commit", !.acks = {f.node},
                           !.term = nd.term,
                           !.index = LastLogIndex(nd.storage) + 1]
<1>1. /\ f \in Frame /\ f.at = "client_write" /\ f.node \in Node
      /\ f.key \in Key /\ f.value \in Value /\ LiveLeader(nd)
  BY DEF ClientWrite, TypeOK, FrameOK
<1>2. nd \in NodeRecord /\ nd.term \in Nat /\ nd.storage \in StorageState
  BY <1>1 DEF TypeOK, NodeRecord
<1>3. e \in Entry
  BY <1>1, <1>2 DEF Put, Entry
<1>4. st2 \in StorageState /\ st2 = [nd.storage EXCEPT !.wal = Append(@, e)]
  BY <1>2, <1>3, AppendLogType DEF AppendLog
<1>5. node' = [node EXCEPT ![f.node].storage = st2] /\ Goto(t, f2)
  BY DEF ClientWrite
<1>6. /\ f2.at = "leader_commit" /\ f2.node = f.node /\ f2.acks = {f.node}
      /\ f2.term = nd.term /\ f2.index = Len(nd.storage.wal) + 1
      /\ f2.key = f.key /\ f2.value = f.value
  BY <1>1 DEF Frame, LastLogIndex
<1> HIDE DEF f2, e, st2
<1>7. /\ node'[f.node] = [nd EXCEPT !.storage = st2]
      /\ \A n \in Node \ {f.node} : node'[n] = node[n]
  BY <1>1, <1>5 DEF TypeOK
<1>8. /\ node'[f.node] \in NodeRecord /\ node'[f.node].storage = st2
      /\ node'[f.node].commitIndex = nd.commitIndex
      /\ node'[f.node].role = nd.role /\ node'[f.node].term = nd.term
  BY <1>2, <1>4, <1>7 DEF NodeRecord
<1>9. frame'[t] = f2
  BY <1>5, GotoFrame
<1> QED
  BY <1>1, <1>2, <1>3, <1>4, <1>6, <1>7, <1>8, <1>9 DEF e

LEMMA AppendStep ==
  ASSUME TypeOK, NEW t \in Thread, AppendEntries(t)
  PROVE  LET f == frame[t]
             nd == node[f.peer]
             nd2 == node'[f.peer]
             f2 == frame'[t]
         IN  /\ f \in Frame /\ FrameOK(f) /\ f.at \in {"heartbeat", "replicate"}
             /\ f.node \in Node /\ f.peer \in Node /\ f.peer # f.node
             /\ nd2 \in NodeRecord /\ Grows(nd, nd2)
             /\ \A n \in Node \ {f.peer} : node'[n] = node[n]
             /\ nd2.storage.wal = IF Taken(t, f.peer)
                                  THEN Append(nd.storage.wal, EntryOf(f))
                                  ELSE nd.storage.wal
             /\ Taken(t, f.peer) => /\ EntryOf(f) \in Entry /\ nd.term <= f.term
             /\ \/ nd2.storage.lastApplied = nd.storage.lastApplied
                \/ nd2.storage.lastApplied <= f.commit
             /\ \/ nd2.role = nd.role /\ nd2.term = nd.term
                \/ nd2.role # "Leader"
             /\ f2.at = f.at /\ f2.node = f.node /\ f2.term = f.term
             /\ f2.commit = f.commit /\ f2.index = f.index
             /\ f2.key = f.key /\ f2.value = f.value
             /\ f2.peer \in Nat /\ f2.peer > f.peer
             /\ f2.acks = IF Taken(t, f.peer) THEN f.acks \cup {f.peer} ELSE f.acks
<1> DEFINE f == frame[t]
           nd == node[f.peer]
           args == [term |-> f.term, leaderCommit |-> f.commit,
                    entries |-> IF f.at = "replicate"
                                THEN <<Put(f.term, f.key, f.value)>> ELSE << >>]
           taken == f.at = "replicate" /\ AcceptsAppend(nd, args)
           x == AfterAppendEntries(nd, args)
           p == PeerAfter(f.node, f.peer)
           acks == IF taken THEN f.acks \cup {f.peer} ELSE f.acks
           f2 == [f EXCEPT !.peer = p, !.sent = FALSE, !.acks = acks]
<1>1. /\ f \in Frame /\ FrameOK(f) /\ RoundsLeft(f)
      /\ f.at \in {"heartbeat", "replicate"} /\ taken \in BOOLEAN
  BY DEF AppendEntries, TypeOK, FrameOK, AcceptsAppend
<1>2. /\ f.node \in Node /\ f.peer \in Node /\ f.peer # f.node
      /\ p \in Nat /\ p > f.peer
  <2>1. f.node \in Node /\ f.peer \in Node /\ f.peer # f.node
    BY <1>1, NextPeerOK
  <2> QED
    BY <2>1, SizeAssumption DEF Node, PeerAfter
<1>3. nd \in NodeRecord /\ nd.term \in Nat /\ f.term \in Nat
  BY <1>1, <1>2 DEF TypeOK, NodeRecord, Frame
<1>4. f.at = "replicate" => EntryOf(f) \in Entry /\ EntryOf(f).term = f.term
  BY <1>1 DEF FrameOK, Frame, EntryOf, Put, Entry
<1>5. /\ args.entries = IF f.at = "replicate" THEN <<EntryOf(f)>> ELSE << >>
      /\ args.term = f.term /\ args.leaderCommit = f.commit
  BY DEF EntryOf
<1>6. taken <=> Taken(t, f.peer)
  BY <1>5 DEF Taken, AcceptsAppend
<1>7. /\ args.entries \in Seq(Entry)
      /\ \A i \in 1..Len(args.entries) : args.entries[i].term = args.term
  BY <1>4, <1>5
<1>8. args \in AppendArgs
  BY <1>1, <1>7 DEF AppendArgs, Frame
<1>9. /\ node' = [node EXCEPT ![f.peer] = x] /\ Goto(t, NextPeer(f, taken))
  BY DEF AppendEntries
<1>10. NextPeer(f, taken) = f2
  BY DEF NextPeer
<1> HIDE DEF args, x, taken, p, acks
<1>11. frame'[t] = f2
  BY <1>9, <1>10, GotoFrame
<1>12. /\ f2.at = f.at /\ f2.node = f.node /\ f2.term = f.term
       /\ f2.commit = f.commit /\ f2.index = f.index
       /\ f2.key = f.key /\ f2.value = f.value /\ f2.peer = p /\ f2.acks = acks
  BY <1>1 DEF Frame
<1> HIDE DEF f2
<1>13. /\ x \in NodeRecord
       /\ (x.role = nd.role /\ x.term = nd.term) \/ x.role # "Leader"
  BY <1>3, <1>8, AppendEntriesEffect DEF x
<1>14. /\ Grows(nd, x)
       /\ x.storage.wal = IF AcceptsAppend(nd, args)
                          THEN nd.storage.wal \o args.entries ELSE nd.storage.wal
       /\ x.storage.lastApplied = nd.storage.lastApplied
            \/ x.storage.lastApplied <= args.leaderCommit
  BY <1>3, <1>7, <1>8, AppendEntriesGrows DEF x
<1>15. nd.storage.wal \in Seq(Entry)
  BY <1>3 DEF NodeRecord, StorageState
<1>16. x.storage.wal = IF Taken(t, f.peer) THEN Append(nd.storage.wal, EntryOf(f))
                                           ELSE nd.storage.wal
  <2>1. CASE taken
    <3>1. EntryOf(f) \in Entry /\ x.storage.wal = nd.storage.wal \o <<EntryOf(f)>>
      BY <1>4, <1>5, <1>14, <2>1 DEF taken
    <3>2. Append(nd.storage.wal, EntryOf(f)) = nd.storage.wal \o <<EntryOf(f)>>
      BY <1>15, <3>1, AppendIsConcat
    <3> QED
      BY <1>6, <2>1, <3>1, <3>2
  <2>2. CASE ~taken /\ f.at = "replicate"
    BY <1>6, <1>14, <2>2 DEF taken
  <2>3. CASE f.at # "replicate"
    BY <1>5, <1>6, <1>14, <1>15, <2>3 DEF taken
  <2> QED
    BY <2>1, <2>2, <2>3 DEF taken
<1>17. Taken(t, f.peer) => EntryOf(f) \in Entry /\ nd.term <= f.term
  BY <1>3, <1>4 DEF Taken, AcceptsAppend
<1>18. node'[f.peer] = x /\ \A n \in Node \ {f.peer} : node'[n] = node[n]
  BY <1>2, <1>9 DEF TypeOK
<1>19. /\ node'[f.peer] \in NodeRecord /\ Grows(nd, node'[f.peer])
       /\ node'[f.peer].storage.wal = IF Taken(t, f.peer)
                                  THEN Append(nd.storage.wal, EntryOf(f))
                                  ELSE nd.storage.wal
       /\ \/ node'[f.peer].storage.lastApplied = nd.storage.lastApplied
          \/ node'[f.peer].storage.lastApplied <= f.commit
       /\ \/ node'[f.peer].role = nd.role /\ node'[f.peer].term = nd.term
          \/ node'[f.peer].role # "Leader"
  BY <1>5, <1>13, <1>14, <1>16, <1>18
<1>20. /\ f2.acks = IF Taken(t, f.peer) THEN f.acks \cup {f.peer} ELSE f.acks
       /\ f2.peer \in Nat /\ f2.peer > f.peer
  BY <1>2, <1>6, <1>12 DEF acks
<1> QED
  BY <1>1, <1>2, <1>11, <1>12, <1>17, <1>18, <1>19, <1>20

LEMMA FinishWriteStep ==
  ASSUME TypeOK, WritesEntered, NEW t \in Thread, FinishWrite(t)
  PROVE  LET f == frame[t]
             nd == node[f.node]
             nd2 == node'[f.node]
             ok == QuorumSatisfied(f.acks)
         IN  /\ f \in Frame /\ f.node \in Node /\ f.at = "replicate"
             /\ Grows(nd, nd2)
             /\ nd2.storage.wal = nd.storage.wal
             /\ nd2.storage.lastApplied # nd.storage.lastApplied =>
                  ok /\ nd2.storage.lastApplied = f.index
             /\ nd2.role = nd.role /\ nd2.term = nd.term
             /\ \A n \in Node \ {f.node} : node'[n] = node[n]
             /\ acked' = acked \cup (IF ok THEN {<<f.index, EntryOf(f)>>} ELSE {})
<1> DEFINE f == frame[t]
           nd == node[f.node]
           ok == QuorumSatisfied(f.acks)
           x == IF ok THEN CommittedUpTo(nd, f.index) ELSE nd
<1>1. /\ f \in Frame /\ f.node \in Node /\ f.index \in Nat /\ f.at = "replicate"
  BY DEF FinishWrite, TypeOK, FrameOK, Frame
<1>2. f.index <= Len(nd.storage.wal)
  <2>1. f.index \in 1..Len(nd.storage.wal)
    BY <1>1 DEF WritesEntered
  <2>2. Len(nd.storage.wal) \in Nat
    <3>1. nd.storage \in StorageState
      BY <1>1 DEF TypeOK, NodeRecord
    <3>2. nd.storage.wal \in Seq(Entry)
      BY <3>1 DEF StorageState
    <3> QED
      BY <3>2
  <2> QED
    BY <2>1, <2>2
<1>3. nd \in NodeRecord /\ nd.term \in Nat
  BY <1>1 DEF TypeOK, NodeRecord
<1>4. /\ node' = [node EXCEPT ![f.node] = x]
      /\ acked' = acked \cup (IF ok THEN {<<f.index, EntryOf(f)>>} ELSE {})
  BY DEF FinishWrite, EntryOf
<1>5. /\ Grows(nd, x) /\ x.storage.wal = nd.storage.wal
      /\ x.storage.lastApplied # nd.storage.lastApplied =>
           ok /\ x.storage.lastApplied = f.index
      /\ x.role = nd.role /\ x.term = nd.term
  <2>1. CASE ok
    <3>1. x = CommittedUpTo(nd, f.index)
      BY <2>1
    <3> HIDE DEF x, ok
    <3>2. /\ Grows(nd, x) /\ x.storage.wal = nd.storage.wal
          /\ x.storage.lastApplied \in {nd.storage.lastApplied, f.index}
      BY <1>1, <1>2, <1>3, <3>1, CommittedGrows
    <3>3. x.role = nd.role /\ x.term = nd.term
      BY <1>1, <1>3, <3>1, CommittedUpToEffect
    <3> QED
      BY <2>1, <3>2, <3>3
  <2>2. CASE ~ok
    <3>1. x = nd
      BY <2>2
    <3>2. Grows(nd, nd)
      BY <1>3, SameLogGrows
    <3> QED
      BY <3>1, <3>2
  <2> QED
    BY <2>1, <2>2
<1> HIDE DEF x, ok
<1>6. node'[f.node] = x /\ \A n \in Node \ {f.node} : node'[n] = node[n]
  BY <1>1, <1>4 DEF TypeOK
<1> QED
  BY <1>1, <1>4, <1>5, <1>6 DEF ok

------------------------------------------------------------------------------
(* What every step makes of every node. *)

LEMMA LogsOf ==
  ASSUME TypeOK, NEW t \in Thread, Step(t), NEW n \in Node
  PROVE  LET wal == node[n].storage.wal
             wal2 == node'[n].storage.wal
         IN  \/ wal2 = wal
             \/ \E e \in Entry : Enters(t, n, e) /\ wal2 = Append(wal, e)
<1>1. CASE ClientWrite(t)
  <2> DEFINE f == frame[t]
             nd == node[f.node]
             e == Put(nd.term, f.key, f.value)
  <2>1. /\ f.node \in Node /\ e \in Entry /\ LiveLeader(nd)
        /\ node'[f.node].storage = [nd.storage EXCEPT !.wal = Append(@, e)]
        /\ \A m \in Node \ {f.node} : node'[m] = node[m]
    BY <1>1, ClientWriteStep
  <2>2. nd.storage \in StorageState
    BY <2>1 DEF TypeOK, NodeRecord
  <2>3. node'[f.node].storage.wal = Append(nd.storage.wal, e)
    BY <2>1, <2>2 DEF StorageState
  <2>4. Enters(t, f.node, e)
    BY <1>1, <2>1 DEF Enters
  <2> HIDE DEF e
  <2> QED
    BY <2>1, <2>3, <2>4
<1>2. CASE AppendEntries(t)
  <2> DEFINE f == frame[t]
  <2>1. /\ f.peer \in Node /\ \A m \in Node \ {f.peer} : node'[m] = node[m]
        /\ node'[f.peer].storage.wal = IF Taken(t, f.peer)
                                THEN Append(node[f.peer].storage.wal, EntryOf(f))
                                ELSE node[f.peer].storage.wal
        /\ Taken(t, f.peer) => EntryOf(f) \in Entry
    BY <1>2, AppendStep
  <2>2. Taken(t, f.peer) => Enters(t, f.peer, EntryOf(f))
    BY <1>2 DEF Enters
  <2> QED
    BY <2>1, <2>2
<1>3. CASE FinishWrite(t)
  <2> DEFINE f == frame[t]
             nd == node[f.node]
             x == IF QuorumSatisfied(f.acks) THEN CommittedUpTo(nd, f.index) ELSE nd
  <2>1. f.node \in Node /\ f.index \in Nat /\ nd \in NodeRecord
    BY <1>3 DEF FinishWrite, TypeOK, FrameOK, Frame
  <2>2. x.storage.wal = nd.storage.wal
    <3>1. nd.storage \in StorageState
      BY <2>1 DEF NodeRecord
    <3>2. ApplyCommitted(nd.storage, f.index).wal = nd.storage.wal
      BY <3>1 DEF ApplyCommitted, StorageState
    <3>3. CommittedUpTo(nd, f.index).storage = ApplyCommitted(nd.storage, f.index)
      BY <2>1 DEF CommittedUpTo, NodeRecord
    <3> QED
      BY <3>2, <3>3
  <2>3. node' = [node EXCEPT ![f.node] = x]
    BY <1>3 DEF FinishWrite
  <2> HIDE DEF x
  <2> QED
    BY <2>1, <2>2, <2>3 DEF TypeOK
<1> QED
  BY <1>1, <1>2, <1>3, NodesOf DEF SameLog

LEMMA LeadersOf ==
  ASSUME TypeOK, WritesEntered, NEW t \in Thread, Step(t), NEW n \in Node
  PROVE  StaysLeader(n)
<1>1. CASE ClientWrite(t)
  BY <1>1, ClientWriteStep DEF StaysLeader
<1>2. CASE AppendEntries(t)
  BY <1>2, AppendStep DEF StaysLeader
<1>3. CASE FinishWrite(t)
  BY <1>3, FinishWriteStep DEF StaysLeader
<1> QED
  BY <1>1, <1>2, <1>3, NodesOf

(* No step takes anything out of a log, applies less than before, leaves a  *)
(* storage whose indices and map disagree, or puts an entry out of order.   *)
LEMMA NodesGrow ==
  ASSUME TypeOK, TypeOK', WritesEntered, [Next]_vars, NEW n \in Node
  PROVE  Grows(node[n], node'[n])
<1>0. /\ \A m \in Node : node[m] \in NodeRecord /\ node'[m] \in NodeRecord
      /\ \A m \in Node : node[m].term \in Nat
  BY DEF TypeOK, NodeRecord
<1>s. ASSUME NEW m \in Node, SameLog(node[m], node'[m])
      PROVE  Grows(node[m], node'[m])
  BY <1>0, <1>s, SameLogGrows DEF SameLog
<1>1. CASE UNCHANGED vars
  <2>1. node' = node
    BY <1>1 DEF vars
  <2>2. SameLog(node[n], node'[n])
    BY <1>0, <2>1 DEF SameLog
  <2> QED
    BY <1>s, <2>2
<1>2. ASSUME NEW t \in Thread, ClientWrite(t)
      PROVE  Grows(node[n], node'[n])
  <2> DEFINE f == frame[t]
             nd == node[f.node]
             e == Put(nd.term, f.key, f.value)
  <2>1. /\ f.node \in Node /\ e \in Entry
        /\ node'[f.node].storage = [nd.storage EXCEPT !.wal = Append(@, e)]
        /\ node'[f.node].commitIndex = nd.commitIndex
        /\ node'[f.node].term = nd.term
        /\ \A m \in Node \ {f.node} : node'[m] = node[m]
    BY <1>2, ClientWriteStep
  <2>2. nd \in NodeRecord /\ nd.storage \in StorageState /\ nd.term \in Nat
    BY <1>0, <2>1 DEF NodeRecord
  <2>3. e.term = nd.term
    BY DEF Put
  <2> HIDE DEF e
  <2>4. nd.storage.wal \in Seq(Entry)
    BY <2>2 DEF StorageState
  <2> DEFINE entries == <<e>>
  <2>5. /\ entries \in Seq(Entry)
        /\ \A i \in 1..Len(entries) : entries[i].term = nd.term
    BY <2>1, <2>3
  <2>6. Append(nd.storage.wal, e) = nd.storage.wal \o entries
    BY <2>1, <2>4, AppendIsConcat
  <2>7. Grows(nd, node'[f.node])
    <3> DEFINE nd2 == node'[f.node]
    <3>1. nd2.storage = [nd.storage EXCEPT !.wal = @ \o entries]
      BY <2>1, <2>6
    <3>2. /\ nd2 \in NodeRecord /\ nd2.commitIndex = nd.commitIndex
          /\ nd2.term >= nd.term
          /\ \A i \in 1..Len(entries) : entries[i].term = nd2.term
      BY <1>0, <2>1, <2>2, <2>5
    <3> HIDE DEF nd2, entries, nd
    <3> QED
      BY <2>2, <2>5, <3>1, <3>2, AppendedGrows DEF nd2
  <2>8. CASE n = f.node
    BY <2>7, <2>8
  <2>9. CASE n # f.node
    BY <1>0, <1>s, <2>1, <2>9 DEF SameLog
  <2> QED
    BY <2>8, <2>9
<1>3. ASSUME NEW t \in Thread, AppendEntries(t)
      PROVE  Grows(node[n], node'[n])
  <2>1. /\ Grows(node[frame[t].peer], node'[frame[t].peer])
        /\ \A m \in Node \ {frame[t].peer} : node'[m] = node[m]
    BY <1>3, AppendStep
  <2>2. n # frame[t].peer => SameLog(node[n], node'[n])
    BY <1>0, <2>1 DEF SameLog
  <2> QED
    BY <1>s, <2>1, <2>2
<1>4. ASSUME NEW t \in Thread, FinishWrite(t)
      PROVE  Grows(node[n], node'[n])
  <2>1. /\ Grows(node[frame[t].node], node'[frame[t].node])
        /\ \A m \in Node \ {frame[t].node} : node'[m] = node[m]
    BY <1>4, FinishWriteStep
  <2>2. n # frame[t].node => SameLog(node[n], node'[n])
    BY <1>0, <2>1 DEF SameLog
  <2> QED
    BY <1>s, <2>1, <2>2
<1>5. ASSUME NEW t \in Thread, Step(t)
      PROVE  Grows(node[n], node'[n])
  <2>1. CASE AppendEntries(t) \/ ClientWrite(t) \/ FinishWrite(t)
    BY <1>2, <1>3, <1>4, <2>1
  <2>2. CASE ~(AppendEntries(t) \/ ClientWrite(t) \/ FinishWrite(t))
    BY <1>5, <1>s, <2>2, NodesOf
  <2> QED
    BY <2>1, <2>2
<1> QED
  BY <1>1, <1>5 DEF Next, Step

------------------------------------------------------------------------------
(* The properties of one node at a time, now and after a step. *)

LEMMA PerNode ==
  /\ StorageAgreesWithNode <=> \A n \in Node : StorageAgrees(node[n])
  /\ LogTermsMonotonic <=> \A n \in Node : TermsOrdered(node[n])
  /\ StorageAgreesWithNode' <=> \A n \in Node : StorageAgrees(node'[n])
  /\ LogTermsMonotonic' <=> \A n \in Node : TermsOrdered(node'[n])
BY DEF StorageAgreesWithNode, LogTermsMonotonic, StorageAgrees, TermsOrdered

HoldsNext(n, entry) ==
  \E i \in 1..Len(node'[n].storage.wal) : node'[n].storage.wal[i] = entry

LEMMA WalType ==
  ASSUME TypeOK, NEW n \in Node
  PROVE  /\ node[n].storage.wal \in Seq(Entry)
         /\ Len(node[n].storage.wal) \in Nat
         /\ \A i \in 1..Len(node[n].storage.wal) :
              /\ node[n].storage.wal[i] \in Entry
              /\ node[n].storage.wal[i].term \in Nat
<1>1. node[n] \in NodeRecord
  BY DEF TypeOK
<1> QED
  BY <1>1, NodeLog

LEMMA HoldsForGood ==
  ASSUME TypeOK, NEW n \in Node, Grows(node[n], node'[n]), NEW e, Holds(n, e),
         Len(node'[n].storage.wal) \in Nat
  PROVE  HoldsNext(n, e)
<1>1. PICK i \in 1..Len(node[n].storage.wal) : node[n].storage.wal[i] = e
  BY DEF Holds
<1>2. /\ Len(node[n].storage.wal) <= Len(node'[n].storage.wal)
      /\ node'[n].storage.wal[i] = node[n].storage.wal[i]
  BY <1>1 DEF Grows, IsPrefixOf
<1>3. i \in 1..Len(node'[n].storage.wal)
  BY <1>2, WalType
<1> QED
  BY <1>1, <1>2, <1>3 DEF HoldsNext

LEMMA HoldsWhatEnters ==
  ASSUME TypeOK, NEW n \in Node, NEW e \in Entry,
         node'[n].storage.wal = Append(node[n].storage.wal, e)
  PROVE  /\ HoldsNext(n, e)
         /\ Len(node'[n].storage.wal) = Len(node[n].storage.wal) + 1
         /\ node'[n].storage.wal[Len(node[n].storage.wal) + 1] = e
         /\ \A i \in 1..Len(node[n].storage.wal) :
              node'[n].storage.wal[i] = node[n].storage.wal[i]
<1> DEFINE wal == node[n].storage.wal
           wal2 == node'[n].storage.wal
<1>1. wal \in Seq(Entry) /\ Len(wal) \in Nat
  BY WalType
<1>2. /\ Len(wal2) = Len(wal) + 1 /\ wal2[Len(wal) + 1] = e
      /\ \A i \in 1..Len(wal) : wal2[i] = wal[i]
  <2> HIDE DEF wal
  <2> QED
    BY <1>1, AppendProperties DEF wal
<1>3. Len(wal) + 1 \in 1..Len(wal2)
  BY <1>1, <1>2
<1>4. \E i \in 1..Len(wal2) : wal2[i] = e
  BY <1>2, <1>3
<1> QED
  BY <1>2, <1>4 DEF HoldsNext

------------------------------------------------------------------------------
(* LogInv is inductive, given the types, the ballots and the logs' order. *)

LEMMA LeadersWonNext ==
  ASSUME TypeOK, WritesEntered, LeadersWon, NEW t \in Thread, Step(t)
  PROVE  LeadersWon'
<1> SUFFICES ASSUME NEW n \in Node, node'[n].role = "Leader"
             PROVE  <<node'[n].term, n>> \in won'
  BY DEF LeadersWon
<1>1. StaysLeader(n)
  BY LeadersOf
<1>2. won \subseteq won'
  BY HistoryOf
<1> QED
  BY <1>1, <1>2 DEF StaysLeader, LeadersWon

(* WritesEntered, of a frame, before and after a step. *)
Entered(f) ==
  LET wal == node[f.node].storage.wal IN
  /\ <<f.term, f.node>> \in won
  /\ f.index \in 1..Len(wal) /\ wal[f.index] = EntryOf(f)
  /\ \A n \in f.acks : Holds(n, EntryOf(f))

EnteredNext(f) ==
  LET wal == node'[f.node].storage.wal IN
  /\ <<f.term, f.node>> \in won'
  /\ f.index \in 1..Len(wal) /\ wal[f.index] = EntryOf(f)
  /\ \A n \in f.acks : HoldsNext(n, EntryOf(f))

LEMMA EnteredForGood ==
  ASSUME TypeOK, TypeOK', \A n \in Node : Grows(node[n], node'[n]),
         won \subseteq won',
         NEW f, f.node \in Node, f.acks \subseteq Node, Entered(f)
  PROVE  EnteredNext(f)
<1>1. \A n \in Node : Len(node[n].storage.wal) \in Nat
                      /\ Len(node'[n].storage.wal) \in Nat
  <2>1. \A n \in Node : node[n] \in NodeRecord /\ node'[n] \in NodeRecord
    BY DEF TypeOK
  <2> QED
    BY <2>1, NodeLog
<1>2. IsPrefixOf(node[f.node].storage.wal, node'[f.node].storage.wal)
  BY DEF Grows
<1>3. /\ f.index \in 1..Len(node[f.node].storage.wal)
      /\ node[f.node].storage.wal[f.index] = EntryOf(f)
      /\ <<f.term, f.node>> \in won /\ \A n \in f.acks : Holds(n, EntryOf(f))
  BY DEF Entered
<1>4. /\ f.index \in 1..Len(node'[f.node].storage.wal)
      /\ node'[f.node].storage.wal[f.index] = EntryOf(f)
  BY <1>1, <1>2, <1>3, PrefixAt
<1>5. \A n \in f.acks : HoldsNext(n, EntryOf(f))
  BY <1>1, <1>3, HoldsForGood
<1> QED
  BY <1>3, <1>4, <1>5 DEF EnteredNext

LEMMA WritesEnteredNext ==
  ASSUME TypeOK, TypeOK', LeadersWon, WritesEntered, NEW t \in Thread, Step(t),
         \A n \in Node : Grows(node[n], node'[n])
  PROVE  WritesEntered'
<1> SUFFICES ASSUME NEW s \in Thread,
                    frame'[s].at \in {"leader_commit", "replicate"}
             PROVE  EnteredNext(frame'[s])
  BY DEF WritesEntered, EnteredNext, HoldsNext, Holds, EntryOf
<1> DEFINE f == frame[s]  f2 == frame'[s]
<1>0. /\ f \in Frame /\ FrameOK(f) /\ f.acks \subseteq Node
      /\ f.at # "idle" => f.node \in Node
  BY DEF TypeOK, FrameOK, Frame
<1>w. won \subseteq won'
  BY HistoryOf
<1>1. ASSUME f.at \in {"leader_commit", "replicate"}
      PROVE  EnteredNext(f) /\ f.node \in Node
  <2>1. Entered(f) /\ f.node \in Node
    BY <1>0, <1>1 DEF WritesEntered, Entered
  <2> QED
    BY <1>0, <1>w, <2>1, EnteredForGood
<1>2. ASSUME f.at \in {"leader_commit", "replicate"},
             f2.term = f.term, f2.node = f.node, f2.index = f.index,
             f2.key = f.key, f2.value = f.value,
             \A n \in f2.acks \ f.acks : HoldsNext(n, EntryOf(f))
      PROVE  EnteredNext(f2)
  <2>1. EntryOf(f2) = EntryOf(f)
    BY <1>2 DEF EntryOf
  <2> HIDE DEF f, f2
  <2> QED
    BY <1>1, <1>2, <2>1 DEF EnteredNext
<1>3. CASE s # t
  <2>1. f2 = f
    BY <1>3, FramesOf
  <2> QED
    BY <1>1, <2>1
<1>4. CASE s = t /\ CarriesOn(f, f2)
  <2> HIDE DEF f, f2
  <2>1. /\ f.at \in {"leader_commit", "replicate"}
        /\ f2.term = f.term /\ f2.node = f.node /\ f2.index = f.index
        /\ f2.key = f.key /\ f2.value = f.value /\ f2.acks \subseteq f.acks
    BY <1>4 DEF CarriesOn, Relying, f2
  <2> QED
    BY <1>2, <2>1 DEF f2
<1>5. CASE s = t /\ ClientWrite(t)
  <2> DEFINE nd == node[f.node]
             e == Put(nd.term, f.key, f.value)
  <2>1. /\ f.node \in Node /\ e \in Entry /\ LiveLeader(nd)
        /\ node'[f.node].storage = [nd.storage EXCEPT !.wal = Append(@, e)]
        /\ f2.node = f.node /\ f2.acks = {f.node} /\ f2.term = nd.term
        /\ f2.index = Len(nd.storage.wal) + 1
        /\ f2.key = f.key /\ f2.value = f.value
    BY <1>5, ClientWriteStep
  <2>2. nd.storage \in StorageState
    BY <2>1 DEF TypeOK, NodeRecord
  <2>3. node'[f.node].storage.wal = Append(nd.storage.wal, e)
    BY <2>1, <2>2 DEF StorageState
  <2>4. EntryOf(f2) = e
    BY <2>1 DEF EntryOf
  <2>5. <<f2.term, f2.node>> \in won'
    BY <1>w, <2>1 DEF LeadersWon, LiveLeader
  <2> HIDE DEF e
  <2>6. /\ HoldsNext(f.node, e) /\ Len(nd.storage.wal) \in Nat
        /\ Len(node'[f.node].storage.wal) = Len(nd.storage.wal) + 1
        /\ node'[f.node].storage.wal[Len(nd.storage.wal) + 1] = e
    BY <2>1, <2>3, HoldsWhatEnters, WalType
  <2>7. /\ f2.index \in 1..Len(node'[f2.node].storage.wal)
        /\ node'[f2.node].storage.wal[f2.index] = EntryOf(f2)
    <3>1. Len(nd.storage.wal) + 1 \in 1..(Len(nd.storage.wal) + 1)
      <4>1. \A last \in Nat : last + 1 \in 1..(last + 1)
        OBVIOUS
      <4> QED
        BY <2>6, <4>1
    <3> QED
      BY <2>1, <2>4, <2>6, <3>1
  <2> QED
    BY <2>1, <2>4, <2>5, <2>6, <2>7 DEF EnteredNext
<1>6. CASE s = t /\ ReadCommit(t)
  <2>1. /\ f.at = "leader_commit"
        /\ f2.term = f.term /\ f2.node = f.node /\ f2.index = f.index
        /\ f2.key = f.key /\ f2.value = f.value /\ f2.acks = f.acks
    BY <1>6, ReadCommitStep
  <2> HIDE DEF f, f2
  <2> QED
    BY <1>2, <2>1 DEF f2
<1>7. CASE s = t /\ AppendEntries(t)
  <2>1. /\ f2.at = f.at /\ f2.node = f.node /\ f2.term = f.term
        /\ f2.index = f.index /\ f2.key = f.key /\ f2.value = f.value
        /\ f2.acks = IF Taken(t, f.peer) THEN f.acks \cup {f.peer} ELSE f.acks
        /\ f.peer \in Node
        /\ node'[f.peer].storage.wal = IF Taken(t, f.peer)
                                THEN Append(node[f.peer].storage.wal, EntryOf(f))
                                ELSE node[f.peer].storage.wal
        /\ Taken(t, f.peer) => EntryOf(f) \in Entry
    BY <1>7, AppendStep
  <2>2. Taken(t, f.peer) => HoldsNext(f.peer, EntryOf(f))
    BY <2>1, HoldsWhatEnters
  <2> HIDE DEF f, f2
  <2>3. \A n \in f2.acks \ f.acks : HoldsNext(n, EntryOf(f))
    BY <2>1, <2>2
  <2> QED
    BY <1>2, <2>1, <2>3 DEF f2
<1>8. CASE /\ s = t
           /\ \/ StartElection(t) \/ SendHeartbeats(t)
              \/ \E n \in Node, k \in Key, v \in Value : Write(t, n, k, v)
  <2>1. f2.at \in {"request_votes", "heartbeat", "client_write"}
    BY <1>8, StartElectionStep, SendHeartbeatsStep, WriteStep
  <2> QED
    BY <2>1
<1> QED
  BY <1>3, <1>4, <1>5, <1>6, <1>7, <1>8, FramesOf DEF Claims

(* What enters a log is a value that no log the thread has not come to      *)
(* holds, in no earlier term than the node's.                               *)
LEMMA EntersApart ==
  ASSUME TypeOK, NEW t \in Thread, NEW n \in Node, NEW e, Enters(t, n, e)
  PROVE  /\ e.value = frame[t].value /\ frame[t].value # Nil
         /\ NotReached(frame[t], n) /\ node[n].term <= e.term
         /\ Claims(t) /\ frame[t].at \in {"client_write", "replicate"}
<1>1. CASE /\ ClientWrite(t) /\ n = frame[t].node
           /\ e = Put(node[n].term, frame[t].key, frame[t].value)
  <2>1. /\ frame[t].at = "client_write" /\ frame[t].value \in Value
        /\ node[n].term \in Nat
    BY <1>1, ClientWriteStep
  <2> QED
    BY <1>1, <2>1, NilAssumption DEF NotReached, Put, Claims
<1>2. CASE AppendEntries(t) /\ Taken(t, n) /\ e = EntryOf(frame[t])
  <2>1. /\ frame[t].at = "replicate" /\ n = frame[t].peer /\ n # frame[t].node
        /\ node[n].term <= frame[t].term /\ FrameOK(frame[t])
    BY <1>2, AppendStep DEF Taken
  <2>2. frame[t].value \in Value
    BY <2>1 DEF FrameOK
  <2> QED
    BY <1>2, <2>1, <2>2, NilAssumption DEF NotReached, EntryOf, Put, Node, Claims
<1> QED
  BY <1>1, <1>2 DEF Enters

(* No thread comes to a node a second time, and where an entry enters its   *)
(* thread has now been.                                                     *)
LEMMA ReachedOf ==
  ASSUME TypeOK, TypeOK', NEW t \in Thread, Step(t),
         ~\E n \in Node, k \in Key, v \in Value : Write(t, n, k, v),
         NEW s \in Thread, frame'[s].value # Nil
  PROVE  /\ frame'[s].value = frame[s].value
         /\ \A n \in Node : NotReached(frame'[s], n) =>
              NotReached(frame[s], n) /\ ~(s = t /\ \E e : Enters(t, n, e))
<1> DEFINE f == frame[s]  f2 == frame'[s]
<1>0. f \in Frame
  BY DEF TypeOK
<1>1. CASE s # t
  <2>1. f2 = f
    BY <1>1, FramesOf
  <2> QED
    BY <1>1, <2>1
<1>2. CASE s = t /\ ~Claims(t)
  <2>1. CarriesOn(f, f2)
    BY <1>2, FramesOf
  <2>2. \A n \in Node : ~\E e : Enters(t, n, e)
    BY <1>2, EntersApart
  <2>3. f.peer \in Int /\ f2.peer \in Int
    <3>1. f \in Frame /\ f2 \in Frame
      BY DEF TypeOK
    <3> QED
      BY <3>1 DEF Frame
  <2> HIDE DEF f, f2
  <2>4. \A n \in Node : NotReached(f2, n) => NotReached(f, n)
    <3> SUFFICES ASSUME NEW n \in Node, NotReached(f2, n)
                 PROVE  NotReached(f, n)
      OBVIOUS
    <3>1. /\ f2.at = f.at /\ f2.node = f.node /\ f2.peer >= f.peer
      BY <2>1 DEF CarriesOn, Relying, NotReached
    <3>2. n >= f2.peer => n >= f.peer
      BY <2>3, <3>1 DEF Node
    <3> QED
      BY <3>1, <3>2 DEF NotReached
  <2>5. f2.value = f.value
    BY <2>1 DEF CarriesOn, f2
  <2> QED
    BY <2>2, <2>4, <2>5 DEF f, f2
<1>3. CASE s = t /\ AppendEntries(t)
  <2>1. /\ f.at \in {"heartbeat", "replicate"} /\ f.peer \in Node
        /\ f2.at = f.at /\ f2.node = f.node /\ f2.value = f.value
        /\ f2.peer \in Nat /\ f2.peer > f.peer
    BY <1>3, AppendStep
  <2>2. \A n \in Node : (\E e : Enters(t, n, e)) => n = f.peer
    BY <1>3, <2>1 DEF Enters, Taken, ClientWrite
  <2> HIDE DEF f, f2
  <2>4. ASSUME NEW n \in Node, NotReached(f2, n)
        PROVE  NotReached(f, n) /\ n # f.peer
    BY <2>1, <2>4 DEF NotReached, Node
  <2> QED
    BY <2>1, <2>2, <2>4 DEF f, f2
<1>4. CASE s = t /\ ClientWrite(t)
  <2>1. /\ f.at = "client_write" /\ f2.at = "leader_commit"
        /\ f2.node = f.node /\ f2.value = f.value
    BY <1>4, ClientWriteStep
  <2>2. \A n \in Node : (\E e : Enters(t, n, e)) => n = f.node
    BY <1>4, <2>1 DEF Enters, AppendEntries
  <2> HIDE DEF f, f2
  <2>3. ASSUME NEW n \in Node, NotReached(f2, n)
        PROVE  NotReached(f, n) /\ n # f.node
    BY <2>1, <2>3 DEF NotReached
  <2> QED
    BY <2>1, <2>2, <2>3 DEF f, f2
<1>5. CASE s = t /\ ReadCommit(t)
  <2>1. /\ f.at = "leader_commit" /\ f2.at = "replicate"
        /\ f2.node = f.node /\ f2.value = f.value
    BY <1>5, ReadCommitStep
  <2>2. \A n \in Node : ~\E e : Enters(t, n, e)
    BY <1>5, <2>1, EntersApart
  <2> HIDE DEF f, f2
  <2>3. ASSUME NEW n \in Node, NotReached(f2, n)
        PROVE  NotReached(f, n)
    BY <2>1, <2>3 DEF NotReached
  <2> QED
    BY <2>1, <2>2, <2>3 DEF f, f2
<1>6. CASE s = t /\ (StartElection(t) \/ SendHeartbeats(t))
  BY <1>6, StartElectionStep, SendHeartbeatsStep
<1> QED
  BY <1>1, <1>2, <1>3, <1>4, <1>5, <1>6 DEF Claims

LEMMA ValuesApartNext ==
  ASSUME TypeOK, TypeOK', ValuesApart, NEW t \in Thread, Step(t)
  PROVE  ValuesApart'
<1> SUFFICES ASSUME NEW s \in Thread, frame'[s].value # Nil
             PROVE  /\ \A r \in Thread \ {s} : frame'[r].value # frame'[s].value
                    /\ \A n \in Node : NotReached(frame'[s], n) =>
                         \A i \in 1..Len(node'[n].storage.wal) :
                           node'[n].storage.wal[i].value # frame'[s].value
  BY DEF ValuesApart, NotReached
<1>1. CASE \E n \in Node, k \in Key, v \in Value : Write(t, n, k, v)
  <2>1. PICK n \in Node, k \in Key, v \in Value : Write(t, n, k, v)
    BY <1>1
  <2>2. frame'[t].value = v /\ Fresh(v) /\ node' = node
    BY <2>1, WriteStep DEF Write
  <2>3. \A r \in Thread \ {t} : frame'[r] = frame[r]
    BY FramesOf
  <2>4. CASE s = t
    BY <2>2, <2>3, <2>4 DEF Fresh
  <2>5. CASE s # t
    <3>1. frame'[s] = frame[s] /\ frame[s].value # Nil /\ frame[s].value # v
      BY <2>2, <2>3, <2>5 DEF Fresh
    <3>2. \A r \in Thread \ {s} : frame[r].value # frame[s].value
      BY <3>1 DEF ValuesApart
    <3>3. \A r \in Thread \ {s} : frame'[r].value # frame'[s].value
      BY <2>2, <2>3, <3>1, <3>2
    <3> QED
      BY <2>2, <3>1, <3>3 DEF ValuesApart
  <2> QED
    BY <2>4, <2>5
<1>2. CASE ~\E n \in Node, k \in Key, v \in Value : Write(t, n, k, v)
  <2>1. /\ frame'[s].value = frame[s].value
        /\ \A n \in Node : NotReached(frame'[s], n) =>
             NotReached(frame[s], n) /\ ~(s = t /\ \E e : Enters(t, n, e))
    BY <1>2, ReachedOf
  <2>2. ASSUME NEW r \in Thread \ {s}
        PROVE  /\ frame[r].value # frame[s].value
               /\ frame'[r].value # frame'[s].value
    <3>1. frame'[r].value # Nil => frame'[r].value = frame[r].value
      BY <1>2, ReachedOf
    <3>2. frame[r].value # frame[s].value
      BY <2>1 DEF ValuesApart
    <3> QED
      BY <2>1, <3>1, <3>2
  <2>3. ASSUME NEW n \in Node, NotReached(frame'[s], n),
               NEW i \in 1..Len(node'[n].storage.wal)
        PROVE  node'[n].storage.wal[i].value # frame'[s].value
    <3> DEFINE wal == node[n].storage.wal
               wal2 == node'[n].storage.wal
    <3>1. NotReached(frame[s], n) /\ ~(s = t /\ \E e : Enters(t, n, e))
      BY <2>1, <2>3
    <3>2. \A j \in 1..Len(wal) : wal[j].value # frame[s].value
      BY <2>1, <3>1 DEF ValuesApart
    <3>3. CASE wal2 = wal
      BY <2>1, <3>2, <3>3
    <3>4. CASE \E e \in Entry : Enters(t, n, e) /\ wal2 = Append(wal, e)
      <4>1. PICK e \in Entry : Enters(t, n, e) /\ wal2 = Append(wal, e)
        BY <3>4
      <4>2. /\ Len(wal2) = Len(wal) + 1 /\ wal2[Len(wal) + 1] = e
            /\ \A j \in 1..Len(wal) : wal2[j] = wal[j]
        BY <4>1, HoldsWhatEnters
      <4>3. e.value = frame[t].value /\ s # t
        BY <3>1, <4>1, EntersApart
      <4>4. Len(wal) \in Nat
        BY WalType
      <4> HIDE DEF wal, wal2
      <4>5. i \in 1..Len(wal) \/ i = Len(wal) + 1
        BY <4>2, <4>4 DEF wal2
      <4>6. e.value # frame[s].value
        BY <2>2, <4>3
      <4> QED
        BY <2>1, <3>2, <4>2, <4>5, <4>6 DEF wal2
    <3> QED
      BY <3>3, <3>4, LogsOf
  <2> QED
    BY <2>2, <2>3
<1> QED
  BY <1>1, <1>2

AcknowledgedNext(i) == i = 0 \/ \E a \in acked' : i <= a[1]

LEMMA AcknowledgedBelow ==
  ASSUME TypeOK, NEW i \in Nat, NEW j \in Nat, j <= i, Acknowledged(i),
         NEW t \in Thread, Step(t)
  PROVE  AcknowledgedNext(j)
<1>1. CASE i = 0
  BY <1>1 DEF AcknowledgedNext
<1>2. CASE \E a \in acked : i <= a[1]
  <2>1. PICK a \in acked : i <= a[1]
    BY <1>2
  <2>2. a \in acked' /\ a[1] \in Nat
    BY HistoryOf DEF TypeOK, HistoryOK
  <2> QED
    BY <2>1, <2>2 DEF AcknowledgedNext
<1> QED
  BY <1>1, <1>2 DEF Acknowledged

LEMMA AppliedAfterAckNext ==
  ASSUME TypeOK, TypeOK', WritesEntered, CommitsAcked, AppliedAfterAck,
         NEW t \in Thread, Step(t)
  PROVE  AppliedAfterAck'
<1> SUFFICES ASSUME NEW n \in Node
             PROVE  AcknowledgedNext(node'[n].storage.lastApplied)
  BY DEF AppliedAfterAck, Acknowledged, AcknowledgedNext
<1>0. \A m \in Node : /\ node[m].storage.lastApplied \in Nat
                      /\ node'[m].storage.lastApplied \in Nat
  <2>1. \A m \in Node : node[m].storage \in StorageState /\ node'[m].storage \in StorageState
    BY DEF TypeOK, NodeRecord
  <2> QED
    BY <2>1 DEF StorageState
<1>1. Acknowledged(node[n].storage.lastApplied)
  BY DEF AppliedAfterAck
<1>2. CASE node'[n].storage.lastApplied = node[n].storage.lastApplied
  BY <1>0, <1>1, <1>2, AcknowledgedBelow
<1>3. CASE ClientWrite(t)
  <2> DEFINE f == frame[t]
             e == Put(node[f.node].term, f.key, f.value)
  <2>1. /\ f.node \in Node
        /\ node'[f.node].storage = [node[f.node].storage EXCEPT !.wal = Append(@, e)]
        /\ \A m \in Node \ {f.node} : node'[m] = node[m]
    BY <1>3, ClientWriteStep
  <2>2. node[f.node].storage \in StorageState
    BY <2>1 DEF TypeOK, NodeRecord
  <2>3. node'[f.node].storage.lastApplied = node[f.node].storage.lastApplied
    BY <2>1, <2>2 DEF StorageState
  <2> QED
    BY <1>2, <2>1, <2>3
<1>4. CASE AppendEntries(t)
  <2> DEFINE f == frame[t]
  <2>1. /\ f \in Frame /\ f.at \in {"heartbeat", "replicate"} /\ f.peer \in Node
        /\ \/ node'[f.peer].storage.lastApplied = node[f.peer].storage.lastApplied
           \/ node'[f.peer].storage.lastApplied <= f.commit
        /\ \A m \in Node \ {f.peer} : node'[m] = node[m]
    BY <1>4, AppendStep
  <2>2. Acknowledged(f.commit) /\ f.commit \in Nat
    BY <2>1 DEF CommitsAcked, Frame
  <2>3. CASE n = f.peer /\ node'[n].storage.lastApplied <= f.commit
    BY <1>0, <2>2, <2>3, AcknowledgedBelow
  <2> QED
    BY <1>2, <2>1, <2>3
<1>5. CASE FinishWrite(t)
  <2> DEFINE f == frame[t]
             ok == QuorumSatisfied(f.acks)
  <2>1. /\ f \in Frame /\ f.node \in Node
        /\ node'[f.node].storage.lastApplied # node[f.node].storage.lastApplied =>
             ok /\ node'[f.node].storage.lastApplied = f.index
        /\ \A m \in Node \ {f.node} : node'[m] = node[m]
        /\ acked' = acked \cup (IF ok THEN {<<f.index, EntryOf(f)>>} ELSE {})
    BY <1>5, FinishWriteStep
  <2>2. CASE n = f.node /\ ok /\ node'[n].storage.lastApplied = f.index
    <3>1. <<f.index, EntryOf(f)>> \in acked' /\ f.index \in Nat
      BY <2>1, <2>2 DEF Frame
    <3>2. node'[n].storage.lastApplied <= <<f.index, EntryOf(f)>>[1]
      BY <2>2, <3>1
    <3> QED
      BY <3>1, <3>2 DEF AcknowledgedNext
  <2> QED
    BY <1>2, <2>1, <2>2
<1>6. CASE ~(AppendEntries(t) \/ ClientWrite(t) \/ FinishWrite(t))
  <2>1. SameLog(node[n], node'[n])
    BY <1>6, NodesOf
  <2> QED
    BY <1>2, <2>1 DEF SameLog
<1> QED
  BY <1>3, <1>4, <1>5, <1>6

LEMMA CommitsAckedNext ==
  ASSUME TypeOK, TypeOK', StorageAgreesWithNode, CommitsAcked, AppliedAfterAck,
         NEW t \in Thread, Step(t)
  PROVE  CommitsAcked'
<1> SUFFICES ASSUME NEW s \in Thread, frame'[s].at \in {"heartbeat", "replicate"}
             PROVE  AcknowledgedNext(frame'[s].commit)
  BY DEF CommitsAcked, Acknowledged, AcknowledgedNext
<1> DEFINE f == frame[s]  f2 == frame'[s]
<1>0. f \in Frame /\ f.commit \in Nat
  BY DEF TypeOK, Frame
<1>1. CASE f.at \in {"heartbeat", "replicate"} /\ f2.commit = f.commit
  <2>1. Acknowledged(f.commit) /\ f.commit <= f.commit
    BY <1>0, <1>1 DEF CommitsAcked
  <2> QED
    BY <1>0, <1>1, <2>1, AcknowledgedBelow
<1>2. ASSUME NEW n \in Node, f2.commit = node[n].commitIndex
      PROVE  AcknowledgedNext(f2.commit)
  <2>1. node[n].commitIndex \in Nat /\ node[n].storage \in StorageState
    BY DEF TypeOK, NodeRecord
  <2>2. node[n].storage.lastApplied \in Nat
    BY <2>1 DEF StorageState
  <2>3. node[n].commitIndex <= node[n].storage.lastApplied
    BY DEF StorageAgreesWithNode
  <2>4. Acknowledged(node[n].storage.lastApplied)
    BY DEF AppliedAfterAck
  <2> QED
    BY <1>2, <2>1, <2>2, <2>3, <2>4, AcknowledgedBelow
<1>3. CASE s # t
  BY <1>1, <1>3, FramesOf
<1>4. CASE s = t /\ CarriesOn(f, f2)
  BY <1>1, <1>4 DEF CarriesOn, Relying
<1>5. CASE s = t /\ AppendEntries(t)
  BY <1>1, <1>5, AppendStep
<1>6. CASE s = t /\ SendHeartbeats(t)
  BY <1>2, <1>6, SendHeartbeatsStep
<1>7. CASE s = t /\ ReadCommit(t)
  BY <1>2, <1>7, ReadCommitStep
<1>8. CASE /\ s = t
           /\ \/ StartElection(t) \/ ClientWrite(t)
              \/ \E n \in Node, k \in Key, v \in Value : Write(t, n, k, v)
  BY <1>8, StartElectionStep, ClientWriteStep, WriteStep
<1> QED
  BY <1>3, <1>4, <1>5, <1>6, <1>7, <1>8, FramesOf DEF Claims

LEMMA RequestVoteStep ==
  ASSUME TypeOK, NEW t \in Thread, RequestVote(t)
  PROVE  LET f == frame[t] IN
         /\ f.at = "request_votes" /\ f.node \in Node /\ f.peer \in Node
         /\ f.lastTerm \in Nat
         /\ \/ granted' = granted
            \/ /\ granted' = granted \cup {<<f.term, f.peer, f.node>>}
               /\ LastLogTerm(node[f.peer].storage) <= f.lastTerm
<1> DEFINE f == frame[t]
           args == [term |-> f.term, candidate |-> f.node,
                    lastIndex |-> f.lastIndex, lastTerm |-> f.lastTerm]
           st == node[f.peer].storage
           grants == GrantsVote(node[f.peer], args)
<1>1. /\ f \in Frame /\ FrameOK(f) /\ RoundsLeft(f) /\ f.at = "request_votes"
  BY DEF RequestVote, TypeOK, FrameOK
<1>2. f.node \in Node /\ f.peer \in Node /\ f.lastTerm \in Nat
  BY <1>1, NextPeerOK DEF Frame
<1>3. st \in StorageState
  BY <1>2 DEF TypeOK, NodeRecord
<1>4. LastLogTerm(st) \in Nat
  BY <1>3, LogEndType
<1>5. granted' = granted \cup (IF grants THEN {<<f.term, f.peer, f.node>>} ELSE {})
  BY DEF RequestVote
<1>6. grants => UpToDate(st, args)
  BY DEF GrantsVote
<1>7. UpToDate(st, args) => LastLogTerm(st) <= f.lastTerm
  BY <1>2, <1>4 DEF UpToDate
<1> HIDE DEF grants
<1> QED
  BY <1>1, <1>2, <1>5, <1>6, <1>7

LEMMA VotersLogsSeenNext ==
  ASSUME TypeOK, TypeOK', PastTerms, LogTermsMonotonic, LogTermsMonotonic',
         VotersLogsSeen, NEW t \in Thread, Step(t),
         \A n \in Node : Grows(node[n], node'[n])
  PROVE  VotersLogsSeen'
<1>0. /\ \A n \in Node : node[n] \in NodeRecord /\ node'[n] \in NodeRecord
      /\ \A n \in Node : TermsOrdered(node[n]) /\ TermsOrdered(node'[n])
  BY PerNode DEF TypeOK
<1>1. \A n \in Node :
        /\ LastLogTerm(node[n].storage) \in Nat
        /\ LastLogTerm(node'[n].storage) \in Nat
        /\ LastLogTerm(node[n].storage) <= LastLogTerm(node'[n].storage)
  <2>1. \A n \in Node : /\ node[n].storage \in StorageState
                        /\ node'[n].storage \in StorageState
    BY <1>0 DEF NodeRecord
  <2> QED
    BY <1>0, <2>1, LogEndGrows, LogEndType
<1>2. ASSUME NEW s \in Thread, frame'[s].at = "request_votes"
      PROVE  frame'[s].lastTerm <= LastLogTerm(node'[frame'[s].node].storage)
  <2> DEFINE f == frame[s]  f2 == frame'[s]
  <2>0. f \in Frame /\ FrameOK(f) /\ f.lastTerm \in Nat
    BY DEF TypeOK, Frame
  <2>1. CASE f.at = "request_votes" /\ f2.node = f.node /\ f2.lastTerm = f.lastTerm
    <3>1. f.node \in Node
      BY <2>0, <2>1 DEF FrameOK
    <3>2. f.lastTerm <= LastLogTerm(node[f.node].storage)
      BY <2>1 DEF VotersLogsSeen
    <3>3. /\ LastLogTerm(node[f.node].storage) \in Nat
          /\ LastLogTerm(node'[f.node].storage) \in Nat
          /\ LastLogTerm(node[f.node].storage) <= LastLogTerm(node'[f.node].storage)
      BY <1>1, <3>1
    <3> QED
      BY <2>0, <2>1, <3>2, <3>3
  <2>2. CASE s # t
    BY <1>2, <2>1, <2>2, FramesOf
  <2>3. CASE s = t /\ CarriesOn(f, f2)
    BY <1>2, <2>1, <2>3 DEF CarriesOn, Relying
  <2>4. CASE s = t /\ StartElection(t)
    BY <1>1, <2>4, StartElectionStep
  <2>5. CASE s = t /\ AppendEntries(t)
    BY <1>2, <2>5, AppendStep
  <2>6. CASE /\ s = t
             /\ \/ SendHeartbeats(t) \/ ClientWrite(t) \/ ReadCommit(t)
                \/ \E n \in Node, k \in Key, v \in Value : Write(t, n, k, v)
    BY <1>2, <2>6, SendHeartbeatsStep, ClientWriteStep, ReadCommitStep, WriteStep
  <2> QED
    BY <2>2, <2>3, <2>4, <2>5, <2>6, FramesOf DEF Claims
<1>3. ASSUME NEW v \in Node, NEW c \in Node,
             NEW i \in 1..Len(node[v].storage.wal),
             node[v].storage.wal[i].term <= LastLogTerm(node[c].storage)
      PROVE  node[v].storage.wal[i].term <= LastLogTerm(node'[c].storage)
  <2>1. node[v].storage.wal[i].term \in Nat
    BY WalType
  <2> QED
    BY <1>1, <1>3, <2>1
<1>4. ASSUME NEW g \in granted, NEW i \in 1..Len(node'[g[2]].storage.wal),
             node'[g[2]].storage.wal[i].term < g[1]
      PROVE  node'[g[2]].storage.wal[i].term <= LastLogTerm(node'[g[3]].storage)
  <2> DEFINE v == g[2]  c == g[3]
             wal == node[v].storage.wal  wal2 == node'[v].storage.wal
  <2>1. v \in Node /\ c \in Node /\ g[1] \in Nat
    BY DEF TypeOK, HistoryOK
  <2>2. ASSUME i \in 1..Len(wal), wal2[i] = wal[i]
        PROVE  wal2[i].term <= LastLogTerm(node'[c].storage)
    <3>1. wal[i].term <= LastLogTerm(node[c].storage)
      BY <1>4, <2>2 DEF VotersLogsSeen
    <3> QED
      BY <1>3, <2>1, <2>2, <3>1
  <2>3. CASE wal2 = wal
    BY <2>2, <2>3
  <2>4. CASE \E e \in Entry : Enters(t, v, e) /\ wal2 = Append(wal, e)
    <3>1. PICK e \in Entry : Enters(t, v, e) /\ wal2 = Append(wal, e)
      BY <2>4
    <3>2. /\ Len(wal2) = Len(wal) + 1 /\ wal2[Len(wal) + 1] = e
          /\ \A j \in 1..Len(wal) : wal2[j] = wal[j]
      BY <2>1, <3>1, HoldsWhatEnters
    <3>3. node[v].term <= e.term /\ node[v].term \in Nat /\ e.term \in Nat
      BY <1>0, <2>1, <3>1, EntersApart DEF NodeRecord, Entry
    <3>4. g[1] <= node[v].term
      BY DEF PastTerms
    <3>5. Len(wal) \in Nat
      BY <2>1, WalType
    <3>6. i # Len(wal) + 1
      <4> SUFFICES ASSUME i = Len(wal) + 1 PROVE FALSE
        OBVIOUS
      <4>1. e.term < g[1]
        BY <1>4, <3>2
      <4> QED
        BY <2>1, <3>3, <3>4, <4>1
    <3>7. i \in 1..(Len(wal) + 1)
      BY <3>2
    <3> HIDE DEF wal, wal2
    <3>8. i \in 1..Len(wal)
      BY <3>5, <3>6, <3>7
    <3> QED
      BY <2>2, <3>2, <3>8 DEF wal2
  <2> QED
    BY <2>1, <2>3, <2>4, LogsOf
<1>5. ASSUME NEW g \in granted', g \notin granted,
             NEW i \in 1..Len(node'[g[2]].storage.wal)
      PROVE  node'[g[2]].storage.wal[i].term <= LastLogTerm(node'[g[3]].storage)
  <2>1. RequestVote(t) \/ StartElection(t)
    BY <1>5, HistoryOf
  <2>2. node'[g[2]].storage.wal = node[g[2]].storage.wal /\ g[2] \in Node
    <3>1. ~(AppendEntries(t) \/ ClientWrite(t) \/ FinishWrite(t))
      BY <2>1 DEF RequestVote, StartElection, AppendEntries, ClientWrite, FinishWrite
    <3>2. g[2] \in Node
      BY DEF TypeOK, HistoryOK
    <3> QED
      BY <3>1, <3>2, NodesOf DEF SameLog
  <2>3. node[g[2]].storage.wal[i].term <= LastLogTerm(node[g[2]].storage)
    BY <1>0, <1>5, <2>2, LogEndLatest
  <2>4. LastLogTerm(node[g[2]].storage) <= LastLogTerm(node[g[3]].storage)
    <3>1. CASE RequestVote(t)
      <4> DEFINE f == frame[t]
      <4>1. /\ g = <<f.term, f.peer, f.node>>
            /\ f.at = "request_votes" /\ f.node \in Node /\ f.peer \in Node
            /\ f.lastTerm \in Nat
            /\ LastLogTerm(node[f.peer].storage) <= f.lastTerm
        BY <1>5, <3>1, RequestVoteStep
      <4>2. f.lastTerm <= LastLogTerm(node[f.node].storage)
        BY <4>1 DEF VotersLogsSeen
      <4>3. LastLogTerm(node[f.peer].storage) <= LastLogTerm(node[f.node].storage)
        <5>1. /\ LastLogTerm(node[f.peer].storage) \in Nat
              /\ LastLogTerm(node[f.node].storage) \in Nat
          BY <1>1, <4>1
        <5> QED
          BY <4>1, <4>2, <5>1
      <4>4. g[2] = f.peer /\ g[3] = f.node
        BY <4>1
      <4> QED
        BY <4>3, <4>4
    <3>2. CASE StartElection(t)
      <4>1. g[2] = g[3]
        BY <1>5, <3>2, StartElectionStep
      <4> QED
        BY <1>1, <2>2, <4>1
    <3> QED
      BY <2>1, <3>1, <3>2
  <2>5. g[3] \in Node /\ node[g[2]].storage.wal[i].term \in Nat
    <3>1. g[3] \in Node
      BY <1>5 DEF TypeOK, HistoryOK
    <3>2. i \in 1..Len(node[g[2]].storage.wal)
      BY <1>5, <2>2
    <3> QED
      BY <2>2, <3>1, <3>2, WalType
  <2>6. /\ LastLogTerm(node[g[2]].storage) \in Nat
        /\ LastLogTerm(node[g[3]].storage) \in Nat
        /\ LastLogTerm(node'[g[3]].storage) \in Nat
        /\ LastLogTerm(node[g[3]].storage) <= LastLogTerm(node'[g[3]].storage)
    BY <1>1, <2>2, <2>5
  <2>7. node[g[2]].storage.wal[i].term <= LastLogTerm(node'[g[3]].storage)
    BY <2>3, <2>4, <2>5, <2>6
  <2> QED
    BY <2>2, <2>7
<1>6. ASSUME NEW g \in granted', NEW i \in 1..Len(node'[g[2]].storage.wal),
             node'[g[2]].storage.wal[i].term < g[1]
      PROVE  node'[g[2]].storage.wal[i].term <= LastLogTerm(node'[g[3]].storage)
  BY <1>4, <1>5, <1>6
<1> QED
  BY <1>2, <1>6 DEF VotersLogsSeen

------------------------------------------------------------------------------
(* Where entries come from, and what has been acknowledged. *)

LEMMA EntriesFromWinnersNext ==
  ASSUME TypeOK, TypeOK', LeadersWon, WritesEntered, EntriesFromWinners,
         NEW t \in Thread, Step(t), \A n \in Node : Grows(node[n], node'[n])
  PROVE  EntriesFromWinners'
<1> SUFFICES ASSUME NEW n \in Node, NEW i \in 1..Len(node'[n].storage.wal)
             PROVE  \E w \in won' : /\ w[1] = node'[n].storage.wal[i].term
                                    /\ HoldsNext(w[2], node'[n].storage.wal[i])
  BY DEF EntriesFromWinners, Holds, HoldsNext
<1> DEFINE wal == node[n].storage.wal  wal2 == node'[n].storage.wal
<1>0. \A m \in Node : Len(node'[m].storage.wal) \in Nat
  <2>1. \A m \in Node : node'[m] \in NodeRecord
    BY DEF TypeOK
  <2> QED
    BY <2>1, NodeLog
<1>w. won \subseteq won' /\ \A w \in won : w[2] \in Node
  BY HistoryOf DEF TypeOK, HistoryOK
<1>1. ASSUME NEW w \in won, NEW e, w[1] = e.term, Holds(w[2], e)
      PROVE  \E x \in won' : x[1] = e.term /\ HoldsNext(x[2], e)
  <2>1. HoldsNext(w[2], e)
    BY <1>0, <1>1, <1>w, HoldsForGood
  <2> QED
    BY <1>1, <1>w, <2>1
<1>2. ASSUME i \in 1..Len(wal), wal2[i] = wal[i]
      PROVE  \E w \in won' : w[1] = wal2[i].term /\ HoldsNext(w[2], wal2[i])
  <2>1. \E w \in won : w[1] = wal[i].term /\ Holds(w[2], wal[i])
    BY <1>2 DEF EntriesFromWinners
  <2> HIDE DEF wal, wal2
  <2> QED
    BY <1>1, <1>2, <2>1
<1>3. ASSUME NEW e \in Entry, Enters(t, n, e), wal2 = Append(wal, e)
      PROVE  \E w \in won' : w[1] = e.term /\ HoldsNext(w[2], e)
  <2>1. HoldsNext(n, e)
    BY <1>3, HoldsWhatEnters
  <2>2. CASE LiveLeader(node[n]) /\ e = Put(node[n].term, frame[t].key, frame[t].value)
    <3>1. <<node[n].term, n>> \in won /\ e.term = node[n].term
      BY <2>2 DEF LeadersWon, LiveLeader, Put
    <3>2. <<node[n].term, n>> \in won'
      BY <1>w, <3>1
    <3> QED
      BY <2>1, <3>1, <3>2
  <2>3. CASE AppendEntries(t) /\ Taken(t, n) /\ e = EntryOf(frame[t])
    <3> DEFINE f == frame[t]
    <3>1. f.at = "replicate" /\ f.node \in Node
      BY <2>3, AppendStep DEF Taken
    <3>2. /\ <<f.term, f.node>> \in won
          /\ f.index \in 1..Len(node[f.node].storage.wal)
          /\ node[f.node].storage.wal[f.index] = e
      BY <2>3, <3>1 DEF WritesEntered
    <3>3. Holds(f.node, e) /\ e.term = f.term
      BY <2>3, <3>2 DEF Holds, EntryOf, Put
    <3> HIDE DEF f
    <3> DEFINE w == <<f.term, f.node>>
    <3>4. w \in won /\ w[1] = e.term /\ Holds(w[2], e)
      BY <3>2, <3>3
    <3> QED
      BY <1>1, <3>4
  <2> QED
    BY <1>3, <2>2, <2>3 DEF Enters
<1>4. CASE wal2 = wal
  BY <1>2, <1>4
<1>5. CASE \E e \in Entry : Enters(t, n, e) /\ wal2 = Append(wal, e)
  <2>1. PICK e \in Entry : Enters(t, n, e) /\ wal2 = Append(wal, e)
    BY <1>5
  <2>2. /\ Len(wal2) = Len(wal) + 1 /\ wal2[Len(wal) + 1] = e
        /\ \A j \in 1..Len(wal) : wal2[j] = wal[j]
    BY <2>1, HoldsWhatEnters
  <2>3. Len(wal) \in Nat /\ i \in 1..Len(wal2)
    BY WalType
  <2>4. \E w \in won' : w[1] = e.term /\ HoldsNext(w[2], e)
    BY <1>3, <2>1
  <2> HIDE DEF wal, wal2
  <2>5. i \in 1..Len(wal) \/ i = Len(wal) + 1
    BY <2>2, <2>3
  <2> QED
    BY <1>2, <2>2, <2>4, <2>5 DEF wal2
<1> QED
  BY <1>4, <1>5, LogsOf

LEMMA AppendedOnceNext ==
  ASSUME TypeOK, ValuesApart, AppendedOnce, NEW t \in Thread, Step(t)
  PROVE  AppendedOnce'
<1> SUFFICES ASSUME NEW n \in Node,
                    NEW i \in 1..Len(node'[n].storage.wal),
                    NEW j \in 1..Len(node'[n].storage.wal),
                    node'[n].storage.wal[i].value = node'[n].storage.wal[j].value
             PROVE  i = j
  BY DEF AppendedOnce
<1> DEFINE wal == node[n].storage.wal  wal2 == node'[n].storage.wal
<1>0. \A k, m \in 1..Len(wal) : wal[k].value = wal[m].value => k = m
  BY DEF AppendedOnce
<1>1. CASE wal2 = wal
  BY <1>0, <1>1
<1>2. CASE \E e \in Entry : Enters(t, n, e) /\ wal2 = Append(wal, e)
  <2>1. PICK e \in Entry : Enters(t, n, e) /\ wal2 = Append(wal, e)
    BY <1>2
  <2>2. /\ Len(wal2) = Len(wal) + 1 /\ wal2[Len(wal) + 1] = e
        /\ \A k \in 1..Len(wal) : wal2[k] = wal[k]
    BY <2>1, HoldsWhatEnters
  <2>3. \A k \in 1..Len(wal) : wal[k].value # e.value
    BY <2>1, EntersApart DEF ValuesApart
  <2>4. Len(wal) \in Nat
    BY WalType
  <2>5. /\ i \in 1..Len(wal2) /\ j \in 1..Len(wal2) /\ wal2[i].value = wal2[j].value
    OBVIOUS
  <2> HIDE DEF wal, wal2
  <2>6. i \in 1..Len(wal) \/ i = Len(wal) + 1
    BY <2>2, <2>4, <2>5
  <2>7. j \in 1..Len(wal) \/ j = Len(wal) + 1
    BY <2>2, <2>4, <2>5
  <2> QED
    BY <1>0, <2>2, <2>3, <2>5, <2>6, <2>7
<1> QED
  BY <1>1, <1>2, LogsOf

LEMMA CommitThresholdType == CommitThreshold \in Nat
<1>1. N \div 2 \in Nat /\ (CommitShare * N + 99) \div 100 \in Nat
  BY SizeAssumption DEF CommitShare
<1> QED
  BY <1>1, ClusterAssumption DEF CommitThreshold, FlatThreshold, Modes,
     MajorityThreshold, FlexibleThreshold

LEMMA MoreAcks ==
  ASSUME NEW A \in SUBSET Node, NEW B \in SUBSET Node, A \subseteq B,
         QuorumSatisfied(A)
  PROVE  QuorumSatisfied(B)
<1>1. IsFiniteSet(Node)
  BY FS_Interval, SizeAssumption DEF Node
<1>2. IsFiniteSet(B)
  BY <1>1, FS_Subset
<1>3. IsFiniteSet(A) /\ Cardinality(A) <= Cardinality(B)
  BY <1>2, FS_Subset
<1>4. Cardinality(A) \in Nat /\ Cardinality(B) \in Nat
  BY <1>2, <1>3, FS_CardinalityType
<1> QED
  BY <1>3, <1>4, CommitThresholdType DEF QuorumSatisfied

LEMMA AckedOnQuorumNext ==
  ASSUME TypeOK, TypeOK', WritesEntered, AckedOnQuorum,
         NEW t \in Thread, Step(t), \A n \in Node : Grows(node[n], node'[n])
  PROVE  AckedOnQuorum'
<1> SUFFICES ASSUME NEW a \in acked'
             PROVE  QuorumSatisfied({n \in Node : HoldsNext(n, a[2])})
  BY DEF AckedOnQuorum, QuorumSatisfied, Holds, HoldsNext
<1>0. \A m \in Node : Len(node'[m].storage.wal) \in Nat
  <2>1. \A m \in Node : node'[m] \in NodeRecord
    BY DEF TypeOK
  <2> QED
    BY <2>1, NodeLog
<1>1. ASSUME NEW e, NEW A \in SUBSET Node, QuorumSatisfied(A),
             \A n \in A : Holds(n, e)
      PROVE  QuorumSatisfied({n \in Node : HoldsNext(n, e)})
  <2>1. \A n \in A : HoldsNext(n, e)
    BY <1>0, <1>1, HoldsForGood
  <2>2. A \subseteq {n \in Node : HoldsNext(n, e)}
    BY <2>1
  <2> QED
    BY <1>1, <2>2, MoreAcks
<1>2. CASE a \in acked
  <2> DEFINE A == {n \in Node : Holds(n, a[2])}
  <2>1. QuorumSatisfied(A) /\ A \in SUBSET Node /\ \A n \in A : Holds(n, a[2])
    BY <1>2 DEF AckedOnQuorum
  <2> HIDE DEF A
  <2> QED
    BY <1>1, <2>1
<1>3. CASE a \notin acked
  <2> DEFINE f == frame[t]
  <2>1. FinishWrite(t)
    BY <1>3, HistoryOf
  <2>2. /\ f \in Frame /\ f.at = "replicate"
        /\ a = <<f.index, EntryOf(f)>> /\ QuorumSatisfied(f.acks)
    BY <1>3, <2>1, FinishWriteStep
  <2>3. f.acks \in SUBSET Node /\ \A n \in f.acks : Holds(n, EntryOf(f))
    BY <2>2 DEF Frame, WritesEntered
  <2> HIDE DEF f
  <2>4. QuorumSatisfied({n \in Node : HoldsNext(n, EntryOf(f))})
    BY <1>1, <2>2, <2>3
  <2> QED
    BY <2>2, <2>4
<1> QED
  BY <1>2, <1>3

------------------------------------------------------------------------------
(* The invariant of the logs, and what follows from it. *)

LogsInOrder == StorageAgreesWithNode /\ LogTermsMonotonic
AcksKept == AppliedAfterAck /\ AckedOnQuorum
LogsInv == LogInv /\ LogsInOrder /\ AcksKept /\ EntriesFromWinners /\ AppendedOnce

LEMMA LogsInit == Init => LogsInv
<1> SUFFICES ASSUME Init PROVE LogsInv
  OBVIOUS
<1>1. \A n \in Node : /\ node[n].storage = EmptyStorage /\ node[n].term = 0
                      /\ node[n].commitIndex = 0 /\ node[n].role = "Follower"
  BY DEF Init, NewNode
<1>2. /\ EmptyStorage.wal = << >> /\ EmptyStorage.lastApplied = 0
      /\ EmptyStorage.commitIndex = 0
  BY DEF EmptyStorage
<1>3. Replay(EmptyStorage.kv, << >>, 0, 0) = EmptyStorage.kv
  BY EmptyMapType, ReplayNothing
<1>4. \A t \in Thread : frame[t].at = "idle" /\ frame[t].value = Nil
  BY DEF Init, Idle
<1>5. won = {} /\ granted = {} /\ acked = {}
  BY DEF Init
<1>6. LogInv
  BY <1>1, <1>4, <1>5 DEF LogInv, LeadersWon, WritesEntered, ValuesApart,
     CommitsAcked, VotersLogsSeen
<1>7. \A n \in Node : StorageAgrees(node[n]) /\ TermsOrdered(node[n])
  BY <1>1, <1>2, <1>3 DEF StorageAgrees, TermsOrdered
<1>8. LogsInOrder
  BY <1>7, PerNode DEF LogsInOrder
<1>9. AcksKept
  BY <1>1, <1>2, <1>5 DEF AcksKept, AppliedAfterAck, Acknowledged, AckedOnQuorum
<1>10. EntriesFromWinners /\ AppendedOnce
  BY <1>1, <1>2 DEF EntriesFromWinners, AppendedOnce
<1> QED
  BY <1>6, <1>8, <1>9, <1>10 DEF LogsInv

LEMMA LogsStutter == LogsInv /\ UNCHANGED vars => LogsInv'
<1> SUFFICES ASSUME LogsInv, UNCHANGED vars PROVE LogsInv'
  OBVIOUS
<1> USE DEF vars
<1>1. LeadersWon' /\ ValuesApart' /\ CommitsAcked'
  BY DEF LogsInv, LogInv, LeadersWon, ValuesApart, NotReached, CommitsAcked,
         Acknowledged
<1>2. WritesEntered'
  BY DEF LogsInv, LogInv, WritesEntered, Holds, EntryOf
<1>3. VotersLogsSeen'
  BY DEF LogsInv, LogInv, VotersLogsSeen
<1>4. LogsInOrder'
  BY DEF LogsInv, LogsInOrder, StorageAgreesWithNode, LogTermsMonotonic
<1>5. AcksKept'
  BY DEF LogsInv, AcksKept, AppliedAfterAck, Acknowledged, AckedOnQuorum,
         QuorumSatisfied, Holds
<1>6. EntriesFromWinners' /\ AppendedOnce'
  BY DEF LogsInv, EntriesFromWinners, AppendedOnce, Holds
<1> QED
  BY <1>1, <1>2, <1>3, <1>4, <1>5, <1>6 DEF LogsInv, LogInv

LEMMA LogsNext ==
  TypeOK /\ TypeOK' /\ ElectionInv /\ LogsInv /\ [Next]_vars => LogsInv'
<1> SUFFICES ASSUME TypeOK, TypeOK', ElectionInv, LogsInv, Next
             PROVE  LogsInv'
  BY LogsStutter
<1>1. PICK t \in Thread : Step(t)
  BY DEF Next, Step
<1> USE DEF LogsInv, LogInv, LogsInOrder, AcksKept
<1>2. \A n \in Node : Grows(node[n], node'[n])
  BY NodesGrow
<1>3. StorageAgreesWithNode' /\ LogTermsMonotonic'
  BY <1>2, PerNode DEF Grows
<1>4. LeadersWon'
  BY <1>1, LeadersWonNext
<1>5. WritesEntered'
  BY <1>1, <1>2, WritesEnteredNext
<1>6. ValuesApart'
  BY <1>1, ValuesApartNext
<1>7. CommitsAcked'
  BY <1>1, CommitsAckedNext
<1>8. VotersLogsSeen'
  BY <1>1, <1>2, <1>3, VotersLogsSeenNext DEF ElectionInv
<1>9. AppliedAfterAck'
  BY <1>1, AppliedAfterAckNext
<1>10. AckedOnQuorum'
  BY <1>1, <1>2, AckedOnQuorumNext
<1>11. EntriesFromWinners' /\ AppendedOnce'
  BY <1>1, <1>2, EntriesFromWinnersNext, AppendedOnceNext
<1> QED
  BY <1>3, <1>4, <1>5, <1>6, <1>7, <1>8, <1>9, <1>10, <1>11

(* The invariant of the logs is inductive, given the types and the ballots: *)
(* what each thread may rely on in the middle of its call, and with it all  *)
(* the properties of logs, commits and acknowledgements below.              *)
THEOREM LogsInvariant == Spec => []LogsInv
BY TypeCorrect, ElectionInvariant, LogsInit, LogsNext, PTL DEF Spec

(* What a thread in the middle of a call may rely on: that a leader won its *)
(* term, that a write under way is where its acks say, that no other write  *)
(* has its value, that the commit index it sends has been acknowledged, and *)
(* that a candidate's log ends no earlier than its voters' did.             *)
THEOREM ThreadsRelyOnLogs == Spec => []LogInv
<1>1. LogsInv => LogInv
  BY DEF LogsInv
<1> QED
  BY <1>1, LogsInvariant, PTL

(* The node's indices and its storage's agree, and the map is the log's     *)
(* applied prefix, between any two critical sections of any threads.        *)
THEOREM StorageInStep == Spec => []StorageAgreesWithNode
<1>1. LogsInv => StorageAgreesWithNode
  BY DEF LogsInv, LogsInOrder
<1> QED
  BY <1>1, LogsInvariant, PTL

(* Along every log the terms never decrease.                                *)
THEOREM TermsInOrder == Spec => []LogTermsMonotonic
<1>1. LogsInv => LogTermsMonotonic
  BY DEF LogsInv, LogsInOrder
<1> QED
  BY <1>1, LogsInvariant, PTL

(* Every entry of every log was first put into the log of a winner of its   *)
(* term, which still has it.                                                *)
THEOREM EntriesHaveWinners == Spec => []EntriesFromWinners
<1>1. LogsInv => EntriesFromWinners
  BY DEF LogsInv
<1> QED
  BY <1>1, LogsInvariant, PTL

(* No log holds a write twice.                                              *)
THEOREM WritesAppendedOnce == Spec => []AppendedOnce
<1>1. LogsInv => AppendedOnce
  BY DEF LogsInv
<1> QED
  BY <1>1, LogsInvariant, PTL

(* No node applies an index beyond the highest one acknowledged.            *)
THEOREM AppliesWhatWasAcked == Spec => []AppliedAfterAck
<1>1. LogsInv => AppliedAfterAck
  BY DEF LogsInv, AcksKept
<1> QED
  BY <1>1, LogsInvariant, PTL

(* An acknowledged write stays in the logs of a commit quorum.              *)
THEOREM AcksStayOnQuorum == Spec => []AckedOnQuorum
<1>1. LogsInv => AckedOnQuorum
  BY DEF LogsInv, AcksKept
<1> QED
  BY <1>1, LogsInvariant, PTL

LEMMA AppliedForGoodNext ==
  ASSUME TypeOK, TypeOK', WritesEntered, StorageAgreesWithNode, [Next]_vars
  PROVE  \A n \in Node :
           LET st == node[n].storage
               st2 == node'[n].storage
           IN /\ node'[n].term >= node[n].term
              /\ st2.lastApplied >= st.lastApplied
              /\ \A i \in 1..st.lastApplied : st2.wal[i] = st.wal[i]
<1> SUFFICES ASSUME NEW n \in Node
             PROVE  LET st == node[n].storage
                        st2 == node'[n].storage
                    IN /\ node'[n].term >= node[n].term
                       /\ st2.lastApplied >= st.lastApplied
                       /\ \A i \in 1..st.lastApplied : st2.wal[i] = st.wal[i]
  OBVIOUS
<1>1. Grows(node[n], node'[n])
  BY NodesGrow
<1>2. /\ node[n].storage.lastApplied <= Len(node[n].storage.wal)
      /\ node[n].storage.lastApplied \in Nat /\ Len(node[n].storage.wal) \in Nat
  <2>1. node[n].storage \in StorageState
    BY DEF TypeOK, NodeRecord
  <2>2. node[n].storage.lastApplied \in Nat
    BY <2>1 DEF StorageState
  <2> QED
    BY <2>2, WalType DEF StorageAgreesWithNode
<1> QED
  BY <1>1, <1>2 DEF Grows, IsPrefixOf

(* What a node has applied it never unapplies or sees replaced, and its     *)
(* term never goes back: an action property of every step.                  *)
THEOREM NothingUnapplied == Spec => AppliedForGood
<1>1. LogsInv => WritesEntered /\ StorageAgreesWithNode
  BY DEF LogsInv, LogInv, LogsInOrder
<1>2. /\ TypeOK /\ TypeOK' /\ LogsInv /\ [Next]_vars
      => [\A n \in Node :
            LET st == node[n].storage
                st2 == node'[n].storage
            IN /\ node'[n].term >= node[n].term
               /\ st2.lastApplied >= st.lastApplied
               /\ \A i \in 1..st.lastApplied : st2.wal[i] = st.wal[i]]_vars
  BY <1>1, AppliedForGoodNext
<1> QED
  BY <1>2, TypeCorrect, LogsInvariant, PTL DEF Spec, AppliedForGood

------------------------------------------------------------------------------
(* What is left of leader completeness. *)

LEMMA CommitMeetsElection ==
  ASSUME CommitThreshold + VoteQuorum > N,
         NEW A \in SUBSET Node, QuorumSatisfied(A),
         NEW Q \in SUBSET Node, Cardinality(Q) >= VoteQuorum
  PROVE  A \cap Q # {}
<1>1. IsFiniteSet(Node) /\ Cardinality(Node) = N
  BY FS_Interval, SizeAssumption DEF Node
<1>2. IsFiniteSet(A) /\ IsFiniteSet(Q)
  BY <1>1, FS_Subset
<1>3. /\ Cardinality(A) \in Nat /\ Cardinality(Q) \in Nat
      /\ Cardinality(A \cap Q) \in Nat
  BY <1>2, FS_Intersection, FS_CardinalityType
<1>4. Cardinality(A \cup Q) = Cardinality(A) + Cardinality(Q) - Cardinality(A \cap Q)
  BY <1>2, FS_Union
<1>5. Cardinality(A \cup Q) <= N
  BY <1>1, FS_Subset, A \cup Q \in SUBSET Node
<1>6. VoteQuorum \in Nat /\ CommitThreshold \in Nat
  BY SizeAssumption, CommitThresholdType DEF VoteQuorum
<1>7. Cardinality(A \cap Q) > 0
  BY <1>3, <1>4, <1>5, <1>6, SizeAssumption DEF QuorumSatisfied
<1> QED
  BY <1>7, FS_EmptySet

LEMMA AckedTermFromInv ==
  ASSUME CommitThreshold + VoteQuorum > N, TypeOK, ElectionInv, LogsInv
  PROVE  AckedTermReachesLaterWinners
<1> SUFFICES ASSUME NEW a \in acked, NEW w \in won, w[1] > a[2].term
             PROVE  LastLogTerm(node[w[2]].storage) >= a[2].term
  BY DEF AckedTermReachesLaterWinners
<1>1. a[2] \in Entry /\ w[1] \in Nat /\ w[2] \in Node /\ a[2].term \in Nat
  BY DEF TypeOK, HistoryOK, Entry
<1>2. PICK Q \in SUBSET Node :
        Cardinality(Q) >= VoteQuorum /\ \A v \in Q : Votes(w[1], v, w[2])
  BY DEF ElectionInv, BallotsCounted
<1> DEFINE A == {n \in Node : Holds(n, a[2])}
<1>3. A \in SUBSET Node /\ QuorumSatisfied(A)
  BY DEF LogsInv, AcksKept, AckedOnQuorum
<1>4. PICK v \in Node : v \in A /\ v \in Q
  <2> HIDE DEF A
  <2> QED
    BY <1>2, <1>3, CommitMeetsElection
<1>5. PICK i \in 1..Len(node[v].storage.wal) : node[v].storage.wal[i] = a[2]
  BY <1>4 DEF Holds
<1> DEFINE g == <<w[1], v, w[2]>>
<1>6. g \in granted /\ g[1] = w[1] /\ g[2] = v /\ g[3] = w[2]
  BY <1>2, <1>4 DEF Votes
<1> HIDE DEF g
<1>7. node[v].storage.wal[i].term <= LastLogTerm(node[w[2]].storage)
  <2>1. node[g[2]].storage.wal[i].term < g[1]
    BY <1>1, <1>5, <1>6
  <2>2. i \in 1..Len(node[g[2]].storage.wal)
    BY <1>5, <1>6
  <2>3. node[g[2]].storage.wal[i].term <= LastLogTerm(node[g[3]].storage)
    BY <1>6, <2>1, <2>2 DEF LogsInv, LogInv, VotersLogsSeen
  <2> QED
    BY <1>6, <2>3
<1>8. LastLogTerm(node[w[2]].storage) \in Nat
  <2>1. node[w[2]].storage \in StorageState
    BY <1>1 DEF TypeOK, NodeRecord
  <2> QED
    BY <2>1, LogEndType
<1> QED
  BY <1>1, <1>5, <1>7, <1>8

(* Where every commit quorum meets every election majority, the winner of a *)
(* term later than an acknowledged write's ends its log in the write's term *)
(* or a later one: the votes of node.cpp:181 carry it from any of the       *)
(* write's holders.                                                         *)
THEOREM AckedTermsReachWinners ==
  ASSUME CommitThreshold + VoteQuorum > N
  PROVE  Spec => []AckedTermReachesLaterWinners
<1>1. TypeOK /\ ElectionInv /\ LogsInv => AckedTermReachesLaterWinners
  BY AckedTermFromInv
<1> QED
  BY <1>1, TypeCorrect, ElectionInvariant, LogsInvariant, PTL

(* They do under StaticMajority, under StaticFlexible in a cluster of an    *)
(* even size, and in every mode in one of at most four nodes.               *)
THEOREM AckedTermsReachWinnersWhere ==
  ASSUME \/ Mode = "StaticMajority"
         \/ Mode = "StaticFlexible" /\ N % 2 = 0
         \/ N <= 4
  PROVE  Spec => []AckedTermReachesLaterWinners
<1>1. CommitThreshold + VoteQuorum > N
  <2>1. CASE Mode = "StaticMajority"
    BY <2>1, SizeAssumption DEF CommitThreshold, FlatThreshold, MajorityThreshold,
       VoteQuorum
  <2>2. CASE Mode = "StaticFlexible" /\ N % 2 = 0
    BY <2>2, SizeAssumption DEF CommitThreshold, FlatThreshold, FlexibleThreshold,
       VoteQuorum
  <2>3. CASE N <= 4
    <3>1. N = 1 \/ N = 2 \/ N = 3 \/ N = 4
      BY <2>3, SizeAssumption
    <3>2. CASE Mode = "StaticMajority"
      BY <2>1, <3>2
    <3>3. CASE Mode = "StaticFlexible"
      BY <3>1, <3>3 DEF CommitThreshold, FlatThreshold, FlexibleThreshold, VoteQuorum
    <3>4. CASE Mode = "QuorumShiftDynamic"
      BY <3>1, <3>4 DEF CommitThreshold, FlatThreshold, CommitShare, VoteQuorum
    <3> QED
      BY <3>2, <3>3, <3>4, ClusterAssumption DEF Modes
  <2> QED
    BY <2>1, <2>2, <2>3
<1> QED
  BY <1>1, AckedTermsReachWinners
==============================================================================
