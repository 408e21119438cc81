-------------------------- MODULE ClusterDriverProofs --------------------------
(****************************************************************************)
(* Theorems of ClusterDriver, for any number of nodes, keys and writes, any *)
(* timers, mode, cuts and bounds: its type invariant, that the nodes which  *)
(* every write has reached have one log, and that one which has applied it  *)
(* answers reads with what was acknowledged.                                *)
(****************************************************************************)
EXTENDS ClusterDriver, NodeStateProofs, SequenceTheorems

(* What a step makes of a node: its log stays, or takes one entry.          *)
KeepsLog(nd, nd2) ==
  /\ nd2 \in NodeRecord /\ Grows(nd, nd2)
  /\ nd2.storage.wal = nd.storage.wal

Takes(nd, nd2, entry) ==
  /\ nd2 \in NodeRecord /\ Grows(nd, nd2)
  /\ nd2.storage.wal = nd.storage.wal \o <<entry>>

LEMMA SameStorageKeeps ==
  ASSUME NEW nd \in NodeRecord, NEW nd2 \in NodeRecord,
         nd2.storage = nd.storage, nd2.commitIndex = nd.commitIndex,
         nd2.term >= nd.term
  PROVE  KeepsLog(nd, nd2)
BY SameLogGrows DEF KeepsLog

LEMMA SameNodeKeeps ==
  ASSUME NEW nd \in NodeRecord
  PROVE  KeepsLog(nd, nd)
<1>1. nd.term \in Nat
  BY DEF NodeRecord
<1> QED
  BY <1>1, SameStorageKeeps

LEMMA CrashKeeps ==
  ASSUME NEW nd \in NodeRecord
  PROVE  KeepsLog(nd, Crashed(nd)) /\ KeepsLog(nd, Recovered(nd))
<1>1. nd.term \in Nat
  BY DEF NodeRecord
<1>2. /\ Crashed(nd) \in NodeRecord
      /\ Crashed(nd).storage = nd.storage /\ Crashed(nd).term = nd.term
      /\ Crashed(nd).commitIndex = nd.commitIndex
  BY DEF Crashed, NodeRecord
<1>3. /\ Recovered(nd) \in NodeRecord
      /\ Recovered(nd).storage = nd.storage /\ Recovered(nd).term = nd.term
      /\ Recovered(nd).commitIndex = nd.commitIndex
  BY ZeroTicks DEF Recovered, NodeRecord
<1> QED
  BY <1>1, <1>2, <1>3, SameStorageKeeps

LEMMA TickKeeps ==
  ASSUME NEW nd \in NodeRecord
  PROVE  KeepsLog(nd, Ticked(nd))
<1>1. Ticked(nd) \in NodeRecord
  <2>1. /\ ElectionTimeout \in Nat \ {0} /\ HeartbeatInterval \in Nat \ {0}
        /\ nd.electionTicks \in 0..ElectionTimeout
        /\ nd.heartbeatTicks \in 0..HeartbeatInterval
    BY TimerAssumption DEF NodeRecord
  <2>2. CASE ~nd.alive
    BY <2>2 DEF Ticked
  <2>3. CASE nd.alive /\ nd.role = "Leader"
    <3> DEFINE ticks == IF HeartbeatDue(nd) THEN 0 ELSE nd.heartbeatTicks + 1
    <3>1. ticks \in 0..HeartbeatInterval
      BY <2>1, <2>3 DEF HeartbeatDue, LiveLeader
    <3>2. Ticked(nd) = [nd EXCEPT !.heartbeatTicks = ticks]
      BY <2>3 DEF Ticked
    <3> HIDE DEF ticks
    <3> QED
      BY <3>1, <3>2 DEF NodeRecord
  <2>4. CASE nd.alive /\ nd.role # "Leader"
    <3> DEFINE ticks == IF ElectionDue(nd) THEN 0 ELSE nd.electionTicks + 1
    <3>1. ticks \in 0..ElectionTimeout
      BY <2>1, <2>4 DEF ElectionDue
    <3>2. Ticked(nd) = [nd EXCEPT !.electionTicks = ticks]
      BY <2>4 DEF Ticked
    <3> HIDE DEF ticks
    <3> QED
      BY <3>1, <3>2 DEF NodeRecord
  <2> QED
    BY <2>2, <2>3, <2>4
<1>2. nd.term \in Nat
  BY DEF NodeRecord
<1> QED
  BY <1>1, <1>2, TickedLog, SameStorageKeeps

(* handle_append_entries, with nothing or with one entry. *)
LEMMA HeartbeatKeeps ==
  ASSUME NEW nd \in NodeRecord, NEW args \in AppendArgs, args.entries = << >>
  PROVE  KeepsLog(nd, AfterAppendEntries(nd, args))
<1>1. nd.storage.wal \in Seq(Entry)
  BY NodeLog
<1>2. nd.storage.wal \o << >> = nd.storage.wal
  BY <1>1
<1>3. \A i \in 1..Len(args.entries) : args.entries[i].term = args.term
  OBVIOUS
<1> DEFINE nd2 == AfterAppendEntries(nd, args)
<1>4. nd2 \in NodeRecord
  BY AppendEntriesEffect
<1>5. /\ Grows(nd, nd2)
      /\ nd2.storage.wal = IF AcceptsAppend(nd, args)
                           THEN nd.storage.wal \o args.entries ELSE nd.storage.wal
  BY <1>3, AppendEntriesGrows
<1> HIDE DEF nd2
<1>6. KeepsLog(nd, nd2)
  BY <1>2, <1>4, <1>5 DEF KeepsLog
<1> QED
  BY <1>6 DEF nd2

LEMMA EntryIsTaken ==
  ASSUME NEW nd \in NodeRecord, NEW args \in AppendArgs, NEW entry,
         args.entries = <<entry>>, entry.term = args.term
  PROVE  IF AcceptsAppend(nd, args)
         THEN Takes(nd, AfterAppendEntries(nd, args), entry)
         ELSE AfterAppendEntries(nd, args) = nd
<1>1. \A i \in 1..Len(args.entries) : args.entries[i].term = args.term
  OBVIOUS
<1>2. ~AcceptsAppend(nd, args) => AfterAppendEntries(nd, args) = nd
  BY DEF AfterAppendEntries
<1> DEFINE nd2 == AfterAppendEntries(nd, args)
<1>3. nd2 \in NodeRecord
  BY AppendEntriesEffect
<1>4. /\ Grows(nd, nd2)
      /\ nd2.storage.wal = IF AcceptsAppend(nd, args)
                           THEN nd.storage.wal \o args.entries ELSE nd.storage.wal
  BY <1>1, AppendEntriesGrows
<1> HIDE DEF nd2
<1>5. AcceptsAppend(nd, args) => Takes(nd, nd2, entry)
  BY <1>3, <1>4 DEF Takes
<1> QED
  BY <1>2, <1>5 DEF nd2

------------------------------------------------------------------------------
(* The calls, each as a whole. *)

LEMMA ElectionKeepsLogs ==
  ASSUME node \in [Node -> NodeRecord], NEW n \in Node, NEW m \in Node
  PROVE  KeepsLog(node[m], AfterElection(n)[m])
<1> DEFINE own  == Campaigning(Ticked(node[n]), n)
           args == [term |-> own.term, candidate |-> n,
                    lastIndex |-> LastLogIndex(own.storage),
                    lastTerm |-> LastLogTerm(own.storage)]
           votes == {n} \cup {p \in Node : Answers(n, p) /\ GrantsVote(node[p], args)}
           won == WinsElection(own, own.term, Cardinality(votes))
<1>1. /\ Ticked(node[n]) \in NodeRecord
      /\ Ticked(node[n]).storage = node[n].storage
      /\ Ticked(node[n]).commitIndex = node[n].commitIndex
      /\ Ticked(node[n]).term = node[n].term
  BY TickKeeps, TickedLog DEF KeepsLog
<1>2. /\ own \in NodeRecord /\ own.term = node[n].term + 1
      /\ own.storage = node[n].storage /\ own.commitIndex = node[n].commitIndex
  <2>1. /\ own.storage = Ticked(node[n]).storage
        /\ own.commitIndex = Ticked(node[n]).commitIndex
    BY <1>1 DEF Campaigning, NodeRecord
  <2> QED
    BY <1>1, <2>1, CampaigningEffect
<1>3. AfterElection(n)[m] =
        IF m = n THEN [own EXCEPT !.role = IF won THEN "Leader" ELSE @]
        ELSE IF Answers(n, m) THEN AfterRequestVote(node[m], args) ELSE node[m]
  BY DEF AfterElection
<1>4. node[n].term \in Nat /\ node[m] \in NodeRecord /\ node[n] \in NodeRecord
  BY DEF NodeRecord
<1> HIDE DEF own, won
<1>5. args \in VoteArgs
  <2>1. own.term \in Nat /\ own.storage \in StorageState
    BY <1>2, <1>4 DEF NodeRecord
  <2> QED
    BY <2>1, LogEndType DEF VoteArgs
<1> HIDE DEF args
<1>6. CASE m = n
  <2> DEFINE x == [own EXCEPT !.role = IF won THEN "Leader" ELSE @]
  <2>1. /\ x \in NodeRecord /\ x.term = own.term
        /\ x.storage = own.storage /\ x.commitIndex = own.commitIndex
    BY <1>2 DEF NodeRecord
  <2> HIDE DEF x
  <2>2. KeepsLog(node[n], x)
    BY <1>2, <1>4, <2>1, SameStorageKeeps
  <2> QED
    BY <1>3, <1>6, <2>2 DEF x
<1>7. CASE m # n /\ Answers(n, m)
  <2>1. KeepsLog(node[m], AfterRequestVote(node[m], args))
    BY <1>4, <1>5, RequestVoteEffect, RequestVoteLog, SameStorageKeeps
  <2> QED
    BY <1>3, <1>7, <2>1
<1>8. CASE m # n /\ ~Answers(n, m)
  BY <1>3, <1>4, <1>8, SameNodeKeeps
<1> QED
  BY <1>6, <1>7, <1>8

LEMMA HeartbeatsKeepLogs ==
  ASSUME node \in [Node -> NodeRecord], NEW n \in Node, NEW m \in Node
  PROVE  KeepsLog(node[m], AfterHeartbeats(n)[m])
<1> DEFINE args == [term |-> node[n].term, entries |-> << >>,
                    leaderCommit |-> node[n].commitIndex]
<1>1. AfterHeartbeats(n)[m] =
        IF m = n THEN Ticked(node[n])
        ELSE IF Answers(n, m) THEN AfterAppendEntries(node[m], args) ELSE node[m]
  BY DEF AfterHeartbeats
<1>2. /\ node[n] \in NodeRecord /\ node[m] \in NodeRecord
      /\ node[n].term \in Nat /\ node[n].commitIndex \in Nat
  BY DEF NodeRecord
<1>3. args \in AppendArgs /\ args.entries = << >>
  BY <1>2 DEF AppendArgs
<1> HIDE DEF args
<1> QED
  BY <1>1, <1>2, <1>3, TickKeeps, HeartbeatKeeps, SameNodeKeeps

(* The nodes that have the entry in their logs after write: its acks. *)
LEMMA WriteTakes ==
  ASSUME TypeOK, NEW n \in Node, NEW k \in Key, Write(n, k)
  PROVE  \E acks \in SUBSET Node :
           LET entry == Put(node[n].term, k, writes + 1) IN
           /\ missed' = missed \cup (Node \ acks)
           /\ node' = [m \in Node |-> node'[m]]
           /\ \A m \in Node : IF m \in acks THEN Takes(node[m], node'[m], entry)
                                            ELSE node'[m] = node[m]
<1> DEFINE nd == node[n]
           v == writes + 1
           entry == Put(nd.term, k, v)
           args == [term |-> nd.term, entries |-> <<entry>>,
                    leaderCommit |-> nd.commitIndex]
           logged == [nd EXCEPT !.storage = AppendLog(@, entry)]
           acks == {n} \cup {m \in Node : Answers(n, m)
                                     /\ AcceptsAppend(node[m], args)}
           ok == Cardinality(acks) >= FlatThreshold(Mode, N)
           own == IF ok THEN CommittedUpTo(logged, LastLogIndex(logged.storage))
                        ELSE logged
<1>1. /\ v \in Value
      /\ node' = [m \in Node |->
                    IF m = n THEN own
                    ELSE IF Answers(n, m) THEN AfterAppendEntries(node[m], args)
                                          ELSE node[m]]
      /\ missed' = missed \cup (Node \ acks)
  BY DEF Write
<1>2. /\ nd \in NodeRecord /\ nd.term \in Nat /\ nd.commitIndex \in Nat
      /\ nd.storage \in StorageState /\ nd.storage.wal \in Seq(Entry)
      /\ \A m \in Node : node[m] \in NodeRecord
  BY DEF TypeOK, NodeRecord, StorageState
<1>3. entry \in Entry /\ entry.term = nd.term
  BY <1>1, <1>2 DEF Put, Entry
<1> HIDE DEF entry, ok, v
<1>4. args \in AppendArgs /\ args.entries = <<entry>> /\ args.term = nd.term
  BY <1>2, <1>3 DEF AppendArgs
<1>5. Takes(nd, logged, entry)
  <2>1. AppendLog(nd.storage, entry) \in StorageState
    BY <1>2, <1>3, AppendLogType
  <2>2. AppendLog(nd.storage, entry) = [nd.storage EXCEPT !.wal = @ \o <<entry>>]
    <3>1. Append(nd.storage.wal, entry) = nd.storage.wal \o <<entry>>
      BY <1>2, <1>3, AppendIsConcat
    <3> QED
      BY <3>1 DEF AppendLog
  <2>3. /\ logged \in NodeRecord /\ logged.term = nd.term
        /\ logged.commitIndex = nd.commitIndex
        /\ logged.storage = [nd.storage EXCEPT !.wal = @ \o <<entry>>]
    BY <1>2, <2>1, <2>2 DEF NodeRecord
  <2> DEFINE entries == <<entry>>
  <2>4. /\ entries \in Seq(Entry)
        /\ \A i \in 1..Len(entries) : entries[i].term = logged.term
    BY <1>3, <2>3
  <2>5. logged.storage.wal = nd.storage.wal \o <<entry>>
    BY <1>2, <2>3 DEF StorageState
  <2>6. Grows(nd, logged)
    <3>1. /\ logged.storage = [nd.storage EXCEPT !.wal = @ \o entries]
          /\ logged.term >= nd.term
      BY <1>2, <2>3
    <3> HIDE DEF logged, nd, entries
    <3> QED
      BY <1>2, <2>3, <2>4, <3>1, AppendedGrows
  <2> HIDE DEF logged
  <2> QED
    BY <2>3, <2>5, <2>6 DEF Takes
<1> HIDE DEF logged
<1>6. Takes(nd, own, entry)
  <2> DEFINE index == LastLogIndex(logged.storage)
             x == CommittedUpTo(logged, index)
  <2>1. logged \in NodeRecord /\ Grows(nd, logged)
        /\ logged.storage.wal = nd.storage.wal \o <<entry>>
    BY <1>5 DEF Takes
  <2>2. index \in Nat /\ index = Len(logged.storage.wal)
    BY <2>1, NodeLog DEF LastLogIndex
  <2> HIDE DEF index
  <2>3. x \in NodeRecord /\ Grows(logged, x) /\ x.storage.wal = logged.storage.wal
    <3>1. x \in NodeRecord
      BY <2>1, <2>2, CommittedUpToEffect
    <3>2. index <= Len(logged.storage.wal)
      BY <2>2
    <3>3. Grows(logged, x) /\ x.storage.wal = logged.storage.wal
      BY <2>1, <2>2, <3>2, CommittedGrows
    <3> QED
      BY <3>1, <3>3
  <2> HIDE DEF x
  <2>4. Takes(nd, x, entry)
    BY <1>2, <2>1, <2>3, GrowsTwice DEF Takes
  <2> QED
    BY <1>5, <2>4 DEF x, index
<1> HIDE DEF own, args, nd
<1>7. ASSUME NEW m \in Node
      PROVE  IF m \in acks THEN Takes(node[m], node'[m], entry)
                           ELSE node'[m] = node[m]
  <2>1. CASE m = n
    BY <1>1, <1>6, <2>1 DEF nd
  <2>2. CASE m # n /\ Answers(n, m)
    <3>1. node'[m] = AfterAppendEntries(node[m], args)
      BY <1>1, <2>2
    <3>2. IF AcceptsAppend(node[m], args)
          THEN Takes(node[m], AfterAppendEntries(node[m], args), entry)
          ELSE AfterAppendEntries(node[m], args) = node[m]
      BY <1>2, <1>3, <1>4, EntryIsTaken
    <3> QED
      BY <2>2, <3>1, <3>2
  <2>3. CASE m # n /\ ~Answers(n, m)
    BY <1>1, <2>3
  <2> QED
    BY <2>1, <2>2, <2>3
<1>8. acks \in SUBSET Node /\ node' = [m \in Node |-> node'[m]]
  BY <1>1
<1> HIDE DEF acks
<1> QED
  BY <1>1, <1>7, <1>8 DEF entry, nd, v

------------------------------------------------------------------------------
(* The steps: write, initialize, and those that leave every log alone. *)

LogsStay ==
  /\ node' = [m \in Node |-> node'[m]]
  /\ \A m \in Node : KeepsLog(node[m], node'[m])
  /\ UNCHANGED <<writes, acked, missed>>

LEMMA ChangedNodeStays ==
  ASSUME node \in [Node -> NodeRecord], NEW n \in Node, NEW x,
         KeepsLog(node[n], x), node' = [node EXCEPT ![n] = x]
  PROVE  /\ node' = [m \in Node |-> node'[m]]
         /\ \A m \in Node : KeepsLog(node[m], node'[m])
<1>1. ASSUME NEW m \in Node PROVE KeepsLog(node[m], node'[m])
  <2>1. node'[m] = IF m = n THEN x ELSE node[m]
    OBVIOUS
  <2> QED
    BY <2>1, SameNodeKeeps
<1> QED
  BY <1>1

LEMMA TickLeavesLogs ==
  ASSUME TypeOK, NEW n \in Node, Tick(n)
  PROVE  LogsStay
<1>0. node \in [Node -> NodeRecord]
  BY DEF TypeOK
<1>1. /\ node' = IF Frozen(n) THEN node
                 ELSE IF ElectionDue(node[n]) THEN AfterElection(n)
                 ELSE IF HeartbeatDue(node[n]) THEN AfterHeartbeats(n)
                 ELSE [node EXCEPT ![n] = Ticked(@)]
      /\ UNCHANGED <<writes, acked, missed>>
  BY DEF Tick, history
<1>2. CASE node' = node
  BY <1>0, <1>1, <1>2, SameNodeKeeps DEF LogsStay
<1>3. CASE node' = AfterElection(n)
  <2>1. node' = [m \in Node |-> node'[m]]
    BY <1>3 DEF AfterElection
  <2> QED
    BY <1>0, <1>1, <1>3, <2>1, ElectionKeepsLogs DEF LogsStay
<1>4. CASE node' = AfterHeartbeats(n)
  <2>1. node' = [m \in Node |-> node'[m]]
    BY <1>4 DEF AfterHeartbeats
  <2> QED
    BY <1>0, <1>1, <1>4, <2>1, HeartbeatsKeepLogs DEF LogsStay
<1>5. CASE node' = [node EXCEPT ![n] = Ticked(node[n])]
  <2>1. KeepsLog(node[n], Ticked(node[n]))
    BY <1>0, TickKeeps
  <2> QED
    BY <1>0, <1>1, <1>5, <2>1, ChangedNodeStays DEF LogsStay
<1> QED
  BY <1>1, <1>2, <1>3, <1>4, <1>5

LEMMA StepKinds ==
  ASSUME TypeOK, Next
  PROVE  \/ LogsStay
         \/ \E n \in Node, k \in Key : Write(n, k)
         \/ Initialize
<1>0. node \in [Node -> NodeRecord]
  BY DEF TypeOK
<1>1. CASE TickAll
  BY <1>1, TickLeavesLogs DEF TickAll
<1>2. ASSUME NEW n \in Node, Kill(n) \/ Recover(n) PROVE LogsStay
  <2>1. PICK x \in {Crashed(node[n]), Recovered(node[n])} :
          node' = [node EXCEPT ![n] = x]
    BY <1>2 DEF Kill, Recover
  <2>2. KeepsLog(node[n], x)
    BY <1>0, CrashKeeps
  <2>3. UNCHANGED <<writes, acked, missed>>
    BY <1>2 DEF Kill, Recover, Fault
  <2> QED
    BY <1>0, <2>1, <2>2, <2>3, ChangedNodeStays DEF LogsStay
<1>3. ASSUME Heal \/ \E cut \in Cuts : Partition(cut) PROVE LogsStay
  <2>1. node' = node /\ UNCHANGED <<writes, acked, missed>>
    BY <1>3 DEF Heal, Partition, Fault
  <2> QED
    BY <1>0, <2>1, SameNodeKeeps DEF LogsStay
<1> QED
  BY <1>1, <1>2, <1>3 DEF Next

------------------------------------------------------------------------------
(* Type correctness. *)

LEMMA NewNodeType == NewNode \in NodeRecord
<1>1. EmptyStorage \in StorageState
  BY DEF EmptyStorage, StorageState
<1> QED
  BY <1>1, ZeroTicks DEF NewNode, NodeRecord

LEMMA TypesInitially == Init => TypeOK
<1> SUFFICES ASSUME Init PROVE TypeOK
  OBVIOUS
<1>1. node \in [Node -> NodeRecord]
  BY NewNodeType DEF Init
<1>2. faults \in 0..MaxFaults /\ calm \in 0..Patience
  BY DriverAssumption DEF Init
<1>3. acked \in [Key -> 0..writes]
  BY DEF Init
<1> QED
  BY <1>1, <1>2, <1>3 DEF Init, TypeOK

LEMMA NodesKeepType ==
  ASSUME TypeOK, Next
  PROVE  node' \in [Node -> NodeRecord]
<1>0. \A m \in Node : node[m] \in NodeRecord
  BY DEF TypeOK
<1>1. CASE LogsStay
  BY <1>1 DEF LogsStay, KeepsLog
<1>2. ASSUME NEW n \in Node, NEW k \in Key, Write(n, k)
      PROVE  node' \in [Node -> NodeRecord]
  <2>1. /\ node' = [m \in Node |-> node'[m]]
        /\ \A m \in Node : \/ \E entry : Takes(node[m], node'[m], entry)
                           \/ node'[m] = node[m]
    BY <1>2, WriteTakes
  <2>2. \A m \in Node : node'[m] \in NodeRecord
    BY <1>0, <2>1 DEF Takes
  <2> QED
    BY <2>1, <2>2
<1>3. CASE Initialize
  BY <1>3, NewNodeType DEF Initialize
<1> QED
  BY <1>1, <1>2, <1>3, StepKinds

LEMMA TypesNext == TypeOK /\ [Next]_vars => TypeOK'
<1> SUFFICES ASSUME TypeOK, [Next]_vars PROVE TypeOK'
  OBVIOUS
<1>1. CASE UNCHANGED vars
  BY <1>1 DEF TypeOK, vars, network, history
<1>2. CASE Next
  <2>1. node' \in [Node -> NodeRecord]
    BY <1>2, NodesKeepType
  <2>2. /\ MaxFaults \in Nat /\ Patience \in Nat /\ MaxWrites \in Nat
        /\ Value = 1..MaxWrites /\ writes \in Nat
        /\ faults \in 0..MaxFaults /\ calm \in 0..Patience
    BY DriverAssumption DEF TypeOK
  <2>3. ASSUME NEW n \in Node, Tick(n) PROVE TypeOK'
    <3>1. calm' \in 0..Patience
      BY <2>2, <2>3 DEF Tick, Lower
    <3>2. due' \subseteq Node
      BY <2>3 DEF Tick, Pending, TypeOK
    <3> QED
      BY <2>1, <2>3, <3>1, <3>2 DEF Tick, TypeOK, network, history
  <2>4. ASSUME NEW n \in Node, NEW k \in Key, Write(n, k) PROVE TypeOK'
    <3>1. missed' \subseteq Node
      BY <2>4, WriteTakes DEF TypeOK
    <3>2. /\ writes' = writes + 1 /\ writes' \in Value
          /\ acked' \in {acked, [acked EXCEPT ![k] = writes']}
          /\ calm' = 0 /\ UNCHANGED <<network, due, faults, split>>
      BY <2>4 DEF Write
    <3>3. acked' \in [Key -> 0..writes']
      <4>1. /\ writes' \in 0..writes' /\ \A i \in 0..writes : i \in 0..writes'
        BY <2>2, <3>2
      <4>2. acked \in [Key -> 0..writes]
        BY DEF TypeOK
      <4> QED
        BY <3>2, <4>1, <4>2
    <3> QED
      BY <2>1, <2>2, <3>1, <3>2, <3>3 DEF TypeOK, network
  <2>5. Fault => /\ faults' \in 0..MaxFaults /\ calm' \in 0..Patience
                 /\ due' = due /\ writes' = writes
    BY <2>2 DEF Fault
  <2>6. ASSUME NEW n \in Node, Kill(n) \/ Recover(n) PROVE TypeOK'
    BY <2>1, <2>5, <2>6 DEF Kill, Recover, TypeOK
  <2>7. ASSUME NEW cut \in Cuts, Partition(cut) PROVE TypeOK'
    <3>1. cut[1] \subseteq Node /\ cut[2] \subseteq Node
      BY DriverAssumption
    <3>2. partitioned' \subseteq Node \X Node
      BY <2>7, <3>1 DEF Partition, TypeOK
    <3> QED
      BY <2>1, <2>5, <2>7, <3>2 DEF Partition, TypeOK
  <2>8. CASE Heal
    BY <2>1, <2>5, <2>8 DEF Heal, TypeOK
  <2>9. CASE Initialize
    <3>1. acked' \in [Key -> 0..writes']
      BY <2>2, <2>5, <2>9 DEF Initialize
    <3> QED
      BY <2>1, <2>5, <2>9, <3>1 DEF Initialize, TypeOK, network
  <2> QED
    BY <1>2, <2>3, <2>4, <2>6, <2>7, <2>8, <2>9 DEF Next, TickAll
<1> QED
  BY <1>1, <1>2

(* Whatever the driver calls, nodes, network and counters keep their types: *)
(* no timer passes its threshold and no campaign or append leaves a record  *)
(* that a node cannot be in.                                                *)
THEOREM DriverTypeCorrect == Spec => []TypeOK
BY TypesInitially, TypesNext, PTL DEF Spec

------------------------------------------------------------------------------
(* One log. *)

LEMMA SameLogInitially == Init => SameLogUnlessMissed
BY DEF Init, SameLogUnlessMissed, NewNode, EmptyStorage

LEMMA SameLogNext ==
  TypeOK /\ SameLogUnlessMissed /\ [Next]_vars => SameLogUnlessMissed'
<1> SUFFICES ASSUME TypeOK, SameLogUnlessMissed, [Next]_vars,
                    NEW m \in Node, NEW n \in Node, m \notin missed', n \notin missed'
             PROVE  node'[m].storage.wal = node'[n].storage.wal
  BY DEF SameLogUnlessMissed
<1>1. m \notin missed /\ n \notin missed
        => node[m].storage.wal = node[n].storage.wal
  BY DEF SameLogUnlessMissed
<1>2. CASE UNCHANGED vars
  BY <1>1, <1>2 DEF vars, history
<1>3. CASE LogsStay
  BY <1>1, <1>3 DEF LogsStay, KeepsLog
<1>4. ASSUME NEW p \in Node, NEW k \in Key, Write(p, k)
      PROVE  node'[m].storage.wal = node'[n].storage.wal
  <2>1. PICK acks \in SUBSET Node :
          /\ missed' = missed \cup (Node \ acks)
          /\ \A q \in Node :
               q \in acks => Takes(node[q], node'[q], Put(node[p].term, k, writes + 1))
    BY <1>4, WriteTakes
  <2>2. m \in acks /\ n \in acks /\ m \notin missed /\ n \notin missed
    BY <2>1
  <2> QED
    BY <1>1, <2>1, <2>2 DEF Takes
<1>5. CASE Initialize
  BY <1>5 DEF Initialize
<1> QED
  BY <1>2, <1>3, <1>4, <1>5, StepKinds

(* Nodes that every write has reached have the same log, entry by entry,    *)
(* through any elections, crashes, returns, cuts and initializes: an entry  *)
(* goes to the end of the leader's log and of the log of each node that     *)
(* acknowledges it, and nothing else touches a log.                         *)
THEOREM LogsAreOne == Spec => []SameLogUnlessMissed
<1>1. Init => TypeOK /\ SameLogUnlessMissed
  BY TypesInitially, SameLogInitially
<1>2. TypeOK /\ SameLogUnlessMissed /\ [Next]_vars => (TypeOK /\ SameLogUnlessMissed)'
  BY TypesNext, SameLogNext
<1> QED
  BY <1>1, <1>2, PTL DEF Spec

------------------------------------------------------------------------------
(* Fresh reads. *)

(* A log of writes in the order in which they were tried, up to the last.   *)
InOrder(wal, last) ==
  \A i \in 1..Len(wal) : /\ wal[i].type = "Put" /\ wal[i].value \in 1..last
                         /\ \A j \in 1..(i - 1) : wal[j].value < wal[i].value

HasWrite(wal, k, v) == \E i \in 1..Len(wal) : wal[i].key = k /\ wal[i].value = v

(* The invariant: each log is in order and the map is what the log makes of *)
(* it, as far as applied; the logs that no write missed have, for each key, *)
(* the write that was acknowledged last.                                    *)
LogsInOrder == \A n \in Node : /\ InOrder(node[n].storage.wal, writes)
                               /\ StorageAgrees(node[n])

AckedInLogs ==
  \A n \in Node \ missed, k \in Key :
    acked[k] # 0 => HasWrite(node[n].storage.wal, k, acked[k])

DriverInv == TypeOK /\ LogsInOrder /\ AckedInLogs

LEMMA OneMoreInOrder ==
  ASSUME NEW wal \in Seq(Entry), NEW last \in Nat, InOrder(wal, last),
         NEW entry \in Entry, entry.type = "Put", entry.value = last + 1
  PROVE  /\ InOrder(wal \o <<entry>>, last + 1)
         /\ HasWrite(wal \o <<entry>>, entry.key, last + 1)
         /\ \A k, v : HasWrite(wal, k, v) => HasWrite(wal \o <<entry>>, k, v)
<1> DEFINE wal2 == wal \o <<entry>>
<1>1. /\ Len(wal) \in Nat /\ Len(wal2) = Len(wal) + 1
      /\ wal2[Len(wal) + 1] = entry
      /\ \A i \in 1..Len(wal) : wal2[i] = wal[i]
  OBVIOUS
<1> HIDE DEF wal2
<1>2. InOrder(wal2, last + 1)
  <2> SUFFICES ASSUME NEW i \in 1..Len(wal2)
               PROVE  /\ wal2[i].type = "Put" /\ wal2[i].value \in 1..(last + 1)
                      /\ \A j \in 1..(i - 1) : wal2[j].value < wal2[i].value
    BY DEF InOrder
  <2>1. CASE i \in 1..Len(wal)
    <3>1. \A j \in 1..(i - 1) : j \in 1..Len(wal)
      BY <1>1, <2>1
    <3>2. /\ wal[i].type = "Put" /\ wal[i].value \in 1..last
          /\ \A j \in 1..(i - 1) : wal[j].value < wal[i].value
      BY <2>1 DEF InOrder
    <3> QED
      BY <1>1, <2>1, <3>1, <3>2
  <2>2. CASE i = Len(wal) + 1
    <3>1. \A j \in 1..(i - 1) : /\ j \in 1..Len(wal) /\ wal2[j] = wal[j]
                                /\ wal[j].value \in 1..last
      BY <1>1, <2>2 DEF InOrder
    <3>2. wal2[i].type = "Put" /\ wal2[i].value = last + 1
      BY <1>1, <2>2
    <3> QED
      BY <3>1, <3>2
  <2> QED
    BY <1>1, <2>1, <2>2
<1>3. HasWrite(wal2, entry.key, last + 1)
  <2>1. Len(wal) + 1 \in 1..Len(wal2)
    BY <1>1
  <2> QED
    BY <1>1, <2>1 DEF HasWrite
<1>4. ASSUME NEW k, NEW v, HasWrite(wal, k, v) PROVE HasWrite(wal2, k, v)
  <2>1. PICK i \in 1..Len(wal) : wal[i].key = k /\ wal[i].value = v
    BY <1>4 DEF HasWrite
  <2>2. i \in 1..Len(wal2) /\ wal2[i] = wal[i]
    BY <1>1
  <2> QED
    BY <2>1, <2>2 DEF HasWrite
<1> QED
  BY <1>2, <1>3, <1>4 DEF wal2

LEMMA StaysInOrder ==
  ASSUME NEW wal, NEW last \in Nat, InOrder(wal, last)
  PROVE  InOrder(wal, last + 1)
<1>1. \A i \in 1..last : i \in 1..(last + 1)
  OBVIOUS
<1> QED
  BY <1>1 DEF InOrder

LEMMA NewNodeInOrder ==
  /\ NewNode.storage.wal = << >> /\ \A last : InOrder(NewNode.storage.wal, last)
  /\ StorageAgrees(NewNode)
<1> DEFINE st == NewNode.storage
<1>1. /\ st.wal = << >> /\ st.lastApplied = 0 /\ st.commitIndex = 0
      /\ st.kv = EmptyStorage.kv /\ NewNode.commitIndex = 0
  BY DEF NewNode, EmptyStorage
<1>2. Replay(EmptyStorage.kv, << >>, 0, 0) = EmptyStorage.kv
  <2>1. \A a, b \in Nat : a = 0 /\ b = 0 =>
          Replay(EmptyStorage.kv, << >>, a, b) = EmptyStorage.kv
    BY EmptyMapType, ReplayNothing
  <2> QED
    BY <2>1
<1> HIDE DEF st
<1>3. InOrder(<< >>, writes) /\ \A last : InOrder(<< >>, last)
  BY DEF InOrder
<1>4. StorageAgrees(NewNode)
  BY <1>1, <1>2 DEF StorageAgrees, st
<1> QED
  BY <1>1, <1>3, <1>4 DEF st

LEMMA DriverInvInitially == Init => DriverInv
<1> SUFFICES ASSUME Init PROVE DriverInv
  OBVIOUS
<1>1. LogsInOrder
  BY NewNodeInOrder DEF Init, LogsInOrder
<1>2. AckedInLogs
  BY DEF Init, AckedInLogs
<1> QED
  BY <1>1, <1>2, TypesInitially DEF DriverInv

LEMMA WriteKeepsDriverInv ==
  ASSUME DriverInv, TypeOK', NEW n \in Node, NEW k \in Key, Write(n, k)
  PROVE  LogsInOrder' /\ AckedInLogs'
<1> DEFINE entry == Put(node[n].term, k, writes + 1)
<1>1. PICK acks \in SUBSET Node :
        /\ missed' = missed \cup (Node \ acks)
        /\ \A m \in Node : IF m \in acks THEN Takes(node[m], node'[m], entry)
                                         ELSE node'[m] = node[m]
  BY WriteTakes DEF DriverInv
<1>2. /\ writes' = writes + 1 /\ writes + 1 \in Value /\ writes \in Nat
      /\ acked' \in {acked, [acked EXCEPT ![k] = writes + 1]}
  BY DriverAssumption DEF Write, DriverInv, TypeOK
<1>3. \A m \in Node : /\ node[m] \in NodeRecord /\ node[m].storage.wal \in Seq(Entry)
                      /\ InOrder(node[m].storage.wal, writes)
                      /\ StorageAgrees(node[m])
  BY NodeLog DEF DriverInv, TypeOK, LogsInOrder
<1>4. /\ entry \in Entry /\ entry.type = "Put" /\ entry.key = k
      /\ entry.value = writes + 1
  <2>1. node[n].term \in Nat
    BY <1>3 DEF NodeRecord
  <2> QED
    BY <1>2, <2>1 DEF Put, Entry
<1> HIDE DEF entry
<1>5. ASSUME NEW m \in Node, m \in acks
      PROVE  /\ InOrder(node'[m].storage.wal, writes + 1) /\ StorageAgrees(node'[m])
             /\ HasWrite(node'[m].storage.wal, k, writes + 1)
             /\ \A j, v : HasWrite(node[m].storage.wal, j, v)
                            => HasWrite(node'[m].storage.wal, j, v)
  <2>1. /\ Grows(node[m], node'[m])
        /\ node'[m].storage.wal = node[m].storage.wal \o <<entry>>
    BY <1>1, <1>5 DEF Takes
  <2>2. StorageAgrees(node'[m])
    BY <1>3, <2>1 DEF Grows
  <2> QED
    BY <1>2, <1>3, <1>4, <2>1, <2>2, OneMoreInOrder
<1>6. LogsInOrder'
  <2>1. ASSUME NEW m \in Node
        PROVE  InOrder(node'[m].storage.wal, writes + 1) /\ StorageAgrees(node'[m])
    BY <1>1, <1>2, <1>3, <1>5, StaysInOrder
  <2> QED
    BY <1>2, <2>1 DEF LogsInOrder
<1>7. AckedInLogs'
  <2> SUFFICES ASSUME NEW m \in Node \ missed', NEW j \in Key, acked'[j] # 0
               PROVE  HasWrite(node'[m].storage.wal, j, acked'[j])
    BY DEF AckedInLogs
  <2>1. m \in Node \ missed /\ m \in acks
    BY <1>1
  <2>2. acked \in [Key -> 0..writes]
    BY DEF DriverInv, TypeOK
  <2>3. \/ acked'[j] = acked[j]
        \/ j = k /\ acked'[j] = writes + 1
    BY <1>2, <2>2
  <2>4. acked[j] # 0 => HasWrite(node[m].storage.wal, j, acked[j])
    BY <2>1 DEF DriverInv, AckedInLogs
  <2> QED
    BY <1>5, <2>1, <2>3, <2>4
<1> QED
  BY <1>6, <1>7

LEMMA DriverInvNext == DriverInv /\ [Next]_vars => DriverInv'
<1> SUFFICES ASSUME DriverInv, [Next]_vars PROVE DriverInv'
  OBVIOUS
<1>0. TypeOK /\ TypeOK'
  BY TypesNext DEF DriverInv
<1>1. CASE UNCHANGED vars
  BY <1>0, <1>1 DEF DriverInv, LogsInOrder, AckedInLogs, vars, history
<1>2. CASE LogsStay
  <2>1. \A m \in Node : /\ Grows(node[m], node'[m])
                        /\ node'[m].storage.wal = node[m].storage.wal
    BY <1>2 DEF LogsStay, KeepsLog
  <2>2. \A m \in Node : StorageAgrees(node[m]) => StorageAgrees(node'[m])
    BY <2>1 DEF Grows
  <2>3. writes' = writes /\ acked' = acked /\ missed' = missed
    BY <1>2 DEF LogsStay
  <2>4. LogsInOrder'
    BY <2>1, <2>2, <2>3 DEF DriverInv, LogsInOrder
  <2>5. AckedInLogs'
    BY <2>1, <2>3 DEF DriverInv, AckedInLogs
  <2> QED
    BY <1>0, <2>4, <2>5 DEF DriverInv
<1>3. ASSUME NEW n \in Node, NEW k \in Key, Write(n, k) PROVE DriverInv'
  BY <1>0, <1>3, WriteKeepsDriverInv DEF DriverInv
<1>4. CASE Initialize
  <2>1. /\ \A n \in Node : node'[n] = NewNode
        /\ \A k \in Key : acked'[k] = 0
    BY <1>4 DEF Initialize
  <2> QED
    BY <1>0, <2>1, NewNodeInOrder DEF DriverInv, LogsInOrder, AckedInLogs
<1> QED
  BY <1>0, <1>1, <1>2, <1>3, <1>4, StepKinds

(* The last entry of the log that touches a key is no older than any other. *)
LEMMA AppliedLogIsFresh ==
  ASSUME NEW wal \in Seq(Entry), NEW last \in Nat, InOrder(wal, last),
         NEW kv, NEW k \in Key, NEW v, HasWrite(wal, k, v)
  PROVE  Replay(kv, wal, 0, Len(wal))[k] >= v
<1>1. PICK i \in 1..Len(wal) : wal[i].key = k /\ wal[i].value = v
  BY DEF HasWrite
<1>2. Len(wal) \in Nat /\ i \in (0 + 1)..Len(wal) /\ Touches(wal[i], k)
  BY <1>1 DEF Touches, InOrder
<1>3. PICK j \in (0 + 1)..Len(wal) : Decides(j, wal, Len(wal), k)
  BY <1>2, SomeEntryDecides
<1>4. Replay(kv, wal, 0, Len(wal))[k] = Outcome(wal[j])
  BY <1>2, <1>3, ReplayDecided
<1>5. i <= j
  <2>1. ~(i \in (j + 1)..Len(wal))
    BY <1>2, <1>3 DEF Decides
  <2> QED
    BY <1>2, <1>3, <2>1
<1>6. j \in 1..Len(wal) /\ (i = j \/ i \in 1..(j - 1))
  BY <1>2, <1>3, <1>5
<1>7. /\ wal[j].type = "Put" /\ wal[j].value \in 1..last /\ wal[i].value \in 1..last
      /\ i \in 1..(j - 1) => wal[i].value < wal[j].value
  BY <1>1, <1>6 DEF InOrder
<1> QED
  BY <1>1, <1>4, <1>6, <1>7 DEF Outcome

LEMMA InvGivesFresh == DriverInv => FreshOnceApplied
<1> SUFFICES ASSUME DriverInv, NEW n \in Node \ missed,
                    node[n].storage.lastApplied = Len(node[n].storage.wal),
                    NEW k \in Key
             PROVE  node[n].storage.kv[k] >= acked[k]
  BY DEF FreshOnceApplied
<1> DEFINE st == node[n].storage
<1>1. /\ node[n] \in NodeRecord /\ st \in StorageState /\ st.wal \in Seq(Entry)
      /\ st.kv \in [Key -> Value \cup {Nil}]
      /\ writes \in Nat /\ acked[k] \in Nat
  <2>1. node[n] \in NodeRecord /\ acked \in [Key -> 0..writes] /\ writes \in Nat
    BY DriverAssumption DEF DriverInv, TypeOK
  <2> QED
    BY <2>1 DEF NodeRecord, StorageState
<1>2. CASE acked[k] = 0
  <2>1. st.kv[k] \in Nat
    BY <1>1, DriverAssumption
  <2> QED
    BY <1>2, <2>1
<1>3. CASE acked[k] # 0
  <2>1. /\ HasWrite(st.wal, k, acked[k]) /\ InOrder(st.wal, writes)
        /\ StorageAgrees(node[n])
    BY <1>3 DEF DriverInv, AckedInLogs, LogsInOrder
  <2>2. st.kv = Replay(EmptyStorage.kv, st.wal, 0, Len(st.wal))
    BY <2>1 DEF StorageAgrees
  <2> HIDE DEF st
  <2>3. Replay(EmptyStorage.kv, st.wal, 0, Len(st.wal))[k] >= acked[k]
    BY <1>1, <2>1, AppliedLogIsFresh
  <2> QED
    BY <2>2, <2>3 DEF st
<1> QED
  BY <1>2, <1>3

(* A node that no write has missed returns, once it has applied its log,    *)
(* the last acknowledged write of a key or one tried since: the order of a  *)
(* log is that of the writes, and what is acknowledged is in every such log *)
(* and is never taken out.                                                  *)
THEOREM AppliedReadsAreFresh == Spec => []FreshOnceApplied
BY DriverInvInitially, DriverInvNext, InvGivesFresh, PTL DEF Spec

(* Each log has the writes in the order in which they were tried, without   *)
(* repeats, and each node's map and indices are what its log gives, through *)
(* crashes, returns, elections and initializes.                             *)
THEOREM MapsFollowLogs == Spec => []LogsInOrder
<1>1. DriverInv => LogsInOrder
  BY DEF DriverInv
<1> QED
  BY <1>1, DriverInvInitially, DriverInvNext, PTL DEF Spec
==============================================================================
