# QuorumShift in TLA+

Specifications of the replicated key-value store under `src/`: what its nodes,
its cluster, its simulated network, its storage, its quorum engine and its
replica controller do, model-checked with TLC and proved with TLAPS: every safety
property that holds for all values of the constants has a theorem.

## The system

`dss` is a C++20 simulator of a small replicated store in one process. There
are no messages and no persistence: an RPC is a method call that the sender's
thread makes on the receiver, a crash is a flag, and time is a call to
`tick_all`.

| Component | State | Operations |
|---|---|---|
| Storage engine (`src/src/storage.cpp`) | `kv_data_`, `wal_log_`, `last_applied_index_`, `commit_index_` | `append_log`, `apply_committed`, queries; `put`, `remove`, `truncate_logs_after`, `clear`, which no node calls |
| Node (`src/src/node.cpp`) | role, term, vote, `alive_`, commit index, two tick counters, a storage engine | `tick_timer` (and from it `start_election`, `send_heartbeats`), `handle_request_vote`, `handle_append_entries`, `client_write`, `client_read`, `crash`, `recover` |
| Cluster (`src/src/cluster.cpp`) | the nodes, a quorum engine, an adaptive controller | `initialize`, RPC routing, `write`, `read`, `kill_node`, `recover_node`, `partition`, `heal`, `tick_all`, `find_leader` |
| Network simulator (`src/src/network.cpp`) | isolated nodes, partitioned pairs, drop rate; one for the whole process | isolate, unisolate, partition, heal, reachability, random drops |
| Quorum engine (`src/src/quorum_engine.cpp`) | mode, per-node RTT, loss and health | `set_mode`, `register_node`, `update_telemetry`, `is_quorum_satisfied` |
| Adaptive replica controller (`src/src/adaptive_replica.cpp`) | strategy, telemetry, workload signals | `evaluate_policy`, `is_quorum_satisfied`; a cluster only reports health to it |
| `main.cpp`, `benchmark_main.cpp`, the tests | none | drive a cluster, from one thread |
| Logger, Python package, `research/evaluation` | none that the system reads | output, subprocesses, tables |

How they interact: a client's `Cluster::write` finds a leader and calls its
`client_write`, which appends the entry, releases its mutex, calls
`send_append_entries` for every peer in turn, locks again and asks the quorum
engine whether the acks are enough. `tick_timer` does the same with votes and
heartbeats. Every RPC asks the network simulator first. `docs/architecture.md`
also draws a lock-free queue, PBFT and PyBind11 bindings; the repository has no
code for them.

What is hard here, and what each part owes:

- *Interleaving.* Every operation that calls peers works in at least three
  stretches, and between them any other thread may change any node. The network
  answers before the handler runs. `kill_node` and `recover_node` each change
  two components in two steps.
- *Ordering and loss.* Handlers append to the end of the log without looking at
  it; a call lost once is never made again.
- *Crash and recovery.* `recover` keeps the term and the log and erases the vote.
- *Locks.* Methods of a node ask the cluster for `node_count` or `find_leader`
  with the node locked, and `find_leader` locks nodes with the cluster locked.
- *Numbers.* A commit needs 35 % of the healthy nodes, weighed by their RTT and
  loss; an election needs a majority.

The storage owes an applied prefix that never changes; the nodes owe one leader
per term, logs in the order of terms, and that what was acknowledged stays; the
quorum engine owes quorums that meet; the driver owes a leader after a failure.
`PROJECT.json` lists the hazards at their lines, with the properties for each.

## Modules

| Module | Models |
|---|---|
| `Storage` | the storage engine, each method an operator on a record |
| `StorageApi` | one storage engine under any calls of its methods |
| `CommandStore` | what a storage engine promises: commands executed once and in order |
| `StorageApiProofs` | the theorems about `StorageApi` |
| `NodeState` | the fields of a node and its critical sections, operators on a record |
| `NodeStateProofs` | lemmas: what the operators of `Storage` return and how replays chain; what each critical section of a node returns, keeps and appends |
| `QuorumRules` | the three commit rules when every metric is as registered |
| `Cluster` | nodes, network and calling threads, at the grain of the locks |
| `ClusterProofs` | the theorems about `Cluster`: its types and elections, that it implements `Election`, and its logs, commits and acknowledgements |
| `Election` | what elections come to: terms, votes, winners |
| `ElectionProofs` | that `Election` has one winner per term |
| `Locks` | the mutexes of cluster and nodes: who holds what while asking for what |
| `LocksProofs` | the theorems about `Locks` |
| `ClusterDriver` | the same nodes driven by one thread in rounds of ticks: time and liveness |
| `ClusterDriverProofs` | the theorems about the logs and reads of `ClusterDriver` |
| `QuorumEngine` | the quorum engine under telemetry, mode changes and re-initialization |
| `QuorumEngineProofs` | the theorems about `QuorumEngine` |
| `AdaptiveReplica` | the adaptive replica controller and its six placement policies |
| `AdaptiveReplicaProofs` | the theorems about `AdaptiveReplica` |
| `MCCluster`, `MCClusterDriver`, `MCLocks`, `MCStorageApi`, `MCQuorumEngine`, `MCAdaptiveReplica` | values of the constants for TLC |

`Cluster` and `ClusterDriver` extend the same `NodeState`: a handler is
translated once, and used at two grains of atomicity.

### Storage and NodeState

`Storage` keeps the map, the log and both indices. `apply_committed`'s loop
becomes `Replay`: under each key the last applied entry that touches it decides.
Entry indices (always the position), timestamps and `next_index_` and
`match_index_` (written and never read) are left out. In `NodeState` a method
that runs under the lock from end to end is one operator (`Crashed`,
`Recovered`, `AfterRequestVote`, `AfterAppendEntries`); the others are one
operator per stretch: `Ticked`, `Campaigning` and `WinsElection`, `CommittedUpTo`.

### StorageApi and CommandStore

A `Node` appends and applies; the class offers more. `StorageApi` calls `put`,
`remove`, `append_log`, `apply_committed`, `truncate_logs_after` and `clear` in any
order and with any arguments, one step each, since each holds `rw_mutex_` from
end to end. Its entries carry a number in place of a term (the engine reads no
term), so that no two are the same. Three history variables say what the calls
have come to: `done`, the entries applied since the last `clear`; `direct`, the
keys last changed past the log; `skipped`, the entries that took the place of
applied ones. `CommandStore` is the same store without log and indices: it
executes batches of commands, each once and in order. Its folding over a batch
is the reference that `Replay` is checked against.

### Cluster

A thread has a `frame`: where it is and the locals of the call it is in. An
action takes it from one point where no lock protects it to the next.

| Code | Actions |
|---|---|
| `tick_timer` | `Tick`, then `StartElection` or `SendHeartbeats` after the unlock |
| `start_election` | `StartElection`, per peer `Send`/`LoseCall` and `RequestVote`, `FinishElection` |
| `send_heartbeats` | `SendHeartbeats`, per peer `Send`/`LoseCall` and `AppendEntries`, `FinishHeartbeat` |
| `Cluster::write`, `client_write` | `Write`, `ClientWrite`, `ReadCommit`, the RPCs, `FinishWrite` |
| `Cluster::read`, `client_read` | `Read`, then `ReturnEarly` or `SelfDeadlock` |
| `kill_node`, `recover_node` | `Kill` then `Isolate`; `Unisolate` then `Recover` |
| `partition`, `heal` | `Partition`, `Heal` |

Choices worth knowing:

- An RPC is two steps, because the network decides before the handler runs:
  between them the receiver may die, be isolated or cut off. `is_alive` and the
  handler are one step, since the handler looks at `alive_` again and a refusal
  counts as little as no answer.
- The peer loop runs in order, as in the code; the set `acks` stands for the
  count (`votes_granted`) or the list (`acked_nodes`), which hold a node once.
- `commit_index_` is read after the unlock (`node.cpp:257`), which is a data race
  in C++. `ReadCommit` is a step of its own, so the model has every value the
  field takes; values that no thread ever wrote are left aside.
- `find_leader` is one step although it locks the nodes one by one. What it
  returns may be stale when used, and the models have that: the call is made in a
  later step, and looks at the node again.
- The controller's report is joined to the step before it; nothing in a cluster
  reads it.
- A thread that locks its own mutex again hangs for good (`hung`), with the
  cluster's mutex held. What that takes from the other threads is left to `Locks`:
  here they go on as if the hanging call had been put off, which keeps every state
  of the code and adds none of nodes or network that is not reached without the
  hang.
- Each write stores a value of its own, so that an entry tells which write made
  it. `won`, `granted`, `forgot` and `acked` are history: no action reads them.

### Election

`Election` knows voters, terms, votes, winners, and terms in which a vote was
erased. Its rules are what is left of Raft's in this code: a node that has voted
for itself may, unless it has won, vote for one other (a candidate that steps
down in its own term loses `voted_for_`, `node.cpp:203`), and of a term in which
`recover` erased a vote nothing is said. `Cluster` implements it under the mapping
in `Ballots`: `term` from the nodes, `votes` and `won` from the history, `erased`
from `forgot`; requests, replies, threads, the network, logs and timers are not
seen.

### Locks

Every stretch of code under one mutex that asks for no other is one step, possible
while that mutex is free; what is left are the stretches that ask for a second
one, and those are two steps with the first mutex held between them.

| Code | Actions |
|---|---|
| `tick_timer` | `Tick` |
| `start_election`, `send_heartbeats`, `client_write` | `StartElection`, `SendHeartbeats`, `ClientWrite` with the node kept locked; `NodeCount` locks the cluster and unlocks both; per peer `GetNode` and `Handle`; `Relock` |
| `client_read`, and `client_write` at a node that does not lead | `AskForLeader`, the node kept locked for the scan |
| `find_leader`, `get_cluster_status` | `LockCluster`, then `Scan` and `Confirm` node by node, the cluster kept locked |
| `Cluster::write`, `Cluster::read` | `StartScan`, the scan, `AfterScan`, `GetNode` |
| `kill_node`, `recover_node` | `Kill`, `Recover` |

Roles are kept, because they decide which call asks for what; terms, votes and
the network are not, and every way the calls may go with them is possible. The
mutexes of network, storage, quorum engine, controller and logger are never held
while another is asked for, so no wait goes through them.

### ClusterDriver

With one caller every call runs to its end, and an RPC changes only its
receiver, so a campaign, a round of heartbeats or a write is one step. What
remains open is which calls the program makes. `tick_all` meets the nodes in the
order of a hash map, which stays what it is from one `initialize` to the next;
nodes differ in nothing but their ids, so one order stands for all, and `Cuts`
has to treat the nodes alike. `Initialize` makes new nodes and leaves the
network as it is: `NetworkSimulator` is one for the process, and a new node is
unreachable if the old one of its id was. `calm` counts the full rounds since the
last call that was not a tick. `acked`, by key the last write that reported
success, and `missed`, the nodes some entry did not reach, are history: they say
what a read owes, and from which nodes.

### QuorumEngine

RTTs are whole milliseconds and losses whole percents. A weight is counted in
units of `1/Scale`, with telemetry chosen so that every weight is a whole number
of them (`WeightsAreExact`, evaluated by TLC): the comparison is that of the
code, without its rounding. The code's own words on the share differ: its comment
asks for "> 35%" (`quorum_engine.cpp:85`) and the test speaks of "> 45% capacity"
(`tests/test_quorum.cpp:43`) where two acks of five are 40 %; the comparison in the
code is `>= 0.35`, and that is modelled. The two differ where no node is reported
healthy: capacity, threshold and acked weight are then 0, and the ack of an
unhealthy node commits, which `HealthyAcksCommit` states as the one case in which
no healthy node backs a commit. No part of the program but the tests reports
telemetry to the engine, so a running cluster gets there only if its embedder
does so through `quorum_engine()`. `Initialize` is what `Cluster::initialize` does to
the engine: it registers the new nodes and forgets none of the old.

### AdaptiveReplica

`evaluate_policy` returns one decision; `Decisions` is the set of all that it may
return, because `std::sort` leaves equals in any order and the racks come from a
hash map. Scores are scaled by ten to whole numbers. The registered nodes are
those of a cluster, in its three racks. Nothing else in the program asks for a
decision: `Cluster` only tells the controller who is up. `Total` stops at nine,
because at ten the code's `1.0 - 7.0 / 10` is more than `0.3` by rounding. Five
nodes have every way of falling short of healthy nodes or of racks; only the
factor of seven is not seen with them, and it asks for more than half of the
nodes to be down, when the clamp takes it back to the healthy ones anyway.

## Runs

N = 3 in every run of the cluster that must pass: the smallest size in which a majority is
neither one node nor all of them.

| Run | Shows | Bounds |
|---|---|---|
| `ConcurrentWrites` | types; what threads rely on in the middle of a call (`LogInv`); commit index, applied index and map agree; nothing appended twice, applied before its ack, or unapplied | 2 threads, 2 values, node 1 leads, is killed and recovered, lossy |
| `Failover` | the inductive invariants of the election and of the logs, one winner per term, `Cluster` implements `Election`; order of terms in logs, entries come from winners, acknowledged writes stay on a quorum, later winners' logs reach their terms | 2 threads, a write during a change of leader, terms to 2, lossy, node 1 cut off and healed at any point |
| `LockOrder` | a mutex is held by just the threads inside it; every deadlock has a scan in it; every call returns or is part of one | 3 nodes, 2 threads, any 4 calls |
| `StorageCalls` | entries applied once, in order; committed means applied or in an applied one's place; the log rebuilds the map; `CommandStore` is implemented | 2 keys, puts, deletes and a no-op, 3 appends, any indices |
| `CommitQuorums` | the rule on fresh metrics is `QuorumRules`' and never easier with left-over nodes; a dynamic commit has 35 % of the healthy nodes, unless none is healthy, when any ack commits; no acks are enough where all healthy nodes are too slow, and all of them are where none is; quorums meet up to four nodes; slowing a node down never helps a commit | sizes 1 to 5; normal nodes, nodes just fast enough (39 ms), slow and lossy ones |
| `Placement` | the controller knows what was last reported of each node; no decision of an adaptive policy has disjoint quorums or more acks to ask for than replicas; the failure-domain policy survives the loss of a rack; a node that gets worse or fails is not chosen for it | five nodes, fresh, slow, lossy, busy or down; three workloads |
| `Rounds` | ten rounds after the last of three kills, recoveries, cuts, heals or initializes a connected majority has a leader and its commit index, five rounds after two of them without a cut; nodes no write missed have equal logs and, once these are applied, never answer with less than was acknowledged; if a majority stays connected, leaders return for ever | the code's timers (3 and 1), two writes, any one node cut off |

Five more runs refute what the repository says of itself; each is a finding in
`PROJECT.json` with the line it quotes.

| Run | What fails |
|---|---|
| `VoteForgotten` | two winners of a term, after a voter was killed and recovered |
| `ConcurrentDivergence` | two writes applied in opposite orders |
| `ThreadsWaitForever` | an election and a write wait for each other's mutex |
| `QuorumOverlap` | a dynamic commit of five that an election majority misses |
| `StaleReads` | a new leader returns an older value than was acknowledged |

The bounds, by name. `Timed` and `Victims` are the nodes that time out and that
are killed; `MaxTerm` the last term an election starts in. Two campaigns of one
term and a change of leader need two candidates and two terms. In the runs of
`Cluster` both thresholds are 1: `tick_timer` is public for each node, so with
threads ticking freely any node may time out at any point, and larger thresholds
only repeat states. `ClusterDriver` has the code's thresholds, 3 and 1.
`MaxFaults` and `MaxWrites` bound its calls; `Patience` is how long it waits
before it expects something. There `MaxTerm` stops only the timers of nodes that
are in no connected majority (`Frozen`): they cannot win, and their terms would
grow for ever. More faults need more rounds, because they leave logs and terms
that differ: five are enough after two without a cut, as `tests/test_cluster.cpp:35`
and `main.cpp:143` wait, ten after three of any kind. In `Locks`, `MaxCalls` bounds
the calls that are started; a deadlock of two threads needs two calls, and the
write and the read of a leader that is deposed meanwhile need four. In
`StorageApi`, `MaxAppends` bounds the entries: three are enough for one applied,
cut off, replaced, and followed by another.

The node that a read falls back to, a live one that does not lead, hangs by
itself: `client_read` calls `find_leader` with the mutex held that `find_leader`
locks. `Cluster` has this as `SelfDeadlock`, and `Locks` as a deadlock of one
thread, which is one reason why `DeadlocksNeedScan` and not the absence of
deadlocks is what passes.

Deadlock in TLC's sense is checked in every run of `ClusterDriver`, `StorageApi`,
`QuorumEngine` and `AdaptiveReplica`. The runs of `Cluster` and of `Locks` say
`CHECK_DEADLOCK FALSE`: a cluster with threads that wait for each other really
stops, and `Locks` stops when its calls are used up.

Symmetry is used for threads and values, never for nodes: the loops run through
their ids in order.

Fairness: `FairSpec` has weak fairness of `TickAll` alone, which says that a
program that waits for its cluster goes on calling `tick_all`, as `main.cpp:57-60`
and `82-85` do. No fairness is assumed of any other call, nor of the order within
a round beyond every node being ticked once in it. In `Locks` each thread has weak
fairness of its own next step inside a call (`Continue`): the operating system runs
a thread that can go on. `std::mutex` owes no thread its turn, and the model asks
for none: calls are finitely many, so no mutex is taken away for ever except by
threads that hold it for ever, which is what the property is about. The premise of
`LeaderReturns`, that a majority stays connected from some point on, is the
property's own.

## Proofs

### One winner per term

`ClusterProofs` proves, for every `N`, every set of threads, keys and values, any
thresholds and any bounds, from the named assumptions about constants alone
(`NilAssumption`, `SizeAssumption`, `TimerAssumption`, `ClusterAssumption`):

- `TypeCorrect`: `Spec => []TypeOK`. `TypeOK` is inductive; one step per action,
  on lemmas of what each `NodeState` operator returns.
- `ElectionInvariant`: `Spec => []ElectionInv`.
- `ElectionSafe`: `Spec => []ElectionSafetyUnlessRecovered`.

The argument. Two quorums of votes for a term share a voter (`QuorumsMeet`), so
two winners need a voter with two votes in the term. A node may have several,
because there are three ways to lose a vote: a later term, a recovery, and a
candidate that steps down for a leader of its own term (`node.cpp:203`). The last
one needs care, since it does not change the term: such a node has voted for
itself, forgets it, and may vote for another. `OneVote` therefore speaks of votes
for *others*: in a term no vote of which was erased, a node votes for at most one
other, and for none if it has won. `PresentVote` makes that inductive (the vote
for another is still in `voted_for_` in the present term), `RolesMatchVotes` says
what a candidate's vote is, `PastTerms` that a term ahead holds no votes, and
`BallotsCounted` that what a campaign counts was given. If two nodes win a term,
the shared voter voted for both; it is then one of the two winners, or it voted
for two others, and `OneVote` excludes each case. TLC checks `ElectionInv` in the
run `Failover`.

### The election as an abstraction

`ElectionProofs` proves of the rules alone that a term no vote of which was erased
has one winner, for any voters and any quorums that meet (`OneWinnerPerTerm`); its
invariant, `BallotInv`, is three lines. `ClusterProofs` proves
`ImplementsElection`: `Spec => ElectsByBallots`, one step of the proof per action
of `Cluster`, on the invariant of `ClusterProofs`. The step that takes thought is
a granted vote (`VoteIsFree`): `votedFor` allows it, and `PresentVote` and
`OneVote` give from that what `Election` asks, that the voter has neither won the
term nor voted for a third. TLC checks the same refinement in the run `Failover`,
where no node recovers; that a recovery is an `Erase` rests on the proof.

### Locks

`LocksProofs` proves for any nodes, threads and calls, from `LocksAssumption`:

- `LocksTypeCorrect`: `Spec => []TypeOK`. The last conjunct of `TypeOK` ties
  `owner` to the points of the threads, and is what makes it inductive.
- `OnlyScansDeadlock`: `Spec => []DeadlocksNeedScan`. Threads that wait for each
  other each hold something; a thread that holds a node and is not scanning asks
  for the cluster's mutex, which only a scanning thread holds; so there is a
  scanning thread among them, and the node it asks for is held by itself or by a
  thread that asks for the cluster.

### Logs and acknowledgements

`ClusterProofs` goes on to prove, from the same assumptions and for any number of
nodes and threads, every mode, lost calls, crashes and recoveries:

| Theorem | Property |
|---|---|
| `ThreadsRelyOnLogs` | `LogInv` |
| `StorageInStep` | `StorageAgreesWithNode` |
| `TermsInOrder` | `LogTermsMonotonic` |
| `EntriesHaveWinners` | `EntriesFromWinners` |
| `WritesAppendedOnce` | `AppendedOnce` |
| `AppliesWhatWasAcked` | `AppliedAfterAck` |
| `AcksStayOnQuorum` | `AckedOnQuorum` |
| `NothingUnapplied` | `AppliedForGood` |
| `AckedTermsReachWinners` | `AckedTermReachesLaterWinners`, if commit quorums and election majorities meet |
| `AckedTermsReachWinnersWhere` | the same where they do: fixed majority, flexible with an even `N`, or `N <= 4` |

No property of the log is inductive by itself, since an entry is on its way while
the thread that writes it holds no lock. `LogInv` says what such a thread may rely
on: a leader has won its term (`LeadersWon`); a write under way is of a term its
node has won, in that node's log, in the logs of those
whose acks it counts (`WritesEntered`); no other thread writes its value, and the
peers it has still to call do not have it (`ValuesApart`), which is what keeps a
handler that appends without looking from appending twice; the commit index a
thread sends has been acknowledged (`CommitsAcked`); and a candidate's log ends no
earlier than its voters' logs did (`VotersLogsSeen`). `LogsInv` adds the properties
themselves, is inductive given `TypeOK` and `ElectionInv`, and is proved one action
at a time. Two facts carry most of it: logs only grow (`Grows`), so what was once
in a log or below an applied index stays there; and a node's term is never behind
those of its entries, while it appends entries of its present term alone. `LogInv`
is checked by TLC in both runs of the cluster before it is relied on.

`AckedTermReachesLaterWinners` is what is left of leader completeness. An
acknowledged write is on a commit quorum, a later winner had votes of a majority,
and a node in both passes the write's term on: it had the write when it voted,
since after the vote its term is too high for it to take one of an earlier term.
The premise that the quorums meet is no assumption on the constants: the second
theorem says where it holds, and the run `QuorumOverlap` shows five nodes in the
dynamic mode, where it does not.

### One driver

`ClusterDriverProofs` proves, for any number of nodes, any keys, cuts, timers and
bounds, from `DriverAssumption` and those of `NodeState`:

- `DriverTypeCorrect`: `Spec => []TypeOK`, inductive as it stands. A timer that
  fires is reset in the same step, which keeps it below its threshold.
- `LogsAreOne`: `Spec => []SameLogUnlessMissed`. Every step but `initialize` and
  `write` leaves every log alone (`StepKinds`), and `write` puts one entry at the
  end of the logs of the leader and of those that acknowledge it (`WriteTakes`);
  all others join `missed`. So the property is inductive, and that without a word
  on terms or leaders: the write of a deposed leader marks the nodes that refuse it.
- `AppliedReadsAreFresh`: `Spec => []FreshOnceApplied`, what is left of the
  "0 stale reads" that `StaleReads` refutes. Its invariant, `DriverInv`, has three
  parts besides the types. Each log is in the order in which its writes were tried
  (`InOrder`, since the number of tries only rises), each map is what its log
  gives, as far as applied (`StorageAgrees`, by the same lemmas as in `Cluster`), and the logs
  that no write missed have, for each key, the write last acknowledged
  (`AckedInLogs`). The last entry that touches a key decides a replay, and in such a
  log it is no older than that write (`AppliedLogIsFresh`).
- `MapsFollowLogs`: the first two parts, of every node, whatever it has missed.

### The storage

`StorageApiProofs` proves for any keys, values, commands and numbers of appends,
from `NilAssumption` and `ApiAssumption`:

- `StorageTypeCorrect` (types, and the order of the indices),
  `EntriesApplyOnceInOrder` and `CommittedApplyOrSkip`. The invariant `StorageInv`
  adds what relates log and history: entries that the replay has not passed are
  younger than everything applied and are not skipped (`Younger`), and each entry it
  has passed was applied or skipped, never both (`PassedOrSkipped`). Truncation keeps
  both because it only shortens the log, and appending because a new entry is the
  youngest of all.
- `LogHoldsTheMap`: `Spec => []LogRebuildsMap`. It rests on `ReplayChain` of
  `NodeStateProofs`: to replay up to one index and from there to another is to replay
  at once.
- `StorageExecutesCommands`: `Spec => ExecutesCommands`, the refinement of
  `CommandStore`. Applying a stretch of the log is an `Execute` of its commands
  (`ApplyExecutes`); `put` and `remove` are the direct writes; appending and
  truncating are stutters, and `clear` starts anew. The heart is `FoldIsReplay`: the
  code's result, in which under each key the last entry decides, is the fold of the
  commands one at a time.

### The quorum engine

`QuorumEngineProofs` proves for any cluster sizes, telemetry and scale, from
`EngineAssumption`: `EngineTypeCorrect`, `FreshMetricsAreFlat`,
`HealthyNodesBackCommits`, `SlowClustersStall`, `SmallCommitsMeetElections` and the
action property `SlowdownIsSafe`. `FreshMetricsAreFlat` is what joins the two models of the rule: on
metrics as registered, the weighed sum of acks decides as the threshold that
`Cluster` takes from `QuorumRules`. The others rest on two facts about sums of
weights: bounds of the weights bound their sum (`SumBetween`), so that a sum bounds
a count (`AckedWeightBound`), and weights that fall make it fall (`SumFalls`).
`SlowClustersStall` bounds the weights by the share itself, and is the only theorem
that uses `WeightsAreExact` (`WeightAndShare`): rounding down could take a weight
of just 0.35 below it. The other theorems hold for weights rounded down, too.

### The replica controller

`AdaptiveReplicaProofs` proves for every cluster the model allows, any reports and
any signals, from `ControllerAssumption`: `ControllerTypeCorrect`,
`DecisionQuorumsMeet`, `DecisionsCanBeMet`, `RackLossIsSurvived` and the action
property `WorseIsNotNamed`. The run has five nodes; the theorems go to nine, and to
the factor of seven that five nodes never ask for.

The two about quorums rest on `ChosenReplicas`: a policy that chooses names as many
healthy nodes as there are, up to a factor `k`, and asks for `k \div 2 + 1` acks,
where `k` is 3 or no more than the healthy nodes. That it names so many is a fact
about cutting a sorted list: in an order without ties the first `k` of a set are
`k`, or all (`FirstBy`; a rank is an injection into `1..k`, and if the least one
left out had a rank below `k` it would be in). `RackPlacement` adds the racks, where
the first nodes of the chosen racks are different nodes, and the lowest ids fill
up.

With ties `Best` is a set of cuts, and `WorseIsNotNamed` asks which nodes are in
some of them. A node is in some cut of `k` just if fewer than
`k` are strictly better: those who are come before it in every order
(`NamedHasFewBetter`), and an order that puts it before its equals, `IdFirst`, has
it among the first `k` (`FewBetterMayBeNamed`). A node that has failed is in none of
them. When one that stays healthy gets worse, its own key rises and
the others stay, so that no fewer are better than it (`RisenKey`), and both keys, the RTT and
the score, rise with the rates. The other policies look at who is healthy and at
nothing else.

### How induction is done

The provers installed take no operator as a parameter, and the library's rules of
induction need one. Where a proof is by induction on a bound, it takes the least
counterexample instead (`WFMin` on the natural numbers, as `Least`, `Smallest`,
`Fewest`, `SmallestSubset`), and shows that there is a smaller one. `FoldExists`,
`FoldIsReplay` and the sums over sets of acks are done so.

### Only model-checked

- Liveness (`LeaderReturns`, `CallsReturnOrHang`): it needs fairness and `ENABLED`,
  which the proof system does not handle.
- `LeaderWithinPatience` and `HeartbeatsSpreadCommit` hold for the values of the
  timers and of `Patience` that the code and its tests have, and not for every
  value: there is nothing to prove for all constants.

`NodeStateProofs` holds the lemmas about `Storage` as well, so `StorageApiProofs`,
which extends it, sees the constants of a node; no theorem there uses them.

## Not modelled

Latency and wall-clock time; logging; the storage's const methods, which return
parts of a state that the properties look at directly; the mutexes that are never
held while another is asked for; `calculate_node_weight`, which reads the engine's
metrics without their mutex and which nothing calls; `set_drop_rate` while a
cluster runs (`Lossy` is fixed) and `reset`, which only tests call; everything in
Python. Integers of the code are 64 bits wide and count terms, ticks and entries:
their overflow is out of reach and they are unbounded here.

## Plan

1. The controller's claims that fail, each against the line that makes it: the
   proposed placement looks at no rack (`research/paper/introduction.tex:18` says it
   spreads replicas over racks), and factors 5 and 7 are taken back under failures.
2. An abstract store of acknowledged writes for `ClusterDriver`.
3. `Cluster` with five nodes and the dynamic mode, where commit quorums are
   minorities.
4. Proofs: that each call of `ClusterDriver` is a run of `Cluster`'s steps with
   the other threads idle, which would carry the theorems of `Cluster` over.
