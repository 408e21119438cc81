--------------------------- MODULE NodeStateProofs ---------------------------
(****************************************************************************)
(* The lemmas that the proofs about the storage, about a node and about a   *)
(* cluster of them rest on, for any keys, values and timers: what the       *)
(* operators of Storage return and what a replay of a log comes to, what    *)
(* the operators of NodeState return, and how the log of a node grows.      *)
(****************************************************************************)
EXTENDS NodeState, WellFoundedInduction, TLAPS

------------------------------------------------------------------------------
(* The storage. *)

LEMMA ReplayType ==
  ASSUME NEW kv \in [Key -> Value \cup {Nil}], NEW wal \in Seq(Entry),
         NEW from \in Nat, NEW to \in 0..Len(wal)
  PROVE  Replay(kv, wal, from, to) \in [Key -> Value \cup {Nil}]
<1> SUFFICES ASSUME NEW k \in Key,
                    \E i \in (from + 1)..to : Decides(i, wal, to, k)
             PROVE  Outcome(wal[CHOOSE i \in (from + 1)..to : Decides(i, wal, to, k)])
                      \in Value \cup {Nil}
  BY DEF Replay
<1> DEFINE last == CHOOSE i \in (from + 1)..to : Decides(i, wal, to, k)
<1>1. last \in (from + 1)..to
  OBVIOUS
<1>2. wal[last] \in Entry
  BY <1>1
<1> QED
  BY <1>2 DEF Outcome, Entry

LEMMA ApplyCommittedType ==
  ASSUME NEW st \in StorageState, NEW upTo \in Nat
  PROVE  ApplyCommitted(st, upTo) \in StorageState
<1> DEFINE to == Lesser(upTo, Len(st.wal))
           kv2 == Replay(st.kv, st.wal, st.lastApplied, to)
           applied2 == Greater(st.lastApplied, to)
<1>1. /\ st.wal \in Seq(Entry) /\ st.lastApplied \in Nat
      /\ st.kv \in [Key -> Value \cup {Nil}]
  BY DEF StorageState
<1>2. to \in 0..Len(st.wal)
  BY <1>1 DEF Lesser
<1>3. kv2 \in [Key -> Value \cup {Nil}]
  BY <1>1, <1>2, ReplayType
<1>4. to \in Nat /\ applied2 \in Nat
  BY <1>1, <1>2 DEF Greater
<1>5. ApplyCommitted(st, upTo) = [st EXCEPT !.kv = kv2, !.lastApplied = applied2,
                                            !.commitIndex = to]
  BY DEF ApplyCommitted
<1> HIDE DEF kv2, applied2, to
<1>6. [st EXCEPT !.kv = kv2, !.lastApplied = applied2, !.commitIndex = to]
        \in StorageState
  BY <1>3, <1>4 DEF StorageState
<1> QED
  BY <1>5, <1>6

LEMMA LogEndType ==
  ASSUME NEW st \in StorageState
  PROVE  LastLogIndex(st) \in Nat /\ LastLogTerm(st) \in Nat
<1>1. st.wal \in Seq(Entry)
  BY DEF StorageState
<1>2. st.wal # << >> => st.wal[Len(st.wal)] \in Entry
  BY <1>1
<1> QED
  BY <1>1, <1>2 DEF LastLogIndex, LastLogTerm, Entry

LEMMA AppendLogType ==
  ASSUME NEW st \in StorageState, NEW entry \in Entry
  PROVE  AppendLog(st, entry) \in StorageState
<1>1. Append(st.wal, entry) \in Seq(Entry)
  BY DEF StorageState
<1> QED
  BY <1>1 DEF AppendLog, StorageState

LEMMA EmptyMapType == EmptyStorage.kv \in [Key -> Value \cup {Nil}]
BY DEF EmptyStorage

------------------------------------------------------------------------------
(* Least and greatest elements, for arguments about "the last entry". *)

LEMMA Least ==
  ASSUME NEW T \in SUBSET Nat, T # {}
  PROVE  \E x \in T : \A y \in T : x <= y
<1> DEFINE R == OpToRel(<, Nat)
<1>1. PICK x \in T : \A y \in T : <<y, x>> \notin R
  <2>1. IsWellFoundedOn(R, Nat)
    BY NatLessThanWellFounded
  <2> HIDE DEF R
  <2> QED
    BY <2>1, WFMin
<1>2. \A y \in T : ~(y < x)
  BY <1>1 DEF OpToRel
<1> QED
  BY <1>2

LEMMA Greatest ==
  ASSUME NEW T \in SUBSET Nat, T # {}, NEW b \in Nat, \A x \in T : x <= b
  PROVE  \E x \in T : \A y \in T : y <= x
<1> DEFINE U == {u \in Nat : b - u \in T}
<1>1. \A x \in T : b - x \in U
  OBVIOUS
<1>2. U \in SUBSET Nat /\ U # {}
  BY <1>1
<1> HIDE DEF U
<1>3. PICK u \in U : \A y \in U : u <= y
  BY <1>2, Least
<1>4. b - u \in T
  BY <1>3 DEF U
<1>5. \A y \in T : y <= b - u
  <2>1. ASSUME NEW y \in T PROVE y <= b - u
    <3>1. u <= b - y /\ u \in Nat /\ y \in Nat
      BY <1>1, <1>2, <1>3
    <3> QED
      BY <3>1
  <2> QED
    BY <2>1
<1> QED
  BY <1>4, <1>5

------------------------------------------------------------------------------
(* Replay: nothing over an empty stretch, one stretch after another as one, *)
(* and nothing that depends on the log beyond the stretch.                  *)

LEMMA ReplayNothing ==
  ASSUME NEW kv \in [Key -> Value \cup {Nil}], NEW wal,
         NEW from \in Nat, NEW to \in Nat, to <= from
  PROVE  Replay(kv, wal, from, to) = kv
<1>1. (from + 1)..to = {}
  OBVIOUS
<1>2. Replay(kv, wal, from, to) = [k \in Key |-> kv[k]]
  BY <1>1 DEF Replay
<1> QED
  BY <1>2

LEMMA ReplayPrefix ==
  ASSUME NEW kv, NEW wal, NEW wal2, NEW from \in Nat, NEW to \in Nat,
         \A i \in 1..to : wal2[i] = wal[i]
  PROVE  Replay(kv, wal2, from, to) = Replay(kv, wal, from, to)
<1>1. ASSUME NEW k \in Key, NEW i \in (from + 1)..to
      PROVE  Decides(i, wal2, to, k) <=> Decides(i, wal, to, k)
  BY DEF Decides, Touches
<1>2. ASSUME NEW k \in Key
      PROVE  /\ (\E i \in (from + 1)..to : Decides(i, wal2, to, k))
                  <=> (\E i \in (from + 1)..to : Decides(i, wal, to, k))
             /\ (CHOOSE i \in (from + 1)..to : Decides(i, wal2, to, k))
                  = (CHOOSE i \in (from + 1)..to : Decides(i, wal, to, k))
  BY <1>1, Zenon
<1>3. ASSUME NEW k \in Key
      PROVE  Replay(kv, wal2, from, to)[k] = Replay(kv, wal, from, to)[k]
  <2> DEFINE last == CHOOSE i \in (from + 1)..to : Decides(i, wal, to, k)
  <2>1. CASE \E i \in (from + 1)..to : Decides(i, wal, to, k)
    <3>1. last \in (from + 1)..to
      BY <2>1
    <3>2. wal2[last] = wal[last]
      BY <3>1
    <3>3. Replay(kv, wal, from, to)[k] = Outcome(wal[last])
      BY <2>1 DEF Replay
    <3>4. Replay(kv, wal2, from, to)[k] = Outcome(wal2[last])
      BY <1>2, <2>1 DEF Replay
    <3> QED
      BY <3>2, <3>3, <3>4
  <2>2. CASE ~\E i \in (from + 1)..to : Decides(i, wal, to, k)
    BY <1>2, <2>2 DEF Replay
  <2> QED
    BY <2>1, <2>2
<1> QED
  BY <1>3 DEF Replay

(* If any entry of a stretch touches a key, one of them decides it. *)
LEMMA SomeEntryDecides ==
  ASSUME NEW wal, NEW from \in Nat, NEW to \in Nat, NEW k,
         NEW i \in (from + 1)..to, Touches(wal[i], k)
  PROVE  \E j \in (from + 1)..to : Decides(j, wal, to, k)
<1> DEFINE T == {j \in (from + 1)..to : Touches(wal[j], k)}
<1>1. T \in SUBSET Nat /\ T # {} /\ \A j \in T : j <= to
  OBVIOUS
<1>2. PICK j \in T : \A m \in T : m <= j
  <2> HIDE DEF T
  <2> QED
    BY <1>1, Greatest
<1>3. \A m \in (j + 1)..to : ~Touches(wal[m], k)
  BY <1>2
<1> QED
  BY <1>2, <1>3 DEF Decides

LEMMA OneEntryDecides ==
  ASSUME NEW wal, NEW from \in Nat, NEW to \in Nat, NEW k,
         NEW i \in (from + 1)..to, NEW j \in (from + 1)..to,
         Decides(i, wal, to, k), Decides(j, wal, to, k)
  PROVE  i = j
BY DEF Decides

LEMMA ReplayDecided ==
  ASSUME NEW kv, NEW wal, NEW from \in Nat, NEW to \in Nat, NEW k \in Key,
         NEW i \in (from + 1)..to, Decides(i, wal, to, k)
  PROVE  Replay(kv, wal, from, to)[k] = Outcome(wal[i])
<1> DEFINE last == CHOOSE j \in (from + 1)..to : Decides(j, wal, to, k)
<1>1. last \in (from + 1)..to /\ Decides(last, wal, to, k)
  OBVIOUS
<1>2. Replay(kv, wal, from, to)[k] = Outcome(wal[last])
  BY DEF Replay
<1> HIDE DEF last
<1>3. last = i
  BY <1>1, OneEntryDecides
<1> QED
  BY <1>2, <1>3

NotTouched(wal, from, to, k) == \A i \in (from + 1)..to : ~Touches(wal[i], k)

LEMMA ReplayUntouched ==
  ASSUME NEW kv, NEW wal, NEW from \in Nat, NEW to \in Nat, NEW k \in Key,
         NotTouched(wal, from, to, k)
  PROVE  Replay(kv, wal, from, to)[k] = kv[k]
BY DEF Replay, Decides, NotTouched

(* One stretch after another, under one key: it is enough that the map the  *)
(* second starts from is right about a key that the second leaves alone.    *)
LEMMA ReplayChainAt ==
  ASSUME NEW kv, NEW kv1, NEW wal, NEW from \in Nat, NEW mid \in Nat, NEW to \in Nat,
         from <= mid, mid <= to, NEW k \in Key,
         NotTouched(wal, mid, to, k) => kv1[k] = Replay(kv, wal, from, mid)[k]
  PROVE  Replay(kv1, wal, mid, to)[k] = Replay(kv, wal, from, to)[k]
<1>1. CASE \E i \in (mid + 1)..to : Touches(wal[i], k)
  <2>1. PICK i \in (mid + 1)..to : Decides(i, wal, to, k)
    BY <1>1, SomeEntryDecides
  <2>2. i \in (from + 1)..to
    OBVIOUS
  <2>3. Replay(kv1, wal, mid, to)[k] = Outcome(wal[i])
    BY <2>1, ReplayDecided
  <2>4. Replay(kv, wal, from, to)[k] = Outcome(wal[i])
    BY <2>1, <2>2, ReplayDecided
  <2> QED
    BY <2>3, <2>4
<1>2. CASE NotTouched(wal, mid, to, k)
  <2>1. Replay(kv1, wal, mid, to)[k] = Replay(kv, wal, from, mid)[k]
    BY <1>2, ReplayUntouched
  <2>2. CASE \E i \in (from + 1)..mid : Touches(wal[i], k)
    <3>1. PICK i \in (from + 1)..mid : Decides(i, wal, mid, k)
      BY <2>2, SomeEntryDecides
    <3>2. i \in (from + 1)..to /\ Decides(i, wal, to, k)
      BY <1>2, <3>1 DEF Decides, NotTouched
    <3>3. Replay(kv, wal, from, mid)[k] = Outcome(wal[i])
      BY <3>1, ReplayDecided
    <3>4. Replay(kv, wal, from, to)[k] = Outcome(wal[i])
      BY <3>2, ReplayDecided
    <3> QED
      BY <2>1, <3>3, <3>4
  <2>3. CASE NotTouched(wal, from, mid, k)
    <3>1. NotTouched(wal, from, to, k)
      BY <1>2, <2>3 DEF NotTouched
    <3>2. Replay(kv, wal, from, mid)[k] = kv[k]
      BY <2>3, ReplayUntouched
    <3>3. Replay(kv, wal, from, to)[k] = kv[k]
      BY <3>1, ReplayUntouched
    <3> QED
      BY <2>1, <3>2, <3>3
  <2> QED
    BY <2>2, <2>3 DEF NotTouched
<1> QED
  BY <1>1, <1>2 DEF NotTouched

LEMMA ReplayChain ==
  ASSUME NEW kv, NEW wal, NEW from \in Nat, NEW mid \in Nat, NEW to \in Nat,
         from <= mid, mid <= to
  PROVE  Replay(Replay(kv, wal, from, mid), wal, mid, to)
           = Replay(kv, wal, from, to)
<1>1. ASSUME NEW k \in Key
      PROVE  Replay(Replay(kv, wal, from, mid), wal, mid, to)[k]
               = Replay(kv, wal, from, to)[k]
  BY ReplayChainAt
<1> QED
  BY <1>1 DEF Replay

------------------------------------------------------------------------------
(* A node. *)

VoteArgs == [term : Nat, candidate : Node, lastIndex : Nat, lastTerm : Nat]
AppendArgs == [term : Nat, entries : Seq(Entry), leaderCommit : Nat]

------------------------------------------------------------------------------
(* What the operators on a node return. *)

LEMMA CampaigningEffect ==
  ASSUME NEW nd \in NodeRecord, NEW self \in Node
  PROVE  LET nd2 == Campaigning(nd, self) IN
         /\ nd2 \in NodeRecord
         /\ nd2.role = "Candidate" /\ nd2.term = nd.term + 1
         /\ nd2.votedFor = self /\ nd2.alive = nd.alive
<1>1. nd.term + 1 \in Nat
  BY DEF NodeRecord
<1> QED
  BY <1>1 DEF Campaigning, NodeRecord

LEMMA CommittedUpToEffect ==
  ASSUME NEW nd \in NodeRecord, NEW index \in Nat
  PROVE  LET nd2 == CommittedUpTo(nd, index) IN
         /\ nd2 \in NodeRecord
         /\ nd2.role = nd.role /\ nd2.term = nd.term
         /\ nd2.votedFor = nd.votedFor /\ nd2.alive = nd.alive
<1>1. ApplyCommitted(nd.storage, index) \in StorageState
  BY ApplyCommittedType DEF NodeRecord
<1> QED
  BY <1>1 DEF CommittedUpTo, NodeRecord

LEMMA ZeroTicks == 0 \in 0..ElectionTimeout /\ 0 \in 0..HeartbeatInterval
BY TimerAssumption

LEMMA ConvertedEffect ==
  ASSUME NEW nd \in NodeRecord, NEW term \in Nat
  PROVE  LET nd2 == ConvertedToFollower(nd, term) IN
         /\ nd2 \in NodeRecord
         /\ nd2.role = "Follower" /\ nd2.term = term /\ nd2.votedFor = NoNode
         /\ nd2.alive = nd.alive
BY ZeroTicks DEF ConvertedToFollower, NodeRecord, Node

(* The handlers leave a node that is not alive as it is.  A live one gives  *)
(* its vote, follows a later term, or follows the leader of its own term    *)
(* that it was a candidate in; otherwise its vote and its role stay.        *)
LEMMA RequestVoteEffect ==
  ASSUME NEW nd \in NodeRecord, NEW args \in VoteArgs
  PROVE  LET nd2 == AfterRequestVote(nd, args) IN
         /\ nd2 \in NodeRecord
         /\ nd2.alive = nd.alive
         /\ IF GrantsVote(nd, args)
            THEN /\ nd.alive /\ nd2.term = args.term
                 /\ nd2.votedFor = args.candidate
                 /\ \/ args.term > nd.term /\ nd2.role = "Follower"
                    \/ /\ args.term = nd.term /\ nd2.role = nd.role
                       /\ nd.votedFor \in {NoNode, args.candidate}
            ELSE \/ nd2 = nd
                 \/ /\ nd.alive /\ nd2.term > nd.term
                    /\ nd2.role = "Follower" /\ nd2.votedFor = NoNode
<1> DEFINE heard == HeardCandidate(nd, args)
           nd2 == AfterRequestVote(nd, args)
           late == nd.alive /\ args.term > nd.term
<1>1. /\ heard \in NodeRecord /\ heard.alive = nd.alive
      /\ IF late THEN /\ heard.role = "Follower" /\ heard.term = args.term
                      /\ heard.votedFor = NoNode
                 ELSE heard = nd
  BY ConvertedEffect DEF HeardCandidate, VoteArgs
<1>2. GrantsVote(nd, args) => /\ nd.alive /\ args.term = heard.term
                              /\ heard.votedFor \in {NoNode, args.candidate}
  BY DEF GrantsVote
<1>3. nd2 = IF GrantsVote(nd, args)
            THEN [heard EXCEPT !.votedFor = args.candidate, !.electionTicks = 0]
            ELSE heard
  BY DEF AfterRequestVote
<1> HIDE DEF heard, nd2
<1>4. CASE GrantsVote(nd, args)
  <2>1. nd2 = [heard EXCEPT !.votedFor = args.candidate, !.electionTicks = 0]
    BY <1>3, <1>4
  <2>2. /\ nd2 \in NodeRecord
        /\ nd2.votedFor = args.candidate /\ nd2.term = heard.term
        /\ nd2.role = heard.role /\ nd2.alive = heard.alive
    BY <1>1, <2>1, ZeroTicks DEF NodeRecord, VoteArgs
  <2>3. nd.term \in Nat /\ args.term \in Nat
    BY DEF NodeRecord, VoteArgs
  <2> QED
    BY <1>1, <1>2, <1>4, <2>2, <2>3 DEF nd2
<1>5. CASE ~GrantsVote(nd, args)
  BY <1>1, <1>3, <1>5 DEF nd2
<1> QED
  BY <1>4, <1>5

LEMMA AppendEntriesEffect ==
  ASSUME NEW nd \in NodeRecord, NEW args \in AppendArgs
  PROVE  LET nd2 == AfterAppendEntries(nd, args) IN
         /\ nd2 \in NodeRecord
         /\ nd2.alive = nd.alive
         /\ \/ /\ nd2.role = nd.role /\ nd2.term = nd.term
               /\ nd2.votedFor = nd.votedFor
            \/ /\ nd.alive /\ nd2.role = "Follower" /\ nd2.votedFor = NoNode
               /\ \/ nd2.term > nd.term
                  \/ nd2.term = nd.term /\ nd.role = "Candidate"
<1> DEFINE heard == HeardLeader(nd, args)
           appended == WithEntries(nd, args)
           nd2 == AfterAppendEntries(nd, args)
<1>1. CASE ~AcceptsAppend(nd, args)
  BY <1>1 DEF AfterAppendEntries
<1>2. CASE AcceptsAppend(nd, args)
  <2>1. /\ heard \in NodeRecord
        /\ heard.alive = nd.alive
        /\ \/ /\ heard.role = nd.role /\ heard.term = nd.term
              /\ heard.votedFor = nd.votedFor
           \/ /\ nd.alive /\ heard.role = "Follower" /\ heard.votedFor = NoNode
              /\ \/ heard.term > nd.term
                 \/ heard.term = nd.term /\ nd.role = "Candidate"
    <3>1. nd.term \in Nat /\ args.term \in Nat /\ nd.alive /\ args.term >= nd.term
      BY <1>2 DEF AcceptsAppend, NodeRecord, AppendArgs
    <3>2. CASE args.term > nd.term \/ nd.role = "Candidate"
      <4>1. heard = ConvertedToFollower(nd, args.term)
        BY <3>2 DEF HeardLeader
      <4>2. /\ heard \in NodeRecord /\ heard.alive = nd.alive
            /\ heard.role = "Follower" /\ heard.term = args.term
            /\ heard.votedFor = NoNode
        <5> HIDE DEF heard
        <5>1. ConvertedToFollower(nd, args.term) \in NodeRecord
          BY <3>1, ConvertedEffect
        <5> QED
          BY <3>1, <4>1, <5>1, ConvertedEffect
      <4> QED
        BY <3>1, <3>2, <4>2
    <3>3. CASE ~(args.term > nd.term \/ nd.role = "Candidate")
      BY <3>3, ZeroTicks DEF HeardLeader, NodeRecord
    <3> QED
      BY <3>2, <3>3
  <2>2. heard.storage.wal \o args.entries \in Seq(Entry)
    BY <2>1 DEF NodeRecord, StorageState, AppendArgs
  <2>3. /\ appended \in NodeRecord
        /\ appended.role = heard.role /\ appended.term = heard.term
        /\ appended.votedFor = heard.votedFor /\ appended.alive = heard.alive
    BY <2>1, <2>2 DEF WithEntries, NodeRecord, StorageState
  <2>4. Lesser(args.leaderCommit, LastLogIndex(appended.storage)) \in Nat
    BY <2>3, LogEndType DEF Lesser, AppendArgs, NodeRecord
  <2>5. \/ nd2 = appended
        \/ nd2 = CommittedUpTo(appended, Lesser(args.leaderCommit,
                                             LastLogIndex(appended.storage)))
    BY <1>2 DEF AfterAppendEntries
  <2> HIDE DEF nd2, appended, heard
  <2> SUFFICES /\ nd2 \in NodeRecord
               /\ nd2.role = appended.role /\ nd2.term = appended.term
               /\ nd2.votedFor = appended.votedFor /\ nd2.alive = appended.alive
    BY <2>1, <2>3 DEF nd2
  <2> QED
    BY <2>3, <2>4, <2>5, CommittedUpToEffect
<1> QED
  BY <1>1, <1>2

------------------------------------------------------------------------------
(* How a node's log grows. *)

(* StorageAgreesWithNode and LogTermsMonotonic, of one node. *)
StorageAgrees(nd) ==
  LET st == nd.storage IN
  /\ nd.commitIndex = st.commitIndex
  /\ st.commitIndex <= st.lastApplied /\ st.lastApplied <= Len(st.wal)
  /\ st.kv = Replay(EmptyStorage.kv, st.wal, 0, st.lastApplied)

TermsOrdered(nd) ==
  LET wal == nd.storage.wal IN
  \A i \in 1..Len(wal) : /\ wal[i].term <= nd.term
                         /\ \A j \in 1..i : wal[j].term <= wal[i].term

IsPrefixOf(wal, wal2) ==
  Len(wal) <= Len(wal2) /\ \A i \in 1..Len(wal) : wal2[i] = wal[i]

(* What every step of a cluster makes of each of its nodes. *)
Grows(nd, nd2) ==
  /\ nd2.term >= nd.term
  /\ IsPrefixOf(nd.storage.wal, nd2.storage.wal)
  /\ nd2.storage.lastApplied >= nd.storage.lastApplied
  /\ StorageAgrees(nd) => StorageAgrees(nd2)
  /\ TermsOrdered(nd) => TermsOrdered(nd2)

LEMMA NodeLog ==
  ASSUME NEW nd \in NodeRecord
  PROVE  LET wal == nd.storage.wal IN
         /\ wal \in Seq(Entry) /\ Len(wal) \in Nat
         /\ \A i \in 1..Len(wal) : wal[i] \in Entry /\ wal[i].term \in Nat
<1>1. nd.storage \in StorageState
  BY DEF NodeRecord
<1>2. nd.storage.wal \in Seq(Entry)
  BY <1>1 DEF StorageState
<1>3. \A i \in 1..Len(nd.storage.wal) : nd.storage.wal[i] \in Entry
  BY <1>2
<1> QED
  BY <1>2, <1>3 DEF Entry

LEMMA SameLogGrows ==
  ASSUME NEW nd \in NodeRecord, NEW nd2 \in NodeRecord,
         nd2.storage = nd.storage, nd2.commitIndex = nd.commitIndex,
         nd2.term >= nd.term
  PROVE  Grows(nd, nd2)
<1>1. /\ nd.term \in Nat /\ nd2.term \in Nat /\ nd.storage.lastApplied \in Nat
      /\ nd.storage.wal \in Seq(Entry)
  BY DEF NodeRecord, StorageState
<1>2. \A i \in 1..Len(nd.storage.wal) : nd.storage.wal[i].term \in Nat
  <2>1. \A i \in 1..Len(nd.storage.wal) : nd.storage.wal[i] \in Entry
    BY <1>1
  <2> QED
    BY <2>1 DEF Entry
<1>3. IsPrefixOf(nd.storage.wal, nd2.storage.wal)
  BY <1>1 DEF IsPrefixOf
<1>4. TermsOrdered(nd) => TermsOrdered(nd2)
  BY <1>1, <1>2 DEF TermsOrdered
<1>5. StorageAgrees(nd) => StorageAgrees(nd2)
  BY DEF StorageAgrees
<1> QED
  BY <1>1, <1>3, <1>4, <1>5 DEF Grows

(* Entries of one term, not earlier than the node's, put at a log's end.    *)
LEMMA AppendedGrows ==
  ASSUME NEW nd \in NodeRecord, NEW nd2 \in NodeRecord,
         NEW entries \in Seq(Entry),
         nd2.storage = [nd.storage EXCEPT !.wal = @ \o entries],
         nd2.commitIndex = nd.commitIndex, nd2.term >= nd.term,
         \A i \in 1..Len(entries) : entries[i].term = nd2.term
  PROVE  Grows(nd, nd2)
<1> DEFINE wal == nd.storage.wal  wal2 == nd2.storage.wal
           applied == nd.storage.lastApplied
<1>1. /\ nd.term \in Nat /\ nd2.term \in Nat /\ applied \in Nat
      /\ wal \in Seq(Entry) /\ nd.storage \in StorageState
  BY DEF NodeRecord, StorageState
<1>2. /\ wal2 = wal \o entries /\ nd2.storage.lastApplied = applied
      /\ nd2.storage.kv = nd.storage.kv
      /\ nd2.storage.commitIndex = nd.storage.commitIndex
  BY <1>1 DEF StorageState
<1> HIDE DEF wal, wal2, applied
<1>3. /\ wal2 \in Seq(Entry) /\ Len(wal2) = Len(wal) + Len(entries)
      /\ \A i \in 1..Len(wal) : wal2[i] = wal[i]
      /\ \A i \in 1..Len(wal2) : i > Len(wal) => /\ i - Len(wal) \in 1..Len(entries)
                                                 /\ wal2[i] = entries[i - Len(wal)]
  BY <1>1, <1>2
<1>4. \A i \in 1..Len(wal) : wal[i].term \in Nat
  <2>1. \A i \in 1..Len(wal) : wal[i] \in Entry
    BY <1>1
  <2> QED
    BY <2>1 DEF Entry
<1>5. IsPrefixOf(wal, wal2)
  BY <1>1, <1>3 DEF IsPrefixOf
<1>6. TermsOrdered(nd) => TermsOrdered(nd2)
  <2> SUFFICES ASSUME TermsOrdered(nd), NEW i \in 1..Len(wal2)
               PROVE  /\ wal2[i].term <= nd2.term
                      /\ \A j \in 1..i : wal2[j].term <= wal2[i].term
    BY DEF TermsOrdered, wal2
  <2>1. ASSUME NEW j \in 1..Len(wal2)
        PROVE  IF j <= Len(wal) THEN wal2[j] = wal[j] ELSE wal2[j].term = nd2.term
    <3>1. CASE j <= Len(wal)
      BY <1>1, <1>3, <3>1
    <3>2. CASE j > Len(wal)
      <4>1. j - Len(wal) \in 1..Len(entries) /\ wal2[j] = entries[j - Len(wal)]
        BY <1>3, <3>2
      <4> QED
        BY <1>1, <3>2, <4>1
    <3> QED
      BY <1>1, <1>3, <3>1, <3>2
  <2>2. \A j \in 1..Len(wal) : /\ wal[j].term <= nd2.term
                               /\ \A m \in 1..j : wal[m].term <= wal[j].term
    BY <1>1, <1>4 DEF TermsOrdered, wal
  <2>3. Len(wal) \in Nat /\ Len(wal2) \in Nat /\ Len(wal) <= Len(wal2)
    BY <1>1, <1>3
  <2>4. CASE i <= Len(wal)
    <3>1. i \in 1..Len(wal) /\ \A j \in 1..i : j \in 1..Len(wal) /\ j <= Len(wal)
      BY <2>3, <2>4
    <3> QED
      BY <2>1, <2>2, <2>3, <3>1
  <2>5. CASE i > Len(wal)
    <3>1. wal2[i].term = nd2.term
      BY <2>1, <2>3, <2>5
    <3>2. \A j \in 1..i : wal2[j].term <= nd2.term
      BY <1>1, <2>1, <2>2, <2>3
    <3> QED
      BY <1>1, <3>1, <3>2
  <2> QED
    BY <2>3, <2>4, <2>5
<1>7. StorageAgrees(nd) => StorageAgrees(nd2)
  <2> SUFFICES ASSUME StorageAgrees(nd) PROVE StorageAgrees(nd2)
    OBVIOUS
  <2>1. applied <= Len(wal) /\ applied \in Nat
    BY <1>1 DEF StorageAgrees, wal, applied
  <2>2. \A i \in 1..applied : wal2[i] = wal[i]
    BY <1>1, <1>3, <2>1
  <2>3. Replay(EmptyStorage.kv, wal2, 0, applied)
          = Replay(EmptyStorage.kv, wal, 0, applied)
    BY <2>1, <2>2, ReplayPrefix
  <2>4. applied <= Len(wal2)
    BY <1>1, <1>3, <2>1
  <2> QED
    BY <1>2, <2>1, <2>3, <2>4 DEF StorageAgrees, wal, wal2, applied
<1> QED
  BY <1>1, <1>2, <1>5, <1>6, <1>7 DEF Grows, wal, wal2, applied

LEMMA CommittedGrows ==
  ASSUME NEW nd \in NodeRecord, NEW index \in Nat, index <= Len(nd.storage.wal)
  PROVE  LET nd2 == CommittedUpTo(nd, index) IN
         /\ Grows(nd, nd2)
         /\ nd2.storage.wal = nd.storage.wal
         /\ nd2.storage.lastApplied \in {nd.storage.lastApplied, index}
         /\ nd2.commitIndex = index
<1> DEFINE nd2 == CommittedUpTo(nd, index)
           st == nd.storage
           st2 == ApplyCommitted(st, index)
           to == Lesser(index, Len(st.wal))
           kv2 == Replay(st.kv, st.wal, st.lastApplied, to)
<1>1. /\ st \in StorageState /\ st.wal \in Seq(Entry) /\ st.lastApplied \in Nat
      /\ nd.term \in Nat /\ Len(st.wal) \in Nat
      /\ st.kv \in [Key -> Value \cup {Nil}]
  BY DEF NodeRecord, StorageState
<1>2. to = index
  BY <1>1 DEF Lesser
<1>3. st2 = [st EXCEPT !.kv = kv2, !.lastApplied = Greater(st.lastApplied, to),
                       !.commitIndex = to]
  BY DEF ApplyCommitted
<1> HIDE DEF to, kv2, st2
<1>4. /\ st2.kv = kv2 /\ st2.wal = st.wal /\ st2.commitIndex = index
      /\ st2.lastApplied = Greater(st.lastApplied, index)
  BY <1>1, <1>2, <1>3 DEF StorageState
<1>5. /\ st2.lastApplied \in {st.lastApplied, index} /\ st2.lastApplied \in Nat
      /\ st2.lastApplied >= st.lastApplied /\ st2.lastApplied >= index
  BY <1>1, <1>4 DEF Greater
<1>6. /\ nd2.storage = st2 /\ nd2.commitIndex = index /\ nd2.term = nd.term
  BY DEF CommittedUpTo, NodeRecord, st2
<1> HIDE DEF nd2
<1>7. IsPrefixOf(st.wal, st.wal)
  BY <1>1 DEF IsPrefixOf
<1>8. TermsOrdered(nd) => TermsOrdered(nd2)
  BY <1>4, <1>6 DEF TermsOrdered
<1>9. StorageAgrees(nd) => StorageAgrees(nd2)
  <2> SUFFICES ASSUME StorageAgrees(nd) PROVE StorageAgrees(nd2)
    OBVIOUS
  <2> DEFINE E == EmptyStorage.kv
  <2>1. st.lastApplied <= Len(st.wal) /\ st.kv = Replay(E, st.wal, 0, st.lastApplied)
    BY DEF StorageAgrees
  <2> HIDE DEF E, st
  <2>2. kv2 = Replay(E, st.wal, 0, st2.lastApplied)
    <3>1. CASE index <= st.lastApplied
      <4>1. kv2 = st.kv
        BY <1>1, <1>2, <3>1, ReplayNothing DEF kv2
      <4>2. st2.lastApplied = st.lastApplied
        BY <1>1, <1>5, <3>1
      <4> QED
        BY <2>1, <4>1, <4>2
    <3>2. CASE index > st.lastApplied
      <4>1. st2.lastApplied = index
        BY <1>1, <1>5, <3>2
      <4>2. /\ 0 \in Nat /\ st.lastApplied \in Nat /\ index \in Nat
            /\ 0 <= st.lastApplied /\ st.lastApplied <= index
        BY <1>1, <3>2
      <4>3. Replay(Replay(E, st.wal, 0, st.lastApplied), st.wal, st.lastApplied, index)
              = Replay(E, st.wal, 0, index)
        BY ONLY <4>2, ReplayChain
      <4> QED
        BY <1>2, <2>1, <4>1, <4>3 DEF kv2
    <3> QED
      BY <1>1, <3>1, <3>2
  <2>3. st2.lastApplied <= Len(st.wal) /\ st2.commitIndex <= st2.lastApplied
    BY <1>1, <1>4, <1>5, <2>1 DEF st
  <2> QED
    BY <1>4, <1>6, <2>2, <2>3 DEF StorageAgrees, E
<1>10. Grows(nd, nd2)
  BY <1>1, <1>4, <1>5, <1>6, <1>7, <1>8, <1>9 DEF Grows
<1> QED
  BY <1>4, <1>5, <1>6, <1>10 DEF nd2

LEMMA PrefixAt ==
  ASSUME NEW a, NEW b, Len(a) \in Nat, Len(b) \in Nat, IsPrefixOf(a, b),
         NEW i \in 1..Len(a)
  PROVE  i \in 1..Len(b) /\ b[i] = a[i]
BY DEF IsPrefixOf

LEMMA PrefixTwice ==
  ASSUME NEW a, NEW b, NEW c,
         Len(a) \in Nat, Len(b) \in Nat, Len(c) \in Nat,
         IsPrefixOf(a, b), IsPrefixOf(b, c)
  PROVE  IsPrefixOf(a, c)
<1>1. Len(a) <= Len(b) /\ Len(b) <= Len(c)
  BY DEF IsPrefixOf
<1>2. ASSUME NEW i \in 1..Len(a) PROVE c[i] = a[i]
  <2>1. i \in 1..Len(b)
    BY <1>1
  <2> QED
    BY <2>1 DEF IsPrefixOf
<1> QED
  BY <1>1, <1>2 DEF IsPrefixOf

LEMMA GrowsTwice ==
  ASSUME NEW nd \in NodeRecord, NEW nd1 \in NodeRecord, NEW nd2 \in NodeRecord,
         Grows(nd, nd1), Grows(nd1, nd2)
  PROVE  Grows(nd, nd2)
<1>1. ASSUME NEW x \in NodeRecord
      PROVE  /\ x.term \in Nat /\ x.storage.lastApplied \in Nat
             /\ Len(x.storage.wal) \in Nat
  <2>1. x.term \in Nat /\ x.storage \in StorageState
    BY DEF NodeRecord
  <2>2. x.storage.wal \in Seq(Entry) /\ x.storage.lastApplied \in Nat
    BY <2>1 DEF StorageState
  <2>3. Len(x.storage.wal) \in Nat
    BY <2>2
  <2> QED
    BY <2>1, <2>2, <2>3
<1>2. IsPrefixOf(nd.storage.wal, nd2.storage.wal)
  <2>1. /\ IsPrefixOf(nd.storage.wal, nd1.storage.wal)
        /\ IsPrefixOf(nd1.storage.wal, nd2.storage.wal)
    BY DEF Grows
  <2>2. /\ Len(nd.storage.wal) \in Nat /\ Len(nd1.storage.wal) \in Nat
        /\ Len(nd2.storage.wal) \in Nat
    BY <1>1
  <2> QED
    BY ONLY <2>1, <2>2, PrefixTwice
<1>3. nd2.term >= nd.term /\ nd2.storage.lastApplied >= nd.storage.lastApplied
  <2>1. /\ nd.term \in Nat /\ nd1.term \in Nat /\ nd2.term \in Nat
        /\ nd.storage.lastApplied \in Nat /\ nd1.storage.lastApplied \in Nat
        /\ nd2.storage.lastApplied \in Nat
    BY <1>1
  <2> QED
    BY <2>1 DEF Grows
<1> QED
  BY <1>2, <1>3 DEF Grows

(* handle_append_entries: entries of the leader's term go to the log's end, *)
(* and no commit index or applied index moves beyond leader_commit.         *)
LEMMA AppendEntriesGrows ==
  ASSUME NEW nd \in NodeRecord, NEW args \in AppendArgs,
         \A i \in 1..Len(args.entries) : args.entries[i].term = args.term
  PROVE  LET nd2 == AfterAppendEntries(nd, args) IN
         /\ Grows(nd, nd2)
         /\ nd2.storage.wal = IF AcceptsAppend(nd, args)
                              THEN nd.storage.wal \o args.entries
                              ELSE nd.storage.wal
         /\ AcceptsAppend(nd, args) => nd2.term = args.term
         /\ \/ nd2.storage.lastApplied = nd.storage.lastApplied
            \/ nd2.storage.lastApplied <= args.leaderCommit
<1> DEFINE heard == HeardLeader(nd, args)
           appended == WithEntries(nd, args)
           nd2 == AfterAppendEntries(nd, args)
<1>0. /\ nd.term \in Nat /\ args.term \in Nat /\ nd.storage \in StorageState
      /\ nd.storage.wal \in Seq(Entry) /\ nd.storage.lastApplied \in Nat
      /\ args.entries \in Seq(Entry) /\ args.leaderCommit \in Nat
  BY DEF NodeRecord, StorageState, AppendArgs
<1>1. CASE ~AcceptsAppend(nd, args)
  <2>1. nd2 = nd
    BY <1>1 DEF AfterAppendEntries
  <2>2. Grows(nd, nd)
    BY <1>0, SameLogGrows
  <2> QED
    BY <1>1, <2>1, <2>2
<1>2. CASE AcceptsAppend(nd, args)
  <2>1. /\ heard \in NodeRecord /\ heard.term = args.term
        /\ heard.storage = nd.storage /\ heard.commitIndex = nd.commitIndex
    <3>1. args.term >= nd.term
      BY <1>2 DEF AcceptsAppend
    <3>2. CASE args.term > nd.term \/ nd.role = "Candidate"
      <4>1. heard = ConvertedToFollower(nd, args.term)
        BY <3>2 DEF HeardLeader
      <4>2. /\ ConvertedToFollower(nd, args.term) \in NodeRecord
            /\ ConvertedToFollower(nd, args.term).term = args.term
        BY <1>0, ConvertedEffect
      <4>3. /\ ConvertedToFollower(nd, args.term).storage = nd.storage
            /\ ConvertedToFollower(nd, args.term).commitIndex = nd.commitIndex
        BY DEF ConvertedToFollower, NodeRecord
      <4> QED
        BY <4>1, <4>2, <4>3
    <3>3. CASE ~(args.term > nd.term \/ nd.role = "Candidate")
      BY <1>0, <3>1, <3>3, ZeroTicks DEF HeardLeader, NodeRecord
    <3> QED
      BY <3>2, <3>3
  <2>2. appended = [heard EXCEPT !.storage.wal = @ \o args.entries]
    BY DEF WithEntries
  <2> HIDE DEF heard
  <2>3. heard.storage.wal \o args.entries \in Seq(Entry)
    BY <1>0, <2>1
  <2>4. /\ appended \in NodeRecord /\ appended.term = args.term
        /\ appended.commitIndex = nd.commitIndex
        /\ appended.storage = [nd.storage EXCEPT !.wal = @ \o args.entries]
    <3>1. [heard.storage EXCEPT !.wal = @ \o args.entries] \in StorageState
      BY <2>1, <2>3 DEF NodeRecord, StorageState
    <3>2. /\ appended \in NodeRecord /\ appended.term = heard.term
          /\ appended.commitIndex = heard.commitIndex
          /\ appended.storage = [heard.storage EXCEPT !.wal = @ \o args.entries]
      BY <2>1, <2>2, <3>1 DEF NodeRecord
    <3> QED
      BY <2>1, <3>2
  <2>5. /\ appended.storage.wal = nd.storage.wal \o args.entries
        /\ appended.storage.lastApplied = nd.storage.lastApplied
    BY <1>0, <2>4 DEF StorageState
  <2>6. Grows(nd, appended)
    <3>1. args.term >= nd.term
      BY <1>2 DEF AcceptsAppend
    <3> HIDE DEF appended
    <3> QED
      BY <1>0, <2>4, <3>1, AppendedGrows
  <2>7. nd2 = IF args.leaderCommit > nd.commitIndex
              THEN CommittedUpTo(appended, Lesser(args.leaderCommit,
                                             LastLogIndex(appended.storage)))
              ELSE appended
    BY <1>2 DEF AfterAppendEntries
  <2> DEFINE index == Lesser(args.leaderCommit, LastLogIndex(appended.storage))
  <2>8. /\ index \in Nat /\ index <= Len(appended.storage.wal)
        /\ index <= args.leaderCommit
    <3>1. Len(appended.storage.wal) \in Nat
      <4>1. appended.storage.wal \in Seq(Entry)
        BY <2>4 DEF NodeRecord, StorageState
      <4> QED
        BY <4>1
    <3> QED
      BY <1>0, <3>1 DEF Lesser, LastLogIndex
  <2> HIDE DEF nd2, appended, index
  <2>9. CASE args.leaderCommit > nd.commitIndex
    <3> DEFINE x == CommittedUpTo(appended, index)
    <3>1. /\ Grows(appended, x) /\ x.storage.wal = appended.storage.wal
          /\ x.storage.lastApplied \in {appended.storage.lastApplied, index}
      BY <2>4, <2>8, CommittedGrows
    <3>2. x \in NodeRecord /\ x.term = appended.term
      BY <2>4, <2>8, CommittedUpToEffect
    <3>3. nd2 = x
      BY <2>7, <2>9 DEF index
    <3> HIDE DEF x
    <3>4. Grows(nd, x)
      BY <2>4, <2>6, <3>1, <3>2, GrowsTwice
    <3>5. \/ x.storage.lastApplied = nd.storage.lastApplied
          \/ x.storage.lastApplied <= args.leaderCommit
      BY <2>5, <2>8, <3>1
    <3> QED
      BY <1>2, <2>4, <2>5, <3>1, <3>2, <3>3, <3>4, <3>5 DEF nd2
  <2>10. CASE ~(args.leaderCommit > nd.commitIndex)
    <3>1. nd2 = appended
      BY <2>7, <2>10
    <3> QED
      BY <1>2, <2>4, <2>5, <2>6, <3>1 DEF nd2
  <2> QED
    BY <2>9, <2>10
<1> QED
  BY <1>1, <1>2

(* handle_request_vote and the timers leave the log and its indices alone.  *)
LEMMA RequestVoteLog ==
  ASSUME NEW nd \in NodeRecord, NEW args \in VoteArgs
  PROVE  LET nd2 == AfterRequestVote(nd, args) IN
         /\ nd2.storage = nd.storage /\ nd2.commitIndex = nd.commitIndex
         /\ nd2.term >= nd.term
<1> DEFINE heard == HeardCandidate(nd, args)
<1>1. nd.term \in Nat /\ args.term \in Nat
  BY DEF NodeRecord, VoteArgs
<1>2. /\ heard.storage = nd.storage /\ heard.commitIndex = nd.commitIndex
      /\ heard.term >= nd.term /\ heard \in NodeRecord
  <2>1. ConvertedToFollower(nd, args.term) \in NodeRecord
    BY <1>1, ConvertedEffect
  <2> QED
    BY <1>1, <2>1 DEF HeardCandidate, ConvertedToFollower, NodeRecord
<1> HIDE DEF heard
<1>3. \/ AfterRequestVote(nd, args) = heard
      \/ AfterRequestVote(nd, args) =
           [heard EXCEPT !.votedFor = args.candidate, !.electionTicks = 0]
  BY DEF AfterRequestVote, heard
<1> QED
  BY <1>2, <1>3 DEF NodeRecord

LEMMA TickedLog ==
  ASSUME NEW nd \in NodeRecord
  PROVE  /\ Ticked(nd).storage = nd.storage /\ Ticked(nd).commitIndex = nd.commitIndex
         /\ Ticked(nd).term = nd.term /\ Ticked(nd).role = nd.role
BY DEF Ticked, NodeRecord

(* As terms never decrease along a log, a longer log never ends earlier.    *)
LEMMA LogEndGrows ==
  ASSUME NEW nd \in NodeRecord, NEW nd2 \in NodeRecord,
         Grows(nd, nd2), TermsOrdered(nd2)
  PROVE  LastLogTerm(nd.storage) <= LastLogTerm(nd2.storage)
<1> DEFINE wal == nd.storage.wal  wal2 == nd2.storage.wal
<1>1. wal \in Seq(Entry) /\ wal2 \in Seq(Entry)
  <2>1. nd.storage \in StorageState /\ nd2.storage \in StorageState
    BY DEF NodeRecord
  <2> QED
    BY <2>1 DEF StorageState
<1>2. IsPrefixOf(wal, wal2)
  BY DEF Grows
<1>3. \A i \in 1..Len(wal2) : wal2[i].term \in Nat /\ wal2[i].term >= 0
  <2>1. \A i \in 1..Len(wal2) : wal2[i] \in Entry
    BY <1>1
  <2> QED
    BY <2>1 DEF Entry
<1>4. \A i, j \in 1..Len(wal2) : i <= j => wal2[i].term <= wal2[j].term
  BY <1>1 DEF TermsOrdered
<1>5. /\ LastLogTerm(nd.storage) = IF wal = << >> THEN 0 ELSE wal[Len(wal)].term
      /\ LastLogTerm(nd2.storage) = IF wal2 = << >> THEN 0 ELSE wal2[Len(wal2)].term
  BY DEF LastLogTerm
<1> HIDE DEF wal, wal2
<1>6. CASE wal = << >>
  <2>1. wal2 # << >> => Len(wal2) \in 1..Len(wal2)
    BY <1>1
  <2> QED
    BY <1>3, <1>5, <1>6, <2>1
<1>7. CASE wal # << >>
  <2>1. /\ Len(wal) \in 1..Len(wal) /\ Len(wal) \in 1..Len(wal2)
        /\ Len(wal2) \in 1..Len(wal2) /\ wal2 # << >> /\ Len(wal) <= Len(wal2)
    BY <1>1, <1>2, <1>7 DEF IsPrefixOf
  <2>2. wal2[Len(wal)] = wal[Len(wal)]
    BY <1>2, <2>1 DEF IsPrefixOf
  <2> QED
    BY <1>4, <1>5, <1>7, <2>1, <2>2
<1> QED
  BY <1>6, <1>7

(* In such a log no entry is of a later term than the last one. *)
LEMMA LogEndLatest ==
  ASSUME NEW nd \in NodeRecord, TermsOrdered(nd),
         NEW i \in 1..Len(nd.storage.wal)
  PROVE  nd.storage.wal[i].term <= LastLogTerm(nd.storage)
<1> DEFINE wal == nd.storage.wal
<1>1. wal \in Seq(Entry)
  <2>1. nd.storage \in StorageState
    BY DEF NodeRecord
  <2> QED
    BY <2>1 DEF StorageState
<1>2. wal # << >> /\ Len(wal) \in 1..Len(wal) /\ i \in 1..Len(wal)
  BY <1>1
<1>3. wal[i].term <= wal[Len(wal)].term
  BY <1>2 DEF TermsOrdered
<1> QED
  BY <1>2, <1>3 DEF LastLogTerm
==============================================================================
