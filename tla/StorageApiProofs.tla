--------------------------- MODULE StorageApiProofs ---------------------------
(* Theorems of StorageApi, for any keys, commands and number of entries.    *)
EXTENDS StorageApi, NodeStateProofs

(* What the log and the history are to each other: entries the replay has   *)
(* not passed are younger than all that were applied and are not skipped,   *)
(* and a passed entry was either applied or skipped.                        *)
Younger ==
  /\ \A i \in 1..Len(st.wal) : st.wal[i].term <= appends
  /\ \A j \in 1..Len(done) : done[j].term <= appends
  /\ \A e \in skipped : e.term <= appends
  /\ \A i \in 1..Len(st.wal), j \in 1..Len(done) :
       i > st.lastApplied => done[j].term < st.wal[i].term

PassedOrSkipped ==
  \A i \in 1..Len(st.wal) :
    IF i <= st.lastApplied
    THEN (\E j \in 1..Len(done) : done[j] = st.wal[i]) <=> st.wal[i] \notin skipped
    ELSE st.wal[i] \notin skipped

StorageInv == TypeOK /\ AppliedOnceInOrder /\ Younger /\ PassedOrSkipped

LEMMA ClampType ==
  ASSUME NEW a \in Nat, NEW b \in Nat
  PROVE  /\ Lesser(a, b) \in Nat /\ Lesser(a, b) <= a /\ Lesser(a, b) <= b
         /\ Greater(a, b) \in Nat /\ Greater(a, b) >= a /\ Greater(a, b) >= b
         /\ Greater(a, b) \in {a, b}
BY DEF Lesser, Greater

LEMMA ElementType ==
  ASSUME NEW es \in Seq(Entry), NEW i \in 1..Len(es)
  PROVE  es[i] \in Entry /\ es[i].term \in Nat
<1>1. es[i] \in Entry
  OBVIOUS
<1>. QED BY <1>1 DEF Entry

LEMMA StretchType ==
  ASSUME NEW S, NEW es \in Seq(S), NEW m \in Nat, NEW n \in Nat,
         m <= n, n <= Len(es) \/ n = m
  PROVE  /\ SubSeq(es, m + 1, n) \in Seq(S) /\ Len(SubSeq(es, m + 1, n)) = n - m
         /\ \A i \in 1..(n - m) : SubSeq(es, m + 1, n)[i] = es[m + i]
<1>1. CASE n = m
  BY <1>1
<1>2. CASE n <= Len(es)
  BY <1>2
<1>. QED BY <1>1, <1>2

LEMMA ConcatType ==
  ASSUME NEW S, NEW s \in Seq(S), NEW t \in Seq(S)
  PROVE  /\ s \o t \in Seq(S) /\ Len(s \o t) = Len(s) + Len(t)
         /\ \A i \in 1..Len(s) : (s \o t)[i] = s[i]
         /\ \A i \in 1..(Len(s) + Len(t)) : i > Len(s) => (s \o t)[i] = t[i - Len(s)]
OBVIOUS

LEMMA InvInitially == Init => StorageInv
<1>. SUFFICES ASSUME Init PROVE StorageInv
  OBVIOUS
<1>1. TypeOK
  BY ApiAssumption DEF Init, TypeOK, EmptyStorage, StorageState
<1>2. st.wal = << >> /\ done = << >> /\ skipped = {}
  BY DEF Init, EmptyStorage
<1>. QED BY <1>1, <1>2 DEF StorageInv, AppliedOnceInOrder, InOrder, Younger,
                          PassedOrSkipped

(* put and remove leave the log and the indices alone. *)
LEMMA DirectKeepsInv ==
  ASSUME StorageInv, NEW k \in Key, NEW w \in Value \cup {Nil},
         st' = [st EXCEPT !.kv[k] = w], direct' = direct \cup {k},
         UNCHANGED <<appends, done, skipped>>
  PROVE  StorageInv'
<1>1. st \in StorageState
  BY DEF StorageInv, TypeOK
<1>2. /\ st' \in StorageState /\ st'.wal = st.wal
      /\ st'.lastApplied = st.lastApplied /\ st'.commitIndex = st.commitIndex
  BY <1>1 DEF StorageState
<1>3. TypeOK'
  BY <1>2 DEF StorageInv, TypeOK
<1>. QED BY <1>2, <1>3 DEF StorageInv, AppliedOnceInOrder, InOrder, Younger,
                          PassedOrSkipped

LEMMA LogKeepsInv ==
  ASSUME StorageInv, NEW c \in Command, Log(c) PROVE StorageInv'
<1>. DEFINE e == Numbered(c)
            n == Len(st.wal) + 1
<1>1. st \in StorageState /\ appends \in Nat /\ appends < MaxAppends
  BY ApiAssumption DEF StorageInv, TypeOK, Log
<1>2. e \in Entry /\ e.term = appends + 1 /\ appends' = appends + 1
  BY <1>1, ApiAssumption DEF Log, Numbered, Entry
<1>. HIDE DEF e
<1>3. /\ st' = [st EXCEPT !.wal = Append(@, e)]
      /\ done' = done /\ direct' = direct
      /\ skipped' = IF Len(st'.wal) <= Len(done) THEN skipped \cup {e} ELSE skipped
  BY DEF Log, AppendLog, e
<1>4. /\ st' \in StorageState
      /\ st'.wal = Append(st.wal, e) /\ st.wal \in Seq(Entry)
      /\ st'.lastApplied = st.lastApplied /\ st'.commitIndex = st.commitIndex
  <2>1. st.wal \in Seq(Entry) /\ Append(st.wal, e) \in Seq(Entry)
    BY <1>1, <1>2 DEF StorageState
  <2>. QED BY <1>1, <1>3, <2>1 DEF StorageState
<1>5. /\ st'.wal \in Seq(Entry) /\ Len(st'.wal) = n /\ n \in Nat \ {0}
      /\ st'.wal[n] = e /\ \A i \in 1..Len(st.wal) : st'.wal[i] = st.wal[i]
  BY <1>2, <1>4
<1>6. TypeOK'
  BY <1>1, <1>2, <1>3, <1>4, ApiAssumption DEF StorageInv, TypeOK
<1>7. \A i \in 1..n : i = n \/ i \in 1..Len(st.wal)
  BY <1>4
<1>8. \A i \in 1..Len(st.wal) : st.wal[i] \in Entry /\ st.wal[i].term \in Nat
  BY <1>4, ElementType
<1>9. /\ done \in Seq(Entry) /\ Len(done) = st.lastApplied
      /\ skipped \subseteq Entry /\ st.lastApplied \in Nat
      /\ \A j \in 1..Len(done) : done[j] \in Entry /\ done[j].term \in Nat
      /\ \A s \in skipped : s.term \in Nat
  <2>1. /\ done \in Seq(Entry) /\ Len(done) = st.lastApplied
        /\ skipped \subseteq Entry /\ st.lastApplied \in Nat
    BY <1>1 DEF StorageInv, TypeOK, StorageState
  <2>. QED BY <2>1, ElementType DEF Entry
<1>10. AppliedOnceInOrder'
  <2>1. InOrder(done')
    BY <1>3 DEF StorageInv, AppliedOnceInOrder
  <2>2. ASSUME NEW i \in 1..n, NEW j \in 1..n, i < j
        PROVE  st'.wal[i].term < st'.wal[j].term
    <3>1. i \in 1..Len(st.wal) /\ st'.wal[i] = st.wal[i]
      BY <1>4, <1>5, <1>7, <2>2
    <3>2. CASE j = n
      BY <1>1, <1>2, <1>5, <1>8, <3>1, <3>2 DEF StorageInv, Younger
    <3>3. CASE j \in 1..Len(st.wal)
      BY <1>5, <2>2, <3>1, <3>3 DEF StorageInv, AppliedOnceInOrder, InOrder
    <3>. QED BY <1>7, <3>2, <3>3
  <2>. QED BY <1>5, <2>1, <2>2 DEF AppliedOnceInOrder, InOrder
<1>11. Younger'
  BY <1>1, <1>2, <1>3, <1>4, <1>5, <1>7, <1>8, <1>9 DEF StorageInv, Younger
<1>12. PassedOrSkipped'
  <2>1. \A i \in 1..Len(st.wal) : st.wal[i] # e
    BY <1>1, <1>2, <1>8 DEF StorageInv, Younger
  <2>2. e \notin skipped /\ \A j \in 1..Len(done) : done[j] # e
    BY <1>1, <1>2, <1>9 DEF StorageInv, Younger
  <2>. QED BY <1>3, <1>4, <1>5, <1>7, <1>9, <2>1, <2>2 DEF StorageInv, PassedOrSkipped
<1>. QED BY <1>6, <1>10, <1>11, <1>12 DEF StorageInv

(* apply_committed passes the entries from last_applied_index_ to the bound *)
(* on its argument, which become the last that have been applied.           *)
Bound(upTo) == Lesser(upTo, Len(st.wal))

LEMMA ApplyEffect ==
  ASSUME StorageInv, NEW upTo \in Nat, Apply(upTo)
  PROVE  /\ Bound(upTo) \in Nat /\ Bound(upTo) <= Len(st.wal)
         /\ st' \in StorageState /\ st'.wal = st.wal
         /\ st'.kv = Replay(st.kv, st.wal, st.lastApplied, Bound(upTo))
         /\ st'.lastApplied = Greater(st.lastApplied, Bound(upTo))
         /\ st'.lastApplied \in Nat /\ st'.lastApplied >= st.lastApplied
         /\ st'.lastApplied >= Bound(upTo) /\ st'.commitIndex = Bound(upTo)
         /\ st'.lastApplied = st.lastApplied \/ st'.lastApplied <= Len(st.wal)
         /\ direct' \subseteq direct /\ UNCHANGED <<appends, skipped>>
         /\ done' \in Seq(Entry) /\ Len(done') = st'.lastApplied
         /\ \A j \in 1..st.lastApplied : done'[j] = done[j]
         /\ \A j \in 1..Len(done') : j > st.lastApplied =>
              j <= Len(st.wal) /\ done'[j] = st.wal[j]
<1>. DEFINE la == st.lastApplied
            to == Bound(upTo)
            new == SubSeq(st.wal, la + 1, st'.lastApplied)
<1>1. /\ st \in StorageState /\ la \in Nat /\ st.wal \in Seq(Entry)
      /\ done \in Seq(Entry) /\ Len(done) = la /\ skipped \subseteq Entry
      /\ Len(st.wal) \in Nat /\ appends \in Nat
  BY ApiAssumption DEF StorageInv, TypeOK, StorageState
<1>2. /\ to \in Nat /\ to <= Len(st.wal)
      /\ Greater(la, to) \in Nat /\ Greater(la, to) >= la
      /\ Greater(la, to) >= to /\ Greater(la, to) \in {la, to}
  BY <1>1, ClampType DEF Bound
<1>3. st' = [st EXCEPT !.kv = Replay(st.kv, st.wal, la, to),
                       !.lastApplied = Greater(la, to), !.commitIndex = to]
  BY DEF Apply, ApplyCommitted, Bound
<1>4. Replay(st.kv, st.wal, la, to) \in [Key -> Value \cup {Nil}]
  <2>1. to \in 0..Len(st.wal) /\ st.kv \in [Key -> Value \cup {Nil}]
    BY <1>1, <1>2 DEF StorageState
  <2>. QED BY <1>1, <2>1, ReplayType
<1>. HIDE DEF to
<1>5. /\ st' \in StorageState /\ st'.wal = st.wal
      /\ st'.lastApplied = Greater(la, to) /\ st'.commitIndex = to
  BY <1>1, <1>2, <1>3, <1>4 DEF StorageState
<1>6. /\ st'.lastApplied \in Nat /\ st'.lastApplied >= la
      /\ st'.lastApplied = la \/ st'.lastApplied <= Len(st.wal)
  BY <1>2, <1>5
<1>7. /\ new \in Seq(Entry) /\ Len(new) = st'.lastApplied - la
      /\ \A i \in 1..Len(new) : new[i] = st.wal[la + i]
  <2>1. /\ la <= st'.lastApplied
        /\ st'.lastApplied <= Len(st.wal) \/ st'.lastApplied = la
    BY <1>1, <1>6
  <2>2. /\ new \in Seq(Entry) /\ Len(new) = st'.lastApplied - la
        /\ \A i \in 1..(st'.lastApplied - la) : new[i] = st.wal[la + i]
    <3>. HIDE DEF la
    <3>. QED BY <1>1, <1>6, <2>1, StretchType
  <2>. QED BY <2>2
<1>8. done' = done \o new /\ direct' \subseteq direct
      /\ UNCHANGED <<appends, skipped>>
  BY DEF Apply
<1>. HIDE DEF new
<1>9. /\ done' \in Seq(Entry) /\ Len(done') = st'.lastApplied
      /\ \A j \in 1..la : done'[j] = done[j]
      /\ \A j \in 1..Len(done') : j > la => j <= Len(st.wal) /\ done'[j] = st.wal[j]
  <2>1. done' \in Seq(Entry) /\ Len(done') = Len(done) + Len(new)
    BY <1>1, <1>7, <1>8, ConcatType
  <2>2. \A j \in 1..la : done'[j] = done[j]
    BY <1>1, <1>7, <1>8, ConcatType
  <2>3. ASSUME NEW j \in 1..Len(done'), j > la
        PROVE  j <= Len(st.wal) /\ done'[j] = st.wal[j]
    <3>1. done'[j] = new[j - la] /\ j - la \in 1..Len(new)
      <4>1. j \in 1..(Len(done) + Len(new)) /\ j > Len(done)
        BY <1>1, <2>1, <2>3
      <4>2. done'[j] = new[j - Len(done)]
        BY <1>1, <1>7, <1>8, <4>1, ConcatType
      <4>3. j - la \in 1..Len(new)
        BY <1>1, <1>6, <1>7, <4>1
      <4>. QED BY <1>1, <4>2, <4>3
    <3>2. la + (j - la) = j /\ j <= st'.lastApplied
      BY <1>1, <1>6, <1>7, <2>1, <2>3
    <3>. QED BY <1>1, <1>6, <1>7, <2>3, <3>1, <3>2
  <2>4. Len(done') = st'.lastApplied
    BY <1>1, <1>6, <1>7, <2>1
  <2>5. \A j \in 1..Len(done') : j > la => j <= Len(st.wal) /\ done'[j] = st.wal[j]
    BY <2>3
  <2>. QED BY <2>1, <2>2, <2>4, <2>5
<1>10. st'.kv = Replay(st.kv, st.wal, la, to)
  BY <1>1, <1>3 DEF StorageState
<1>. QED BY <1>2, <1>5, <1>6, <1>8, <1>9, <1>10 DEF to

LEMMA ApplyKeepsInv ==
  ASSUME StorageInv, NEW upTo \in Nat, Apply(upTo) PROVE StorageInv'
<1>. DEFINE la == st.lastApplied
            to == Bound(upTo)
<1>1. /\ st \in StorageState /\ la \in Nat /\ st.wal \in Seq(Entry)
      /\ done \in Seq(Entry) /\ Len(done) = la /\ skipped \subseteq Entry
      /\ Len(st.wal) \in Nat /\ appends \in Nat
  BY ApiAssumption DEF StorageInv, TypeOK, StorageState
<1>2. to \in Nat /\ st'.lastApplied >= to
  BY ApplyEffect
<1>3. /\ st' \in StorageState /\ st'.wal = st.wal
      /\ st'.commitIndex = to
  BY ApplyEffect
<1>4. /\ st'.lastApplied \in Nat /\ st'.lastApplied >= la
      /\ st'.lastApplied = la \/ st'.lastApplied <= Len(st.wal)
  BY ApplyEffect
<1>5. direct' \subseteq direct /\ UNCHANGED <<appends, skipped>>
  BY ApplyEffect
<1>6. /\ done' \in Seq(Entry) /\ Len(done') = st'.lastApplied
      /\ \A j \in 1..la : done'[j] = done[j]
      /\ \A j \in 1..Len(done') : j > la => j <= Len(st.wal) /\ done'[j] = st.wal[j]
  BY ApplyEffect
<1>. HIDE DEF to
<1>7. TypeOK'
  BY <1>2, <1>3, <1>5, <1>6 DEF StorageInv, TypeOK
<1>8. /\ \A i \in 1..Len(st.wal) : st.wal[i] \in Entry /\ st.wal[i].term \in Nat
      /\ \A j \in 1..Len(done) : done[j].term \in Nat
  BY <1>1, ElementType
<1>9. \A j \in 1..Len(done') : \/ j \in 1..la /\ done'[j] = done[j]
                               \/ /\ j > la /\ j \in 1..Len(st.wal)
                                  /\ done'[j] = st.wal[j]
  BY <1>1, <1>6
<1>10. AppliedOnceInOrder'
  <2>1. InOrder(st'.wal)
    BY <1>3 DEF StorageInv, AppliedOnceInOrder
  <2>2. ASSUME NEW i \in 1..Len(done'), NEW j \in 1..Len(done'), i < j
        PROVE  done'[i].term < done'[j].term
    <3>1. CASE j \in 1..la
      BY <1>1, <1>9, <2>2, <3>1 DEF StorageInv, AppliedOnceInOrder, InOrder
    <3>2. CASE j > la /\ i \in 1..la
      <4>1. /\ j \in 1..Len(st.wal) /\ done'[j] = st.wal[j]
            /\ i \in 1..Len(done) /\ done'[i] = done[i]
        BY <1>1, <1>9, <3>2
      <4>. QED BY <3>2, <4>1 DEF StorageInv, Younger
    <3>3. CASE i > la
      <4>1. /\ i \in 1..Len(st.wal) /\ done'[i] = st.wal[i]
            /\ j \in 1..Len(st.wal) /\ done'[j] = st.wal[j]
        BY <1>1, <1>6, <1>9, <2>2, <3>3
      <4>. QED BY <2>2, <4>1 DEF StorageInv, AppliedOnceInOrder, InOrder
    <3>. QED BY <1>1, <1>6, <3>1, <3>2, <3>3
  <2>. QED BY <2>1, <2>2 DEF AppliedOnceInOrder, InOrder
<1>11. Younger'
  <2>1. \A j \in 1..Len(done') : done'[j].term <= appends
    BY <1>1, <1>9 DEF StorageInv, Younger
  <2>2. ASSUME NEW i \in 1..Len(st.wal), NEW j \in 1..Len(done'),
               i > st'.lastApplied
        PROVE  done'[j].term < st.wal[i].term
    <3>1. i > la /\ i > j
      BY <1>1, <1>4, <1>6, <2>2
    <3>2. CASE j \in 1..la /\ done'[j] = done[j]
      BY <1>1, <3>1, <3>2 DEF StorageInv, Younger
    <3>3. CASE j \in 1..Len(st.wal) /\ done'[j] = st.wal[j]
      BY <3>1, <3>3 DEF StorageInv, AppliedOnceInOrder, InOrder
    <3>. QED BY <1>9, <3>2, <3>3
  <2>. QED BY <1>3, <1>5, <2>1, <2>2 DEF StorageInv, Younger
<1>12. PassedOrSkipped'
  <2>. SUFFICES ASSUME NEW i \in 1..Len(st.wal)
       PROVE IF i <= st'.lastApplied
             THEN (\E j \in 1..Len(done') : done'[j] = st.wal[i])
                     <=> st.wal[i] \notin skipped
             ELSE st.wal[i] \notin skipped
    BY <1>3, <1>5 DEF PassedOrSkipped
  <2>1. CASE i <= la
    <3>1. \A j \in 1..Len(st.wal) : j > la => st.wal[j] # st.wal[i]
      <4>1. ASSUME NEW j \in 1..Len(st.wal), j > la PROVE st.wal[j] # st.wal[i]
        <5>1. i < j
          BY <1>1, <2>1, <4>1
        <5>2. st.wal[i].term < st.wal[j].term
          BY <5>1 DEF StorageInv, AppliedOnceInOrder, InOrder
        <5>. QED BY <1>8, <5>2
      <4>. QED BY <4>1
    <3>2. (\E j \in 1..Len(done') : done'[j] = st.wal[i])
             <=> (\E j \in 1..Len(done) : done[j] = st.wal[i])
      BY <1>1, <1>4, <1>6, <1>9, <3>1
    <3>. QED BY <1>1, <1>4, <2>1, <3>2 DEF StorageInv, PassedOrSkipped
  <2>2. CASE i > la /\ i <= st'.lastApplied
    <3>1. i \in 1..Len(done') /\ done'[i] = st.wal[i]
      BY <1>1, <1>6, <2>2
    <3>2. st.wal[i] \notin skipped
      BY <1>1, <2>2 DEF StorageInv, PassedOrSkipped
    <3>. QED BY <2>2, <3>1, <3>2
  <2>3. CASE i > st'.lastApplied
    BY <1>1, <1>4, <2>3 DEF StorageInv, PassedOrSkipped
  <2>. QED BY <1>1, <1>4, <2>1, <2>2, <2>3
<1>. QED BY <1>7, <1>10, <1>11, <1>12 DEF StorageInv

LEMMA TruncateKeepsInv ==
  ASSUME StorageInv, NEW index \in Nat, Truncate(index) PROVE StorageInv'
<1>1. st \in StorageState /\ st.wal \in Seq(Entry)
  BY DEF StorageInv, TypeOK, StorageState
<1>2. UNCHANGED <<appends, done, direct, skipped>>
  BY DEF Truncate
<1>3. CASE index >= Len(st.wal)
  <2>1. st' = st
    BY <1>1, <1>3 DEF Truncate, TruncateLogsAfter
  <2>. QED BY <1>2, <2>1 DEF StorageInv, TypeOK, AppliedOnceInOrder, Younger,
                            PassedOrSkipped
<1>4. CASE index < Len(st.wal)
  <2>1. st' = [st EXCEPT !.wal = SubSeq(@, 1, index)]
    BY <1>4 DEF Truncate, TruncateLogsAfter
  <2>2. /\ SubSeq(st.wal, 1, index) \in Seq(Entry)
        /\ Len(SubSeq(st.wal, 1, index)) = index
        /\ \A i \in 1..index : SubSeq(st.wal, 1, index)[i] = st.wal[i]
    BY <1>1, <1>4
  <2>3. /\ st' \in StorageState
        /\ st'.lastApplied = st.lastApplied /\ st'.commitIndex = st.commitIndex
        /\ Len(st'.wal) = index /\ \A i \in 1..index : st'.wal[i] = st.wal[i]
    BY <1>1, <2>1, <2>2 DEF StorageState
  <2>4. 1..index \subseteq 1..Len(st.wal)
    BY <1>1, <1>4
  <2>5. TypeOK'
    BY <1>2, <2>3 DEF StorageInv, TypeOK
  <2>6. (AppliedOnceInOrder /\ Younger)'
    BY <1>2, <2>3, <2>4 DEF StorageInv, AppliedOnceInOrder, InOrder, Younger
  <2>7. PassedOrSkipped'
    BY <1>2, <2>3, <2>4 DEF StorageInv, PassedOrSkipped
  <2>. QED BY <2>5, <2>6, <2>7 DEF StorageInv
<1>. QED BY <1>1, <1>3, <1>4

LEMMA ClearKeepsInv == StorageInv /\ Clear => StorageInv'
<1>. SUFFICES ASSUME StorageInv, Clear PROVE StorageInv'
  OBVIOUS
<1>1. TypeOK'
  BY DEF StorageInv, Clear, Cleared, TypeOK, EmptyStorage, StorageState
<1>2. st'.wal = << >> /\ done' = << >> /\ skipped' = {}
  BY DEF Clear, Cleared, EmptyStorage
<1>. QED BY <1>1, <1>2 DEF StorageInv, AppliedOnceInOrder, InOrder, Younger,
                          PassedOrSkipped

LEMMA StepKeepsInv == StorageInv /\ [Next]_vars => StorageInv'
<1>. SUFFICES ASSUME StorageInv, [Next]_vars PROVE StorageInv'
  OBVIOUS
<1>1. ASSUME NEW k \in Key, Remove(k) PROVE StorageInv'
  BY <1>1, DirectKeepsInv DEF Remove, RemoveDirectly
<1>2. ASSUME NEW k \in Key, NEW v \in Value, Store(k, v) PROVE StorageInv'
  BY <1>2, DirectKeepsInv DEF Store, PutDirectly
<1>3. ASSUME NEW c \in Command, Log(c) PROVE StorageInv'
  BY <1>3, LogKeepsInv
<1>4. ASSUME NEW i \in 0..(MaxAppends + 1), Apply(i) PROVE StorageInv'
  BY <1>4, ApplyKeepsInv, ApiAssumption
<1>5. ASSUME NEW i \in 0..(MaxAppends + 1), Truncate(i) PROVE StorageInv'
  BY <1>5, TruncateKeepsInv, ApiAssumption
<1>6. CASE Clear
  BY <1>6, ClearKeepsInv
<1>7. CASE UNCHANGED vars
  BY <1>7 DEF vars, StorageInv, TypeOK, AppliedOnceInOrder, Younger,
              PassedOrSkipped
<1>. QED BY <1>1, <1>2, <1>3, <1>4, <1>5, <1>6, <1>7 DEF Next

LEMMA StorageInvHolds == Spec => []StorageInv
BY InvInitially, StepKeepsInv, PTL DEF Spec

(* Under any calls of the storage's methods its indices stay in order and   *)
(* the replay's index counts what has been applied.                         *)
THEOREM StorageTypeCorrect == Spec => []TypeOK
BY StorageInvHolds, PTL DEF StorageInv

(* No call makes the storage apply an entry twice or out of order. *)
THEOREM EntriesApplyOnceInOrder == Spec => []AppliedOnceInOrder
BY StorageInvHolds, PTL DEF StorageInv

(* What is committed has been applied, except the entries that were put in  *)
(* the place of applied ones.                                               *)
THEOREM CommittedApplyOrSkip == Spec => []CommittedWasApplied
<1>1. StorageInv => CommittedWasApplied
  <2>. SUFFICES ASSUME StorageInv PROVE CommittedWasApplied
    OBVIOUS
  <2>1. /\ st.commitIndex \in Nat /\ st.lastApplied \in Nat /\ Len(st.wal) \in Nat
        /\ st.commitIndex <= st.lastApplied
    BY DEF StorageInv, TypeOK, StorageState
  <2>2. \A i \in 1..Lesser(st.commitIndex, Len(st.wal)) :
          i \in 1..Len(st.wal) /\ i <= st.lastApplied
    BY <2>1 DEF Lesser
  <2>. QED BY <2>1, <2>2 DEF StorageInv, PassedOrSkipped, CommittedWasApplied
<1>. QED BY <1>1, StorageInvHolds, PTL

------------------------------------------------------------------------------
(* The log rebuilds the map.  The property is inductive with StorageInv:    *)
(* once applied entries have been cut off, the log is whole again only      *)
(* after clear().                                                           *)
Rebuilt(k) == st.kv[k] = Replay(EmptyStorage.kv, st.wal, 0, st.lastApplied)[k]

LEMMA StorageFields ==
  ASSUME StorageInv
  PROVE  /\ st \in StorageState /\ st.wal \in Seq(Entry) /\ Len(st.wal) \in Nat
         /\ st.lastApplied \in Nat /\ st.kv \in [Key -> Value \cup {Nil}]
         /\ done \in Seq(Entry) /\ Len(done) = st.lastApplied
<1>1. st \in StorageState /\ done \in Seq(Entry) /\ Len(done) = st.lastApplied
  BY DEF StorageInv, TypeOK
<1>. QED BY <1>1 DEF StorageState

(* A call that leaves the applied part of the log, the map and the indices  *)
(* alone leaves what the log rebuilds alone.                                *)
LEMMA SameAppliedRebuilds ==
  ASSUME StorageInv, LogRebuildsMap, LogIsWhole,
         st'.kv = st.kv, st'.lastApplied = st.lastApplied, direct' = direct,
         \A i \in 1..st.lastApplied : st'.wal[i] = st.wal[i]
  PROVE  LogRebuildsMap'
<1>1. st.lastApplied \in Nat
  BY StorageFields
<1>2. Replay(EmptyStorage.kv, st'.wal, 0, st.lastApplied)
        = Replay(EmptyStorage.kv, st.wal, 0, st.lastApplied)
  BY <1>1, ReplayPrefix
<1>. QED BY <1>2 DEF LogRebuildsMap

LEMMA DirectRebuilds ==
  ASSUME StorageInv, LogRebuildsMap, NEW k \in Key, NEW w \in Value \cup {Nil},
         st' = [st EXCEPT !.kv[k] = w], direct' = direct \cup {k},
         UNCHANGED <<appends, done, skipped>>
  PROVE  LogRebuildsMap'
<1>1. /\ st'.wal = st.wal /\ st'.lastApplied = st.lastApplied
      /\ \A j \in Key \ {k} : st'.kv[j] = st.kv[j]
  BY StorageFields DEF StorageState
<1>2. LogIsWhole' => LogIsWhole
  BY <1>1 DEF LogIsWhole
<1>. QED BY <1>1, <1>2 DEF LogRebuildsMap

LEMMA LogCallRebuilds ==
  ASSUME StorageInv, LogRebuildsMap, NEW c \in Command, Log(c)
  PROVE  LogRebuildsMap'
<1>. SUFFICES ASSUME LogIsWhole' PROVE LogRebuildsMap'
  BY DEF LogRebuildsMap
<1>1. /\ st'.kv = st.kv /\ st'.lastApplied = st.lastApplied
      /\ st'.wal = Append(st.wal, Numbered(c)) /\ direct' = direct
  BY StorageFields DEF Log, AppendLog, StorageState
<1>2. /\ Len(st'.wal) = Len(st.wal) + 1
      /\ \A i \in 1..Len(st.wal) : st'.wal[i] = st.wal[i]
  BY <1>1, StorageFields
<1>3. skipped' = skipped /\ Len(st'.wal) > Len(done)
  BY DEF Log, LogIsWhole
<1>4. st.lastApplied <= Len(st.wal)
  BY <1>2, <1>3, StorageFields
<1>5. LogIsWhole
  BY <1>3, <1>4 DEF LogIsWhole
<1>6. \A i \in 1..st.lastApplied : st'.wal[i] = st.wal[i]
  BY <1>2, <1>4, StorageFields
<1>. QED BY <1>1, <1>5, <1>6, SameAppliedRebuilds

LEMMA ApplyRebuilds ==
  ASSUME StorageInv, LogRebuildsMap, NEW upTo \in Nat, Apply(upTo)
  PROVE  LogRebuildsMap'
<1>. DEFINE la == st.lastApplied
            to == Lesser(upTo, Len(st.wal))
            new == SubSeq(st.wal, la + 1, st'.lastApplied)
<1>1. /\ la \in Nat /\ to \in Nat /\ to <= Len(st.wal) /\ Len(st.wal) \in Nat
      /\ st.kv \in [Key -> Value \cup {Nil}] /\ st.wal \in Seq(Entry)
  BY StorageFields, ClampType
<1>2. /\ st'.wal = st.wal /\ st'.lastApplied = Greater(la, to)
      /\ st'.kv = Replay(st.kv, st.wal, la, to)
      /\ skipped' = skipped
      /\ direct' = {k \in direct : \A i \in 1..Len(new) : ~Touches(new[i], k)}
  BY StorageFields DEF Apply, ApplyCommitted, StorageState
<1>. HIDE DEF to
<1>3. SUFFICES ASSUME LogIsWhole', NEW k \in Key \ direct'
               PROVE  Rebuilt(k)'
  BY DEF LogRebuildsMap, Rebuilt
<1>4. LogIsWhole
  <2>1. Greater(la, to) <= Len(st.wal)
    BY <1>2, <1>3 DEF LogIsWhole
  <2>2. la <= Len(st.wal)
    <3>. HIDE DEF la
    <3>1. Greater(la, to) \in Nat /\ la <= Greater(la, to)
      BY <1>1, ClampType
    <3>. QED BY <1>1, <2>1, <3>1
  <2>. QED BY <1>2, <1>3, <2>2 DEF LogIsWhole
<1>5. CASE to <= la
  <2>1. st'.lastApplied = la /\ st'.kv = st.kv
    <3>. HIDE DEF la
    <3>1. Greater(la, to) = la
      BY <1>1, <1>5 DEF Greater
    <3>2. Replay(st.kv, st.wal, la, to) = st.kv
      BY <1>1, <1>5, ReplayNothing
    <3>. QED BY <1>2, <3>1, <3>2
  <2>2. new = << >>
    BY <1>1, <2>1
  <2>3. k \notin direct
    <3>. HIDE DEF new
    <3>1. 1..Len(new) = {}
      BY <2>2
    <3>. QED BY <1>2, <1>3, <3>1
  <2>. QED BY <1>2, <1>4, <2>1, <2>3 DEF LogRebuildsMap, Rebuilt
<1>6. CASE to > la
  <2>1. st'.lastApplied = to
    <3>. HIDE DEF la
    <3>. QED BY <1>1, <1>2, <1>6 DEF Greater
  <2>2. Len(new) = to - la /\ \A i \in 1..(to - la) : new[i] = st.wal[la + i]
    <3>1. new = SubSeq(st.wal, la + 1, to)
      BY <2>1
    <3>. HIDE DEF la, new
    <3>. QED BY <1>1, <1>6, <3>1, StretchType
  <2>3. NotTouched(st.wal, la, to, k) => k \notin direct
    <3>. SUFFICES ASSUME NotTouched(st.wal, la, to, k) PROVE k \notin direct
      OBVIOUS
    <3>. HIDE DEF la, new
    <3>1. ASSUME NEW i \in 1..Len(new) PROVE ~Touches(new[i], k)
      <4>1. la + i \in (la + 1)..to /\ new[i] = st.wal[la + i]
        BY <1>1, <2>2
      <4>. QED BY <4>1 DEF NotTouched
    <3>. QED BY <1>2, <1>3, <3>1
  <2>4. NotTouched(st.wal, la, to, k) =>
          st.kv[k] = Replay(EmptyStorage.kv, st.wal, 0, la)[k]
    BY <1>4, <2>3 DEF LogRebuildsMap
  <2>5. Replay(st.kv, st.wal, la, to)[k]
          = Replay(EmptyStorage.kv, st.wal, 0, to)[k]
    <3>. HIDE DEF la
    <3>. QED BY <1>1, <1>6, <2>4, ReplayChainAt
  <2>. QED BY <1>2, <2>1, <2>5 DEF Rebuilt
<1>. QED BY <1>1, <1>5, <1>6

LEMMA TruncateRebuilds ==
  ASSUME StorageInv, LogRebuildsMap, NEW index \in Nat, Truncate(index)
  PROVE  LogRebuildsMap'
<1>. SUFFICES ASSUME LogIsWhole' PROVE LogRebuildsMap'
  BY DEF LogRebuildsMap
<1>1. direct' = direct /\ skipped' = skipped
  BY DEF Truncate
<1>2. CASE index >= Len(st.wal)
  <2>1. st' = st
    BY <1>2, StorageFields DEF Truncate, TruncateLogsAfter
  <2>. QED BY <1>1, <2>1 DEF LogRebuildsMap, LogIsWhole
<1>3. CASE index < Len(st.wal)
  <2>1. /\ st'.kv = st.kv /\ st'.lastApplied = st.lastApplied
        /\ st'.wal = SubSeq(st.wal, 1, index)
    BY <1>3, StorageFields DEF Truncate, TruncateLogsAfter, StorageState
  <2>2. Len(st'.wal) = index /\ \A i \in 1..index : st'.wal[i] = st.wal[i]
    BY <1>3, <2>1, StorageFields
  <2>3. st.lastApplied <= index
    BY <2>1, <2>2 DEF LogIsWhole
  <2>4. LogIsWhole
    BY <1>1, <1>3, <2>3, StorageFields DEF LogIsWhole
  <2>5. \A i \in 1..st.lastApplied : st'.wal[i] = st.wal[i]
    BY <2>2, <2>3, StorageFields
  <2>. QED BY <1>1, <2>1, <2>4, <2>5, SameAppliedRebuilds
<1>. QED BY <1>2, <1>3, StorageFields

(* A store of no entries is the empty map. *)
LEMMA EmptyRebuilds ==
  ASSUME st = EmptyStorage PROVE LogRebuildsMap
<1>1. st.kv = EmptyStorage.kv /\ st.lastApplied = 0
  BY DEF EmptyStorage
<1>2. Replay(EmptyStorage.kv, st.wal, 0, 0) = EmptyStorage.kv
  BY EmptyMapType, ReplayNothing
<1>. QED BY <1>1, <1>2 DEF LogRebuildsMap

LEMMA StepRebuilds ==
  ASSUME StorageInv, LogRebuildsMap, [Next]_vars PROVE LogRebuildsMap'
<1>1. ASSUME NEW k \in Key, Remove(k) PROVE LogRebuildsMap'
  BY <1>1, DirectRebuilds DEF Remove, RemoveDirectly
<1>2. ASSUME NEW k \in Key, NEW v \in Value, Store(k, v) PROVE LogRebuildsMap'
  BY <1>2, DirectRebuilds DEF Store, PutDirectly
<1>3. ASSUME NEW c \in Command, Log(c) PROVE LogRebuildsMap'
  BY <1>3, LogCallRebuilds
<1>4. ASSUME NEW i \in Nat, Apply(i) PROVE LogRebuildsMap'
  BY <1>4, ApplyRebuilds
<1>5. ASSUME NEW i \in Nat, Truncate(i) PROVE LogRebuildsMap'
  BY <1>5, TruncateRebuilds
<1>6. CASE Clear
  <2>1. st' = EmptyStorage
    BY <1>6 DEF Clear, Cleared
  <2>2. st'.kv = EmptyStorage.kv /\ st'.lastApplied = 0
    BY <2>1 DEF EmptyStorage
  <2>3. Replay(EmptyStorage.kv, st'.wal, 0, 0) = EmptyStorage.kv
    BY EmptyMapType, ReplayNothing
  <2>. QED BY <2>2, <2>3 DEF LogRebuildsMap
<1>7. CASE UNCHANGED vars
  BY <1>7 DEF LogRebuildsMap, LogIsWhole, vars
<1>8. 0..(MaxAppends + 1) \subseteq Nat
  BY ApiAssumption
<1>. QED BY <1>1, <1>2, <1>3, <1>4, <1>5, <1>6, <1>7, <1>8 DEF Next

(* Under any calls of the storage's methods the log is all one needs to     *)
(* rebuild the map, as long as no applied entry has been cut off.           *)
THEOREM LogHoldsTheMap == Spec => []LogRebuildsMap
<1>1. Init => LogRebuildsMap
  BY EmptyRebuilds DEF Init
<1>2. StorageInv /\ LogRebuildsMap /\ [Next]_vars => LogRebuildsMap'
  BY StepRebuilds
<1>. QED BY <1>1, <1>2, StorageInvHolds, PTL DEF Spec

------------------------------------------------------------------------------
(* StorageApi implements CommandStore: put and remove write past the        *)
(* commands, clear starts anew, apply_committed executes the commands it    *)
(* passes, and every other call leaves the map and the commands executed    *)
(* as they are.                                                             *)
(*                                                                          *)
(* CommandStore executes a batch by a fold, which takes the last position   *)
(* of a set again and again.  The fold and Replay agree on each stretch     *)
(* from the start of the batch.                                             *)
Folded(m, cs, g) ==
  [s \in SUBSET (DOMAIN cs) |->
     IF s = {} THEN m
     ELSE Commands!Do(g[s \ {Commands!Max(s)}], cs[Commands!Max(s)])]

Fold(m, cs) == CHOOSE g : g = Folded(m, cs, g)

LEMMA FoldLeftIsFold ==
  ASSUME NEW m, NEW cs
  PROVE  Commands!FoldLeft(Commands!Do, m, cs) = Fold(m, cs)[DOMAIN cs]
BY DEF Commands!FoldLeft, Commands!MapThenFoldSet, Fold, Folded

LEMMA LastOfSome ==
  ASSUME NEW n \in Nat, NEW s \in SUBSET (1..n), s # {}
  PROVE  Commands!Max(s) \in s /\ \A x \in s : x <= Commands!Max(s)
<1>1. s \in SUBSET Nat /\ \A x \in s : x <= n
  OBVIOUS
<1>2. \E x \in s : \A y \in s : x >= y
  <2>1. PICK x \in s : \A y \in s : y <= x
    BY <1>1, Greatest
  <2>. QED BY <1>1, <2>1
<1>3. Commands!Max(s) \in s /\ \A y \in s : Commands!Max(s) >= y
  BY <1>2 DEF Commands!Max
<1>. QED BY <1>1, <1>3

LEMMA LastOfAll ==
  ASSUME NEW n \in Nat \ {0} PROVE Commands!Max(1..n) = n
<1>1. Commands!Max(1..n) \in 1..n /\ n <= Commands!Max(1..n)
  <2>1. 1..n \in SUBSET (1..n) /\ n \in 1..n /\ n \in Nat
    OBVIOUS
  <2>. QED BY <2>1, LastOfSome
<1>. QED BY <1>1

LEMMA FoldExists ==
  ASSUME NEW n \in Nat, NEW m, NEW cs, DOMAIN cs = 1..n
  PROVE  \E g : g = Folded(m, cs, g)
<1>. DEFINE Agrees(g, s) == g[s] = Folded(m, cs, g)[s]
            UpTo(j) == \E g : g = [s \in SUBSET (1..n) |-> g[s]] /\
                         \A s \in SUBSET (1..j) : s \subseteq 1..n => Agrees(g, s)
            Fails == {j \in Nat : ~UpTo(j)}
<1>1. UpTo(0)
  <2>. DEFINE g == [s \in SUBSET (1..n) |-> m]
  <2>1. \A s \in SUBSET (1..0) : s \subseteq 1..n => Agrees(g, s)
    <3>1. 1..0 = {}
      OBVIOUS
    <3>2. Agrees(g, {})
      BY DEF Folded
    <3>. HIDE DEF Agrees, g
    <3>. QED BY <3>1, <3>2
  <2>2. g = [s \in SUBSET (1..n) |-> g[s]]
    OBVIOUS
  <2>. HIDE DEF Agrees, g
  <2>. QED BY <2>1, <2>2
<1>2. ASSUME NEW j \in Nat, UpTo(j) PROVE UpTo(j + 1)
  <2>1. PICK g : \A s \in SUBSET (1..j) : s \subseteq 1..n => Agrees(g, s)
    BY <1>2
  <2>. DEFINE h == Folded(m, cs, g)
  <2>2. h = [s \in SUBSET (1..n) |-> h[s]]
    BY DEF Folded
  <2>3. ASSUME NEW s \in SUBSET (1..(j + 1)), s \subseteq 1..n
        PROVE  Agrees(h, s)
    <3>1. CASE s = {}
      BY <3>1 DEF Folded
    <3>2. CASE s # {}
      <4>. DEFINE x == Commands!Max(s)
      <4>1. x \in s /\ \A y \in s : y <= x
        BY <2>3, <3>2, LastOfSome
      <4>2. s \ {x} \in SUBSET (1..j) /\ s \ {x} \subseteq 1..n
        <5>. HIDE DEF x
        <5>1. ASSUME NEW y \in s \ {x} PROVE y \in 1..j
          <6>1. y <= x /\ y # x /\ x \in 1..(j + 1) /\ y \in 1..(j + 1)
            BY <4>1
          <6>. QED BY <6>1
        <5>. QED BY <2>3, <5>1
      <4>3. g[s \ {x}] = h[s \ {x}]
        BY <2>1, <4>2
      <4>4. h[s] = Commands!Do(g[s \ {x}], cs[x])
        BY <2>3, <3>2 DEF Folded
      <4>5. Folded(m, cs, h)[s] = Commands!Do(h[s \ {x}], cs[x])
        BY <2>3, <3>2 DEF Folded
      <4>. QED BY <4>3, <4>4, <4>5
    <3>. QED BY <3>1, <3>2
  <2>4. \A s \in SUBSET (1..(j + 1)) : s \subseteq 1..n => Agrees(h, s)
    BY <2>3
  <2>. HIDE DEF h, Agrees
  <2>. QED BY <2>2, <2>4
<1>3. UpTo(n)
  <2>. HIDE DEF UpTo
  <2>. SUFFICES ASSUME Fails # {} PROVE FALSE
    OBVIOUS
  <2>1. PICK j \in Fails : \A k \in Fails : j <= k
    BY Least
  <2>2. j # 0 /\ j \in Nat /\ j - 1 \notin Fails
    BY <1>1, <2>1
  <2>3. UpTo(j - 1) /\ j - 1 \in Nat
    BY <2>2
  <2>4. UpTo((j - 1) + 1)
    BY <1>2, <2>3
  <2>. QED BY <2>1, <2>2, <2>4
<1>4. PICK g : /\ g = [s \in SUBSET (1..n) |-> g[s]]
               /\ \A s \in SUBSET (1..n) : Agrees(g, s)
  BY <1>3
<1>5. Folded(m, cs, g) = [s \in SUBSET (1..n) |-> Folded(m, cs, g)[s]]
  BY DEF Folded
<1>. QED BY <1>4, <1>5

LEMMA FoldStep ==
  ASSUME NEW n \in Nat, NEW m, NEW cs, DOMAIN cs = 1..n
  PROVE  /\ Fold(m, cs)[1..0] = m
         /\ \A j \in 1..n :
              Fold(m, cs)[1..j] = Commands!Do(Fold(m, cs)[1..(j - 1)], cs[j])
<1>. DEFINE g == Fold(m, cs)
<1>1. g = Folded(m, cs, g)
  BY FoldExists DEF Fold
<1>. HIDE DEF g
<1>2. g[1..0] = m
  <2>1. Folded(m, cs, g)[1..0] = m
    BY DEF Folded
  <2>. QED BY <1>1, <2>1
<1>3. ASSUME NEW j \in 1..n
      PROVE  g[1..j] = Commands!Do(g[1..(j - 1)], cs[j])
  <2>1. 1..j \in SUBSET (1..n) /\ 1..j # {}
    <3>1. j \in 1..j /\ \A x \in 1..j : x \in 1..n
      OBVIOUS
    <3>. QED BY <3>1, Zenon
  <2>2. Commands!Max(1..j) = j /\ (1..j) \ {j} = 1..(j - 1)
    <3>1. \A x : x \in (1..j) \ {j} <=> x \in 1..(j - 1)
      OBVIOUS
    <3>. QED BY <3>1, LastOfAll
  <2>3. Folded(m, cs, g)[1..j] = Commands!Do(g[1..(j - 1)], cs[j])
    BY <2>1, <2>2 DEF Folded
  <2>. QED BY <1>1, <2>3
<1>. QED BY <1>2, <1>3 DEF g

(* Executing a command is replaying its entry. *)
Orders(c, e) == c.type = e.type /\ c.key = e.key /\ c.value = e.value

LEMMA DoIsReplay ==
  ASSUME NEW kv \in [Key -> Value \cup {Nil}], NEW wal \in Seq(Entry),
         NEW i \in Nat, i + 1 \in 1..Len(wal),
         NEW c, Orders(c, wal[i + 1])
  PROVE  Commands!Do(kv, c) = Replay(kv, wal, i, i + 1)
<1>. DEFINE e == wal[i + 1]
            kv2 == Replay(kv, wal, i, i + 1)
<1>1. e \in Entry
  OBVIOUS
<1>2. ASSUME NEW k \in Key
      PROVE  kv2[k] = IF Touches(e, k) THEN Outcome(e) ELSE kv[k]
  <2>1. CASE Touches(e, k)
    <3>1. PICK to \in Nat : to = i + 1
      OBVIOUS
    <3>2. to \in (i + 1)..to /\ Decides(to, wal, to, k)
      BY <2>1, <3>1 DEF Decides
    <3>3. Replay(kv, wal, i, to)[k] = Outcome(wal[to])
      BY <3>2, ReplayDecided
    <3>4. kv2[k] = Outcome(e)
      BY <3>1, <3>3
    <3>. QED BY <2>1, <3>4
  <2>2. CASE ~Touches(e, k)
    <3>1. NotTouched(wal, i, i + 1, k)
      <4>1. \A j \in (i + 1)..(i + 1) : j = i + 1
        OBVIOUS
      <4>. QED BY <2>2, <4>1 DEF NotTouched
    <3>2. kv2[k] = kv[k]
      BY <3>1, ReplayUntouched
    <3>. QED BY <2>2, <3>2
  <2>. QED BY <2>1, <2>2
<1>3. kv2 = [k \in Key |-> kv2[k]]
  BY DEF Replay
<1>. HIDE DEF kv2, e
<1>4. kv2 = [k \in Key |-> IF Touches(e, k) THEN Outcome(e) ELSE kv[k]]
  BY <1>2, <1>3
<1>5. c.type = e.type /\ c.key = e.key /\ c.value = e.value
  BY DEF Orders, e
<1>6. CASE e.type = "Put"
  <2>1. Commands!Do(kv, c) = [kv EXCEPT ![e.key] = e.value]
    BY <1>5, <1>6 DEF Commands!Do
  <2>. QED BY <1>4, <1>6, <2>1 DEF Touches, Outcome, kv2
<1>7. CASE e.type = "Delete"
  <2>1. Commands!Do(kv, c) = [kv EXCEPT ![e.key] = Nil]
    BY <1>5, <1>7 DEF Commands!Do
  <2>. QED BY <1>4, <1>7, <2>1 DEF Touches, Outcome, kv2
<1>8. CASE e.type = "NoOp"
  <2>1. Commands!Do(kv, c) = kv
    BY <1>5, <1>8 DEF Commands!Do
  <2>. QED BY <1>4, <1>8, <2>1 DEF Touches, kv2
<1>. QED BY <1>1, <1>6, <1>7, <1>8 DEF Entry

LEMMA FoldIsReplay ==
  ASSUME NEW kv \in [Key -> Value \cup {Nil}], NEW wal \in Seq(Entry),
         NEW from \in Nat, NEW n \in Nat, from + n <= Len(wal),
         NEW cs, DOMAIN cs = 1..n, \A i \in 1..n : Orders(cs[i], wal[from + i])
  PROVE  Fold(kv, cs)[1..n] = Replay(kv, wal, from, from + n)
<1>. DEFINE g == Fold(kv, cs)
            Same(j) == g[1..j] = Replay(kv, wal, from, from + j)
            Fails == {j \in 0..n : ~Same(j)}
<1>1. g[1..0] = kv /\ \A j \in 1..n : g[1..j] = Commands!Do(g[1..(j - 1)], cs[j])
  BY FoldStep
<1>. HIDE DEF g
<1>2. Same(0)
  BY <1>1, ReplayNothing
<1>3. ASSUME NEW j \in 1..n, Same(j - 1) PROVE Same(j)
  <2>. DEFINE mid == from + (j - 1)
              kv1 == Replay(kv, wal, from, mid)
  <2>1. mid \in Nat /\ mid + 1 = from + j /\ mid + 1 \in 1..Len(wal) /\ from <= mid
    OBVIOUS
  <2>2. kv1 \in [Key -> Value \cup {Nil}]
    BY <2>1, ReplayType
  <2>3. g[1..j] = Commands!Do(kv1, cs[j])
    BY <1>1, <1>3
  <2>4. Orders(cs[j], wal[mid + 1])
    BY <2>1
  <2>. HIDE DEF mid
  <2>5. Replay(kv1, wal, mid, mid + 1) = Replay(kv, wal, from, mid + 1)
    BY <2>1, ReplayChain
  <2>. HIDE DEF kv1
  <2>6. Commands!Do(kv1, cs[j]) = Replay(kv1, wal, mid, mid + 1)
    BY <2>1, <2>2, <2>4, DoIsReplay
  <2>. QED BY <2>1, <2>3, <2>5, <2>6
<1>4. Fails = {}
  <2>. HIDE DEF Same
  <2>. SUFFICES ASSUME Fails # {} PROVE FALSE
    OBVIOUS
  <2>0. Fails \in SUBSET Nat
    OBVIOUS
  <2>1. PICK j \in Fails : \A k \in Fails : j <= k
    BY <2>0, Least
  <2>2. j \in 1..n /\ j - 1 \in 0..n /\ j - 1 \notin Fails
    BY <1>2, <2>1
  <2>. QED BY <1>3, <2>1, <2>2
<1>5. Same(n)
  <2>. HIDE DEF Same
  <2>. QED BY <1>4
<1>. QED BY <1>5 DEF g

NumberedCommand == [number : Nat, type : {"Put", "Delete", "NoOp"},
                    key : Key, value : Value]

LEMMA NumbersType ==
  ASSUME NEW es \in Seq(Entry)
  PROVE  /\ Numbers(es) \in Seq(NumberedCommand) /\ Len(Numbers(es)) = Len(es)
         /\ \A i \in 1..Len(es) : /\ Numbers(es)[i].number = es[i].term
                                  /\ Orders(Numbers(es)[i], es[i])
<1>1. \A i \in 1..Len(es) : es[i] \in Entry
  OBVIOUS
<1>2. Numbers(es) \in [1..Len(es) -> NumberedCommand]
  BY <1>1 DEF Numbers, Entry, NumberedCommand
<1>3. Len(es) \in Nat
  OBVIOUS
<1>4. Numbers(es) \in Seq(NumberedCommand) /\ Len(Numbers(es)) = Len(es)
  BY <1>2, <1>3
<1>5. \A i \in 1..Len(es) : /\ Numbers(es)[i].number = es[i].term
                            /\ Orders(Numbers(es)[i], es[i])
  BY DEF Numbers, Orders
<1>. QED BY <1>4, <1>5

LEMMA StartsEmpty == Init => Commands!Init
<1>. SUFFICES ASSUME Init PROVE Commands!Init
  OBVIOUS
<1>1. st.kv = Commands!Empty
  BY DEF Init, EmptyStorage, Commands!Empty
<1>2. done = << >> /\ done \in Seq(Entry)
  BY DEF Init
<1>3. Len(Numbers(done)) = 0 /\ Numbers(done) \in Seq(NumberedCommand)
  BY <1>2, NumbersType
<1>4. Numbers(done) = << >>
  BY <1>3
<1>. QED BY <1>1, <1>4 DEF Commands!Init

LEMMA SameMapAndDone ==
  ASSUME st'.kv = st.kv, done' = done
  PROVE  UNCHANGED <<st.kv, Numbers(done)>>
BY DEF Numbers

LEMMA DirectWritesPast ==
  ASSUME StorageInv, NEW k \in Key, NEW w \in Value \cup {Nil},
         st' = [st EXCEPT !.kv[k] = w], done' = done
  PROVE  Commands!WritePast(k)
<1>1. st'.kv = [st.kv EXCEPT ![k] = w]
  BY StorageFields DEF StorageState
<1>2. Numbers(done)' = Numbers(done)
  BY DEF Numbers
<1>. QED BY <1>1, <1>2 DEF Commands!WritePast

LEMMA ApplyExecutes ==
  ASSUME StorageInv, AppliedOnceInOrder', NEW upTo \in Nat, Apply(upTo)
  PROVE  Commands!Execute \/ UNCHANGED <<st.kv, Numbers(done)>>
<1>. DEFINE la == st.lastApplied
            to == Bound(upTo)
            cs == SubSeq(Numbers(done)', la + 1, to)
<1>1. /\ la \in Nat /\ Len(done) = la /\ done \in Seq(Entry)
      /\ st.wal \in Seq(Entry) /\ Len(st.wal) \in Nat
      /\ st.kv \in [Key -> Value \cup {Nil}]
  BY StorageFields
<1>2. /\ to \in Nat /\ to <= Len(st.wal) /\ st'.wal = st.wal
      /\ st'.kv = Replay(st.kv, st.wal, la, to)
      /\ st'.lastApplied = Greater(la, to)
      /\ done' \in Seq(Entry) /\ Len(done') = st'.lastApplied
      /\ \A j \in 1..la : done'[j] = done[j]
      /\ \A j \in 1..Len(done') : j > la => j <= Len(st.wal) /\ done'[j] = st.wal[j]
  BY ApplyEffect
<1>. HIDE DEF la, to
<1>3. CASE to <= la
  <2>1. st'.lastApplied = la
    BY <1>1, <1>2, <1>3 DEF Greater
  <2>2. st'.kv = st.kv
    BY <1>1, <1>2, <1>3, ReplayNothing
  <2>3. done' = done
    BY <1>1, <1>2, <2>1
  <2>. QED BY <2>2, <2>3, SameMapAndDone
<1>4. CASE to > la
  <2>. DEFINE ns == Numbers(done)
              ns2 == Numbers(done')
  <2>1. Len(done') = to
    BY <1>1, <1>2, <1>4 DEF Greater
  <2>2. /\ ns \in Seq(NumberedCommand) /\ Len(ns) = la
        /\ ns2 \in Seq(NumberedCommand) /\ Len(ns2) = to
        /\ \A i \in 1..to : /\ ns2[i].number = done'[i].term
                            /\ Orders(ns2[i], done'[i])
    BY <1>1, <1>2, <2>1, NumbersType
  <2>3. \A i \in 1..la : ns2[i] = ns[i]
    <3>1. \A i \in 1..la : i \in 1..Len(done') /\ i \in 1..Len(done)
      BY <1>1, <1>2, <1>4, <2>1
    <3>. QED BY <1>2, <3>1 DEF Numbers
  <2>. HIDE DEF ns, ns2
  <2>4. Commands!IsStrictPrefix(ns, ns2)
    <3>1. Len(ns) <= Len(ns2) /\ ns # ns2
      BY <1>1, <1>2, <1>4, <2>2
    <3>2. SubSeq(ns, 1, Len(ns)) = SubSeq(ns2, 1, Len(ns))
      BY <1>1, <1>2, <1>4, <2>2, <2>3
    <3>. QED BY <3>1, <3>2 DEF Commands!IsStrictPrefix, Commands!IsPrefix
  <2>5. Commands!InOrder(ns2)
    <3>1. ASSUME NEW i \in 2..to PROVE ns2[i - 1].number < ns2[i].number
      <4>1. i - 1 \in 1..to /\ i \in 1..to /\ i - 1 < i
        BY <1>2, <3>1
      <4>2. done'[i - 1].term < done'[i].term
        BY <2>1, <4>1 DEF AppliedOnceInOrder, InOrder
      <4>. QED BY <2>2, <4>1, <4>2
    <3>. QED BY <2>2, <3>1 DEF Commands!InOrder
  <2>6. PICK n \in Nat : n = to - la /\ la + n = to
    <3>1. to - la \in Nat /\ la + (to - la) = to
      BY <1>1, <1>2, <1>4
    <3>. QED BY <3>1
  <2>7. DOMAIN cs = 1..n /\ \A i \in 1..n : cs[i] = ns2[la + i]
    <3>1. cs = SubSeq(ns2, la + 1, to)
      BY DEF ns2
    <3>2. cs \in Seq(NumberedCommand) /\ Len(cs) = to - la
          /\ \A i \in 1..(to - la) : cs[i] = ns2[la + i]
      <4>. HIDE DEF cs
      <4>. QED BY <1>1, <1>2, <1>4, <2>2, <3>1, StretchType
    <3>. HIDE DEF cs
    <3>. QED BY <2>6, <3>2
  <2>. HIDE DEF cs
  <2>8. \A i \in 1..n : Orders(cs[i], st.wal[la + i])
    <3>1. ASSUME NEW i \in 1..n PROVE Orders(cs[i], st.wal[la + i])
      <4>1. la + i \in 1..to /\ la + i > la
        BY <1>1, <1>2, <2>6
      <4>2. done'[la + i] = st.wal[la + i]
        BY <1>2, <2>1, <4>1
      <4>. QED BY <2>2, <2>7, <4>1, <4>2
    <3>. QED BY <3>1
  <2>9. st'.kv = Commands!FoldLeft(Commands!Do, st.kv, cs)
    <3>1. la + n <= Len(st.wal)
      BY <1>2, <2>6
    <3>2. Fold(st.kv, cs)[1..n] = Replay(st.kv, st.wal, la, la + n)
      <4>1. PICK kv, wal, from, c : /\ kv = st.kv /\ wal = st.wal
                                    /\ from = la /\ c = cs
        OBVIOUS
      <4>2. /\ kv \in [Key -> Value \cup {Nil}] /\ wal \in Seq(Entry)
            /\ from \in Nat /\ from + n <= Len(wal) /\ DOMAIN c = 1..n
            /\ \A i \in 1..n : Orders(c[i], wal[from + i])
        BY <1>1, <2>7, <2>8, <3>1, <4>1
      <4>3. Fold(kv, c)[1..n] = Replay(kv, wal, from, from + n)
        BY <4>2, FoldIsReplay
      <4>. QED BY <4>1, <4>3
    <3>3. Commands!FoldLeft(Commands!Do, st.kv, cs) = Fold(st.kv, cs)[1..n]
      BY <2>7, FoldLeftIsFold
    <3>. QED BY <1>2, <2>6, <3>2, <3>3
  <2>10. Commands!Since(Len(ns)) = cs
    BY <2>2 DEF Commands!Since, cs, ns2
  <2>. QED BY <2>4, <2>5, <2>9, <2>10 DEF Commands!Execute, ns, ns2
<1>. QED BY <1>1, <1>2, <1>3, <1>4

LEMMA StepExecutes ==
  ASSUME StorageInv, StorageInv', [Next]_vars
  PROVE  [Commands!Next]_<<st.kv, Numbers(done)>>
<1>1. ASSUME NEW k \in Key, Remove(k)
      PROVE  [Commands!Next]_<<st.kv, Numbers(done)>>
  BY <1>1, DirectWritesPast DEF Remove, RemoveDirectly, Commands!Next
<1>2. ASSUME NEW k \in Key, NEW v \in Value, Store(k, v)
      PROVE  [Commands!Next]_<<st.kv, Numbers(done)>>
  BY <1>2, DirectWritesPast DEF Store, PutDirectly, Commands!Next
<1>3. ASSUME NEW c \in Command, Log(c)
      PROVE  [Commands!Next]_<<st.kv, Numbers(done)>>
  <2>1. st'.kv = st.kv /\ done' = done
    BY <1>3, StorageFields DEF Log, AppendLog, StorageState
  <2>. QED BY <2>1, SameMapAndDone
<1>4. ASSUME NEW i \in Nat, Apply(i)
      PROVE  [Commands!Next]_<<st.kv, Numbers(done)>>
  BY <1>4, ApplyExecutes DEF Commands!Next, StorageInv
<1>5. ASSUME NEW i \in Nat, Truncate(i)
      PROVE  [Commands!Next]_<<st.kv, Numbers(done)>>
  <2>1. st'.kv = st.kv /\ done' = done
    BY <1>5, StorageFields DEF Truncate, TruncateLogsAfter, StorageState
  <2>. QED BY <2>1, SameMapAndDone
<1>6. CASE Clear
  <2>1. st'.kv = Commands!Empty /\ done' = << >>
    BY <1>6 DEF Clear, Cleared, EmptyStorage, Commands!Empty
  <2>2. Numbers(done)' = << >>
    <3>1. Numbers(<< >>) \in Seq(NumberedCommand) /\ Len(Numbers(<< >>)) = 0
      <4>1. << >> \in Seq(Entry) /\ Len(<< >>) = 0
        OBVIOUS
      <4>. QED BY <4>1, NumbersType
    <3>2. Numbers(<< >>) = << >>
      BY <3>1
    <3>. QED BY <2>1, <3>2
  <2>. QED BY <2>1, <2>2 DEF Commands!StartAnew, Commands!Next
<1>7. CASE UNCHANGED vars
  BY <1>7, SameMapAndDone DEF vars
<1>8. 0..(MaxAppends + 1) \subseteq Nat
  BY ApiAssumption
<1>. QED BY <1>1, <1>2, <1>3, <1>4, <1>5, <1>6, <1>7, <1>8 DEF Next

(* The engine is a store that executes commands, each once and in order,    *)
(* whatever its log and its indices go through (storage.cpp).               *)
THEOREM StorageExecutesCommands == Spec => ExecutesCommands
BY StartsEmpty, StepExecutes, StorageInvHolds, PTL
   DEF Spec, ExecutesCommands, Commands!Spec
==============================================================================
