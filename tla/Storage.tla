------------------------------- MODULE Storage -------------------------------
(****************************************************************************)
(* The StorageEngine of one node (src/src/storage.cpp): a write-ahead log,  *)
(* the key-value map built by applying it, and two indices into the log.    *)
(* Each method is an operator from the record before the call to the record *)
(* after it: every method holds rw_mutex_ for its whole body.               *)
(*                                                                          *)
(* LogEntry::index is always the entry's position (append_log gives it      *)
(* wal_log_.size() + 1) and is left out, as is the timestamp.               *)
(****************************************************************************)
EXTENDS Integers, Sequences

CONSTANTS Key, Value,
          Nil           \* std::nullopt: no value under a key

ASSUME NilAssumption == Nil \notin Key \cup Value

Entry == [term : Nat, type : {"Put", "Delete", "NoOp"},
          key : Key, value : Value]

StorageState == [kv : [Key -> Value \cup {Nil}], wal : Seq(Entry),
                 lastApplied : Nat, commitIndex : Nat]

EmptyStorage == [kv |-> [k \in Key |-> Nil], wal |-> << >>,
                 lastApplied |-> 0, commitIndex |-> 0]

Put(term, k, v) == [term |-> term, type |-> "Put", key |-> k, value |-> v]

LastLogIndex(st) == Len(st.wal)

LastLogTerm(st) == IF st.wal = << >> THEN 0 ELSE st.wal[Len(st.wal)].term

AppendLog(st, entry) == [st EXCEPT !.wal = Append(@, entry)]

(* put and remove: the map alone, past the log. *)
PutDirectly(st, k, v) == [st EXCEPT !.kv[k] = v]

RemoveDirectly(st, k) == [st EXCEPT !.kv[k] = Nil]

(* Neither index is looked at: entries that have been applied may go too. *)
TruncateLogsAfter(st, index) ==
  IF index < Len(st.wal) THEN [st EXCEPT !.wal = SubSeq(@, 1, index)] ELSE st

(* Mutant: the applied index outlives the log. *)
Cleared_KeepsApplied(st) ==
  [EmptyStorage EXCEPT !.lastApplied = st.lastApplied]

Cleared(st) == EmptyStorage

------------------------------------------------------------------------------
Touches(entry, k) == entry.type \in {"Put", "Delete"} /\ entry.key = k

(* Mutant: the first entry of the stretch decides. *)
Decides_First(i, wal, to, k) ==
  Touches(wal[i], k) /\ \A j \in 1..(i - 1) : ~Touches(wal[j], k)

(* What applying wal[from + 1 .. to] in order makes of kv: under each key,  *)
(* the outcome of the last entry of that stretch that touches it.           *)
Decides(i, wal, to, k) ==
  Touches(wal[i], k) /\ \A j \in (i + 1)..to : ~Touches(wal[j], k)

Outcome(entry) == IF entry.type = "Put" THEN entry.value ELSE Nil

Replay(kv, wal, from, to) ==
  [k \in Key |->
     IF \E i \in (from + 1)..to : Decides(i, wal, to, k)
     THEN Outcome(wal[CHOOSE i \in (from + 1)..to : Decides(i, wal, to, k)])
     ELSE kv[k]]

Lesser(a, b)  == IF a <= b THEN a ELSE b
Greater(a, b) == IF a >= b THEN a ELSE b

(* Mutant: the applied index follows the bound back. *)
ApplyCommitted_Rewinds(st, upTo) ==
  LET to == Lesser(upTo, Len(st.wal))
  IN  [st EXCEPT !.kv = Replay(@, st.wal, st.lastApplied, to),
                 !.lastApplied = to,
                 !.commitIndex = to]

(* apply_committed: the bound is clamped to the log, the loop starts at     *)
(* last_applied_index_, and commit_index_ takes the bound even when it is   *)
(* below what has been applied.                                             *)
ApplyCommitted(st, upTo) ==
  LET to == Lesser(upTo, Len(st.wal))
  IN  [st EXCEPT !.kv = Replay(@, st.wal, st.lastApplied, to),
                 !.lastApplied = Greater(@, to),
                 !.commitIndex = to]
==============================================================================
