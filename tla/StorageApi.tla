------------------------------ MODULE StorageApi ------------------------------
(****************************************************************************)
(* A StorageEngine by itself (src/src/storage.cpp), under calls of all its  *)
(* public methods in any order, by any number of threads: each call is one  *)
(* step, since it holds rw_mutex_ for its whole body.  A Node makes only    *)
(* some of these calls (see Cluster); nothing in the class rules out the    *)
(* others.  The const methods change nothing and are not steps.             *)
(*                                                                          *)
(* The engine never looks at an entry's term.  Here it numbers the entries  *)
(* in the order of append_log, so that two of them are never the same.      *)
(****************************************************************************)
EXTENDS Storage

CONSTANTS Command,    \* the commands that append_log is given
          MaxAppends  \* bound: calls of append_log

ASSUME ApiAssumption ==
  /\ Command \subseteq [type : {"Put", "Delete", "NoOp"}, key : Key, value : Value]
  /\ MaxAppends \in Nat

VARIABLES st,         \* the engine
          appends,    \* how many entries have been appended, for their numbers
          done,       \* history: the entries applied since the last clear
          direct,     \* history: keys last changed by put or remove
          skipped     \* history: entries appended where entries had been
                      \* applied and were cut off

vars == <<st, appends, done, direct, skipped>>

Numbered(c) == [term |-> appends + 1, type |-> c.type,
                key |-> c.key, value |-> c.value]

------------------------------------------------------------------------------
Store(k, v) ==
  /\ st' = PutDirectly(st, k, v)
  /\ direct' = direct \cup {k}
  /\ UNCHANGED <<appends, done, skipped>>

Remove(k) ==
  /\ st' = RemoveDirectly(st, k)
  /\ direct' = direct \cup {k}
  /\ UNCHANGED <<appends, done, skipped>>

Log(c) ==
  /\ appends < MaxAppends /\ appends' = appends + 1
  /\ st' = AppendLog(st, Numbered(c))
  /\ skipped' = IF Len(st'.wal) <= Len(done) THEN skipped \cup {Numbered(c)}
                                             ELSE skipped
  /\ UNCHANGED <<done, direct>>

(* apply_committed.  The loop goes over the entries that lastApplied passes. *)
Apply(upTo) ==
  /\ st' = ApplyCommitted(st, upTo)
  /\ LET new == SubSeq(st.wal, st.lastApplied + 1, st'.lastApplied)
     IN  /\ done' = done \o new
         /\ direct' = {k \in direct : \A i \in 1..Len(new) : ~Touches(new[i], k)}
  /\ UNCHANGED <<appends, skipped>>

Truncate(index) ==
  /\ st' = TruncateLogsAfter(st, index)
  /\ UNCHANGED <<appends, done, direct, skipped>>

Clear ==
  /\ st' = Cleared(st)
  /\ done' = << >> /\ direct' = {} /\ skipped' = {}
  /\ UNCHANGED appends

Init == /\ st = EmptyStorage /\ appends = 0
        /\ done = << >> /\ direct = {} /\ skipped = {}

Next ==
  \/ \E k \in Key : Remove(k) \/ \E v \in Value : Store(k, v)
  \/ \E c \in Command : Log(c)
  \/ \E i \in 0..(MaxAppends + 1) : Apply(i) \/ Truncate(i)
  \/ Clear

Spec == Init /\ [][Next]_vars

------------------------------------------------------------------------------
(* The types of the state, and the two indices: what is committed has been  *)
(* passed by the replay, even where the log has since been cut shorter.     *)
TypeOK ==
  /\ st \in StorageState /\ appends \in 0..MaxAppends
  /\ done \in Seq(Entry) /\ direct \subseteq Key /\ skipped \subseteq Entry
  /\ st.commitIndex <= st.lastApplied /\ st.lastApplied = Len(done)

InOrder(es) == \A i, j \in 1..Len(es) : i < j => es[i].term < es[j].term

(* Whatever is cut off, appended again and applied up to whatever index, no *)
(* entry is applied twice, and none after one that was appended later.      *)
AppliedOnceInOrder == InOrder(st.wal) /\ InOrder(done)

(* An entry at or below the commit index has been applied, or took the      *)
(* place of an applied entry that truncate_logs_after had cut off: such an  *)
(* entry is committed and never executed, since truncate_logs_after leaves  *)
(* last_applied_index_ beyond the end of the log (storage.cpp:99).          *)
CommittedWasApplied ==
  \A i \in 1..Lesser(st.commitIndex, Len(st.wal)) :
    (\E j \in 1..Len(done) : done[j] = st.wal[i]) <=> st.wal[i] \notin skipped

(* Nothing that has been applied is missing in the log. *)
LogIsWhole == skipped = {} /\ st.lastApplied <= Len(st.wal)

(* The log is all one needs to rebuild the map, a key at a time: replayed   *)
(* from the start it gives the value of every key that was not last changed *)
(* by put or remove (storage.cpp:6, 20), unless applied entries were cut.   *)
LogRebuildsMap ==
  LogIsWhole => \A k \in Key \ direct :
    st.kv[k] = Replay(EmptyStorage.kv, st.wal, 0, st.lastApplied)[k]

(* The entries as the commands of a store without a log. *)
Numbers(es) == [i \in 1..Len(es) |-> [number |-> es[i].term, type |-> es[i].type,
                                      key |-> es[i].key, value |-> es[i].value]]

Commands == INSTANCE CommandStore WITH map <- st.kv, done <- Numbers(done)

(* The engine is a store that executes commands, each once and in order,    *)
(* whatever its log and its indices go through.                             *)
ExecutesCommands == Commands!Spec
==============================================================================
