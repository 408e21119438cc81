----------------------------- MODULE CommandStore -----------------------------
(****************************************************************************)
(* What a replica's key-value store promises, with no log and no index: it  *)
(* executes commands one after the other, each of them at most once and in  *)
(* the order they were given to it, a whole batch at a time.  A client may  *)
(* also write a key past the commands, and start the store anew.            *)
(****************************************************************************)
EXTENDS Integers, SequencesExt

CONSTANTS Key, Value, Nil

VARIABLES map,      \* map[k]: the value under k, or Nil
          done      \* the commands executed so far, each with its number

Do(m, c) == CASE c.type = "Put"    -> [m EXCEPT ![c.key] = c.value]
              [] c.type = "Delete" -> [m EXCEPT ![c.key] = Nil]
              [] c.type = "NoOp"   -> m

Empty == [k \in Key |-> Nil]

Init == map = Empty /\ done = << >>

(* The commands after the first n of those now done. *)
Since(n) == SubSeq(done', n + 1, Len(done'))

InOrder(cs) == \A i \in 2..Len(cs) : cs[i - 1].number < cs[i].number

Execute ==
  /\ IsStrictPrefix(done, done') /\ InOrder(done')
  /\ map' = FoldLeft(Do, map, Since(Len(done)))

WritePast(k) ==
  /\ \E v \in Value \cup {Nil} : map' = [map EXCEPT ![k] = v]
  /\ UNCHANGED done

StartAnew == map' = Empty /\ done' = << >>

Next == Execute \/ StartAnew \/ \E k \in Key : WritePast(k)

Spec == Init /\ [][Next]_<<map, done>>
==============================================================================
