-------------------------------- MODULE MCLocks --------------------------------
(* Instances of Locks for TLC. *)
EXTENDS Locks

CONSTANTS t1, t2

TwoThreads == {t1, t2}
==============================================================================
