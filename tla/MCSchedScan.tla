---------------------------- MODULE MCSchedScan ----------------------------
(* SchedScan for TLC. *)
EXTENDS SchedScan, TLC

CONSTANTS t1, p1

NoneBound == [t \in Threads |-> Null]
OneBound == [t \in Threads |-> IF t = t1 THEN p1 ELSE Null]
ThreadSymmetry == Permutations(Threads)
=============================================================================
