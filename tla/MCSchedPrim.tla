---------------------------- MODULE MCSchedPrim ----------------------------
(* SchedPrim for TLC. *)
EXTENDS SchedPrim, TLC

CONSTANTS t1, p1

NoneBound == [t \in Threads |-> Null]
OneBound == [t \in Threads |-> IF t = t1 THEN p1 ELSE Null]

\* Where no thread is bound, threads are interchangeable; so are processors
\* when there is no clock.
ThreadSymmetry == Permutations(Threads)
Symmetry == Permutations(Processors) \cup Permutations(Threads)
=============================================================================
