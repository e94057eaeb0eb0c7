---------------------------- MODULE MCIpcMqueue ----------------------------
(* Small instances of IpcMqueue. *)
EXTENDS IpcMqueue, TLC

\* Threads are interchangeable, and so are ports and port sets.
Symmetry == Permutations(Threads) \cup Permutations(Ports) \cup Permutations(Psets)
=============================================================================
