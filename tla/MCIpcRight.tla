----------------------------- MODULE MCIpcRight -----------------------------
(* IpcRight on small sets.                                                  *)
EXTENDS IpcRight, TLC

Symmetry == Permutations(Names) \cup Permutations(Ports) \cup Permutations(Spaces)
=============================================================================
