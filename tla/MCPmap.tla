------------------------------- MODULE MCPmap ------------------------------
(* Pmap on small sets.                                                      *)
EXTENDS Pmap, TLC

Symmetry == Permutations(Cpus) \cup Permutations(Pmaps \ {kernel_pmap})
            \cup Permutations(Pages)
=============================================================================
