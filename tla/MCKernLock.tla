----------------------------- MODULE MCKernLock -----------------------------
(* KernLock for TLC.                                                        *)
EXTENDS KernLock, TLC
=============================================================================
