----------------------------- MODULE MCKernelIPC -----------------------------
(***************************************************************************)
(* An instance of KernelIPC for TLC.                                       *)
(***************************************************************************)
EXTENDS KernelIPC, TLC

Symmetric == Permutations(Threads)

=============================================================================
