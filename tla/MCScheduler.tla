----------------------------- MODULE MCScheduler -----------------------------
(***************************************************************************)
(* Scheduler for TLC: threads at four priorities in two words.             *)
(***************************************************************************)
EXTENDS Scheduler, TLC

CONSTANTS t1, t2, t3

Interchangeable == Permutations({t2, t3})

=============================================================================
