---------------------------- MODULE MCMemoryJobs ----------------------------
(***************************************************************************)
(* MemoryJobs for TLC: two processes that share one store.                 *)
(***************************************************************************)
EXTENDS MemoryJobs, TLC

Symmetries == Permutations(Procs)
Both == {TRUE, FALSE}
=============================================================================
