----------------------------- MODULE MCScheduling -----------------------------
(* Symmetry of the constants of Scheduling for TLC.                         *)
EXTENDS Scheduling, TLC

ThreadSymmetry == Permutations(Threads)
==============================================================================
