---------------------------- MODULE MCScheduler ----------------------------
(* Instances of Scheduler for TLC.                                         *)
EXTENDS Scheduler, TLC

Symmetry == Permutations(Thread) \cup Permutations(Worker) \cup Permutations(External)
=============================================================================
