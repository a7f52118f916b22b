---------------------------- MODULE MCSupervisor ----------------------------
(* Instances of Supervisor for TLC: questions are interchangeable.            *)
EXTENDS Supervisor, TLC

Symmetry == Permutations(Questions) \cup Permutations(Probers)
=============================================================================
