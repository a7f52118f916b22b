----------------------------- MODULE MCRunStore -----------------------------
(* Instances of RunStore for TLC: processes and keys are interchangeable.  *)
EXTENDS RunStore, TLC

Symmetry == Permutations(Proc) \cup Permutations(Key) \cup Permutations(Payload)
=============================================================================
