----------------------------- MODULE MCWorkflow -----------------------------
EXTENDS Workflow, TLC

\* No property of the run tells these identities apart.
Symmetry ==
    Permutations(Sessions) \cup Permutations(Procs) \cup Permutations(Revisions)
        \cup Permutations(Threads)
=============================================================================
