--------------------------- MODULE MCResearcherRun ---------------------------
(* Instances of ResearcherRun for TLC.                                     *)
EXTENDS ResearcherRun, TLC

Symmetry == Permutations(Workers) \cup Permutations(Requests \ RuntimeOwned)
=============================================================================
