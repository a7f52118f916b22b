-------------------------- MODULE MCSkillActivation --------------------------
\* TLC instance of SkillActivation: questions that share one roster, batches and
\* attempts are interchangeable.
EXTENDS SkillActivation, TLC

SkillSymmetry ==
    Permutations(Questions) \cup Permutations(Batches) \cup Permutations(Attempts)
=============================================================================
