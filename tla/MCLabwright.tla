---------------------------- MODULE MCLabwright ----------------------------
\* A small instance of Labwright for TLC.
EXTENDS Labwright, TLC

CONSTANTS w1, w2, c1, c2
LabSymmetry == Permutations({w1, w2}) \cup Permutations({c1, c2})
=============================================================================
