--------------------------- MODULE MCBatchClosure ---------------------------
\* A small instance of BatchClosure for TLC.
EXTENDS BatchClosure, TLC

CONSTANTS q3, q4, l1, l2
BatchSymmetry == Permutations({q3, q4}) \cup Permutations({l1, l2})
=============================================================================
