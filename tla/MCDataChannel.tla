--------------------------- MODULE MCDataChannel ---------------------------
\* DataChannel for model checking.
EXTENDS DataChannel, TLC

Symmetry == Permutations(Addrs)
=============================================================================
