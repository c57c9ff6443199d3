--------------------------- MODULE MCPageRelease ---------------------------
\* Model-checking instance of PageRelease.
EXTENDS PageRelease, TLC

Workers == Permutations(Worker)
=============================================================================
