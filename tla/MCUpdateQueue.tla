---------------------------- MODULE MCUpdateQueue -----------------------------
\* UpdateQueue on a small instance.
EXTENDS UpdateQueue, TLC

Symmetry == Permutations(Jobs) \cup Permutations(Refs) \cup Permutations(Bodies)
===============================================================================
