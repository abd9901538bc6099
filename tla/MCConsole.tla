------------------------------- MODULE MCConsole ------------------------------
EXTENDS Console

Symmetry == Permutations(Proc)
=============================================================================
