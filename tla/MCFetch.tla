------------------------------ MODULE MCFetch ------------------------------
EXTENDS Fetch, TLC
Symm == Permutations(Requests)
=============================================================================
