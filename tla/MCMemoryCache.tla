---------------------------- MODULE MCMemoryCache ----------------------------
(* MemoryCache on three days, of which at most two fit.                      *)
EXTENDS MemoryCache, TLC

Days == 1..3
Symm == Permutations(Values) \cup Permutations(Callers)
=============================================================================
