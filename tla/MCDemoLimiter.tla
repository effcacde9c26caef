--------------------------- MODULE MCDemoLimiter ---------------------------
EXTENDS DemoLimiter, TLC
Symm == Permutations(Requests) \cup Permutations(Ips)
=============================================================================
