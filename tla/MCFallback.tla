----------------------------- MODULE MCFallback -----------------------------
EXTENDS Fallback, TLC
CONSTANTS r1, r2, r3
Symmetric == Permutations(Requests)
=============================================================================
