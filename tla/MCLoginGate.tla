----------------------------- MODULE MCLoginGate ----------------------------
EXTENDS LoginGate, TLC

Symmetry == Permutations(Source) \cup Permutations(Request) \cup Permutations(Email)
=============================================================================
