------------------------------ MODULE MCHabits ------------------------------
EXTENDS Habits, TLC

Symmetry == Permutations(Owner) \cup Permutations(Name)
=============================================================================
