----------------------------- MODULE MCHabitView ----------------------------
EXTENDS HabitView, TLC

Symmetry == Permutations(Habit)

\* Check-ins with lost answers, drags beside another device, and a week that turns.
MCBudget ==
  {[rows |-> 1, nav |-> 1, press |-> 3, drag |-> 0, drop |-> 0, other |-> 1, dawn |-> 0, fault |-> 2],
   [rows |-> 3, nav |-> 0, press |-> 0, drag |-> 2, drop |-> 2, other |-> 1, dawn |-> 0, fault |-> 1],
   [rows |-> 2, nav |-> 2, press |-> 1, drag |-> 1, drop |-> 1, other |-> 0, dawn |-> 1, fault |-> 1]}
=============================================================================
