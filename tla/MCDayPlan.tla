----------------------------- MODULE MCDayPlan -----------------------------
(* Two owners, three ids, four slots (0..3), the default day in the        *)
(* middle, so that it can grow at either end.                              *)
EXTENDS DayPlan, TLC

MCSlotInput == 0..4
MCSpanInput == 0..2

\* Ids are interchangeable, and so are owners.
OwnersToo == Permutations(BlockId) \cup Permutations(Owner)
=============================================================================
