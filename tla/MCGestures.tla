---------------------------- MODULE MCGestures ----------------------------
(* One user.  Cascade: three blocks on six slots, where nothing is         *)
(* committed, so every proposal from every column is covered.  Shared: two *)
(* blocks on two slots, two requests and a patch in flight, another tab,   *)
(* answers lost and streams reopened at any time.  Stale: the keyboard     *)
(* alone, on three slots.                                                  *)
EXTENDS Gestures, TLC

MCSlotInput == MinDayStart .. MaxDayEnd
MCSpanInput == 1 .. 2
MCAnyDay ==
  {b \in [start : MinDayStart .. MaxDayEnd, end : MinDayStart .. MaxDayEnd] : b.start < b.end}
MCWholeDay == {[start |-> MinDayStart, end |-> MaxDayEnd]}

Symmetry == Permutations(BlockId)
=============================================================================
