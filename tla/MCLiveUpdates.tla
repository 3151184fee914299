--------------------------- MODULE MCLiveUpdates ---------------------------
(* One tab, two workers, edits from other devices, short channels.         *)
EXTENDS LiveUpdates, TLC

Symmetry == Permutations(Tab) \cup Permutations(Worker)
=============================================================================
