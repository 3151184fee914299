----------------------------- MODULE MCJotSync -----------------------------
(* Two tabs, two words.                                                    *)
EXTENDS JotSync, TLC

Symmetry == Permutations(Client) \cup Permutations(Word)
=============================================================================
