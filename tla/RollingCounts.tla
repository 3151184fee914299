---------------------------- MODULE RollingCounts ---------------------------
(***************************************************************************)
(* How many events lie at most n ticks back, for each n of a window: all   *)
(* that a rate, a cap or a budget tells apart of the times of events.      *)
(***************************************************************************)
EXTENDS Integers

NoneUpTo(window) == [n \in 0 .. window |-> 0]

\* One more event, age ticks back.
OneMore(counts, age) ==
  [n \in DOMAIN counts |-> IF n < age THEN counts[n] ELSE counts[n] + 1]

\* The same events a tick later; those past the window are forgotten.
TickLater(counts) == [n \in DOMAIN counts |-> IF n = 0 THEN 0 ELSE counts[n - 1]]
=============================================================================
