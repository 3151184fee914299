----------------------------- MODULE PushLayout -----------------------------
(***************************************************************************)
(* The push cascade of blocks/push.js and the keyboard reducer built on it *)
(* (blocks/keyboard-reducer.js): pure functions from the layout a gesture  *)
(* started with to the layout it proposes.                                 *)
(*                                                                         *)
(* A layout maps ids to [slot, span]; the arrays of the code differ only   *)
(* in the order they list it.  NoLayout is JavaScript's null.              *)
(***************************************************************************)
EXTENDS Integers, FiniteSets, Functions

CONSTANT NoLayout

Run(p) == p.slot .. (p.slot + p.span - 1)
Overlaps(p, q) == p.slot < q.slot + q.span /\ q.slot < p.slot + p.span

Fits(b, p) == p.slot >= b.start /\ p.slot + p.span <= b.end

\* The nearest place a run p may slide to, up or down, clear of the settled
\* runs: the inner loop of pushLayout, which jumps past each run in the way
\* until none is.  A run that would leave the day has no place.
Places(b, p, settled, up) ==
  {s \in b.start .. (b.end - p.span) :
     /\ IF up THEN s <= p.slot ELSE s >= p.slot
     /\ \A f \in settled : ~Overlaps([p EXCEPT !.slot = s], f)}

\* Slip: the place at the far end.
Farthest(s, S) ==
  CHOOSE x \in S : \A y \in S : (s <= y /\ y <= x) \/ (s >= y /\ y >= x)

Nearest(s, S) ==
  CHOOSE x \in S : \A y \in S : (s <= x /\ x <= y) \/ (s >= x /\ x >= y)

\* Slip: a displaced run stops flush with the block that pushed it, even if
\* another settled run is already there.
SlideOnce(b, p, settled, up) ==
  LET hit == {f \in settled : Overlaps(p, f)}
      f == CHOOSE g \in hit : TRUE
      s == IF hit = {} THEN p.slot
           ELSE IF up THEN f.slot - p.span ELSE f.slot + f.span
  IN IF Fits(b, [p EXCEPT !.slot = s]) THEN s ELSE NoLayout

Slide(b, p, settled, up) ==
  LET places == Places(b, p, settled, up)
  IN IF places = {} THEN NoLayout ELSE Nearest(p.slot, places)

\* The id that a sweep away from the moved block meets last.
LastMet(current, up, S) ==
  CHOOSE i \in S : \A j \in S :
    IF up THEN current[i].slot <= current[j].slot ELSE current[i].slot >= current[j].slot

\* The sweep: blocks in the order they are met, each cleared of those before it.
Sweep(b, current, id, moved, up) ==
  MapThenFoldSet(
    LAMBDA i, out :
      IF out = NoLayout THEN NoLayout
      ELSE LET s == Slide(b, current[i], Range(out), up)
           IN IF s = NoLayout THEN NoLayout
              ELSE [j \in DOMAIN out \cup {i} |->
                      IF j = i THEN [current[i] EXCEPT !.slot = s] ELSE out[j]],
    [i \in {id} |-> moved],
    LAMBDA i : i,
    LAMBDA S : LastMet(current, up, S),
    DOMAIN current \ {id})

Total(span, S) ==
  MapThenFoldSet(+, 0, LAMBDA i : span[i], LAMBDA T : CHOOSE i \in T : TRUE, S)

Spans(layout) == [i \in DOMAIN layout |-> layout[i].span]

Lesser(m, n) == IF m < n THEN m ELSE n

\* Take a deficit out of the blocks below, one after the other (up = FALSE: the
\* closest first), none falling under floor; NoLayout when they cannot cover it.
TakeOut(current, below, deficit, floor, up) ==
  LET taken == MapThenFoldSet(
        LAMBDA i, acc :
          LET give == Lesser(current[i].span - floor, acc.deficit)
          IN [deficit |-> acc.deficit - give,
              span |-> [acc.span EXCEPT ![i] = current[i].span - give]],
        [deficit |-> deficit, span |-> Spans(current)],
        LAMBDA i : i,
        LAMBDA S : LastMet(current, up, S),
        below)
  IN IF taken.deficit > 0 THEN NoLayout ELSE Restrict(taken.span, below)

\* Slip: a compressed block may vanish.
CompressToNothing(current, below, available) ==
  TakeOut(current, below, Total(Spans(current), below) - available, 0, FALSE)

\* Slip: the farthest block gives first.
CompressFarthest(current, below, available) ==
  TakeOut(current, below, Total(Spans(current), below) - available, 1, TRUE)

\* compressBelow
CompressBelow(current, below, available) ==
  TakeOut(current, below, Total(Spans(current), below) - available, 1, FALSE)

\* The compressed blocks stacked tight under the grown one.
Stack(current, id, moved, spans) ==
  [i \in DOMAIN current |->
     IF i = id THEN moved
     ELSE IF i \in DOMAIN spans
     THEN LET above == {j \in DOMAIN spans : current[j].slot < current[i].slot}
          IN [slot |-> moved.slot + moved.span + Total(spans, above), span |-> spans[i]]
     ELSE current[i]]

\* Slip: displaced blocks always go down.
PushAlwaysDown(b, current, id, moved, compress) ==
  IF Fits(b, moved) THEN Sweep(b, current, id, moved, FALSE) ELSE NoLayout

\* Slip: nothing is displaced, an occupied target is refused.
PushNothing(b, current, id, moved, compress) ==
  IF /\ Fits(b, moved)
     /\ \A j \in DOMAIN current \ {id} : ~Overlaps(moved, current[j])
  THEN [current EXCEPT ![id] = moved]
  ELSE NoLayout

\* pushLayout
Push(b, current, id, moved, compress) ==
  LET up == moved.slot > current[id].slot
      below == {i \in DOMAIN current \ {id} : current[i].slot > moved.slot}
      available == b.end - (moved.slot + moved.span)
  IN IF ~Fits(b, moved) THEN NoLayout
     ELSE IF compress /\ ~up /\ Total(Spans(current), below) > available
     THEN LET spans == CompressBelow(current, below, available)
          IN IF spans = NoLayout THEN NoLayout ELSE Stack(current, id, moved, spans)
     ELSE Sweep(b, current, id, moved, up)

-----------------------------------------------------------------------------
(* The keyboard reducer: from the grab-START layout and the running target. *)

Moved(current, id, slot)   == [current[id] EXCEPT !.slot = slot]
Resized(current, id, span) == [current[id] EXCEPT !.span = span]

\* keyboardLayout, mode "move": the next target in the arrow's direction that
\* pushLayout accepts; none means "blocked".
MoveTargets(b, current, id, from, step) ==
  {s \in b.start .. (b.end - current[id].span) :
     /\ IF step > 0 THEN s > from ELSE s < from
     /\ Push(b, current, id, Moved(current, id, s), FALSE) # NoLayout}

\* Slip: the rest of the day, whatever lies below.
MaxSpanToDayEnd(b, current, id) == b.end - current[id].slot

\* maxResizeSpan
MaxResizeSpan(b, current, id) ==
  LET spans == {n \in 2 .. (b.end - current[id].slot) :
                  Push(b, current, id, Resized(current, id, n), TRUE) # NoLayout}
  IN IF spans = {} THEN 1 ELSE CHOOSE n \in spans : \A m \in spans : n >= m
=============================================================================
