------------------------------ MODULE HabitGrid ------------------------------
(***************************************************************************)
(* The habit grid of one browser tab: the week it selected, the reads of   *)
(* that week, and what a patch does to the rendered rows, the check-ins    *)
(* awaiting a read and a drag under way (habits.templ, checkins.js,        *)
(* reorder.js, HabitWeekHandler).                                          *)
(*                                                                         *)
(* A patch's selector names the week, view, refresh token and read request *)
(* it was asked for; data-attr keeps the grid's own keys at the signals.   *)
(* Views, tokens and requests never repeat, so a request carries the parts *)
(* of its key that changed since: it still matches when there are none.    *)
(* Each week has one check-in button, that of one habit.                   *)
(***************************************************************************)
EXTENDS Integers, Sequences, FiniteSets, FiniteSetsExt, SequencesExt

CONSTANTS
  Habit,      \* the owner's habits
  LastWeek,   \* bound: the last week that begins
  MaxPress,   \* bound: check-in requests of the tab
  MaxDrop,    \* bound: reorder requests of the tab
  Budget,     \* bounds: how often the tab and the world around it act, a choice of records
  None

ASSUME HabitGridAssumption ==
  /\ IsFiniteSet(Habit) /\ {LastWeek, MaxPress, MaxDrop} \subseteq Nat
  /\ Budget \subseteq [rows : Nat, nav : Nat, press : 0 .. MaxPress, drag : Nat, drop : 0 .. MaxDrop,
                     other : Nat, dawn : 0 .. LastWeek, fault : Nat]

VARIABLES
  store,      \* what the service has: ticked weeks, the order, the start, the current week
  sel,        \* signals habitweek, _habitfollowing, _habitcurrentweek
  grid,       \* the rendered grid, or None while it says it is loading
  get,        \* GET /habits/week in flight, or None
  attempt,    \* checkins.js: week -> the attempt of its button, or None
  post,       \* token -> POST /habits/check-in, or None
  drop,       \* POST /habits/reorder by number, or None
  drag,       \* reorder.js: the pointer gesture, or None
  stream,     \* /events: down, idle, or with a refresh to deliver
  left,       \* what is left of the budget
  landed,     \* tokens whose check-in was committed
  intent,     \* week -> what the first press since the last receipt wanted, or None
  missed      \* why the grid may lag behind with nothing on its way

tab == <<store, sel, grid, get, attempt, post, drop, drag, stream, left, landed, intent, missed>>

Week  == 0 .. LastWeek
Token == 1 .. MaxPress
Order == SetToAllKPermutations(Habit) \ {<< >>}

\* The parts of a grid's key; the week it shows is the fourth and never changes alone.
Part == {"view", "refresh", "read"}

\* A week as stored and as rendered; requests on their way, with the parts of their key
\* that changed since; an attempt of a button; a row under the pointer.
Shown       == [week : Int, live : BOOLEAN, ticked : BOOLEAN, open : BOOLEAN,
                rows : Seq(Habit), sees : SUBSET Token]
Grid        == [week : Int, live : BOOLEAN, ticked : BOOLEAN, open : BOOLEAN,
                rows : Seq(Habit), sees : SUBSET Token, want : BOOLEAN]
WeekGet     == [week : Int, changed : SUBSET Part, since : SUBSET Week, snap : Shown \cup {None}]
OrderPost   == [week : Int, changed : SUBSET Part, since : SUBSET Week, snap : Shown \cup {None},
                rows : Seq(Habit), heard : BOOLEAN, served : BOOLEAN]
CheckInPost == [week : Week, desired : BOOLEAN, heard : BOOLEAN,
                result : {"committed", "rejected", None}]
Attempt     == [token : Token, desired : BOOLEAN, phase : {"posting", "unknown", "saved", "unread"}]
Dragged     == [row : Habit, from : Seq(Habit)]

ASSUME NoneAssumption ==
  None \notin Int \cup BOOLEAN \cup {"committed", "rejected"} \cup Shown \cup Grid \cup WeekGet
             \cup OrderPost \cup CheckInPost \cup Attempt \cup Dragged

Spend(what) == left[what] > 0 /\ left' = [left EXCEPT ![what] = @ - 1]

-----------------------------------------------------------------------------
(* Reads.                                                                  *)

\* WeekSnapshot: the week's check-ins and the order, with the tokens it saw.
Snapshot(w, s) ==
  [week |-> w, live |-> w = s.now, ticked |-> w \in s.ticks, open |-> s.start <= w,
   rows |-> s.order, sees |-> landed]

\* Attempts with a receipt, waiting for a read that was asked for after it.
Fenced(a) == {w \in Week : a[w] # None /\ a[w].phase \in {"saved", "unread"}}

InPhase(a, ws, p) == [w \in Week |-> IF w \in ws THEN [a[w] EXCEPT !.phase = p] ELSE a[w]]

Reading(s, a) == [week |-> s.week, changed |-> {}, since |-> Fenced(a), snap |-> None]

\* The parts of a key that changed do so for every answer on its way.
Outdate(r, parts) == IF r = None THEN None ELSE [r EXCEPT !.changed = @ \cup parts]

Outdated(parts) == drop' = [n \in DOMAIN drop |-> Outdate(drop[n], parts)]

\* The grid's effect: a read of the selected week, which aborts the one before.
Read(s, a, parts) ==
  /\ sel' = s
  /\ get' = Reading(s, a)
  /\ attempt' = InPhase(a, Fenced(a), "saved")
  /\ Outdated(parts)

Heard == {n \in DOMAIN drop : drop[n] # None /\ drop[n].heard}

\* Slip: a read that ends without a patch is taken for one under way.
EndedQuietly(a, others) == a

\* A fetch of the matrix ended: receipts still unread fail when it was the last one.  The
\* page counts the fetches it heard start and finish (reading); here it knows of the others.
Ended(a, others) == IF others THEN a ELSE InPhase(a, Fenced(a), "unread")

-----------------------------------------------------------------------------
(* Patches.                                                                *)

\* Slip: the refresh token is not part of the selector.
MatchesAnyRefresh(r) == r.changed \subseteq {"refresh"}

\* ReadSelector
Matches(r) == r.changed = {}

\* reconcileAttempts: the rendered read is no older than the receipt's.
Confirmed(r) == {w \in Fenced(attempt) \cap r.since : w = r.snap.week /\ r.snap.open}

Settled(a, ws) == [w \in Week |-> IF w \in ws THEN None ELSE a[w]]

\* The morph renders the snapshot; data-desired is the toggle of what it shows.
Rendered(snap) ==
  [week |-> snap.week, live |-> snap.live, ticked |-> snap.ticked, open |-> snap.open,
   rows |-> snap.rows, sees |-> snap.sees, want |-> ~snap.ticked]

\* An answer with a grid in it: a drag ends without restoring its rows, the patch
\* lands when its selector matches, and the fetch is over.  One that does not land
\* leaves behind the rows of the drag it ended, and whatever it was needed for.
Answer(r, others, needed) ==
  /\ drag' = None
  /\ IF Matches(r)
     THEN /\ grid' = Rendered(r.snap)
          /\ attempt' = Ended(Settled(attempt, Confirmed(r)), others)
          /\ missed' = {}
     ELSE /\ attempt' = Ended(attempt, others)
          /\ missed' = missed \cup needed \cup (IF drag = None THEN {} ELSE {"abandoned"})
          /\ UNCHANGED grid

-----------------------------------------------------------------------------
(* Selecting a week.                                                       *)

\* selectHabitWeek, This week: a new view, read unless nothing the effect depends on
\* changed.
Select(w, following) ==
  LET s == [sel EXCEPT !.week = w, !.following = following]
  IN /\ Spend("nav")
     /\ IF s # sel
        THEN Read(s, attempt, {"view"})
        ELSE get' = Outdate(get, {"view"}) /\ Outdated({"view"}) /\ UNCHANGED <<sel, attempt>>
     /\ UNCHANGED <<store, grid, post, drag, stream, landed, intent, missed>>

PreviousWeek == grid # None /\ grid.week > 0 /\ Select(grid.week - 1, FALSE)
NextWeek     == grid # None /\ ~grid.live /\ Select(grid.week + 1, FALSE)
ThisWeek     ==
  /\ grid # None
  /\ ~(sel.following /\ sel.week = sel.current)
  /\ Select(sel.current, TRUE)

-----------------------------------------------------------------------------
(* HabitWeekHandler.                                                       *)

ServeWeek ==
  /\ get # None /\ get.snap = None
  /\ get' = [get EXCEPT !.snap = Snapshot(get.week, store)]
  /\ UNCHANGED <<store, sel, grid, attempt, post, drop, drag, stream, left, landed, intent, missed>>

WeekAnswered ==
  /\ get # None /\ get.snap # None
  /\ Answer(get, Heard # {}, {"clicked"})
  /\ get' = None
  /\ UNCHANGED <<store, sel, post, drop, stream, left, landed, intent>>

\* A refusal, a 500, or retries that ran out: no patch.
WeekFailed ==
  /\ get # None /\ Spend("fault")
  /\ get' = None
  /\ attempt' = Ended(attempt, Heard # {})
  /\ missed' = missed \cup {"failed"}
  /\ UNCHANGED <<store, sel, grid, post, drop, drag, stream, landed, intent>>

\* A retry after a network error, or the tab shown again: asked with today's signals.
WeekRetried ==
  /\ get # None /\ Spend("fault")
  /\ get' = Reading(sel, attempt)
  /\ UNCHANGED <<store, sel, grid, attempt, post, drop, drag, stream, landed, intent, missed>>
=============================================================================
