------------------------------ MODULE HabitView ------------------------------
(***************************************************************************)
(* The habit grid at work: check-in attempts with their receipts and       *)
(* retries (checkins.js, HabitCheckInHandler), reordering by pointer and   *)
(* keyboard (reorder.js, HabitReorderHandler), and the event stream that   *)
(* tells the tab when to read again (EventsHandler), beside another device *)
(* of the owner and a network that fails.                                  *)
(***************************************************************************)
EXTENDS HabitGrid

\* A commit is announced to the streams that are up.
Announced == IF stream = "down" THEN "down" ELSE "due"

-----------------------------------------------------------------------------
(* Check-ins.                                                              *)

Button(w) == grid # None /\ grid.week = w /\ grid.open

\* Slip: a retry posts what the button shows.
DesiredShown(w) == grid.want

\* recoverCheckIn: without a receipt the first intent is posted again.
Desired(w) == IF attempt[w] = None THEN grid.want ELSE attempt[w].desired

Press(w) ==
  /\ Button(w)
  /\ attempt[w] # None => attempt[w].phase = "unknown"
  /\ Spend("press")
  /\ post' = [post EXCEPT ![left.press] =
       [week |-> w, desired |-> Desired(w), heard |-> TRUE, result |-> None]]
  /\ attempt' = [attempt EXCEPT ![w] =
       [token |-> left.press, desired |-> Desired(w), phase |-> "posting"]]
  /\ intent' = [intent EXCEPT ![w] = IF @ = None THEN grid.want ELSE @]
  /\ grid' = [grid EXCEPT !.want = Desired(w)]
  /\ UNCHANGED <<store, sel, get, drop, drag, stream, landed, missed>>

\* A press while the request is out changes the toggle's attribute only.
PressBusy(w) ==
  /\ Button(w) /\ attempt[w] # None /\ attempt[w].phase = "posting"
  /\ grid' = [grid EXCEPT !.want = Desired(w)]
  /\ UNCHANGED <<store, sel, get, attempt, post, drop, drag, stream, left, landed, intent, missed>>

\* A press on a saved check-in whose read failed asks for another read.
PressUnread(w) ==
  /\ Button(w) /\ attempt[w] # None /\ attempt[w].phase = "unread"
  /\ Read(sel, attempt, {"read"})
  /\ UNCHANGED <<store, grid, post, drag, stream, left, landed, intent, missed>>

\* SetCheckIn: refused outside the habit's dates, else committed and announced.
CheckIn(t) ==
  LET w == post[t].week
      ok == store.start <= w
  IN /\ post[t] # None /\ post[t].result = None
     /\ IF ok
        THEN /\ store' = [store EXCEPT !.ticks =
                  IF post[t].desired THEN @ \cup {w} ELSE @ \ {w}]
             /\ landed' = landed \cup {t}
             /\ stream' = Announced
        ELSE UNCHANGED <<store, landed, stream>>
     /\ post' = [post EXCEPT ![t] =
          IF post[t].heard THEN [@ EXCEPT !.result = IF ok THEN "committed" ELSE "rejected"]
          ELSE None]
     /\ UNCHANGED <<sel, grid, get, attempt, drop, drag, left, intent, missed>>

\* Slip: the receipt settles the attempt.
ReceiptSettles(t) ==
  LET w == post[t].week
  IN /\ post[t] # None /\ post[t].result # None
     /\ post' = [post EXCEPT ![t] = None]
     /\ intent' = [intent EXCEPT ![w] = None]
     /\ attempt' = [attempt EXCEPT ![w] = None]
     /\ UNCHANGED <<store, sel, grid, get, drop, drag, stream, left, landed, missed>>

\* acknowledge: a receipt asks for a read of its own; a refusal settles the attempt.
Receipt(t) ==
  LET w == post[t].week
  IN /\ post[t] # None /\ post[t].result # None
     /\ post' = [post EXCEPT ![t] = None]
     /\ intent' = [intent EXCEPT ![w] = None]
     /\ IF post[t].result = "rejected"
        THEN attempt' = [attempt EXCEPT ![w] = None] /\ UNCHANGED <<sel, get, drop>>
        ELSE Read(sel, [attempt EXCEPT ![w].phase = "saved"], {"read"})
     /\ UNCHANGED <<store, grid, drag, stream, left, landed, missed>>

\* A 500, or a connection lost before or after the server has the request: the tab is
\* not told, and the request may still be served later.
CheckInLost(t, served) ==
  /\ post[t] # None /\ post[t].heard /\ Spend("fault")
  /\ served => post[t].result = None
  /\ post' = [post EXCEPT ![t] = IF served THEN [@ EXCEPT !.heard = FALSE] ELSE None]
  /\ attempt' = [attempt EXCEPT ![post[t].week].phase = "unknown"]
  /\ UNCHANGED <<store, sel, grid, get, drop, drag, stream, landed, intent, missed>>

-----------------------------------------------------------------------------
(* Reordering.                                                             *)

\* insertBefore: the row goes before the k-th of the others, or last.
PlaceAt(rows, h, k) ==
  LET i == CHOOSE j \in DOMAIN rows : rows[j] = h IN InsertAt(RemoveAt(rows, i), k, h)

CanReorder == grid # None /\ grid.live

\* The post of an order, with today's signals.
Ordering(rows) ==
  [week |-> sel.week, changed |-> {}, since |-> Fenced(attempt), snap |-> None,
   rows |-> rows, heard |-> TRUE, served |-> FALSE]

\* commitHabitOrder: post the rows unless they are where they were; the post before it
\* is aborted, which the server need not notice.
CommitOrder(rows, from) ==
  IF rows = from
  THEN UNCHANGED <<drop, attempt, left>>
  ELSE /\ Spend("drop")
       /\ drop' = [n \in DOMAIN drop |->
            IF n = left.drop
            THEN Ordering(rows)
            ELSE IF n \in Heard
            THEN IF drop[n].served THEN None ELSE [drop[n] EXCEPT !.heard = FALSE]
            ELSE drop[n]]
       /\ attempt' = InPhase(attempt, Fenced(attempt), "saved")

\* pointerdown on a row and its moves.
Drag(h, k) ==
  /\ IF drag = None THEN CanReorder /\ Spend("drag") ELSE drag.row = h /\ UNCHANGED left
  /\ PlaceAt(grid.rows, h, k) # grid.rows
  /\ grid' = [grid EXCEPT !.rows = PlaceAt(@, h, k)]
  /\ drag' = IF drag = None THEN [row |-> h, from |-> grid.rows] ELSE drag
  /\ UNCHANGED <<store, sel, get, attempt, post, drop, stream, landed, intent, missed>>

Drop ==
  /\ drag # None
  /\ CommitOrder(grid.rows, drag.from)
  /\ drag' = None
  /\ UNCHANGED <<store, sel, grid, get, post, stream, landed, intent, missed>>

\* pointercancel, lost capture, or a dialog opening: the rows go back.
CancelDrag ==
  /\ drag # None
  /\ grid' = [grid EXCEPT !.rows = drag.from]
  /\ drag' = None
  /\ UNCHANGED <<store, sel, get, attempt, post, drop, stream, left, landed, intent, missed>>

\* Alt and an arrow, Home or End: one move and its post, unless the pointer is at it.
KeyMove(h, k) ==
  /\ CanReorder /\ drag = None
  /\ PlaceAt(grid.rows, h, k) # grid.rows
  /\ grid' = [grid EXCEPT !.rows = PlaceAt(@, h, k)]
  /\ CommitOrder(PlaceAt(grid.rows, h, k), grid.rows)
  /\ UNCHANGED <<store, sel, get, post, drag, stream, landed, intent, missed>>

\* HabitReorderHandler: an order of the current week's very habits is stored.
ServeOrder(n) ==
  LET d == drop[n]
      taken == d.week = store.now /\ Range(d.rows) = Range(store.order)
  IN /\ d # None /\ ~d.served
     /\ store' = IF taken THEN [store EXCEPT !.order = d.rows] ELSE store
     /\ stream' = IF store' # store THEN Announced ELSE stream
     /\ drop' = [drop EXCEPT ![n] = IF d.heard THEN [d EXCEPT !.served = TRUE] ELSE None]
     /\ UNCHANGED <<sel, grid, get, attempt, post, drag, left, landed, intent, missed>>

\* Stored or refused, the week is read again and rendered with the keys of the request.
ReadOrder(n) ==
  /\ drop[n] # None /\ drop[n].served /\ drop[n].snap = None
  /\ drop' = [drop EXCEPT ![n].snap = Snapshot(drop[n].week, store)]
  /\ UNCHANGED <<store, sel, grid, get, attempt, post, drag, stream, left, landed, intent, missed>>

OrderAnswered(n) ==
  /\ n \in Heard /\ drop[n].snap # None
  /\ Answer(drop[n], get # None, {})
  /\ drop' = [drop EXCEPT ![n] = None]
  /\ UNCHANGED <<store, sel, get, post, stream, left, landed, intent>>

\* The answer is lost, before or after the request was served, or it was a 500.
OrderLost(n, served) ==
  /\ n \in Heard /\ Spend("fault")
  /\ served => ~drop[n].served
  /\ drop' = [drop EXCEPT ![n] = IF served THEN [@ EXCEPT !.heard = FALSE] ELSE None]
  /\ attempt' = Ended(attempt, get # None)
  /\ missed' = missed \cup {"failed"}
  /\ UNCHANGED <<store, sel, grid, get, post, drag, stream, landed, intent>>

\* A network error, before or after the request was served: Datastar posts the same order
\* once more, with today's signals.
OrderRetried(n) ==
  /\ n \in Heard /\ Spend("fault")
  /\ drop' = [drop EXCEPT ![n] = Ordering(drop[n].rows)]
  /\ UNCHANGED <<store, sel, grid, get, attempt, post, drag, stream, landed, intent, missed>>

-----------------------------------------------------------------------------
(* The stream, the clock, and another device.                              *)

\* Slip: a stream tells what happens from its connection on.
RefreshChanges ==
  LET s == [sel EXCEPT !.current = store.now,
                       !.week = IF sel.following THEN store.now ELSE @]
  IN /\ stream # "idle"
     /\ stream' = "idle"
     /\ IF stream = "due" \/ sel.week = None
        THEN Read(s, attempt, {"refresh"}) ELSE UNCHANGED <<sel, get, attempt, drop>>
     /\ UNCHANGED <<store, grid, post, drag, left, landed, intent, missed>>

\* patchHabitRefresh: on connecting, on an event of the owner, and when the day turned.
Refresh ==
  LET s == [sel EXCEPT !.current = store.now,
                       !.week = IF sel.following THEN store.now ELSE @]
  IN /\ stream # "idle"
     /\ stream' = "idle"
     /\ Read(s, attempt, {"refresh"})
     /\ UNCHANGED <<store, grid, post, drag, left, landed, intent, missed>>

Break ==
  /\ stream # "down" /\ Spend("fault")
  /\ stream' = "down"
  /\ UNCHANGED <<store, sel, grid, get, attempt, post, drop, drag, landed, intent, missed>>

Reordered(o) == Range(o) = Range(store.order)
Created(o)   == o # << >> /\ Front(o) = store.order
Deleted(o)   == \E h \in Range(store.order) : o = SelectSeq(store.order, LAMBDA g : g # h)

\* The week turns, or another device checks in, reorders, creates or deletes, or
\* moves the start of the habit (never past a check-in of it).
Elsewhere ==
  /\ \/ /\ store.now < LastWeek /\ Spend("dawn")
        /\ store' = [store EXCEPT !.now = @ + 1]
     \/ /\ Spend("other")
        /\ \/ \E w \in store.start .. store.now :
                store' = [store EXCEPT !.ticks = SymDiff(@, {w})]
           \/ \E o \in Order :
                /\ o # store.order /\ (Reordered(o) \/ Created(o) \/ Deleted(o))
                /\ store' = [store EXCEPT !.order = o]
           \/ \E w \in (0 .. store.now) \ {store.start} :
                /\ \A v \in store.ticks : w <= v
                /\ store' = [store EXCEPT !.start = w]
  /\ stream' = Announced
  /\ UNCHANGED <<sel, grid, get, attempt, post, drop, drag, landed, intent, missed>>

-----------------------------------------------------------------------------
VInit ==
  /\ left \in Budget
  /\ \E o \in {p \in Order : Len(p) = left.rows} :
       store = [ticks |-> {}, order |-> o, start |-> 0, now |-> LastWeek - left.dawn]
  /\ sel = [week |-> None, following |-> TRUE, current |-> None]
  /\ attempt = [w \in Week |-> None] /\ intent = [w \in Week |-> None]
  /\ post = [t \in Token |-> None] /\ drop = [n \in 1 .. MaxDrop |-> None]
  /\ grid = None /\ get = None /\ drag = None
  /\ stream = "down" /\ landed = {} /\ missed = {}

Click ==
  \/ PreviousWeek \/ NextWeek \/ ThisWeek
  \/ \E w \in Week : Press(w) \/ PressBusy(w) \/ PressUnread(w)

Reorder ==
  \/ /\ grid # None
     /\ \E h \in Range(grid.rows), k \in DOMAIN grid.rows : Drag(h, k) \/ KeyMove(h, k)
  \/ Drop \/ CancelDrag

Serve ==
  \/ ServeWeek \/ \E t \in Token : CheckIn(t)
  \/ \E n \in DOMAIN drop : ServeOrder(n) \/ ReadOrder(n)

Deliver ==
  \/ WeekAnswered \/ Refresh
  \/ \E t \in Token : Receipt(t)
  \/ \E n \in DOMAIN drop : OrderAnswered(n)

Fail ==
  \/ WeekFailed \/ WeekRetried \/ Break
  \/ \E served \in BOOLEAN :
       \/ \E t \in Token : CheckInLost(t, served)
       \/ \E n \in DOMAIN drop : OrderLost(n, served)
  \/ \E n \in DOMAIN drop : OrderRetried(n)

VNext == Click \/ Reorder \/ Serve \/ Deliver \/ Fail \/ Elsewhere

VSpec == VInit /\ [][VNext]_tab
-----------------------------------------------------------------------------
(* Properties.                                                             *)

\* Nothing is on its way to the tab or the server, and no row is being dragged.
Quiet ==
  /\ stream = "idle" /\ get = None /\ drag = None
  /\ \A t \in Token : post[t] = None
  /\ \A n \in DOMAIN drop : drop[n] = None

Shows(s) ==
  /\ grid.week = sel.week /\ grid.live = (sel.week = s.now)
  /\ sel.following => sel.week = s.now
  /\ grid.open = (s.start <= sel.week) /\ grid.ticked = (sel.week \in s.ticks)
  /\ grid.rows = s.order

\* A tab at rest shows the selected week as stored.
QuietShowsWeek == Quiet /\ missed = {} => Shows(store)

\* A busy button is waiting for something that is on its way.
BusyIsWaiting ==
  \A w \in Week :
    attempt[w] # None =>
      /\ attempt[w].phase = "posting" => post[attempt[w].token] # None
      /\ attempt[w].phase = "saved" => get # None \/ Heard # {}

\* An attempt counts as saved only once the grid was read after its commit.
SavedWasReadBack ==
  [][\A w \in Week :
       attempt[w] # None /\ attempt'[w] = None =>
         \/ post[attempt[w].token] # None /\ post[attempt[w].token].result = "rejected"
         \/ attempt[w].token \in grid'.sees]_tab

\* Until it hears a receipt, the tab never posts the opposite of what was first asked.
IntentKept ==
  \A w \in Week : intent[w] # None => attempt[w] # None /\ attempt[w].desired = intent[w]
=============================================================================
