------------------------------ MODULE Gestures ------------------------------
(***************************************************************************)
(* One open tab of the Day Plan: the pointer and keyboard gestures of      *)
(* static/js/blocks on #block-list, the requests they post, the server's   *)
(* plan (DayPlan) and the column patches that morph the tab's DOM, while   *)
(* other tabs of the same user edit the same plan.                         *)
(*                                                                         *)
(* Pixels, announcements and focus steering are left out; a gesture is its *)
(* snapshot of the column and the layout it currently proposes.  Patches   *)
(* reach the tab in commit order here; LiveUpdates models what delivery    *)
(* can do to them.                                                         *)
(***************************************************************************)
EXTENDS DayPlan, PushLayout, Sequences

CONSTANTS
  me,             \* the user whose tabs these are
  FirstDay,       \* bound: the days the tab may open on
  None,           \* no gesture
  Pointers,       \* the user has a pointer (BOOLEAN)
  Keyboards,      \* the user has a keyboard (BOOLEAN)
  MaxForeign,     \* bound: edits made in the user's other tabs
  MaxInFlight,    \* bound: requests in flight
  MaxPatches      \* bound: patches in flight

ASSUME GestureAssumption ==
  /\ me \in Owner /\ MaxForeign \in Nat /\ Label # {}
  /\ MaxInFlight \in Nat /\ MaxPatches \in Nat
  /\ FirstDay \subseteq {b \in [start : MinDayStart .. MaxDayEnd, end : MinDayStart .. MaxDayEnd] :
                           b.start < b.end}

Spot == [slot : Int, span : Int]

\* Layouts of any of the blocks, and the keyboard gestures that propose them.
Layouts == UNION {[D -> Spot] : D \in SUBSET BlockId}
KeyGestures == [id : BlockId, day : Bounds, start : Layouts, layout : Layouts, at : Int]

ASSUME MarkerAssumption ==
  /\ None \notin KeyGestures
  /\ NoLayout \notin Int /\ \A D \in SUBSET BlockId : NoLayout \notin [D -> Spot] \cup [D -> Int]

VARIABLES
  dom,       \* the column as the DOM's data-* attributes hold it: [day, layout]
  grab,      \* keyboard move in progress (keyboard.js grab), or None
  kresize,   \* keyboard resize in progress (keyboard.js kresize), or None
  pointer,   \* pointer drag or resize, held or settling (pointer.js), or None
  outbox,    \* requests posted and not yet served
  inbox,     \* column patches sent and not yet morphed in
  foreign,   \* how many edits other tabs have made
  crossed,   \* the last patch landed amid a keyboard gesture
  unanswered \* a request ended without a column, and none was sent to the tab since

tab == <<dom, grab, kresize, pointer>>
gestureVars ==
  <<block, bounds, dom, grab, kresize, pointer, outbox, inbox, foreign, crossed, unanswered>>

\* The column BlockColumn renders for the stored plan.
Column ==
  [day |-> bounds[me],
   layout |-> [i \in Ids(me) |-> [slot |-> block[i].position, span |-> block[i].span]]]

\* writeLayout: only blocks that are in the list and in the layout are written.
Write(layout, shown) ==
  [i \in DOMAIN shown |-> IF i \in DOMAIN layout THEN layout[i] ELSE shown[i]]

\* The JSON array a layout posts as, in document order of some column.
Listing(layout) ==
  LET n == Cardinality(DOMAIN layout)
      order == CHOOSE q \in [1..n -> DOMAIN layout] : Range(q) = DOMAIN layout
  IN [k \in 1..n |-> [id |-> order[k], slot |-> layout[order[k]].slot,
                      span |-> layout[order[k]].span]]

-----------------------------------------------------------------------------
\* A plan the service could have stored: legal, of this user alone.
StoredPlan(ids, placed) ==
  /\ block = [i \in BlockId |->
       IF i \in ids
       THEN [owner |-> me, label |-> CHOOSE l \in Label : TRUE,
             position |-> placed[i].slot, span |-> placed[i].span, type |-> Shallow]
       ELSE NoRow]
  /\ \A i \in ids : Fits(bounds[me], placed[i])
  /\ \A i, j \in ids : i # j => ~Overlaps(placed[i], placed[j])

GInit ==
  /\ \E day \in FirstDay : bounds = [o \in Owner |-> day]
  /\ \E ids \in SUBSET BlockId :
       \E placed \in [ids -> [slot : MinDayStart .. (MaxDayEnd - 1),
                              span : 1 .. (MaxDayEnd - MinDayStart)]] :
         StoredPlan(ids, placed)
  /\ dom = Column
  /\ grab = None /\ kresize = None /\ pointer = None
  /\ outbox = << >> /\ inbox = << >> /\ foreign = 0 /\ crossed = FALSE /\ unanswered = FALSE

-----------------------------------------------------------------------------
(* Keyboard path, keyboard.js.  A grabbed element that a morph removed gets *)
(* no focusout; keys pressed on another block still reach the stale grab.   *)

Present(g) == g # None /\ g.id \in DOMAIN dom.layout

\* onKeydown: not while the pointer path is active, and only on a block.
KeysReach == Keyboards /\ pointer = None /\ DOMAIN dom.layout # {}

KeyGrab(i) ==
  /\ KeysReach /\ grab = None /\ ~Present(kresize)
  /\ i \in DOMAIN dom.layout
  /\ grab' = [id |-> i, day |-> dom.day, start |-> dom.layout, layout |-> dom.layout,
              at |-> dom.layout[i].slot]
  /\ UNCHANGED <<block, bounds, dom, kresize, pointer, outbox, inbox, foreign, crossed, unanswered>>

KeyMove(step) ==
  LET g == grab
      targets == MoveTargets(g.day, g.start, g.id, g.at, step)
      slot == Nearest(g.at, targets)
      layout == Push(g.day, g.start, g.id, Moved(g.start, g.id, slot), FALSE)
  IN /\ KeysReach /\ g # None
     /\ targets # {}
     /\ grab' = [g EXCEPT !.at = slot, !.layout = layout]
     /\ dom' = [dom EXCEPT !.layout = Write(layout, @)]
     /\ UNCHANGED <<block, bounds, kresize, pointer, outbox, inbox, foreign, crossed, unanswered>>

\* commitGesture: nothing for an unchanged layout or a block no longer listed.
Commit(id, from, to, shown) ==
  IF from = to \/ id \notin DOMAIN shown
  THEN dom' = [dom EXCEPT !.layout = shown] /\ UNCHANGED outbox
  ELSE /\ dom' = [dom EXCEPT !.layout = Write(to, shown)]
       /\ outbox' = Append(outbox, [kind |-> "layout", layout |-> to])

KeyDrop ==
  /\ KeysReach /\ grab # None /\ Len(outbox) < MaxInFlight
  /\ Commit(grab.id, grab.start, grab.layout, dom.layout)
  /\ grab' = None
  /\ UNCHANGED <<block, bounds, kresize, pointer, inbox, foreign, crossed, unanswered>>

\* Escape, or focus leaving the grabbed block: cancelGrab.
KeyCancel ==
  /\ grab # None /\ pointer = None
  /\ Present(grab) \/ DOMAIN dom.layout # {}
  /\ dom' = [dom EXCEPT !.layout = Write(grab.start, @)]
  /\ grab' = None
  /\ UNCHANGED <<block, bounds, kresize, pointer, outbox, inbox, foreign, crossed, unanswered>>

\* An arrow, Home or End on a grip: starts a resize if none is active, then steps
\* it; a step the cascade refuses is "blocked" and leaves the layout alone.
KeyResize(i, key) ==
  LET r == IF kresize # None THEN kresize
           ELSE [id |-> i, day |-> dom.day, start |-> dom.layout, layout |-> dom.layout,
                 at |-> dom.layout[i].span]
      span == CASE key = "ArrowDown" -> r.at + 1
                [] key = "ArrowUp"   -> r.at - 1
                [] key = "Home"      -> 1
                [] key = "End"       -> MaxResizeSpan(r.day, r.start, r.id)
      layout == IF span < 1 THEN NoLayout
                ELSE Push(r.day, r.start, r.id, Resized(r.start, r.id, span), TRUE)
  IN /\ KeysReach /\ ~Present(grab)
     /\ i \in DOMAIN dom.layout
     /\ Present(kresize) => i = kresize.id
     /\ IF layout = NoLayout
        THEN kresize' = r /\ UNCHANGED dom
        ELSE /\ kresize' = [r EXCEPT !.at = span, !.layout = layout]
             /\ dom' = [dom EXCEPT !.layout = Write(layout, @)]
     /\ UNCHANGED <<block, bounds, grab, pointer, outbox, inbox, foreign, crossed, unanswered>>

\* Enter on a grip, or focus leaving the resizing one: commitKbResize.
KeyResizeCommit ==
  /\ KeysReach /\ kresize # None /\ Len(outbox) < MaxInFlight
  /\ Commit(kresize.id, kresize.start, kresize.layout, dom.layout)
  /\ kresize' = None
  /\ UNCHANGED <<block, bounds, grab, pointer, inbox, foreign, crossed, unanswered>>

KeyResizeCancel ==
  /\ KeysReach /\ kresize # None
  /\ dom' = [dom EXCEPT !.layout = Write(kresize.start, @)]
  /\ kresize' = None
  /\ UNCHANGED <<block, bounds, grab, pointer, outbox, inbox, foreign, crossed, unanswered>>

\* deleteBlock: no optimistic change, the server's answer removes the block.
KeyDelete(i) ==
  /\ KeysReach /\ grab = None /\ ~Present(kresize)
  /\ i \in DOMAIN dom.layout /\ Len(outbox) < MaxInFlight
  /\ outbox' = Append(outbox, [kind |-> "delete", id |-> i])
  /\ UNCHANGED <<block, bounds, tab, inbox, foreign, crossed, unanswered>>

-----------------------------------------------------------------------------
(* Pointer path, pointer.js.  Previews are transforms: the DOM's attributes *)
(* change only when a settled gesture is torn down.                         *)

\* keyboard.js cancel(): both keyboard gestures go back to their snapshots.
AfterKeyCancel ==
  LET afterGrab == IF grab = None THEN dom.layout ELSE Write(grab.start, dom.layout)
  IN IF kresize = None THEN afterGrab ELSE Write(kresize.start, afterGrab)

\* Slip: a keyboard gesture survives the press.
PressKeepsKeys(i, mode) ==
  /\ Pointers /\ pointer = None
  /\ i \in DOMAIN dom.layout
  /\ pointer' = [id |-> i, mode |-> mode, phase |-> "held", day |-> dom.day,
                 current |-> dom.layout, layout |-> dom.layout,
                 at |-> IF mode = "drag" THEN dom.layout[i].slot ELSE dom.layout[i].span]
  /\ UNCHANGED <<block, bounds, dom, grab, kresize, outbox, inbox, foreign, crossed, unanswered>>

\* onPointerdown on a block or its grip: a keyboard gesture is cancelled first.
Press(i, mode) ==
  /\ Pointers /\ pointer = None
  /\ grab' = None /\ kresize' = None
  /\ dom' = [dom EXCEPT !.layout = AfterKeyCancel]
  /\ i \in DOMAIN dom.layout
  /\ pointer' = [id |-> i, mode |-> mode, phase |-> "held", day |-> dom.day,
                 current |-> AfterKeyCancel, layout |-> AfterKeyCancel,
                 at |-> IF mode = "drag" THEN AfterKeyCancel[i].slot
                                         ELSE AfterKeyCancel[i].span]
  /\ UNCHANGED <<block, bounds, outbox, inbox, foreign, crossed, unanswered>>

\* onPointerdown beside the blocks.
PressElsewhere ==
  /\ Pointers /\ pointer = None /\ (grab # None \/ kresize # None)
  /\ grab' = None /\ kresize' = None
  /\ dom' = [dom EXCEPT !.layout = AfterKeyCancel]
  /\ UNCHANGED <<block, bounds, pointer, outbox, inbox, foreign, crossed, unanswered>>

\* previewDrag and previewResize: a target the cascade refuses keeps the last
\* valid proposal.
Preview(n) ==
  LET p == pointer
      drag == p.mode = "drag"
      target == IF drag THEN Moved(p.current, p.id, n) ELSE Resized(p.current, p.id, n)
      layout == Push(p.day, p.current, p.id, target, ~drag)
  IN /\ p # None /\ p.phase = "held" /\ n # p.at
     /\ IF drag THEN n \in p.day.start .. (p.day.end - p.current[p.id].span)
                ELSE n \in 1 .. (p.day.end - p.current[p.id].slot)
     /\ layout # NoLayout
     /\ pointer' = [p EXCEPT !.at = n, !.layout = layout]
     /\ UNCHANGED <<block, bounds, dom, grab, kresize, outbox, inbox, foreign, crossed, unanswered>>

\* settleDrag, settleResize: pointerup keeps the proposal, pointercancel drops it;
\* the gesture is then settling until its transitions end.
Release(keep) ==
  /\ pointer # None /\ pointer.phase = "held"
  /\ pointer' = [pointer EXCEPT !.phase = "settling",
                               !.layout = IF keep THEN @ ELSE pointer.current]
  /\ UNCHANGED <<block, bounds, dom, grab, kresize, outbox, inbox, foreign, crossed, unanswered>>

\* finishSettle, tearDown and commitGesture: only while the DOM still holds the
\* snapshot the gesture started from.
Settle ==
  LET p == pointer
      owned == p.id \in DOMAIN dom.layout /\ dom.layout = p.current
  IN /\ p # None /\ p.phase = "settling" /\ Len(outbox) < MaxInFlight
     /\ IF owned
        THEN Commit(p.id, p.current, p.layout, Write(p.layout, dom.layout))
        ELSE UNCHANGED <<dom, outbox>>
     /\ pointer' = None
     /\ UNCHANGED <<block, bounds, grab, kresize, inbox, foreign, crossed, unanswered>>

-----------------------------------------------------------------------------
(* The server and the user's other tabs.                                    *)

\* What the handler of request r does to the plan; a rejected layout changes nothing.
Handles(r) ==
  IF r.kind = "delete"
  THEN Delete(me, r.id) \/ (r.id \notin Ids(me) /\ UNCHANGED vars)
  ELSE \/ SetLayout(me, Listing(r.layout))
       \/ ~ValidateLayout(me, Listing(r.layout)) /\ UNCHANGED vars

Without(k) == [j \in 1 .. (Len(outbox) - 1) |-> outbox[IF j < k THEN j ELSE j + 1]]

\* A column goes to the tab, on the answer to a request or over its stream.
Send(column) ==
  Len(inbox) < MaxPatches /\ inbox' = Append(inbox, column) /\ unanswered' = FALSE

\* Slip: the column is read before the change is made.
ServeBefore(k) ==
  /\ Handles(outbox[k]) /\ Send(Column)
  /\ outbox' = Without(k)
  /\ UNCHANGED <<tab, foreign, crossed>>

\* The handler of request k, to the end: mutate applies it or re-reads the plan, and
\* the column goes back either way.
Serve(k) ==
  /\ Handles(outbox[k]) /\ Send(Column')
  /\ outbox' = Without(k)
  /\ UNCHANGED <<tab, foreign, crossed>>

\* No column comes back for request k: its handler failed before it stored anything
\* or in the re-read after a rejection (both a bare 500), or whatever it did, its answer
\* is lost: another post of the URL aborts the first, or the connection breaks, and then
\* the same request is posted again unless Datastar has given up.
Unanswered(k) ==
  /\ Handles(outbox[k]) \/ UNCHANGED vars
  /\ outbox' \in {outbox, Without(k)}
  /\ unanswered' = TRUE
  /\ UNCHANGED <<tab, inbox, foreign, crossed>>

\* The stored column comes over the tab's stream: it was opened anew, or it brings the
\* publication of a request whose answer was lost.
Refresh ==
  /\ Send(Column)
  /\ UNCHANGED <<block, bounds, tab, outbox, foreign, crossed>>

\* An edit from another tab, published to this one.
Foreign ==
  /\ foreign < MaxForeign
  /\ Mutation(me) /\ Send(Column')
  /\ foreign' = foreign + 1
  /\ UNCHANGED <<tab, outbox, crossed>>

\* Slip: only a pointer gesture that is still held is aborted.
MorphSparesSettling ==
  /\ inbox # << >>
  /\ dom' = Head(inbox) /\ inbox' = Tail(inbox)
  /\ pointer' = IF pointer # None /\ pointer.phase = "settling" THEN pointer ELSE None
  /\ crossed' = (grab # None \/ kresize # None)
  /\ UNCHANGED <<block, bounds, grab, kresize, outbox, foreign, unanswered>>

\* A patch of #block-list: the DOM becomes the column and watchServer aborts the
\* pointer gesture; a keyboard gesture does not notice.
Morph ==
  /\ inbox # << >>
  /\ dom' = Head(inbox) /\ inbox' = Tail(inbox)
  /\ pointer' = None
  /\ crossed' = (grab # None \/ kresize # None)
  /\ UNCHANGED <<block, bounds, grab, kresize, outbox, foreign, unanswered>>

KeyStep ==
  \/ \E i \in BlockId : KeyGrab(i) \/ KeyDelete(i)
  \/ \E step \in {-1, 1} : KeyMove(step)
  \/ \E i \in BlockId, key \in {"ArrowDown", "ArrowUp", "Home", "End"} : KeyResize(i, key)
  \/ KeyDrop \/ KeyCancel \/ KeyResizeCommit \/ KeyResizeCancel

PointerStep ==
  \/ \E i \in BlockId, mode \in {"drag", "resize"} : Press(i, mode)
  \/ PressElsewhere
  \/ \E n \in MinDayStart .. MaxDayEnd : Preview(n)
  \/ \E keep \in BOOLEAN : Release(keep)
  \/ Settle

GNext ==
  \/ KeyStep
  \/ PointerStep
  \/ \E k \in DOMAIN outbox : Serve(k) \/ Unanswered(k)
  \/ Refresh
  \/ Foreign
  \/ Morph

GSpec == GInit /\ [][GNext]_gestureVars

-----------------------------------------------------------------------------
(* Properties of the cascade, on every proposal in progress.                *)

\* What each gesture in progress proposes, and from what.
Proposals ==
  {[id |-> g.id, day |-> g.day, start |-> g.start, layout |-> g.layout] :
     g \in {grab, kresize} \ {None}}
  \cup (IF pointer = None THEN {}
        ELSE {[id |-> pointer.id, day |-> pointer.day, start |-> pointer.current,
               layout |-> pointer.layout]})

LegalProposal(p) ==
  /\ DOMAIN p.layout = DOMAIN p.start
  /\ \A i \in DOMAIN p.layout :
       Run(p.layout[i]) # {} /\ Run(p.layout[i]) \subseteq p.day.start .. (p.day.end - 1)
  /\ \A i, j \in DOMAIN p.layout :
       i # j => Run(p.layout[i]) \cap Run(p.layout[j]) = {}

\* Every proposal of every gesture is a layout the server's validation accepts
\* for the column it started from: same blocks, spans of at least one, inside
\* the day, no slot taken twice (ADR 0005: the client computes the push).
ProposalsLegal == \A p \in Proposals : LegalProposal(p)

MinimalPush(p) ==
  \A i \in DOMAIN p.start \ {p.id} :
    LET was == p.start[i]
        is  == p.layout[i]
        down == p.layout[p.id].slot > p.start[p.id].slot
        rest == DOMAIN p.layout \ {i}
    IN /\ p.layout[p.id].span = p.start[p.id].span => is.span = was.span
       /\ IF down THEN is.slot <= was.slot ELSE is.slot >= was.slot
       /\ is.slot > was.slot => \E j \in rest : p.layout[j].slot + p.layout[j].span = is.slot
       /\ is.slot < was.slot => \E j \in rest : p.layout[j].slot = is.slot + is.span

\* A displaced block slides toward the slot the moved block vacated (push.js), no
\* farther than the run that pushes it, for gaps absorb first, and keeps its span;
\* a resize moves no block up.
PushMinimal == \A p \in Proposals : MinimalPush(p)

ClosestFirst(p) ==
  \A i \in DOMAIN p.start \ {p.id} :
    p.layout[i].span < p.start[i].span =>
      LET between == {j \in DOMAIN p.start \ {p.id, i} :
                        p.start[p.id].slot < p.start[j].slot /\ p.start[j].slot < p.start[i].slot}
      IN /\ \A j \in between : p.layout[j].span = 1
         /\ p.layout[p.id].slot .. (p.day.end - 1)
              = UNION {Run(p.layout[j]) : j \in {k \in DOMAIN p.layout :
                                                   p.layout[k].slot >= p.layout[p.id].slot}}

\* A grow takes from the closest block below first, and only when the blocks below,
\* packed tight, fill the day to its end.
CompressClosestFirst == \A p \in Proposals : ClosestFirst(p)

\* End reaches what repeated arrows reach: every span up to the largest one the
\* cascade accepts is accepted, so no step on the way is "blocked".
ResizeHasNoHoles ==
  \A i \in DOMAIN dom.layout :
    \A n \in 1 .. MaxResizeSpan(dom.day, dom.layout, i) :
      Push(dom.day, dom.layout, i, Resized(dom.layout, i, n), TRUE) # NoLayout

\* The layouts one accepted drag or resize makes of a layout.
OneGesture(day, layout) ==
  (UNION {{Push(day, layout, i, Moved(layout, i, s), FALSE) : s \in day.start .. (day.end - 1)}
            \cup {Push(day, layout, i, Resized(layout, i, n), TRUE) :
                    n \in 1 .. (day.end - layout[i].slot)} : i \in DOMAIN layout}) \ {NoLayout}

LegalLayouts(day, ids) ==
  {l \in [ids -> [slot : day.start .. (day.end - 1), span : 1 .. (day.end - day.start)]] :
     /\ \A i \in ids : Fits(day, l[i])
     /\ \A i, j \in ids : i # j => ~Overlaps(l[i], l[j])}

\* Found: the layouts met so far and those met last.  One more gesture from each of these.
Explore(day, found) ==
  LET next == UNION {OneGesture(day, l) : l \in found.new}
  IN [seen |-> found.seen \cup next, new |-> next \ found.seen]

\* What at most n gestures make of a layout.
Reached(day, layout, n) ==
  LET found[k \in Nat] ==
        IF k = 0 THEN [seen |-> {layout}, new |-> {layout}] ELSE Explore(day, found[k - 1])
  IN found[n].seen

\* From the column shown, gestures alone can reach every layout the server would
\* accept (ADR 0005: any layout satisfying the invariants is a state the User could
\* have reached by gestures, so accepting any of them costs the server nothing): two
\* for each block to move it, and one to shorten or lengthen each that fills two slots.
EveryLayoutReachable ==
  pointer = None /\ grab = None /\ kresize = None =>
    Reached(dom.day, dom.layout, 2 * (dom.day.end - dom.day.start))
      = LegalLayouts(dom.day, DOMAIN dom.layout)

-----------------------------------------------------------------------------
(* Properties of the interplay with the server.                             *)

\* A pointer gesture, held or settling, works on the column the DOM shows: any
\* patch ends it.  (pointer.js: a server morph always wins, even for a keyed block.)
PointerOwnsColumn ==
  pointer # None => dom = [day |-> pointer.day, layout |-> pointer.current]

\* A pointer gesture never works beside a keyboard move or resize (gestures.js: each
\* path holds a handle to the other and enforces the policy itself).
OnePathAtATime == pointer # None => grab = None /\ kresize = None

\* Nothing in progress and nothing in flight.
Quiet ==
  grab = None /\ kresize = None /\ pointer = None /\ outbox = << >> /\ inbox = << >>

\* When a gesture is over and everything in flight has arrived, the tab shows what
\* the server stores, unless the last patch landed amid a keyboard gesture, or a
\* request ended without a column (a 500, a lost answer) and none was sent since: then
\* the optimistic layout stays.
QuietConverged == Quiet /\ ~crossed /\ ~unanswered => dom = Column

\* The same without the exception for the keyboard (ADR 0010: the server render is the
\* source of truth).
QuietShowsServer == Quiet /\ ~unanswered => dom = Column
=============================================================================
