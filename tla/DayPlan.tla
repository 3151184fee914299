------------------------------ MODULE DayPlan ------------------------------
(***************************************************************************)
(* The Day Plan service of internal/block: every owner's blocks on a grid  *)
(* of 30-minute slots, and the day's extent (bounds).                      *)
(*                                                                         *)
(* Every mutation runs in one immediate SQLite transaction                 *)
(* (Service.commit) that holds the write lock from its first statement, so *)
(* here it is one atomic action.  A rejected call (ErrOverlap,             *)
(* ErrBoundsOccupied, ...) rolls back: it is a disabled action here.       *)
(* Labels and types are values that are only compared.                     *)
(***************************************************************************)
EXTENDS Integers, FiniteSets

CONSTANTS
  Owner,            \* users, keys of every query (ADR 0003)
  BlockId,          \* ids newID() can return; bounds how many blocks exist
  Label,            \* non-blank labels after strings.TrimSpace
  Blank,            \* any label that trims to ""
  BlockType,        \* deep, shallow, break, appointment
  Shallow,          \* the type an absent one defaults to
  Unset, Unknown,   \* type inputs: absent, and not one of BlockType
  MinDayStart, MaxDayEnd, DefaultDayStart, DefaultDayEnd,
  SlotInput,        \* slots a request may carry (legal or not)
  SpanInput,        \* spans a layout request may carry (legal or not)
  MaxLayout,        \* longest layout a request may carry
  NoRow             \* marks an id that no row of table block has

ASSUME LimitsAssumption ==
  /\ {MinDayStart, MaxDayEnd, DefaultDayStart, DefaultDayEnd} \subseteq Int
  /\ MinDayStart <= DefaultDayStart
  /\ DefaultDayStart < DefaultDayEnd
  /\ DefaultDayEnd <= MaxDayEnd

ASSUME InputAssumption ==
  /\ SlotInput \subseteq Int
  /\ SpanInput \subseteq Int
  /\ MaxLayout \in Nat

ASSUME IdAssumption == IsFiniteSet(BlockId)

ASSUME LabelTypeAssumption ==
  /\ Blank \notin Label
  /\ Shallow \in BlockType
  /\ {Unset, Unknown} \cap BlockType = {}

VARIABLES
  block,    \* table block: id -> row, or NoRow
  bounds    \* columns user.day_start, user.day_end: owner -> [start, end]

vars == <<block, bounds>>

Row    == [owner: Owner, label: Label, position: Int, span: Int, type: BlockType]
Bounds == [start: Int, end: Int]

ASSUME NoRowAssumption == NoRow \notin Row

-----------------------------------------------------------------------------
(* Pure layout helpers, layout.go.                                         *)

\* The slots [s, s+n) a run covers.
Slots(s, n) == s .. (s + n - 1)

\* Slip: the run may reach one slot past the end.
ContainsPastEnd(b, s, n) == s >= b.start /\ s + n <= b.end + 1

\* Slip: the run may not touch the end.
ContainsStrict(b, s, n) == s >= b.start /\ s + n < b.end

\* Bounds.Contains
Contains(b, s, n) == s >= b.start /\ s + n <= b.end

\* Slip: only the limits are checked, not that the day has a slot.
ValidLimitsOnly(b) == b.start >= MinDayStart /\ b.end <= MaxDayEnd

\* Bounds.Valid
Valid(b) == b.start >= MinDayStart /\ b.end <= MaxDayEnd /\ b.end > b.start

\* SpanOr1
SpanOr1(n) == IF n < 1 THEN 1 ELSE n

\* The ids of an owner's rows: WHERE owner_id = ?
Ids(o) == {i \in BlockId : block[i] # NoRow /\ block[i].owner = o}

\* Slip: a block occupies the slot it starts at only.
OccupiedStarts(o) == {block[i].position : i \in Ids(o)}

\* OccupiedSlots of an owner's blocks.
OccupiedSlots(o) ==
  UNION {Slots(block[i].position, SpanOr1(block[i].span)) : i \in Ids(o)}

\* Slip: the last end is the last start.
EnvelopeOfStarts(o) ==
  [firstSlot |-> CHOOSE s \in OccupiedSlots(o) \cup {MaxDayEnd} :
                   \A t \in OccupiedSlots(o) \cup {MaxDayEnd} : s <= t,
   lastEnd   |-> CHOOSE s \in OccupiedSlots(o) \cup {MinDayStart} :
                   \A t \in OccupiedSlots(o) \cup {MinDayStart} : s >= t]

\* OccupiedEnvelope: first occupied slot and last occupied end, with the
\* sentinels (MaxDayEnd, MinDayStart) of an empty day.
Envelope(o) ==
  LET firsts == OccupiedSlots(o) \cup {MaxDayEnd}
      ends   == {s + 1 : s \in OccupiedSlots(o)} \cup {MinDayStart}
  IN [firstSlot |-> CHOOSE s \in firsts : \A t \in firsts : s <= t,
      lastEnd   |-> CHOOSE s \in ends : \A t \in ends : s >= t]

\* hours.templ: the working-hours form offers this window, given the envelope
\* signals patched with the column.
Offered(o, start, end) ==
  /\ start \in MinDayStart..(MaxDayEnd - 1)
  /\ end \in (MinDayStart + 1)..MaxDayEnd
  /\ ~(start > Envelope(o).firstSlot)
  /\ ~(end < Envelope(o).lastEnd)

Placement == [id: BlockId, slot: SlotInput, span: SpanInput]

\* Every layout a request body may decode to, up to MaxLayout placements.
Layout == UNION {[1..n -> Placement] : n \in 0..MaxLayout}

\* Slip: the number of placements is not compared with the number of blocks.
KnownBlocks(o, layout) ==
  /\ \A k \in DOMAIN layout : layout[k].id \in Ids(o)
  /\ \A j, k \in DOMAIN layout : layout[j].id = layout[k].id => j = k

\* ValidateLayout, its first loop: the proposal names the current blocks, each
\* once, which the code concludes from equal lengths, known ids and no repeat.
SameBlocks(o, layout) ==
  /\ Cardinality(DOMAIN layout) = Cardinality(Ids(o))
  /\ \A k \in DOMAIN layout : layout[k].id \in Ids(o)
  /\ \A j, k \in DOMAIN layout : layout[j].id = layout[k].id => j = k

\* ValidateLayout, its second loop: no slot is taken twice.
Disjoint(layout) ==
  \A j, k \in DOMAIN layout :
    j # k => Slots(layout[j].slot, layout[j].span)
               \cap Slots(layout[k].slot, layout[k].span) = {}

ValidateLayout(o, layout) ==
  /\ SameBlocks(o, layout)
  /\ \A k \in DOMAIN layout :
       layout[k].span >= 1 /\ Contains(bounds[o], layout[k].slot, layout[k].span)
  /\ Disjoint(layout)

-----------------------------------------------------------------------------
(* The mutators of block.Service.                                          *)

Init ==
  /\ block = [i \in BlockId |-> NoRow]
  /\ bounds = [o \in Owner |-> [start |-> DefaultDayStart, end |-> DefaultDayEnd]]

\* Service.Create: a new block of one slot, of the default type if none is given.
Create(o, label, slot, typ) ==
  LET t == IF typ = Unset THEN Shallow ELSE typ
  IN /\ label # Blank
     /\ t \in BlockType
     /\ Contains(bounds[o], slot, 1)
     /\ slot \notin OccupiedSlots(o)
     /\ \E i \in BlockId :
          /\ block[i] = NoRow
          /\ block' = [block EXCEPT ![i] =
               [owner |-> o, label |-> label, position |-> slot, span |-> 1, type |-> t]]
     /\ UNCHANGED bounds

\* Slip: the DELETE forgets its owner_id clause.
DeleteById(o, i) ==
  /\ block[i] # NoRow
  /\ block' = [block EXCEPT ![i] = NoRow]
  /\ UNCHANGED bounds

Delete(o, i) ==
  /\ i \in Ids(o)                     \* else ErrBlockNotFound
  /\ block' = [block EXCEPT ![i] = NoRow]
  /\ UNCHANGED bounds

Clear(o) ==
  /\ block' = [i \in BlockId |-> IF i \in Ids(o) THEN NoRow ELSE block[i]]
  /\ UNCHANGED bounds

\* Slip: a label that trims to nothing is stored.
RenameBlank(o, i, label) ==
  /\ i \in Ids(o)
  /\ block' = [block EXCEPT ![i].label = label]
  /\ UNCHANGED bounds

Rename(o, i, label) ==
  /\ label # Blank
  /\ i \in Ids(o)
  /\ block' = [block EXCEPT ![i].label = label]
  /\ UNCHANGED bounds

\* The UPDATE ... FROM of SetLayout: rows of the owner that the proposal names
\* take its slot and span, every other row keeps its own.
Placed(o, layout) ==
  [i \in BlockId |->
     IF i \in Ids(o) /\ \E k \in DOMAIN layout : layout[k].id = i
     THEN LET p == layout[CHOOSE k \in DOMAIN layout : layout[k].id = i]
          IN [block[i] EXCEPT !.position = p.slot, !.span = p.span]
     ELSE block[i]]

\* An empty layout for an empty day builds `VALUES ` with no row, which SQLite
\* refuses: the transaction rolls back, whatever ValidateLayout said.
SetLayout(o, layout) ==
  /\ layout # << >>
  /\ ValidateLayout(o, layout)
  /\ block' = Placed(o, layout)
  /\ UNCHANGED bounds

\* Slip: only the slot a block starts at must stay inside the day.
SetBoundsStartsOnly(o, start, end) ==
  LET next == [start |-> start, end |-> end]
  IN /\ Valid(next)
     /\ \A i \in Ids(o) : Contains(next, block[i].position, 1)
     /\ bounds' = [bounds EXCEPT ![o] = next]
     /\ UNCHANGED block

\* Service.SetBounds: refused whole when it would strand a block.
SetBounds(o, start, end) ==
  LET next == [start |-> start, end |-> end]
  IN /\ Valid(next)
     /\ \A i \in Ids(o) : Contains(next, block[i].position, block[i].span)
     /\ bounds' = [bounds EXCEPT ![o] = next]
     /\ UNCHANGED block

Mutation(o) ==
  \/ \E label \in Label \cup {Blank}, slot \in SlotInput,
        typ \in BlockType \cup {Unset, Unknown} : Create(o, label, slot, typ)
  \/ \E i \in BlockId : Delete(o, i)
  \/ Clear(o)
  \/ \E i \in BlockId, label \in Label \cup {Blank} : Rename(o, i, label)
  \/ \E layout \in Layout : SetLayout(o, layout)
  \/ \E start, end \in SlotInput : SetBounds(o, start, end)

Next == \E o \in Owner : Mutation(o)

Spec == Init /\ [][Next]_vars
-----------------------------------------------------------------------------
(* Properties.                                                             *)

\* The values the two tables can hold.
TypeOK ==
  /\ block \in [BlockId -> Row \cup {NoRow}]
  /\ bounds \in [Owner -> Bounds]

Cells(i) == block[i].position .. (block[i].position + block[i].span - 1)

\* No two blocks of one owner cover a common slot, whatever mix of creates,
\* layouts and deletes produced them (ErrOverlap in Create and ValidateLayout).
NoOverlap ==
  \A o \in Owner : \A i, j \in Ids(o) : i # j => Cells(i) \cap Cells(j) = {}

\* Every block covers at least one slot and all of it lies inside its owner's
\* current day: neither a layout nor a change of hours strands a block
\* (ErrOutOfBounds, ErrInvalidSpan, ErrBoundsOccupied).
InBounds ==
  \A o \in Owner : \A i \in Ids(o) :
    /\ Cells(i) # {}
    /\ Cells(i) \subseteq bounds[o].start .. (bounds[o].end - 1)

\* Every day has a slot and stays within the hard limits (ErrInvalidBounds).
DayWithinLimits ==
  \A o \in Owner :
    /\ bounds[o].start .. (bounds[o].end - 1) # {}
    /\ bounds[o].start .. (bounds[o].end - 1) \subseteq MinDayStart .. (MaxDayEnd - 1)

\* The plan invariants of ADR 0005, together.
PlanLegal == NoOverlap /\ InBounds /\ DayWithinLimits

\* ValidateLayout refuses nothing a drag could legally produce: a layout that
\* lists the day's blocks once each is accepted exactly when the slots it covers
\* are as many as its spans add up to and none is outside the day.  (ADR 0005:
\* the client computes the push, the server only enforces the invariants.)
LayoutExact ==
  \A o \in Owner :
    \A layout \in [1 .. Cardinality(Ids(o)) ->
                    [id : Ids(o), slot : SlotInput, span : {n \in SpanInput : n > 0}]] :
      {layout[k].id : k \in DOMAIN layout} = Ids(o) =>
        LET run(k) == layout[k].slot .. (layout[k].slot + layout[k].span - 1)
            covered == UNION {run(k) : k \in DOMAIN layout}
            pairs == UNION {{<<k, s>> : s \in run(k)} : k \in DOMAIN layout}
        IN ValidateLayout(o, layout)
             <=> /\ Cardinality(covered) = Cardinality(pairs)
                 /\ covered \subseteq bounds[o].start .. (bounds[o].end - 1)

\* The working-hours form, which sees only the two envelope signals, offers a
\* window exactly when SetBounds would accept it (hours.templ: a
\* shrink-into-occupied window is never offered).
HoursPickerExact ==
  \A o \in Owner : \A start, end \in MinDayStart..MaxDayEnd :
    start < end =>
      (Offered(o, start, end)
         <=> \A i \in Ids(o) : Cells(i) \subseteq start .. (end - 1))

\* Rows and hours that are not o's stay as they were.
OnlyOf(o) ==
  /\ \A p \in Owner \ {o} : bounds'[p] = bounds[p]
  /\ \A i \in BlockId :
       (\E r \in {block[i], block'[i]} : r # NoRow /\ r.owner # o)
         => block'[i] = block[i]

\* A call made for one owner leaves every other owner's rows and day as they
\* were, whatever ids it names (ADR 0003: every query is owner-scoped).
OwnerIsolation == [][\A o \in Owner : ~OnlyOf(o) => ~Mutation(o)]_vars
=============================================================================
