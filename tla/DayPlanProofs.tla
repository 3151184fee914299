--------------------------- MODULE DayPlanProofs ---------------------------
(***************************************************************************)
(* Theorems about DayPlan: for every set of owners, ids and labels, every  *)
(* hard limit and every request, the stored plans keep the invariants of   *)
(* ADR 0005.                                                               *)
(*                                                                         *)
(* The invariants speak of sets of slots; the proofs use the equivalent    *)
(* inequalities (Apart, Inside), and PlanInv, their conjunction with the   *)
(* type invariant, is inductive.  The heart is SetLayout: the rows it does *)
(* not name keep their old placement, so it is safe only because a layout  *)
(* as long as the plan, with known and distinct ids, names all of it       *)
(* (LayoutNamesAll, a pigeonhole argument).                                *)
(***************************************************************************)
EXTENDS DayPlan, FiniteSetTheorems, WellFoundedInduction, TLAPS

Apart(r, q) ==
  r.position + r.span <= q.position \/ q.position + q.span <= r.position

Inside(r, b) ==
  r.span >= 1 /\ b.start <= r.position /\ r.position + r.span <= b.end

AllApart ==
  \A o \in Owner : \A i, j \in Ids(o) : i # j => Apart(block[i], block[j])

AllInside == \A o \in Owner : \A i \in Ids(o) : Inside(block[i], bounds[o])

DaysLegal == \A o \in Owner : Valid(bounds[o])

PlanInv == TypeOK /\ AllApart /\ AllInside /\ DaysLegal

-----------------------------------------------------------------------------
(* Runs of slots as sets and as inequalities.                              *)

LEMMA RunsApart ==
  ASSUME NEW a \in Int, NEW m \in Int, NEW b \in Int, NEW n \in Int,
         m >= 1, n >= 1
  PROVE  (a .. (a + m - 1)) \cap (b .. (b + n - 1)) = {}
           <=> (a + m <= b \/ b + n <= a)
<1>1. CASE a + m <= b \/ b + n <= a
  BY <1>1
<1>2. CASE ~(a + m <= b \/ b + n <= a)
  <2>1. CASE a <= b
    <3>1. b \in (a .. (a + m - 1)) /\ b \in (b .. (b + n - 1))
      BY <1>2, <2>1
    <3> QED BY <3>1, <1>2
  <2>2. CASE ~(a <= b)
    <3>1. a \in (a .. (a + m - 1)) /\ a \in (b .. (b + n - 1))
      BY <1>2, <2>2
    <3> QED BY <3>1, <1>2
  <2> QED BY <2>1, <2>2
<1> QED BY <1>1, <1>2

LEMMA RunInside ==
  ASSUME NEW a \in Int, NEW m \in Int, NEW s \in Int, NEW e \in Int
  PROVE  /\ a .. (a + m - 1) # {} <=> m >= 1
         /\ m >= 1 => ((a .. (a + m - 1)) \subseteq (s .. (e - 1))
                         <=> (s <= a /\ a + m <= e))
<1>1. a .. (a + m - 1) # {} <=> m >= 1
  <2>1. CASE m >= 1
    <3>1. a \in a .. (a + m - 1) BY <2>1
    <3> QED BY <3>1, <2>1
  <2>2. CASE ~(m >= 1)
    BY <2>2
  <2> QED BY <2>1, <2>2
<1>2. ASSUME m >= 1, (a .. (a + m - 1)) \subseteq (s .. (e - 1))
      PROVE  s <= a /\ a + m <= e
  <2>1. a \in a .. (a + m - 1) /\ (a + m - 1) \in a .. (a + m - 1)
    BY <1>2
  <2> QED BY <1>2, <2>1
<1>3. ASSUME m >= 1, s <= a, a + m <= e
      PROVE  (a .. (a + m - 1)) \subseteq (s .. (e - 1))
  BY <1>3
<1> QED BY <1>1, <1>2, <1>3

-----------------------------------------------------------------------------
(* A layout ValidateLayout accepts names every block of the plan.          *)

LEMMA IdsFinite ==
  ASSUME NEW o \in Owner
  PROVE  IsFiniteSet(Ids(o)) /\ Ids(o) \subseteq BlockId
<1>1. Ids(o) \in SUBSET BlockId BY DEF Ids
<1> QED BY <1>1, IdAssumption, FS_Subset

\* A list of placements, whatever request or gesture made it.
IsListing(layout) ==
  /\ IsFiniteSet(DOMAIN layout)
  /\ \A k \in DOMAIN layout : /\ layout[k].id \in BlockId
                              /\ layout[k].slot \in Int
                              /\ layout[k].span \in Int

LEMMA LayoutType ==
  ASSUME NEW layout \in Layout
  PROVE  IsListing(layout) /\ \A k \in DOMAIN layout : layout[k] \in Placement
<1>1. PICK n \in 0..MaxLayout : layout \in [1..n -> Placement]
  BY DEF Layout
<1>2. DOMAIN layout = 1..n /\ n \in Int
  BY <1>1, InputAssumption
<1>3. IsFiniteSet(DOMAIN layout)
  BY <1>2, FS_Interval
<1>4. \A k \in DOMAIN layout : layout[k] \in Placement
  BY <1>1
<1> QED BY <1>3, <1>4, InputAssumption DEF Placement, IsListing

LEMMA LayoutNamesAll ==
  ASSUME NEW o \in Owner, NEW layout, SameBlocks(o, layout),
         NEW i \in Ids(o)
  PROVE  \E k \in DOMAIN layout : layout[k].id = i
<1> DEFINE names == [k \in DOMAIN layout |-> layout[k].id]
<1>1. names \in [DOMAIN layout -> Ids(o)]
  BY DEF SameBlocks
<1>2. \A j, k \in DOMAIN layout : names[j] = names[k] => j = k
  BY DEF SameBlocks
<1>3. names \in Injection(DOMAIN layout, Ids(o))
  BY <1>1, <1>2 DEF Injection, IsInjective
<1>4. names \in Surjection(DOMAIN layout, Ids(o))
  BY <1>3, IdsFinite, FS_Injection DEF SameBlocks
<1>5. PICK k \in DOMAIN layout : names[k] = i
  BY <1>4 DEF Surjection
<1> QED BY <1>5

-----------------------------------------------------------------------------
(* The invariant holds initially and every mutator preserves it.           *)

LEMMA InitPlanInv == Init => PlanInv
<1> SUFFICES ASSUME Init PROVE PlanInv
  OBVIOUS
<1>1. \A o \in Owner : Ids(o) = {}
  BY DEF Init, Ids
<1>2. TypeOK
  BY LimitsAssumption DEF Init, TypeOK, Bounds
<1>3. DaysLegal
  BY LimitsAssumption DEF Init, DaysLegal, Valid
<1> QED BY <1>1, <1>2, <1>3 DEF PlanInv, AllApart, AllInside

\* One lemma per mutator: whatever it does to the rows, the parts of PlanInv hold.

LEMMA CreatePlanInv ==
  ASSUME PlanInv, NEW o \in Owner, NEW label \in Label \cup {Blank},
         NEW slot \in SlotInput, NEW typ \in BlockType \cup {Unset, Unknown},
         Create(o, label, slot, typ)
  PROVE  PlanInv'
<1> DEFINE t == IF typ = Unset THEN Shallow ELSE typ
<1> DEFINE r == [owner |-> o, label |-> label, position |-> slot, span |-> 1, type |-> t]
<1>1. PICK i \in BlockId : block[i] = NoRow /\ block' = [block EXCEPT ![i] = r]
  BY DEF Create
<1>2. /\ label \in Label /\ t \in BlockType /\ slot \in Int
      /\ Contains(bounds[o], slot, 1) /\ slot \notin OccupiedSlots(o)
      /\ bounds' = bounds
  BY InputAssumption DEF Create
<1>3. r \in Row /\ r # NoRow
  BY <1>2, NoRowAssumption DEF Row
<1>4. TypeOK'
  BY <1>1, <1>2, <1>3 DEF PlanInv, TypeOK
<1>5. /\ \A p \in Owner : Ids(p)' = IF p = o THEN Ids(p) \cup {i} ELSE Ids(p)
      /\ \A j \in BlockId : j # i => block'[j] = block[j]
      /\ block'[i] = r
      /\ \A p \in Owner : i \notin Ids(p)
  BY <1>1, <1>3 DEF Ids, PlanInv, TypeOK
<1>6. ASSUME NEW j \in Ids(o) PROVE Apart(block[j], r)
  <2>1. /\ block[j] \in Row /\ block[j].span >= 1
    BY NoRowAssumption DEF PlanInv, TypeOK, Ids, AllInside, Inside
  <2>2. slot \notin Slots(block[j].position, block[j].span)
    BY <1>2, <2>1 DEF OccupiedSlots, SpanOr1, Row
  <2> QED BY <2>1, <2>2, <1>2 DEF Slots, Apart, Row
<1>7. AllApart'
  <2> SUFFICES ASSUME NEW p \in Owner, NEW j \in Ids(p)', NEW k \in Ids(p)', j # k
               PROVE  Apart(block'[j], block'[k])
    BY DEF AllApart
  <2>1. CASE j # i /\ k # i
    BY <2>1, <1>5 DEF PlanInv, AllApart, Ids
  <2>2. CASE j = i
    <3>1. p = o /\ k \in Ids(o) /\ block'[k] = block[k]
      BY <2>2, <1>5 DEF Ids
    <3> QED BY <3>1, <2>2, <1>5, <1>6 DEF Apart
  <2>3. CASE k = i
    <3>1. p = o /\ j \in Ids(o) /\ block'[j] = block[j]
      BY <2>3, <1>5 DEF Ids
    <3> QED BY <3>1, <2>3, <1>5, <1>6
  <2> QED BY <2>1, <2>2, <2>3
<1>8. AllInside'
  <2> SUFFICES ASSUME NEW p \in Owner, NEW j \in Ids(p)'
               PROVE  Inside(block'[j], bounds'[p])
    BY DEF AllInside
  <2>1. CASE j = i
    BY <2>1, <1>2, <1>5 DEF Inside, Contains
  <2>2. CASE j # i
    BY <2>2, <1>2, <1>5 DEF PlanInv, AllInside, Ids
  <2> QED BY <2>1, <2>2
<1>9. DaysLegal'
  BY <1>2 DEF PlanInv, DaysLegal
<1> QED BY <1>4, <1>7, <1>8, <1>9 DEF PlanInv

\* Delete and Clear only remove rows; the rest keep their placement.
LEMMA RemovalPlanInv ==
  ASSUME PlanInv, bounds' = bounds, NEW gone \in SUBSET BlockId,
         block' = [i \in BlockId |-> IF i \in gone THEN NoRow ELSE block[i]]
  PROVE  PlanInv'
<1>1. \A p \in Owner : /\ Ids(p)' \subseteq Ids(p)
                       /\ \A j \in Ids(p)' : block'[j] = block[j]
  BY DEF Ids
<1>2. TypeOK'
  BY DEF PlanInv, TypeOK
<1>3. AllApart' /\ AllInside' /\ DaysLegal'
  BY <1>1 DEF PlanInv, AllApart, AllInside, DaysLegal
<1> QED BY <1>2, <1>3 DEF PlanInv

LEMMA RenamePlanInv ==
  ASSUME PlanInv, NEW o \in Owner, NEW i \in BlockId,
         NEW label \in Label \cup {Blank}, Rename(o, i, label)
  PROVE  PlanInv'
<1>1. /\ label \in Label /\ i \in Ids(o) /\ bounds' = bounds
      /\ block' = [block EXCEPT ![i].label = label]
  BY DEF Rename
<1>2. block[i] \in Row
  BY <1>1 DEF PlanInv, TypeOK, Ids
<1>3. [block[i] EXCEPT !.label = label] \in Row
  BY <1>1, <1>2 DEF Row
<1>4. /\ TypeOK'
      /\ block'[i] = [block[i] EXCEPT !.label = label]
      /\ \A j \in BlockId : j # i => block'[j] = block[j]
      /\ block'[i] # NoRow
  BY <1>1, <1>3, NoRowAssumption DEF PlanInv, TypeOK
<1>5. \A p \in Owner : /\ Ids(p)' = Ids(p)
                       /\ \A j \in Ids(p) : /\ block'[j].position = block[j].position
                                            /\ block'[j].span = block[j].span
  BY <1>1, <1>2, <1>4 DEF Ids, Row
<1>6. AllApart' /\ AllInside' /\ DaysLegal'
  BY <1>1, <1>5 DEF PlanInv, AllApart, AllInside, DaysLegal, Apart, Inside
<1> QED BY <1>4, <1>6 DEF PlanInv

LEMMA SetLayoutPlanInv ==
  ASSUME PlanInv, NEW o \in Owner, NEW layout, IsListing(layout), SetLayout(o, layout)
  PROVE  PlanInv'
<1> DEFINE at(i) == CHOOSE k \in DOMAIN layout : layout[k].id = i
<1>1. /\ SameBlocks(o, layout) /\ Disjoint(layout) /\ bounds' = bounds
      /\ block' = Placed(o, layout)
      /\ \A k \in DOMAIN layout : /\ layout[k].span >= 1
                                  /\ Contains(bounds[o], layout[k].slot, layout[k].span)
  BY DEF SetLayout, ValidateLayout
<1>2. \A i \in Ids(o) : at(i) \in DOMAIN layout /\ layout[at(i)].id = i
  BY <1>1, LayoutNamesAll
<1>3. /\ \A i \in Ids(o) : block'[i] = [block[i] EXCEPT !.position = layout[at(i)].slot,
                                                      !.span = layout[at(i)].span]
      /\ \A i \in BlockId \ Ids(o) : block'[i] = block[i]
  BY <1>1, <1>2 DEF Placed, Ids
<1>4. \A i \in Ids(o) : block[i] \in Row
  BY DEF PlanInv, TypeOK, Ids
<1>5. \A i \in Ids(o) : /\ block'[i] \in Row /\ block'[i] # NoRow
                        /\ block'[i].owner = o
                        /\ block'[i].position = layout[at(i)].slot
                        /\ block'[i].span = layout[at(i)].span
  <2> SUFFICES ASSUME NEW i \in Ids(o)
               PROVE  /\ block'[i] \in Row /\ block'[i] # NoRow
                      /\ block'[i].owner = o
                      /\ block'[i].position = layout[at(i)].slot
                      /\ block'[i].span = layout[at(i)].span
    OBVIOUS
  <2>1. layout[at(i)].slot \in Int /\ layout[at(i)].span \in Int
    BY <1>2 DEF IsListing
  <2>2. block[i] \in Row /\ block[i].owner = o
    BY <1>4 DEF Ids
  <2> HIDE DEF at
  <2>3. block'[i] \in Row
    BY <1>3, <2>1, <2>2 DEF Row
  <2> QED BY <1>3, <2>2, <2>3, NoRowAssumption DEF Row
<1> HIDE DEF at
<1>6. \A p \in Owner : Ids(p)' = Ids(p)
  <2>1. \A i \in BlockId : /\ block'[i] = NoRow <=> block[i] = NoRow
                           /\ block[i] # NoRow => block'[i].owner = block[i].owner
    <3> SUFFICES ASSUME NEW i \in BlockId
                 PROVE  /\ block'[i] = NoRow <=> block[i] = NoRow
                        /\ block[i] # NoRow => block'[i].owner = block[i].owner
      OBVIOUS
    <3>1. CASE i \in Ids(o)
      <4>1. block[i] # NoRow /\ block[i].owner = o
        BY <3>1 DEF Ids
      <4> QED BY <4>1, <3>1, <1>5
    <3>2. CASE i \notin Ids(o)
      BY <3>2, <1>3
    <3> QED BY <3>1, <3>2
  <2> QED BY <2>1 DEF Ids
<1>7. TypeOK'
  <2>1. \A i \in BlockId : block'[i] \in Row \cup {NoRow}
    BY <1>3, <1>5 DEF PlanInv, TypeOK
  <2>2. block' = [i \in BlockId |-> block'[i]]
    BY <1>1 DEF Placed
  <2> QED BY <2>1, <2>2, <1>1 DEF PlanInv, TypeOK
<1>8. AllApart'
  <2> SUFFICES ASSUME NEW p \in Owner, NEW i \in Ids(p), NEW j \in Ids(p), i # j
               PROVE  Apart(block'[i], block'[j])
    BY <1>6 DEF AllApart
  <2>1. CASE p = o
    <3>1. at(i) # at(j)
      BY <1>2, <2>1
    <3>2. Slots(layout[at(i)].slot, layout[at(i)].span)
            \cap Slots(layout[at(j)].slot, layout[at(j)].span) = {}
      BY <3>1, <1>1, <1>2, <2>1 DEF Disjoint
    <3>3. /\ layout[at(i)].slot \in Int /\ layout[at(i)].span \in Int
          /\ layout[at(j)].slot \in Int /\ layout[at(j)].span \in Int
          /\ layout[at(i)].span >= 1 /\ layout[at(j)].span >= 1
      BY <1>1, <1>2, <2>1 DEF IsListing
    <3> QED BY <3>2, <3>3, <1>5, <2>1, RunsApart DEF Slots, Apart
  <2>2. CASE p # o
    <3>1. block'[i] = block[i] /\ block'[j] = block[j]
      BY <1>3, <2>2 DEF Ids
    <3> QED BY <3>1 DEF PlanInv, AllApart
  <2> QED BY <2>1, <2>2
<1>9. AllInside'
  <2> SUFFICES ASSUME NEW p \in Owner, NEW i \in Ids(p)
               PROVE  Inside(block'[i], bounds[p])
    BY <1>1, <1>6 DEF AllInside
  <2>1. CASE p = o
    <3>1. layout[at(i)].span >= 1
            /\ Contains(bounds[o], layout[at(i)].slot, layout[at(i)].span)
      BY <1>1, <1>2, <2>1
    <3>2. bounds[o].start \in Int /\ layout[at(i)].slot \in Int
      BY <1>2, <2>1 DEF IsListing, PlanInv, TypeOK, Bounds
    <3> QED BY <3>1, <3>2, <1>5, <2>1 DEF Inside, Contains
  <2>2. CASE p # o
    <3>1. block'[i] = block[i]
      BY <1>3, <2>2 DEF Ids
    <3> QED BY <3>1 DEF PlanInv, AllInside
  <2> QED BY <2>1, <2>2
<1> QED BY <1>1, <1>7, <1>8, <1>9 DEF PlanInv, DaysLegal

LEMMA SetBoundsPlanInv ==
  ASSUME PlanInv, NEW o \in Owner, NEW start \in SlotInput, NEW end \in SlotInput,
         SetBounds(o, start, end)
  PROVE  PlanInv'
<1> DEFINE next == [start |-> start, end |-> end]
<1>1. /\ Valid(next) /\ block' = block
      /\ bounds' = [bounds EXCEPT ![o] = next]
      /\ \A i \in Ids(o) : Contains(next, block[i].position, block[i].span)
  BY DEF SetBounds
<1>2. start \in Int /\ end \in Int
  BY InputAssumption
<1>3. TypeOK'
  BY <1>1, <1>2 DEF PlanInv, TypeOK, Bounds
<1>4. \A p \in Owner : /\ Ids(p)' = Ids(p)
                       /\ bounds'[p] = IF p = o THEN next ELSE bounds[p]
  BY <1>1 DEF Ids, PlanInv, TypeOK
<1>5. AllApart' /\ DaysLegal'
  BY <1>1, <1>4 DEF PlanInv, AllApart, DaysLegal
<1>6. AllInside'
  <2> SUFFICES ASSUME NEW p \in Owner, NEW i \in Ids(p)
               PROVE  Inside(block[i], bounds'[p])
    BY <1>1, <1>4 DEF AllInside
  <2>1. block[i] \in Row /\ Inside(block[i], bounds[p])
    BY DEF PlanInv, TypeOK, AllInside, Ids
  <2>2. CASE p = o
    BY <2>1, <2>2, <1>1, <1>2, <1>4 DEF Inside, Contains, Row
  <2>3. CASE p # o
    BY <2>1, <2>3, <1>4
  <2> QED BY <2>2, <2>3
<1> QED BY <1>3, <1>5, <1>6 DEF PlanInv

LEMMA NextPlanInv == PlanInv /\ [Next]_vars => PlanInv'
<1> SUFFICES ASSUME PlanInv, [Next]_vars PROVE PlanInv'
  OBVIOUS
<1>1. ASSUME NEW o \in Owner, NEW label \in Label \cup {Blank}, NEW slot \in SlotInput,
             NEW typ \in BlockType \cup {Unset, Unknown}, Create(o, label, slot, typ)
      PROVE  PlanInv'
  BY <1>1, CreatePlanInv
<1>2. ASSUME NEW o \in Owner, NEW i \in BlockId, Delete(o, i)
      PROVE  PlanInv'
  <2>1. block' = [j \in BlockId |-> IF j \in {i} THEN NoRow ELSE block[j]]
    BY <1>2 DEF Delete, PlanInv, TypeOK
  <2> QED BY <2>1, <1>2, RemovalPlanInv DEF Delete
<1>3. ASSUME NEW o \in Owner, Clear(o)
      PROVE  PlanInv'
  <2>1. Ids(o) \in SUBSET BlockId
    BY DEF Ids
  <2> QED BY <2>1, <1>3, RemovalPlanInv DEF Clear
<1>4. ASSUME NEW o \in Owner, NEW i \in BlockId, NEW label \in Label \cup {Blank},
             Rename(o, i, label)
      PROVE  PlanInv'
  BY <1>4, RenamePlanInv
<1>5. ASSUME NEW o \in Owner, NEW layout \in Layout, SetLayout(o, layout)
      PROVE  PlanInv'
  BY <1>5, LayoutType, SetLayoutPlanInv
<1>6. ASSUME NEW o \in Owner, NEW start \in SlotInput, NEW end \in SlotInput,
             SetBounds(o, start, end)
      PROVE  PlanInv'
  BY <1>6, SetBoundsPlanInv
<1>7. CASE UNCHANGED vars
  BY <1>7 DEF vars, PlanInv, TypeOK, AllApart, AllInside, DaysLegal, Ids
<1> QED BY <1>1, <1>2, <1>3, <1>4, <1>5, <1>6, <1>7 DEF Next, Mutation

LEMMA SpecPlanInv == Spec => []PlanInv
BY InitPlanInv, NextPlanInv, PTL DEF Spec

-----------------------------------------------------------------------------
(* What the invariant means for the plans.                                 *)

\* The two tables only ever hold rows and days of the right shape, whatever
\* requests the six mutators of block.Service accept.
THEOREM PlanTypes == Spec => []TypeOK
<1>1. PlanInv => TypeOK
  BY DEF PlanInv
<1> QED BY <1>1, SpecPlanInv, PTL

\* No history of creates, renames, deletes, layouts and changes of hours makes
\* two blocks of an owner cover one slot, or leaves a block outside its day, or a
\* day outside the hard limits (the plan invariants of ADR 0005).
THEOREM PlanStaysLegal == Spec => []PlanLegal
<1>1. ASSUME PlanInv PROVE NoOverlap
  <2> SUFFICES ASSUME NEW o \in Owner, NEW i \in Ids(o), NEW j \in Ids(o), i # j
               PROVE  Cells(i) \cap Cells(j) = {}
    BY DEF NoOverlap
  <2>1. /\ block[i] \in Row /\ block[j] \in Row /\ Apart(block[i], block[j])
        /\ block[i].span >= 1 /\ block[j].span >= 1
    BY <1>1 DEF PlanInv, TypeOK, AllApart, AllInside, Inside, Ids
  <2> QED BY <2>1, RunsApart DEF Cells, Apart, Row
<1>2. ASSUME PlanInv PROVE InBounds
  <2> SUFFICES ASSUME NEW o \in Owner, NEW i \in Ids(o)
               PROVE  /\ Cells(i) # {}
                      /\ Cells(i) \subseteq bounds[o].start .. (bounds[o].end - 1)
    BY DEF InBounds
  <2>1. block[i] \in Row /\ bounds[o] \in Bounds /\ Inside(block[i], bounds[o])
    BY <1>2 DEF PlanInv, TypeOK, AllInside, Ids
  <2> QED BY <2>1, RunInside DEF Cells, Inside, Row, Bounds
<1>3. ASSUME PlanInv PROVE DayWithinLimits
  <2> SUFFICES ASSUME NEW o \in Owner
               PROVE  /\ bounds[o].start .. (bounds[o].end - 1) # {}
                      /\ bounds[o].start .. (bounds[o].end - 1)
                           \subseteq MinDayStart .. (MaxDayEnd - 1)
    BY DEF DayWithinLimits
  <2>1. bounds[o] \in Bounds /\ Valid(bounds[o])
    BY <1>3 DEF PlanInv, TypeOK, DaysLegal
  <2>2. bounds[o].start \in bounds[o].start .. (bounds[o].end - 1)
    BY <2>1 DEF Valid, Bounds
  <2> QED BY <2>1, <2>2, LimitsAssumption DEF Valid, Bounds
<1>4. PlanInv => PlanLegal
  BY <1>1, <1>2, <1>3 DEF PlanLegal
<1> QED BY <1>4, SpecPlanInv, PTL

-----------------------------------------------------------------------------
LEMMA RowsOfOwnerChange ==
  ASSUME NEW o \in Owner, bounds' = bounds,
         \A i \in BlockId \ Ids(o) : block'[i] = block[i],
         \A i \in Ids(o) : block'[i] = NoRow \/ block'[i].owner = o
  PROVE  OnlyOf(o)
BY DEF OnlyOf, Ids

\* Whatever ids a request names, it changes rows and hours of the owner it is
\* made for and of nobody else (ADR 0003: every query is owner-scoped).
THEOREM OwnersAreIsolated == Spec => OwnerIsolation
<1>1. ASSUME PlanInv, NEW o \in Owner, Mutation(o)
      PROVE  OnlyOf(o)
  <2>1. ASSUME NEW label \in Label \cup {Blank}, NEW slot \in SlotInput,
               NEW typ \in BlockType \cup {Unset, Unknown}, Create(o, label, slot, typ)
        PROVE  OnlyOf(o)
    <3>1. PICK i \in BlockId : /\ block[i] = NoRow
                               /\ \A j \in BlockId : j # i => block'[j] = block[j]
                               /\ block'[i].owner = o
                               /\ bounds' = bounds
      BY <1>1, <2>1 DEF Create, PlanInv, TypeOK
    <3> QED BY <3>1 DEF OnlyOf
  <2>2. ASSUME NEW i \in BlockId, Delete(o, i)
        PROVE  OnlyOf(o)
    <3>1. /\ i \in Ids(o) /\ bounds' = bounds /\ block'[i] = NoRow
          /\ \A j \in BlockId \ {i} : block'[j] = block[j]
      BY <1>1, <2>2 DEF Delete, PlanInv, TypeOK
    <3> QED BY <3>1 DEF OnlyOf, Ids
  <2>3. ASSUME Clear(o)
        PROVE  OnlyOf(o)
    BY <1>1, <2>3, RowsOfOwnerChange DEF Clear, Ids
  <2>4. ASSUME NEW i \in BlockId, NEW label \in Label \cup {Blank}, Rename(o, i, label)
        PROVE  OnlyOf(o)
    <3>1. /\ i \in Ids(o) /\ bounds' = bounds /\ block[i] \in Row /\ block[i].owner = o
          /\ block'[i] = [block[i] EXCEPT !.label = label]
          /\ \A j \in BlockId \ {i} : block'[j] = block[j]
      BY <1>1, <2>4 DEF Rename, PlanInv, TypeOK, Ids
    <3>2. block'[i].owner = o
      BY <3>1 DEF Row
    <3> QED BY <3>1, <3>2 DEF OnlyOf
  <2>5. ASSUME NEW layout \in Layout, SetLayout(o, layout)
        PROVE  OnlyOf(o)
    <3>1. /\ bounds' = bounds /\ block' = Placed(o, layout)
      BY <2>5 DEF SetLayout
    <3>2. \A i \in BlockId \ Ids(o) : block'[i] = block[i]
      BY <3>1 DEF Placed
    <3>3. ASSUME NEW i \in Ids(o)
          PROVE  block'[i].owner = o
      <4>1. i \in BlockId /\ block[i] \in Row /\ block[i].owner = o
        BY <1>1 DEF PlanInv, TypeOK, Ids
      <4>2. CASE \E k \in DOMAIN layout : layout[k].id = i
        <5> DEFINE p == layout[CHOOSE k \in DOMAIN layout : layout[k].id = i]
        <5>1. block'[i] = [block[i] EXCEPT !.position = p.slot, !.span = p.span]
          BY <3>1, <4>1, <4>2 DEF Placed
        <5> HIDE DEF p
        <5> QED BY <4>1, <5>1 DEF Row
      <4>3. CASE ~ \E k \in DOMAIN layout : layout[k].id = i
        BY <3>1, <4>1, <4>3 DEF Placed
      <4> QED BY <4>2, <4>3
    <3> QED BY <3>1, <3>2, <3>3, RowsOfOwnerChange
  <2>6. ASSUME NEW start \in SlotInput, NEW end \in SlotInput, SetBounds(o, start, end)
        PROVE  OnlyOf(o)
    BY <1>1, <2>6 DEF SetBounds, OnlyOf, PlanInv, TypeOK
  <2> QED BY <1>1, <2>1, <2>2, <2>3, <2>4, <2>5, <2>6 DEF Mutation
<1>2. PlanInv => [\A o \in Owner : ~OnlyOf(o) => ~Mutation(o)]_vars
  BY <1>1
<1> QED BY <1>2, SpecPlanInv, PTL DEF OwnerIsolation

-----------------------------------------------------------------------------
(* The hours form.                                                         *)

\* A non-empty set of naturals has a least element: the library's theorem on minimal
\* elements, for the order of the naturals.
LEMMA LeastNat ==
  ASSUME NEW S, S \subseteq Nat, S # {}
  PROVE  \E m \in S : \A n \in S : m <= n
<1> DEFINE less == {ss \in Nat \X Nat : ss[1] < ss[2]}
<1>1. IsWellFoundedOn(less, Nat)
  BY NatLessThanWellFounded DEF OpToRel
<1> HIDE DEF less
<1>2. PICK m \in S : \A n \in S : ~(<<n, m>> \in less)
  BY <1>1, WFMin
<1>3. \A n \in S : ~(n < m)
  BY <1>2 DEF less
<1> QED BY <1>3

\* So bounded sets of integers have a least and a greatest one.
LEMMA LeastInt ==
  ASSUME NEW S, S \subseteq Int, S # {}, NEW lo \in Int, \A s \in S : lo <= s
  PROVE  \E m \in S : \A n \in S : m <= n
<1> DEFINE T == {s - lo : s \in S}
<1>1. T # {}
  OBVIOUS
<1>2. T \subseteq Nat
  <2>1. \A s \in S : s - lo \in Nat
    OBVIOUS
  <2> QED BY <2>1
<1> HIDE DEF T
<1>3. PICK m \in T : \A n \in T : m <= n
  BY <1>1, <1>2, LeastNat
<1>4. PICK s \in S : m = s - lo
  BY <1>3 DEF T
<1>5. ASSUME NEW n \in S PROVE s <= n
  <2>1. n - lo \in T /\ s \in Int /\ n \in Int
    BY DEF T
  <2> QED BY <1>3, <1>4, <2>1
<1> QED BY <1>5

LEMMA GreatestInt ==
  ASSUME NEW S, S \subseteq Int, S # {}, NEW hi \in Int, \A s \in S : s <= hi
  PROVE  \E m \in S : \A n \in S : m >= n
<1> DEFINE T == {-s : s \in S}
<1>1. T # {}
  OBVIOUS
<1>2. T \subseteq Int /\ -hi \in Int /\ \A t \in T : -hi <= t
  <2>1. \A s \in S : -s \in Int /\ -hi <= -s
    OBVIOUS
  <2> QED BY <2>1
<1> HIDE DEF T
<1>3. PICK m \in T : \A n \in T : m <= n
  BY <1>1, <1>2, LeastInt
<1>4. PICK s \in S : m = -s
  BY <1>3 DEF T
<1>5. ASSUME NEW n \in S PROVE s >= n
  <2>1. -n \in T /\ s \in Int /\ n \in Int
    BY DEF T
  <2> QED BY <1>3, <1>4, <2>1
<1> QED BY <1>5

\* The cells of a legal plan are the slots its owner occupies.
LEMMA OccupiedIs ==
  ASSUME PlanInv, NEW o \in Owner
  PROVE  /\ \A i \in Ids(o) : Cells(i) \subseteq OccupiedSlots(o)
         /\ \A s \in OccupiedSlots(o) : \E i \in Ids(o) : s \in Cells(i)
         /\ OccupiedSlots(o) \subseteq MinDayStart .. (MaxDayEnd - 1)
<1>1. \A i \in Ids(o) : block[i] \in Row /\ Inside(block[i], bounds[o]) /\ Valid(bounds[o]) /\ bounds[o] \in Bounds
  BY DEF PlanInv, TypeOK, AllInside, DaysLegal, Ids
<1>2. ASSUME NEW i \in Ids(o)
      PROVE  /\ Slots(block[i].position, SpanOr1(block[i].span)) = Cells(i)
             /\ Cells(i) \subseteq MinDayStart .. (MaxDayEnd - 1)
  <2>1. /\ block[i].position \in Int /\ block[i].span \in Int /\ block[i].span >= 1
        /\ MinDayStart <= block[i].position /\ block[i].position + block[i].span <= MaxDayEnd
    BY <1>1, LimitsAssumption DEF Inside, Valid, Row, Bounds
  <2>2. SpanOr1(block[i].span) = block[i].span
    BY <2>1 DEF SpanOr1
  <2> QED BY <2>1, <2>2, LimitsAssumption DEF Slots, Cells
<1> QED BY <1>2 DEF OccupiedSlots

\* The two signals say where the plan begins and ends.
LEMMA EnvelopeIs ==
  ASSUME PlanInv, NEW o \in Owner
  PROVE  /\ Envelope(o).firstSlot \in OccupiedSlots(o) \cup {MaxDayEnd}
         /\ Envelope(o).lastEnd \in {s + 1 : s \in OccupiedSlots(o)} \cup {MinDayStart}
         /\ \A s \in OccupiedSlots(o) : Envelope(o).firstSlot <= s /\ s + 1 <= Envelope(o).lastEnd
<1> DEFINE firsts == OccupiedSlots(o) \cup {MaxDayEnd}
           ends   == {s + 1 : s \in OccupiedSlots(o)} \cup {MinDayStart}
           first  == CHOOSE s \in firsts : \A t \in firsts : s <= t
           last   == CHOOSE s \in ends : \A t \in ends : s >= t
<1>1. MinDayStart \in Int /\ MaxDayEnd \in Int /\ MinDayStart <= MaxDayEnd
  BY LimitsAssumption
<1>2. firsts \subseteq Int /\ firsts # {} /\ \A s \in firsts : MinDayStart <= s
  BY <1>1, OccupiedIs
<1>3. ends \subseteq Int /\ ends # {} /\ \A s \in ends : s <= MaxDayEnd
  BY <1>1, OccupiedIs
<1>4. Envelope(o).firstSlot = first /\ Envelope(o).lastEnd = last
  BY DEF Envelope
<1>5. \A s \in OccupiedSlots(o) : s \in firsts /\ s + 1 \in ends
  OBVIOUS
<1>6. \E s \in firsts : \A t \in firsts : s <= t
  <2> HIDE DEF firsts
  <2> QED BY <1>1, <1>2, LeastInt
<1>7. \E s \in ends : \A t \in ends : s >= t
  <2> HIDE DEF ends
  <2> QED BY <1>1, <1>3, GreatestInt
<1>8. first \in firsts /\ \A t \in firsts : first <= t
  <2> HIDE DEF firsts
  <2> QED BY <1>6
<1>9. last \in ends /\ \A t \in ends : last >= t
  <2> HIDE DEF ends
  <2> QED BY <1>7
<1>10. \A s \in OccupiedSlots(o) : first <= s /\ s + 1 <= last
  <2>1. \A t \in ends : t \in Int
    BY <1>3
  <2>2. last \in Int
    BY <1>9, <2>1
  <2> HIDE DEF firsts, ends, first, last
  <2> QED BY <1>5, <1>8, <1>9, <2>1, <2>2
<1> HIDE DEF first, last
<1> QED BY <1>4, <1>8, <1>9, <1>10

\* The working-hours form, which sees two numbers of a plan, offers a window exactly when
\* SetBounds would accept it (hours.templ, OccupiedEnvelope).
THEOREM FormOffersWhatFits == Spec => []HoursPickerExact
<1>1. PlanInv => HoursPickerExact
  <2> SUFFICES ASSUME PlanInv, NEW o \in Owner, NEW start \in MinDayStart .. MaxDayEnd,
                      NEW end \in MinDayStart .. MaxDayEnd, start < end
               PROVE  Offered(o, start, end) <=> \A i \in Ids(o) : Cells(i) \subseteq start .. (end - 1)
    BY DEF HoursPickerExact
  <2> DEFINE first == Envelope(o).firstSlot
             last  == Envelope(o).lastEnd
             S     == OccupiedSlots(o)
  <2>1. /\ MinDayStart \in Int /\ MaxDayEnd \in Int /\ start \in Int /\ end \in Int
        /\ S \subseteq MinDayStart .. (MaxDayEnd - 1)
    BY LimitsAssumption, OccupiedIs
  <2>2. /\ first \in S \cup {MaxDayEnd} /\ last \in {s + 1 : s \in S} \cup {MinDayStart}
        /\ \A s \in S : first <= s /\ s + 1 <= last
    BY EnvelopeIs
  <2>3. first \in Int /\ last \in Int
    BY <2>1, <2>2
  <2>4. Offered(o, start, end) <=> start <= first /\ last <= end
    BY <2>1, <2>3 DEF Offered
  <2>5. (\A i \in Ids(o) : Cells(i) \subseteq start .. (end - 1)) <=> S \subseteq start .. (end - 1)
    BY OccupiedIs
  <2> HIDE DEF first, last, S
  <2>6. ASSUME start <= first, last <= end
        PROVE  S \subseteq start .. (end - 1)
    BY <2>1, <2>2, <2>3, <2>6
  <2>7. ASSUME S \subseteq start .. (end - 1)
        PROVE  start <= first /\ last <= end
    <3>1. start <= first
      BY <2>1, <2>2, <2>7
    <3>2. last <= end
      <4>1. CASE last = MinDayStart
        BY <2>1, <4>1
      <4>2. CASE \E s \in S : last = s + 1
        BY <2>1, <2>7, <4>2
      <4> QED BY <2>2, <4>1, <4>2
    <3> QED BY <3>1, <3>2
  <2> QED BY <2>4, <2>5, <2>6, <2>7
<1> QED BY <1>1, SpecPlanInv, PTL

-----------------------------------------------------------------------------
(* What ValidateLayout accepts.                                            *)

\* A finite family of finite sets has a finite union.
LEMMA FamilyFinite ==
  ASSUME NEW D, IsFiniteSet(D), NEW V, NEW f \in [D -> V], \A k \in D : IsFiniteSet(f[k])
  PROVE  IsFiniteSet(UNION {f[k] : k \in D})
<1> DEFINE T == {f[k] : k \in D}
<1>1. f \in Surjection(D, T)
  BY DEF Surjection
<1> HIDE DEF T
<1>2. IsFiniteSet(T)
  BY <1>1, FS_Surjection
<1>3. \A t \in T : IsFiniteSet(t)
  BY DEF T
<1>4. IsFiniteSet(UNION T)
  BY <1>2, <1>3, FS_UNION
<1> QED BY <1>4 DEF T

\* The cells of a family of runs, and the same told apart by run.
Covered(D, run) == UNION {run[k] : k \in D}
Pairs(D, run)   == UNION {{<<k, s>> : s \in run[k]} : k \in D}

\* Counting cells with and without their runs tells whether the runs are disjoint.
LEMMA DisjointByCounting ==
  ASSUME NEW D, IsFiniteSet(D), NEW V, NEW run \in [D -> V],
         \A k \in D : IsFiniteSet(run[k])
  PROVE  (\A j, k \in D : j # k => run[j] \cap run[k] = {})
           <=> Cardinality(Covered(D, run)) = Cardinality(Pairs(D, run))
<1> DEFINE covered == Covered(D, run)
           pairs   == Pairs(D, run)
           cell    == [p \in pairs |-> p[2]]
<1>1. IsFiniteSet(covered)
  BY FamilyFinite DEF Covered
<1>2. IsFiniteSet(pairs)
  <2>1. IsFiniteSet(D \X covered)
    <3> HIDE DEF covered
    <3> QED BY <1>1, FS_Product
  <2>2. pairs \in SUBSET (D \X covered)
    BY DEF Covered, Pairs
  <2> HIDE DEF pairs, covered
  <2> QED BY <2>1, <2>2, FS_Subset
<1>3. /\ \A p \in pairs : p[1] \in D /\ p[2] \in run[p[1]] /\ p = <<p[1], p[2]>>
      /\ \A k \in D : \A s \in run[k] : <<k, s>> \in pairs
  BY DEF Pairs
<1>4. \A s \in covered : \E k \in D : s \in run[k]
  BY DEF Covered
<1>5. \A k \in D : run[k] \subseteq covered
  BY DEF Covered
<1> HIDE DEF pairs, covered
<1>6. cell \in Surjection(pairs, covered)
  <2>1. cell \in [pairs -> covered]
    BY <1>3, <1>5
  <2>2. ASSUME NEW s \in covered PROVE \E p \in pairs : cell[p] = s
    <3>1. PICK k \in D : s \in run[k]
      BY <1>4
    <3>2. <<k, s>> \in pairs /\ cell[<<k, s>>] = s
      BY <1>3, <3>1
    <3> QED BY <3>2
  <2> QED BY <2>1, <2>2 DEF Surjection
<1>7. cell \in Injection(pairs, covered) <=> \A p, q \in pairs : p[2] = q[2] => p = q
  BY <1>6 DEF Injection, IsInjective, Surjection
<1>8. (\A p, q \in pairs : p[2] = q[2] => p = q) <=> \A j, k \in D : j # k => run[j] \cap run[k] = {}
  <2>1. ASSUME \A p, q \in pairs : p[2] = q[2] => p = q, NEW j \in D, NEW k \in D, j # k
        PROVE  run[j] \cap run[k] = {}
    <3> SUFFICES ASSUME NEW s \in run[j] \cap run[k] PROVE FALSE
      OBVIOUS
    <3>1. <<j, s>> \in pairs /\ <<k, s>> \in pairs /\ <<j, s>>[2] = <<k, s>>[2]
      BY <1>3
    <3>2. <<j, s>> = <<k, s>>
      BY <2>1, <3>1
    <3> QED BY <2>1, <3>2
  <2>2. ASSUME \A j, k \in D : j # k => run[j] \cap run[k] = {}, NEW p \in pairs, NEW q \in pairs, p[2] = q[2]
        PROVE  p = q
    <3>1. p[1] = q[1]
      BY <1>3, <2>2
    <3> QED BY <1>3, <2>2, <3>1
  <2> QED BY <2>1, <2>2
<1> HIDE DEF cell
<1>9. Cardinality(covered) = Cardinality(pairs) <=> cell \in Injection(pairs, covered)
  BY <1>2, <1>6, FS_Surjection
<1> QED BY <1>7, <1>8, <1>9 DEF covered, pairs

\* Naming every block with as many entries as there are blocks names each once.
LEMMA AllNamedOnce ==
  ASSUME NEW o \in Owner, NEW layout, NEW P,
         layout \in [1 .. Cardinality(Ids(o)) -> P], {layout[k].id : k \in DOMAIN layout} = Ids(o)
  PROVE  SameBlocks(o, layout)
<1> DEFINE D == DOMAIN layout
           names == [k \in D |-> layout[k].id]
<1>1. /\ D = 1 .. Cardinality(Ids(o)) /\ Cardinality(Ids(o)) \in Nat
      /\ IsFiniteSet(D) /\ Cardinality(D) = Cardinality(Ids(o))
  BY IdsFinite, FS_CardinalityType, FS_Interval
<1>2. names \in Surjection(D, Ids(o))
  BY DEF Surjection
<1>3. names \in Injection(D, Ids(o))
  <2> HIDE DEF names, D
  <2> QED BY <1>1, <1>2, FS_Surjection
<1>4. \A j, k \in D : names[j] = names[k] => j = k
  BY <1>3 DEF Injection, IsInjective
<1> QED BY <1>1, <1>4 DEF SameBlocks

\* ValidateLayout refuses nothing a drag could produce: of the layouts that list the day's
\* blocks it accepts exactly those whose slots are all different and all within the day
\* (ADR 0005).
THEOREM ValidationIsExact == Spec => []LayoutExact
<1>1. TypeOK => LayoutExact
  <2> DEFINE P(o) == [id : Ids(o), slot : SlotInput, span : {n \in SpanInput : n > 0}]
  <2> SUFFICES ASSUME TypeOK, NEW o \in Owner,
                      NEW layout \in [1 .. Cardinality(Ids(o)) -> P(o)],
                      {layout[k].id : k \in DOMAIN layout} = Ids(o)
               PROVE  LET run(k) == layout[k].slot .. (layout[k].slot + layout[k].span - 1)
                          covered == UNION {run(k) : k \in DOMAIN layout}
                          pairs == UNION {{<<k, s>> : s \in run(k)} : k \in DOMAIN layout}
                      IN ValidateLayout(o, layout)
                           <=> /\ Cardinality(covered) = Cardinality(pairs)
                               /\ covered \subseteq bounds[o].start .. (bounds[o].end - 1)
    BY DEF LayoutExact
  <2> DEFINE D   == DOMAIN layout
             run == [k \in D |-> layout[k].slot .. (layout[k].slot + layout[k].span - 1)]
  <2>1. /\ D = 1 .. Cardinality(Ids(o)) /\ IsFiniteSet(D)
        /\ \A k \in D : layout[k].slot \in Int /\ layout[k].span \in Int /\ layout[k].span >= 1
    <3>1. D = 1 .. Cardinality(Ids(o)) /\ Cardinality(Ids(o)) \in Nat /\ \A k \in D : layout[k] \in P(o)
      BY IdsFinite, FS_CardinalityType
    <3>2. IsFiniteSet(D)
      BY <3>1, FS_Interval
    <3> QED BY <3>1, <3>2, InputAssumption
  <2>2. SameBlocks(o, layout)
    <3> HIDE DEF P
    <3> QED BY AllNamedOnce
  <2>3. bounds[o].start \in Int /\ bounds[o].end \in Int
    BY DEF TypeOK, Bounds
  <2>4. /\ run \in [D -> SUBSET Int] /\ \A k \in D : IsFiniteSet(run[k])
        /\ \A k \in D : run[k] = layout[k].slot .. (layout[k].slot + layout[k].span - 1)
    BY <2>1, FS_Interval
  <2>5. \A k \in D : Contains(bounds[o], layout[k].slot, layout[k].span)
                       <=> run[k] \subseteq bounds[o].start .. (bounds[o].end - 1)
    BY <2>1, <2>3, <2>4, RunInside DEF Contains
  <2>6. Disjoint(layout) <=> \A j, k \in D : j # k => run[j] \cap run[k] = {}
    BY <2>4 DEF Disjoint, Slots
  <2>7. /\ Covered(D, run) = UNION {layout[k].slot .. (layout[k].slot + layout[k].span - 1) : k \in D}
        /\ Pairs(D, run)
             = UNION {{<<k, s>> : s \in layout[k].slot .. (layout[k].slot + layout[k].span - 1)} : k \in D}
    BY <2>4 DEF Covered, Pairs
  <2> HIDE DEF run, D
  <2>8. (\A j, k \in D : j # k => run[j] \cap run[k] = {})
          <=> Cardinality(Covered(D, run)) = Cardinality(Pairs(D, run))
    BY <2>1, <2>4, DisjointByCounting
  <2>9. (\A k \in D : run[k] \subseteq bounds[o].start .. (bounds[o].end - 1))
          <=> Covered(D, run) \subseteq bounds[o].start .. (bounds[o].end - 1)
    BY DEF Covered
  <2>10. ValidateLayout(o, layout)
           <=> /\ Cardinality(Covered(D, run)) = Cardinality(Pairs(D, run))
               /\ Covered(D, run) \subseteq bounds[o].start .. (bounds[o].end - 1)
    BY <2>1, <2>2, <2>5, <2>6, <2>8, <2>9 DEF ValidateLayout, D
  <2> QED BY <2>7, <2>10 DEF D
<1>2. PlanInv => TypeOK
  BY DEF PlanInv
<1> QED BY <1>1, <1>2, SpecPlanInv, PTL
=============================================================================
