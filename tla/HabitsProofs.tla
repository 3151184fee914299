----------------------------- MODULE HabitsProofs ----------------------------
(***************************************************************************)
(* Theorems about Habits: for every set of owners and names, every bound   *)
(* and every history of calls.                                             *)
(*                                                                         *)
(* HabitInv is inductive.  Its part IdsAllocated, that no id above the     *)
(* allocator's mark was ever used, is what makes ids final and gives a new *)
(* habit no old check-ins.  Ranks are dense because each way to make them  *)
(* is a bijection onto 0 .. n-1: a pigeonhole argument for SetOrder, and   *)
(* the ranks of a strict order on a finite set for Delete.                 *)
(***************************************************************************)
EXTENDS Habits, FiniteSetTheorems, TLAPS

HabitTypes ==
  /\ habit \in [HabitId -> Row \cup {NoHabit}]
  /\ checkin \in [HabitId -> SUBSET Int]
  /\ lastId \in 0 .. MaxId /\ today \in Nat

\* The allocator's mark is above every row, every deleted row and every check-in.
IdsAllocated ==
  /\ \A i \in HabitId : habit[i] # NoHabit => i <= lastId
  /\ retired \subseteq 1 .. lastId

HabitInv == HabitTypes /\ IdsAllocated /\ IdsAreFinal /\ CheckInsInside /\ DenseOrder

-----------------------------------------------------------------------------
(* Lemmas about the operators.                                             *)

LEMMA IdsFinite ==
  ASSUME NEW o
  PROVE  IsFiniteSet(Ids(o)) /\ Cardinality(Ids(o)) \in Nat
<1>1. IsFiniteSet(HabitId)
  BY HabitsAssumption, FS_Interval DEF HabitId
<1>2. Ids(o) \in SUBSET HabitId
  BY DEF Ids
<1> QED BY <1>1, <1>2, FS_Subset, FS_CardinalityType

LEMMA MaxIs ==
  ASSUME NEW S \in SUBSET Int, NEW m \in S, \A n \in S : n <= m
  PROVE  Max(S) = m
<1>1. \A n \in S : m >= n
  OBVIOUS
<1>2. Max(S) \in S /\ Max(S) >= m
  BY <1>1 DEF Max
<1>3. m \in Int /\ Max(S) \in Int /\ Max(S) <= m
  BY <1>2
<1> QED BY <1>2, <1>3

\* A new id is one above the allocator's mark.
LEMMA NextIdIs ==
  ASSUME HabitInv
  PROVE  NextId(lastId) = lastId + 1
<1> DEFINE used == {i \in HabitId : habit[i] # NoHabit}
<1>1. lastId \in Nat /\ {lastId} \cup used \in SUBSET Int
  BY HabitsAssumption DEF HabitInv, HabitTypes, HabitId
<1>2. \A n \in {lastId} \cup used : n <= lastId
  BY <1>1 DEF HabitInv, IdsAllocated
<1>3. Max({lastId} \cup used) = lastId
  BY <1>1, <1>2, MaxIs
<1> QED BY <1>3 DEF NextId

\* A new habit goes below the others: its rank is their number.
LEMMA NextOrderIs ==
  ASSUME HabitInv, NEW o \in Owner
  PROVE  NextOrder(o) = Cardinality(Ids(o))
<1> DEFINE n == Cardinality(Ids(o))
           S == {-1} \cup {habit[i].order : i \in Ids(o)}
<1>1. n \in Nat
  BY IdsFinite
<1>2. S = {-1} \cup 0 .. (n - 1)
  BY DEF HabitInv, DenseOrder
<1> HIDE DEF n, S
<1>3. S \in SUBSET Int /\ n - 1 \in S /\ \A k \in S : k <= n - 1
  BY <1>1, <1>2
<1>4. Max(S) = n - 1
  BY <1>1, <1>3, MaxIs
<1> QED BY <1>1, <1>4 DEF NextOrder, S, n

\* n distinct ranks below n are all of them.
LEMMA DistinctRanksAreDense ==
  ASSUME NEW S, IsFiniteSet(S), NEW rank \in [S -> 0 .. (Cardinality(S) - 1)],
         \A i, j \in S : rank[i] = rank[j] => i = j
  PROVE  {rank[i] : i \in S} = 0 .. (Cardinality(S) - 1)
<1> DEFINE n == Cardinality(S)
           T == 0 .. (n - 1)
<1>1. n \in Nat
  BY FS_CardinalityType
<1>2. IsFiniteSet(T) /\ Cardinality(T) = n
  BY <1>1, FS_Interval
<1>3. rank \in Injection(S, T)
  BY DEF Injection, IsInjective
<1>4. rank \in Surjection(S, T)
  BY <1>2, <1>3, FS_Injection
<1>5. \A k \in T : \E i \in S : rank[i] = k
  BY <1>4 DEF Surjection
<1> QED BY <1>5

\* Counting the habits listed before each one ranks any part of an owner's habits.
LEMMA CountingRanks ==
  ASSUME HabitTypes, NEW o, NEW S \in SUBSET Ids(o),
         NEW rank, rank = [j \in S |-> Cardinality({k \in S : Before(k, j)})]
  PROVE  {rank[j] : j \in S} = 0 .. (Cardinality(S) - 1)
<1> DEFINE below(j) == {k \in S : Before(k, j)}
<1>1. IsFiniteSet(S)
  BY IdsFinite, FS_Subset
<1>2. \A j \in S : j \in HabitId /\ j \in Int /\ habit[j].order \in Nat
  BY DEF HabitTypes, Ids, Row, HabitId
<1>3. \A j \in S : IsFiniteSet(below(j)) /\ Cardinality(below(j)) \in Nat
  <2> SUFFICES ASSUME NEW j \in S
               PROVE  IsFiniteSet(below(j)) /\ Cardinality(below(j)) \in Nat
    OBVIOUS
  <2>1. below(j) \in SUBSET S
    OBVIOUS
  <2> QED BY <1>1, <2>1, FS_Subset, FS_CardinalityType
<1>4. ASSUME NEW j \in S, NEW l \in S, Before(j, l)
      PROVE  Cardinality(below(j)) < Cardinality(below(l))
  <2>1. below(j) \in SUBSET (below(l) \ {j})
    BY <1>2, <1>4 DEF Before
  <2>2. j \in below(l)
    BY <1>4
  <2>3. /\ IsFiniteSet(below(l) \ {j})
        /\ Cardinality(below(l) \ {j}) = Cardinality(below(l)) - 1
    BY <1>3, <2>2, FS_RemoveElement
  <2>4. Cardinality(below(j)) <= Cardinality(below(l) \ {j})
    BY <2>1, <2>3, FS_Subset
  <2> HIDE DEF below
  <2> QED BY <1>3, <2>3, <2>4
<1>5. ASSUME NEW j \in S
      PROVE  Cardinality(below(j)) \in 0 .. (Cardinality(S) - 1)
  <2>1. below(j) \in SUBSET (S \ {j})
    BY <1>2 DEF Before
  <2>2. IsFiniteSet(S \ {j}) /\ Cardinality(S \ {j}) = Cardinality(S) - 1
    BY <1>1, FS_RemoveElement
  <2>3. Cardinality(below(j)) <= Cardinality(S) - 1
    BY <2>1, <2>2, FS_Subset
  <2>4. Cardinality(S) \in Nat
    BY <1>1, FS_CardinalityType
  <2> HIDE DEF below
  <2> QED BY <1>3, <2>3, <2>4
<1>6. rank = [j \in S |-> Cardinality(below(j))]
  OBVIOUS
<1> HIDE DEF below
<1>7. rank \in [S -> 0 .. (Cardinality(S) - 1)]
  BY <1>5, <1>6
<1>8. \A j, l \in S : j # l => Before(j, l) \/ Before(l, j)
  BY <1>2 DEF Before
<1>9. \A j, l \in S : rank[j] = rank[l] => j = l
  <2> SUFFICES ASSUME NEW j \in S, NEW l \in S, rank[j] = rank[l], j # l
               PROVE  FALSE
    OBVIOUS
  <2>1. Cardinality(below(j)) = Cardinality(below(l))
    BY <1>6
  <2>2. Cardinality(below(j)) \in Nat /\ Cardinality(below(l)) \in Nat
    BY <1>3
  <2> QED BY <1>4, <1>8, <2>1, <2>2
<1> QED BY <1>1, <1>7, <1>9, DistinctRanksAreDense

-----------------------------------------------------------------------------
(* The invariant holds initially and every call preserves it.              *)

LEMMA InitHabitInv == HInit => HabitInv
<1> SUFFICES ASSUME HInit PROVE HabitInv
  OBVIOUS
<1>1. \A o \in Owner : Ids(o) = {}
  BY DEF HInit, Ids
<1>2. Cardinality({}) = 0
  BY FS_EmptySet
<1>3. DenseOrder
  BY <1>1, <1>2 DEF DenseOrder
<1>4. HabitTypes
  BY HabitsAssumption DEF HInit, HabitTypes
<1> QED
  BY <1>3, <1>4 DEF HInit, HabitInv, IdsAllocated, IdsAreFinal, CheckInsInside

\* Owners whose habits and ranks stay as they were.
LEMMA SameRanksStayDense ==
  ASSUME DenseOrder, NEW p \in Owner, Ids(p)' = Ids(p),
         \A j \in Ids(p) : habit'[j].order = habit[j].order
  PROVE  {habit'[j].order : j \in Ids(p)'} = 0 .. (Cardinality(Ids(p)') - 1)
<1>1. {habit'[j].order : j \in Ids(p)'} = {habit[j].order : j \in Ids(p)}
  OBVIOUS
<1>2. {habit[j].order : j \in Ids(p)} = 0 .. (Cardinality(Ids(p)) - 1)
  BY DEF DenseOrder
<1> QED BY <1>1, <1>2

LEMMA CreateHabitInv ==
  ASSUME HabitInv, NEW o \in Owner, NEW name, NEW start \in Day, NEW local,
         Create(o, name, start, local)
  PROVE  HabitInv'
<1> DEFINE i == lastId + 1
           n == Cardinality(Ids(o))
           r == [owner |-> o, name |-> name, start |-> start, order |-> n]
<1>1. /\ lastId' = i /\ i <= MaxId /\ habit' = [habit EXCEPT ![i] = r]
      /\ name \in Name /\ UNCHANGED <<checkin, today, retired>>
  BY NextIdIs, NextOrderIs DEF Create, ValidDefinition
<1>2. lastId \in Nat /\ i \in HabitId /\ i \in 0 .. MaxId /\ habit[i] = NoHabit
  BY <1>1, HabitsAssumption DEF HabitInv, HabitTypes, IdsAllocated, HabitId
<1>3. n \in Nat
  BY IdsFinite
<1>4. r \in Row /\ r # NoHabit
  BY <1>1, <1>3, NoHabitAssumption DEF Row
<1>5. /\ habit' \in [HabitId -> Row \cup {NoHabit}] /\ habit'[i] = r
      /\ \A j \in HabitId \ {i} : habit'[j] = habit[j]
  BY <1>1, <1>2, <1>4 DEF HabitInv, HabitTypes
<1>6. r.owner = o /\ r.order = n
  OBVIOUS
<1> HIDE DEF i, n, r
<1>7. HabitTypes'
  BY <1>1, <1>2, <1>5 DEF HabitInv, HabitTypes
<1>8. IdsAllocated' /\ IdsAreFinal'
  BY <1>1, <1>2, <1>5 DEF HabitInv, HabitTypes, IdsAllocated, IdsAreFinal, HabitId, i
<1>9. CheckInsInside'
  BY <1>1, <1>2, <1>5 DEF HabitInv, CheckInsInside
<1>10. DenseOrder'
  <2> SUFFICES ASSUME NEW p \in Owner
               PROVE  {habit'[j].order : j \in Ids(p)'} = 0 .. (Cardinality(Ids(p)') - 1)
    BY DEF DenseOrder
  <2>1. CASE p # o
    <3>1. Ids(p)' = Ids(p) /\ \A j \in Ids(p) : habit'[j] = habit[j]
      BY <1>2, <1>4, <1>5, <1>6, <2>1 DEF Ids, HabitId
    <3> QED BY <3>1, SameRanksStayDense DEF HabitInv
  <2>2. CASE p = o
    <3>1. Ids(o)' = Ids(o) \cup {i} /\ i \notin Ids(o)
      BY <1>2, <1>4, <1>5, <1>6 DEF Ids, HabitId
    <3>2. Cardinality(Ids(o)') = n + 1
      BY <3>1, IdsFinite, FS_AddElement DEF n
    <3>3. {habit'[j].order : j \in Ids(o)'} = {habit[j].order : j \in Ids(o)} \cup {n}
      BY <1>5, <1>6, <3>1 DEF Ids
    <3>4. {habit[j].order : j \in Ids(o)} = 0 .. (n - 1)
      BY DEF HabitInv, DenseOrder, n
    <3>5. (0 .. (n - 1)) \cup {n} = 0 .. n
      BY <1>3
    <3>6. {habit'[j].order : j \in Ids(o)'} = 0 .. n
      BY <3>3, <3>4, <3>5
    <3>7. Cardinality(Ids(o)') - 1 = n
      BY <1>3, <3>2
    <3> QED BY <2>2, <3>6, <3>7
  <2> QED BY <2>1, <2>2
<1> QED BY <1>7, <1>8, <1>9, <1>10 DEF HabitInv

\* A call that leaves rows and owners in place leaves everybody's habits in place.
LEMMA SameRowsSameIds ==
  ASSUME \A j \in HabitId : /\ habit'[j] = NoHabit <=> habit[j] = NoHabit
                            /\ habit[j] # NoHabit => habit'[j].owner = habit[j].owner
  PROVE  \A p : Ids(p)' = Ids(p)
BY DEF Ids, HabitId

LEMMA EditHabitInv ==
  ASSUME HabitInv, NEW o \in Owner, NEW i \in HabitId, NEW name, NEW start \in Day, NEW local,
         Edit(o, i, name, start, local)
  PROVE  HabitInv'
<1> DEFINE r == [habit[i] EXCEPT !.name = name, !.start = start]
<1>1. /\ name \in Name /\ i \in Ids(o) /\ \A d \in checkin[i] : start <= d
      /\ habit' = [habit EXCEPT ![i] = r]
      /\ UNCHANGED <<checkin, lastId, today, retired>>
  BY DEF Edit, ValidDefinition, KeepsCheckIns
<1>2. habit[i] \in Row /\ habit[i] # NoHabit
  BY <1>1 DEF HabitInv, HabitTypes, Ids
<1>3. /\ r \in Row /\ r # NoHabit
      /\ r.owner = habit[i].owner /\ r.order = habit[i].order /\ r.start = start
  BY <1>1, <1>2, NoHabitAssumption DEF Row
<1> HIDE DEF r
<1>4. /\ habit' \in [HabitId -> Row \cup {NoHabit}] /\ habit'[i] = r
      /\ \A j \in HabitId \ {i} : habit'[j] = habit[j]
  BY <1>1, <1>3 DEF HabitInv, HabitTypes
<1>5. \A p : Ids(p)' = Ids(p)
  BY <1>2, <1>3, <1>4, SameRowsSameIds
<1>6. DenseOrder'
  <2>1. \A p : \A j \in Ids(p) : habit'[j].order = habit[j].order
    BY <1>3, <1>4 DEF Ids
  <2> QED BY <1>5, <2>1, SameRanksStayDense DEF HabitInv, DenseOrder
<1>7. CheckInsInside'
  <2> SUFFICES ASSUME NEW j \in HabitId, checkin[j] # {}
               PROVE  /\ habit'[j] # NoHabit
                      /\ checkin[j] \subseteq habit'[j].start .. (today + Spread)
    BY <1>1 DEF CheckInsInside, HabitId
  <2>1. /\ habit[j] # NoHabit /\ checkin[j] \subseteq habit[j].start .. (today + Spread)
    BY DEF HabitInv, CheckInsInside
  <2>2. CASE j = i
    <3>1. start \in Int /\ today + Spread \in Int /\ checkin[i] \subseteq Int
      BY HabitsAssumption DEF HabitInv, HabitTypes, Day
    <3>2. \A d \in checkin[i] : start <= d /\ d <= today + Spread
      BY <1>1, <1>2, <2>1, <2>2, HabitsAssumption DEF Row, Day
    <3> QED BY <1>3, <1>4, <2>2, <3>1, <3>2
  <2>3. CASE j # i
    BY <1>4, <2>1, <2>3
  <2> QED BY <2>2, <2>3
<1>8. HabitTypes' /\ IdsAllocated' /\ IdsAreFinal'
  BY <1>1, <1>2, <1>3, <1>4 DEF HabitInv, HabitTypes, IdsAllocated, IdsAreFinal, HabitId
<1> QED BY <1>6, <1>7, <1>8 DEF HabitInv

LEMMA SetCheckInHabitInv ==
  ASSUME HabitInv, NEW o \in Owner, NEW i \in HabitId, NEW date \in Day,
         NEW checked \in BOOLEAN, NEW local \in LocalToday,
         SetCheckIn(o, i, date, checked, local)
  PROVE  HabitInv'
<1> DEFINE dates == IF checked THEN checkin[i] \cup {date} ELSE checkin[i] \ {date}
<1>1. /\ i \in Ids(o) /\ habit[i].start <= date /\ date <= local
      /\ checkin' = [checkin EXCEPT ![i] = dates]
      /\ UNCHANGED <<habit, lastId, today, retired>>
  BY DEF SetCheckIn
<1>2. date \in Int /\ dates \subseteq checkin[i] \cup {date}
  BY HabitsAssumption DEF Day
<1> HIDE DEF dates
<1>3. HabitTypes'
  BY <1>1, <1>2 DEF HabitInv, HabitTypes, HabitId
<1>4. IdsAllocated' /\ IdsAreFinal' /\ DenseOrder'
  BY <1>1 DEF HabitInv, IdsAllocated, IdsAreFinal, DenseOrder, Ids, HabitId
<1>5. CheckInsInside'
  <2> SUFFICES ASSUME NEW j \in HabitId, checkin'[j] # {}
               PROVE  /\ habit[j] # NoHabit
                      /\ checkin'[j] \subseteq habit[j].start .. (today + Spread)
    BY <1>1 DEF CheckInsInside, HabitId
  <2>1. CASE j = i
    <3>1. habit[i] # NoHabit /\ habit[i] \in Row /\ checkin'[i] = dates
      BY <1>1 DEF Ids, HabitInv, HabitTypes
    <3>2. local \in Int /\ local <= today + Spread /\ today \in Nat /\ habit[i].start \in Int
      BY <3>1, HabitsAssumption DEF HabitInv, HabitTypes, LocalToday, Row, Day
    <3>3. checkin[i] \subseteq habit[i].start .. (today + Spread)
      BY DEF HabitInv, CheckInsInside
    <3>4. date \in habit[i].start .. (today + Spread)
      BY <1>1, <1>2, <3>2, HabitsAssumption
    <3> QED BY <1>2, <2>1, <3>1, <3>3, <3>4
  <2>2. CASE j # i
    BY <1>1, <2>2 DEF HabitInv, HabitTypes, CheckInsInside
  <2> QED BY <2>1, <2>2
<1> QED BY <1>3, <1>4, <1>5 DEF HabitInv

\* An order SetOrder takes ranks every habit of the owner, by its place.
LEMMA OrderRanksAll ==
  ASSUME HabitInv, NEW o \in Owner, NEW order \in Proposal, SameHabits(o, order)
  PROVE  /\ DOMAIN order = 1 .. Cardinality(Ids(o))
         /\ \A i \in Ids(o) : \E k \in DOMAIN order : order[k].id = i
<1>1. PICK m \in 0 .. MaxId :
        /\ DOMAIN order = 1 .. m /\ Len(order) = m
    <2>1. PICK ids \in SeqOf(HabitId, MaxId), ranked \in BOOLEAN :
            order = [k \in DOMAIN ids |->
                       [id |-> ids[k], sortOrder |-> IF ranked THEN k - 1 ELSE 0]]
      BY DEF Proposal
    <2>2. PICK m \in 0 .. MaxId : ids \in [1 .. m -> HabitId]
      BY <2>1 DEF SeqOf
    <2>3. m \in Nat /\ DOMAIN order = 1 .. m
      BY <2>1, <2>2, HabitsAssumption
    <2>4. order \in Seq({order[k] : k \in 1 .. m})
      BY <2>1, <2>3
    <2>5. Len(order) = m
      BY <2>3, <2>4
    <2> QED BY <2>2, <2>3, <2>5
<1>2. m = Cardinality(Ids(o))
  BY <1>1 DEF SameHabits
<1> DEFINE D == DOMAIN order
           names == [k \in D |-> order[k].id]
<1>3. names \in Injection(D, Ids(o))
  BY DEF SameHabits, Injection, IsInjective
<1>4. IsFiniteSet(D) /\ Cardinality(D) = Cardinality(Ids(o))
  BY <1>1, <1>2, FS_Interval, HabitsAssumption
<1>5. names \in Surjection(D, Ids(o))
  BY <1>3, <1>4, IdsFinite, FS_Injection
<1>6. \A i \in Ids(o) : \E k \in D : names[k] = i
  BY <1>5 DEF Surjection
<1> QED BY <1>1, <1>2, <1>6

LEMMA SetOrderHabitInv ==
  ASSUME HabitInv, NEW o \in Owner, NEW order \in Proposal, SetOrder(o, order)
  PROVE  HabitInv'
<1>1. SameHabits(o, order) /\ UNCHANGED <<checkin, lastId, today, retired>>
  BY DEF SetOrder
<1>2. CASE UNCHANGED habit
  BY <1>1, <1>2 DEF HabitInv, HabitTypes, IdsAllocated, IdsAreFinal, CheckInsInside, DenseOrder,
                    Ids, HabitId
<1>3. CASE habit' = Ranked(order)
  <2> DEFINE at(i) == CHOOSE k \in DOMAIN order : order[k].id = i
             n == Cardinality(Ids(o))
  <2>1. \A k \in DOMAIN order : order[k].id \in Ids(o) /\ order[k].sortOrder = k - 1
    BY <1>1 DEF SameHabits
  <2>2. \A i \in Ids(o) : at(i) \in 1 .. n /\ order[at(i)].id = i /\ at(i) \in DOMAIN order
    BY <1>1, OrderRanksAll
  <2>3. n \in Nat
    BY IdsFinite
  <2>4. \A i \in HabitId \ Ids(o) : habit'[i] = habit[i]
    BY <1>3, <2>1 DEF Ranked
  <2>5. \A i \in Ids(o) : habit'[i] = [habit[i] EXCEPT !.order = at(i) - 1]
    BY <1>3, <2>1, <2>2 DEF Ranked, Ids
  <2> HIDE DEF at, n
  <2>6. ASSUME NEW i \in Ids(o)
        PROVE  /\ habit'[i] \in Row /\ habit'[i] # NoHabit
               /\ habit[i] \in Row /\ habit[i] # NoHabit
               /\ habit'[i].owner = habit[i].owner /\ habit'[i].start = habit[i].start
               /\ habit'[i].order = at(i) - 1
    <3>1. habit[i] \in Row /\ habit[i] # NoHabit
      BY DEF HabitInv, HabitTypes, Ids
    <3>2. at(i) - 1 \in Nat
      BY <2>2, <2>3
    <3> QED BY <2>5, <3>1, <3>2, NoHabitAssumption DEF Row
  <2>7. habit' \in [HabitId -> Row \cup {NoHabit}]
    <3>1. habit' = [i \in HabitId |-> habit'[i]]
      BY <1>3 DEF Ranked
    <3>2. \A i \in HabitId : habit'[i] \in Row \cup {NoHabit}
      BY <2>4, <2>6 DEF HabitInv, HabitTypes
    <3> QED BY <3>1, <3>2
  <2>8. \A p : Ids(p)' = Ids(p)
    <3>1. \A j \in HabitId : /\ habit'[j] = NoHabit <=> habit[j] = NoHabit
                             /\ habit[j] # NoHabit => habit'[j].owner = habit[j].owner
      BY <2>4, <2>6
    <3> QED BY <3>1, SameRowsSameIds
  <2>9. HabitTypes' /\ IdsAllocated' /\ IdsAreFinal'
    <3>1. \A j \in HabitId : habit'[j] = NoHabit <=> habit[j] = NoHabit
      BY <2>4, <2>6
    <3>2. retired \subseteq HabitId
      BY HabitsAssumption DEF HabitInv, HabitTypes, IdsAllocated, HabitId
    <3> QED BY <1>1, <2>7, <3>1, <3>2
            DEF HabitInv, HabitTypes, IdsAllocated, IdsAreFinal, HabitId
  <2>10. CheckInsInside'
    BY <1>1, <2>4, <2>6 DEF HabitInv, CheckInsInside, HabitId
  <2>11. DenseOrder'
    <3> SUFFICES ASSUME NEW p \in Owner
                 PROVE  {habit'[j].order : j \in Ids(p)'} = 0 .. (Cardinality(Ids(p)') - 1)
      BY DEF DenseOrder
    <3>1. CASE p # o
      <4>1. \A j \in Ids(p) : habit'[j].order = habit[j].order
        BY <2>4, <3>1 DEF Ids
      <4> QED BY <2>8, <4>1, SameRanksStayDense DEF HabitInv
    <3>2. CASE p = o
      <4> DEFINE rank == [j \in Ids(o) |-> habit'[j].order]
      <4>1. \A j \in Ids(o) : rank[j] = at(j) - 1
        BY <2>6
      <4>2. rank \in [Ids(o) -> 0 .. (n - 1)]
        BY <2>2, <2>3, <4>1
      <4>3. \A j, k \in Ids(o) : rank[j] = rank[k] => j = k
        BY <2>2, <2>3, <4>1
      <4> HIDE DEF rank
      <4>4. {rank[j] : j \in Ids(o)} = 0 .. (n - 1)
        BY <4>2, <4>3, IdsFinite, DistinctRanksAreDense DEF n
      <4>5. {rank[j] : j \in Ids(o)} = {habit'[j].order : j \in Ids(o)}
        BY DEF rank
      <4> QED BY <2>8, <3>2, <4>4, <4>5 DEF n
    <3> QED BY <3>1, <3>2
  <2> QED BY <2>9, <2>10, <2>11 DEF HabitInv
<1> QED BY <1>2, <1>3 DEF SetOrder

LEMMA DeleteHabitInv ==
  ASSUME HabitInv, NEW o \in Owner, NEW i \in HabitId, Delete(o, i)
  PROVE  HabitInv'
<1> DEFINE rest == Ids(o) \ {i}
           rank == [j \in rest |-> Cardinality({k \in rest : Before(k, j)})]
<1>1. /\ rest \subseteq Ids(o) /\ Ids(o) \subseteq HabitId
      /\ \A j \in rest : rank[j] = Cardinality({k \in rest : Before(k, j)})
      /\ habit' = [j \in HabitId |->
           IF j \in rest THEN [habit[j] EXCEPT !.order = rank[j]]
           ELSE IF j \in Ids(o) THEN NoHabit ELSE habit[j]]
      /\ checkin' = [j \in HabitId |-> IF j \in Ids(o) \ rest THEN {} ELSE checkin[j]]
      /\ retired' = retired \cup (Ids(o) \ rest)
      /\ UNCHANGED <<lastId, today>>
  BY DEF Delete, Ids
<1>2. {rank[j] : j \in rest} = 0 .. (Cardinality(rest) - 1)
  BY CountingRanks DEF HabitInv
<1>3. Cardinality(rest) \in Nat
  BY <1>1, IdsFinite, FS_Subset, FS_CardinalityType
<1> HIDE DEF rest, rank
<1>4. ASSUME NEW j \in rest
      PROVE  /\ habit'[j] \in Row /\ habit'[j] # NoHabit
             /\ habit[j] \in Row /\ habit[j] # NoHabit
             /\ habit'[j].owner = o /\ habit'[j].start = habit[j].start
             /\ habit'[j].order = rank[j]
  <2>1. j \in HabitId /\ habit[j] \in Row /\ habit[j] # NoHabit /\ habit[j].owner = o
    BY <1>1 DEF HabitInv, HabitTypes, Ids
  <2>2. rank[j] \in Nat
    BY <1>2, <1>3
  <2>3. habit'[j] = [habit[j] EXCEPT !.order = rank[j]]
    BY <1>1, <2>1
  <2> QED BY <2>1, <2>2, <2>3, NoHabitAssumption DEF Row
<1>5. /\ \A j \in Ids(o) \ rest : habit'[j] = NoHabit /\ checkin'[j] = {}
      /\ \A j \in HabitId \ Ids(o) : habit'[j] = habit[j]
      /\ \A j \in HabitId \ (Ids(o) \ rest) : checkin'[j] = checkin[j]
  BY <1>1
<1>6. HabitTypes'
  <2>1. \A j \in HabitId : habit'[j] \in Row \cup {NoHabit}
    BY <1>4, <1>5 DEF HabitInv, HabitTypes
  <2>2. habit' = [j \in HabitId |-> habit'[j]]
    BY <1>1
  <2>3. checkin' \in [HabitId -> SUBSET Int]
    BY <1>1 DEF HabitInv, HabitTypes
  <2> QED BY <1>1, <2>1, <2>2, <2>3 DEF HabitInv, HabitTypes, HabitId
<1>7. IdsAllocated' /\ IdsAreFinal'
  <2>1. \A j \in Ids(o) : habit[j] # NoHabit /\ j \in HabitId /\ j <= lastId
    BY DEF HabitInv, IdsAllocated, Ids
  <2>2. \A j \in HabitId : habit'[j] # NoHabit => habit[j] # NoHabit
    BY <1>4, <1>5
  <2>3. retired \subseteq HabitId
    BY HabitsAssumption DEF HabitInv, HabitTypes, IdsAllocated, HabitId
  <2>4. retired' \subseteq 1 .. lastId
    BY <1>1, <2>1 DEF HabitInv, HabitTypes, IdsAllocated, HabitId
  <2>5. \A j \in retired' : habit'[j] = NoHabit
    BY <1>1, <1>5, <2>2, <2>3 DEF HabitInv, IdsAreFinal
  <2> QED BY <1>1, <2>2, <2>4, <2>5 DEF HabitInv, IdsAllocated, IdsAreFinal, HabitId
<1>8. CheckInsInside'
  BY <1>1, <1>4, <1>5 DEF HabitInv, CheckInsInside, HabitId
<1>9. DenseOrder'
  <2> SUFFICES ASSUME NEW p \in Owner
               PROVE  {habit'[j].order : j \in Ids(p)'} = 0 .. (Cardinality(Ids(p)') - 1)
    BY DEF DenseOrder
  <2>1. CASE p # o
    <3>1. Ids(p)' = Ids(p) /\ \A j \in Ids(p) : habit'[j] = habit[j]
      BY <1>4, <1>5, <2>1 DEF Ids, HabitId
    <3> QED BY <3>1, SameRanksStayDense DEF HabitInv
  <2>2. CASE p = o
    <3>1. Ids(o)' = rest
      BY <1>1, <1>4, <1>5 DEF Ids, HabitId
    <3>2. {habit'[j].order : j \in rest} = {rank[j] : j \in rest}
      BY <1>4
    <3> QED BY <1>2, <2>2, <3>1, <3>2
  <2> QED BY <2>1, <2>2
<1> QED BY <1>6, <1>7, <1>8, <1>9 DEF HabitInv

LEMMA NextHabitInv == HabitInv /\ [HNext]_habits => HabitInv'
<1> SUFFICES ASSUME HabitInv, [HNext]_habits PROVE HabitInv'
  OBVIOUS
<1>1. ASSUME NEW o \in Owner, Mutation(o) PROVE HabitInv'
  BY <1>1, CreateHabitInv, EditHabitInv, SetCheckInHabitInv, DeleteHabitInv, SetOrderHabitInv
     DEF Mutation
<1>2. CASE UNCHANGED <<habit, checkin, lastId, today, retired>>
  BY <1>2 DEF HabitInv, HabitTypes, IdsAllocated, IdsAreFinal, CheckInsInside, DenseOrder, Ids,
              HabitId
<1>3. CASE Dawn
  <2>1. today' = today + 1 /\ UNCHANGED <<habit, checkin, lastId, retired>>
    BY <1>3 DEF Dawn
  <2>2. CheckInsInside'
    <3> SUFFICES ASSUME NEW i \in HabitId, checkin[i] # {}
                 PROVE  /\ habit[i] # NoHabit
                        /\ checkin[i] \subseteq habit[i].start .. (today' + Spread)
      BY <2>1 DEF CheckInsInside, HabitId
    <3>1. habit[i] # NoHabit /\ checkin[i] \subseteq habit[i].start .. (today + Spread)
      BY DEF HabitInv, CheckInsInside
    <3>2. habit[i].start \in Int /\ today \in Nat /\ Spread \in Nat
      BY <3>1, HabitsAssumption DEF HabitInv, HabitTypes, Row, Day
    <3> QED BY <2>1, <3>1, <3>2
  <2>3. DenseOrder'
    <3>1. \A p : Ids(p)' = Ids(p)
      BY <2>1 DEF Ids, HabitId
    <3> QED BY <2>1, <3>1 DEF HabitInv, DenseOrder
  <2> QED BY <2>1, <2>2, <2>3 DEF HabitInv, HabitTypes, IdsAllocated, IdsAreFinal, HabitId
<1> QED BY <1>1, <1>2, <1>3 DEF HNext, habits, Take

LEMMA SpecHabitInv == HSpec => []HabitInv
BY InitHabitInv, NextHabitInv, PTL DEF HSpec

-----------------------------------------------------------------------------
(* What the invariant means for the habits.                                *)

\* After any history of creates, deletes and reorders an owner's n habits have the
\* ranks 0 .. n-1 (Service.Create, SetOrder, Delete).
THEOREM RanksStayDense == HSpec => []DenseOrder
<1>1. HabitInv => DenseOrder
  BY DEF HabitInv
<1> QED BY <1>1, SpecHabitInv, PTL

\* No edit of a start date, timezone or midnight leaves a check-in before its habit's
\* start or in the future, and none outlives its habit (Service.Edit, SetCheckIn).
THEOREM CheckInsStayInside == HSpec => []CheckInsInside
<1>1. HabitInv => CheckInsInside
  BY DEF HabitInv
<1> QED BY <1>1, SpecHabitInv, PTL

\* The id of a deleted habit is never handed out again (habit_id_allocator).
THEOREM IdsStayFinal == HSpec => []IdsAreFinal
<1>1. HabitInv => IdsAreFinal
  BY DEF HabitInv
<1> QED BY <1>1, SpecHabitInv, PTL

-----------------------------------------------------------------------------
(* What a call may touch.                                                  *)

\* Rows that are somebody else's before or after the call stay as they were, nobody
\* else is told, and the owner is told of every change.
Own(o) ==
  /\ \A i \in HabitId :
       (\E r \in {habit[i], habit'[i]} : r # NoHabit /\ r.owner # o)
         => habit'[i] = habit[i] /\ checkin'[i] = checkin[i]
  /\ invalidated' \subseteq invalidated \cup {o}
  /\ UNCHANGED <<habit, checkin>> \/ o \in invalidated'

LEMMA MutationIsOwn ==
  ASSUME HabitInv, NEW o \in Owner, Mutation(o)
  PROVE  Own(o)
<1>1. ASSUME NEW name \in Name \cup {Unfit}, NEW start \in Day, NEW local \in LocalToday,
             Create(o, name, start, local)
      PROVE  Own(o)
  <2> DEFINE i == lastId + 1
  <2>1. PICK r \in [owner : {o}, name : {name}, start : {start}, order : {NextOrder(o)}] :
          habit' = [habit EXCEPT ![i] = r]
    BY <1>1, NextIdIs DEF Create
  <2>2. i \in HabitId /\ habit[i] = NoHabit
    BY <1>1, NextIdIs, HabitsAssumption
       DEF Create, HabitInv, HabitTypes, IdsAllocated, HabitId
  <2>3. habit'[i].owner = o /\ \A j \in HabitId \ {i} : habit'[j] = habit[j]
    BY <2>1, <2>2 DEF HabitInv, HabitTypes
  <2> HIDE DEF i
  <2> QED BY <1>1, <2>2, <2>3 DEF Own, Create, Publish
<1>2. ASSUME NEW i \in HabitId, NEW name \in Name \cup {Unfit}, NEW start \in Day,
             NEW local \in LocalToday, Edit(o, i, name, start, local)
      PROVE  Own(o)
  <2>1. /\ i \in Ids(o) /\ habit[i] \in Row
        /\ habit' = [habit EXCEPT ![i].name = name, ![i].start = start]
    BY <1>2 DEF Edit, HabitInv, HabitTypes, Ids
  <2>2. habit[i].owner = o /\ habit'[i].owner = o /\ \A j \in HabitId \ {i} : habit'[j] = habit[j]
    BY <2>1 DEF Ids, Row, HabitInv, HabitTypes
  <2> QED BY <1>2, <2>2 DEF Own, Edit, Publish
<1>3. ASSUME NEW i \in HabitId, NEW date \in Day, NEW checked \in BOOLEAN,
             NEW local \in LocalToday, SetCheckIn(o, i, date, checked, local)
      PROVE  Own(o)
  BY <1>3 DEF Own, SetCheckIn, Publish, Ids, HabitInv, HabitTypes
<1>4. ASSUME NEW i \in HabitId, Delete(o, i)
      PROVE  Own(o)
  <2>1. \A j \in HabitId \ Ids(o) : habit'[j] = habit[j] /\ checkin'[j] = checkin[j]
    BY <1>4 DEF Delete
  <2>2. \A j \in Ids(o) : j \in HabitId /\ habit[j].owner = o
    BY DEF Ids
  <2>3. ASSUME NEW j \in Ids(o), habit'[j] # NoHabit
        PROVE  habit'[j].owner = o
    <3> DEFINE n == Cardinality({k \in Ids(o) \ {i} : Before(k, j)})
    <3>1. habit'[j] = [habit[j] EXCEPT !.order = n]
      BY <1>4, <2>2, <2>3 DEF Delete
    <3>2. habit[j] \in Row
      BY DEF HabitInv, HabitTypes, Ids
    <3> HIDE DEF n
    <3> QED BY <2>2, <3>1, <3>2 DEF Row
  <2> QED BY <1>4, <2>1, <2>2, <2>3 DEF Own, Delete, Publish
<1>5. ASSUME NEW order \in Proposal, SetOrder(o, order)
      PROVE  Own(o)
  <2>1. CASE UNCHANGED <<habit, invalidated>>
    BY <1>5, <2>1 DEF SetOrder, Own
  <2>2. CASE habit' = Ranked(order) /\ Publish(o)
    <3>1. \A k \in DOMAIN order : order[k].id \in Ids(o)
      BY <1>5 DEF SetOrder, SameHabits
    <3>2. \A j \in HabitId \ Ids(o) : habit'[j] = habit[j]
      BY <2>2, <3>1 DEF Ranked
    <3>3. ASSUME NEW j \in Ids(o)
          PROVE  habit[j].owner = o /\ habit'[j].owner = o
      <4>1. j \in HabitId /\ habit[j] \in Row /\ habit[j].owner = o
        BY DEF HabitInv, HabitTypes, Ids
      <4>2. PICK n : habit'[j] = [habit[j] EXCEPT !.order = n] \/ habit'[j] = habit[j]
        BY <2>2, <4>1 DEF Ranked
      <4> QED BY <4>1, <4>2 DEF Row
    <3> QED BY <1>5, <2>2, <3>2, <3>3 DEF SetOrder, Own, Publish
  <2> QED BY <1>5, <2>1, <2>2 DEF SetOrder
<1> QED BY <1>1, <1>2, <1>3, <1>4, <1>5 DEF Mutation

\* Whatever ids a call names, the habits, check-ins and announcements of other owners
\* are left alone (every query of habit.Service is owner-scoped).
THEOREM OwnersStayApart == HSpec => OwnersApart
<1>1. ASSUME NEW o \in Owner, NEW p \in Owner \ {o}, Own(o)
      PROVE  /\ \A i \in Ids(p) \cup Ids(p)' : habit'[i] = habit[i] /\ checkin'[i] = checkin[i]
             /\ p \notin invalidated' \ invalidated
  BY <1>1 DEF Own, Ids, HabitId
<1>2. HabitInv =>
        [\A o \in Owner :
           (\E p \in Owner \ {o} :
              \/ \E i \in Ids(p) \cup Ids(p)' : habit'[i] # habit[i] \/ checkin'[i] # checkin[i]
              \/ p \in invalidated' \ invalidated)
           => ~Mutation(o)]_habits
  BY <1>1, MutationIsOwn
<1> QED BY <1>2, SpecHabitInv, PTL DEF OwnersApart

\* Every change of an owner's habits or check-ins is announced to the owner's streams
\* (PublishHabit after each commit).
THEOREM EveryChangeInvalidates == HSpec => ChangesInvalidate
<1>1. ASSUME NEW o \in Owner, NEW p \in Owner, Own(p),
             NEW i \in Ids(o) \cup Ids(o)', habit'[i] # habit[i] \/ checkin'[i] # checkin[i]
      PROVE  o \in invalidated'
  BY <1>1 DEF Own, Ids, HabitId
<1>2. ASSUME HabitInv, [HNext]_habits
      PROVE  [\A o \in Owner :
                (\E i \in Ids(o) \cup Ids(o)' : habit'[i] # habit[i] \/ checkin'[i] # checkin[i])
                  => o \in invalidated']_habits
  BY <1>1, <1>2, MutationIsOwn DEF HNext, Take, Dawn, habits
<1> QED BY <1>2, SpecHabitInv, PTL DEF HSpec, ChangesInvalidate
=============================================================================
