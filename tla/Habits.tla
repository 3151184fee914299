------------------------------- MODULE Habits -------------------------------
(***************************************************************************)
(* The habit service, internal/habit: an owner's habits, their order and   *)
(* their check-ins.  Every mutator is one immediate transaction and ends   *)
(* in an invalidation event for the owner.                                 *)
(*                                                                         *)
(* Days are numbers.  today is the earliest civil date in any timezone; a  *)
(* request names its own timezone, whose date is up to Spread days later.  *)
(* A name stands for all spellings with one fold key; Unfit stands for a   *)
(* name that is blank or too long.                                         *)
(***************************************************************************)
EXTENDS Integers, Sequences, FiniteSets, FiniteSetsExt, SequencesExt

CONSTANTS
  Owner,      \* user ids
  Name,       \* fold keys of acceptable names
  Unfit,      \* an unacceptable name
  NoHabit,    \* no row
  MaxId,      \* bound: the highest habit id handed out
  LastDay,    \* bound: the last day that dawns
  MaxCheckIns, \* bound: check-ins of one habit
  Spread      \* how far a timezone's date is ahead of the earliest one

ASSUME HabitsAssumption ==
  /\ MaxId \in Nat \ {0} /\ {LastDay, MaxCheckIns, Spread} \subseteq Nat
  /\ Unfit \notin Name

VARIABLES
  habit,        \* table habit: id -> row
  checkin,      \* table habit_checkin: id -> checked dates
  lastId,       \* habit_id_allocator.last_id
  today,        \* the earliest civil date anywhere
  invalidated,  \* owners with a habit event their streams have not taken
  retired       \* ids of deleted habits

habits == <<habit, checkin, lastId, today, invalidated, retired>>

HabitId == 1 .. MaxId
Day     == 0 .. (LastDay + Spread)
Row     == [owner : Owner, name : Name, start : Day, order : Nat]

ASSUME NoHabitAssumption == NoHabit \notin Row

Ids(o) == {i \in HabitId : habit[i] # NoHabit /\ habit[i].owner = o}

HInit ==
  /\ habit = [i \in HabitId |-> NoHabit]
  /\ checkin = [i \in HabitId |-> {}]
  /\ lastId = 0 /\ today = 0 /\ invalidated = {} /\ retired = {}

\* The dates it can be for a request.
LocalToday == today .. (today + Spread)

\* ORDER BY sort_order, id.
Before(i, j) ==
  habit[i].order < habit[j].order \/ (habit[i].order = habit[j].order /\ i < j)

Listing(o) == SetToSortSeq(Ids(o), Before)

Publish(o) == invalidated' = invalidated \cup {o}

\* validateDefinition
ValidDefinition(name, start, local) == name \in Name /\ start <= local

\* UNIQUE (owner_id, name_key), and Edit's own query (id != ?).
NameTaken(o, name, self) == \E i \in Ids(o) \ {self} : habit[i].name = name

\* Slip: ids restart from the largest one in use.
NextIdFromTable(last) == Max({0} \cup {i \in HabitId : habit[i] # NoHabit}) + 1

\* The allocator: above its high-water mark and above every row.
NextId(last) == Max({last} \cup {i \in HabitId : habit[i] # NoHabit}) + 1

\* COALESCE(MAX(sort_order), -1) + 1
NextOrder(o) == Max({-1} \cup {habit[i].order : i \in Ids(o)}) + 1

\* A refusal rolls the allocator back with the rest.
Create(o, name, start, local) ==
  /\ ValidDefinition(name, start, local)
  /\ ~NameTaken(o, name, 0)
  /\ NextId(lastId) <= MaxId          \* bound
  /\ lastId' = NextId(lastId)
  /\ habit' = [habit EXCEPT ![NextId(lastId)] =
       [owner |-> o, name |-> name, start |-> start, order |-> NextOrder(o)]]
  /\ Publish(o)
  /\ UNCHANGED <<checkin, today, retired>>

\* Slip: the earliest check-in does not hold the start date back.
KeepsCheckInsAnyStart(i, start) == TRUE

\* Edit: start_date not after MIN(habit_checkin.date).
KeepsCheckIns(i, start) == \A d \in checkin[i] : start <= d

\* Slip: only a new name is announced.
EditQuietly(o, i, name, start, local) ==
  /\ ValidDefinition(name, start, local)
  /\ i \in Ids(o)
  /\ KeepsCheckIns(i, start)
  /\ ~NameTaken(o, name, i)
  /\ habit' = [habit EXCEPT ![i].name = name, ![i].start = start]
  /\ IF habit[i].name = name THEN UNCHANGED invalidated ELSE Publish(o)
  /\ UNCHANGED <<checkin, lastId, today, retired>>

Edit(o, i, name, start, local) ==
  /\ ValidDefinition(name, start, local)
  /\ i \in Ids(o)
  /\ KeepsCheckIns(i, start)
  /\ ~NameTaken(o, name, i)
  /\ habit' = [habit EXCEPT ![i].name = name, ![i].start = start]
  /\ Publish(o)
  /\ UNCHANGED <<checkin, lastId, today, retired>>

\* Slip: the habit is looked up by its id alone.
SetCheckInById(o, i, date, checked, local) ==
  /\ habit[i] # NoHabit /\ habit[i].start <= date /\ date <= local
  /\ checkin' = [checkin EXCEPT ![i] = IF checked THEN @ \cup {date} ELSE @ \ {date}]
  /\ Publish(o)
  /\ UNCHANGED <<habit, lastId, today, retired>>

SetCheckIn(o, i, date, checked, local) ==
  /\ i \in Ids(o)
  /\ habit[i].start <= date /\ date <= local
  /\ checked => Cardinality(checkin[i] \cup {date}) <= MaxCheckIns
  /\ checkin' = [checkin EXCEPT ![i] = IF checked THEN @ \cup {date} ELSE @ \ {date}]
  /\ Publish(o)
  /\ UNCHANGED <<habit, lastId, today, retired>>

\* What the reorder form can post: ids in any number and order, with their row
\* indexes as ranks, or with ranks that are not those (bound: all 0).
Proposal ==
  {[k \in DOMAIN ids |-> [id |-> ids[k], sortOrder |-> IF ranked THEN k - 1 ELSE 0]] :
     ids \in SeqOf(HabitId, MaxId), ranked \in BOOLEAN}

\* Slip: an order that names the right number of owned habits is taken.
SameHabitsByCount(o, order) ==
  /\ Len(order) = Cardinality(Ids(o))
  /\ \A k \in DOMAIN order : order[k].id \in Ids(o)

\* ErrNotSameHabits, ErrForeignHabit: each owned habit once, ranked by its place.
SameHabits(o, order) ==
  /\ Len(order) = Cardinality(Ids(o))
  /\ \A k, l \in DOMAIN order : order[k].id = order[l].id => k = l
  /\ \A k \in DOMAIN order : order[k].id \in Ids(o) /\ order[k].sortOrder = k - 1

Unchanged(o, order) ==
  \A k \in DOMAIN order :
    order[k].id = Listing(o)[k] /\ order[k].sortOrder = habit[order[k].id].order

\* The UPDATE ... FROM: every named habit takes its proposed rank.
Ranked(order) ==
  [i \in HabitId |->
     IF \E k \in DOMAIN order : order[k].id = i
     THEN [habit[i] EXCEPT !.order =
            order[CHOOSE k \in DOMAIN order : order[k].id = i].sortOrder]
     ELSE habit[i]]

\* An unchanged order returns before the update and its event.
SetOrder(o, order) ==
  /\ SameHabits(o, order)
  /\ IF Unchanged(o, order)
     THEN UNCHANGED <<habit, invalidated>>
     ELSE habit' = Ranked(order) /\ Publish(o)
  /\ UNCHANGED <<checkin, lastId, today, retired>>

\* Slip: the habits below the deleted one keep their ranks.
DeleteUnranked(o, i) ==
  /\ habit' = IF i \in Ids(o) THEN [habit EXCEPT ![i] = NoHabit] ELSE habit
  /\ checkin' = IF i \in Ids(o) THEN [checkin EXCEPT ![i] = {}] ELSE checkin
  /\ retired' = retired \cup (Ids(o) \cap {i})
  /\ Publish(o)
  /\ UNCHANGED <<lastId, today>>

\* The check-ins go with their habit (ON DELETE CASCADE), the rest is ranked anew;
\* an id that is not o's deletes nothing and still invalidates o's views.
Delete(o, i) ==
  LET rest == Ids(o) \ {i}
  IN /\ habit' = [j \in HabitId |->
          IF j \in rest
          THEN [habit[j] EXCEPT !.order = Cardinality({k \in rest : Before(k, j)})]
          ELSE IF j \in Ids(o) THEN NoHabit ELSE habit[j]]
     /\ checkin' = [j \in HabitId |-> IF j \in Ids(o) \ rest THEN {} ELSE checkin[j]]
     /\ retired' = retired \cup (Ids(o) \ rest)
     /\ Publish(o)
     /\ UNCHANGED <<lastId, today>>

Mutation(o) ==
  \/ \E name \in Name \cup {Unfit}, start \in Day, local \in LocalToday :
       \/ Create(o, name, start, local)
       \/ \E i \in HabitId : Edit(o, i, name, start, local)
  \/ \E i \in HabitId, date \in Day, checked \in BOOLEAN, local \in LocalToday :
       SetCheckIn(o, i, date, checked, local)
  \/ \E i \in HabitId : Delete(o, i)
  \/ \E order \in Proposal : SetOrder(o, order)

\* An event stream takes the event and refreshes its week.
Take(o) ==
  /\ o \in invalidated
  /\ invalidated' = invalidated \ {o}
  /\ UNCHANGED <<habit, checkin, lastId, today, retired>>

Dawn ==
  /\ today < LastDay                  \* bound
  /\ today' = today + 1
  /\ UNCHANGED <<habit, checkin, lastId, invalidated, retired>>

HNext == (\E o \in Owner : Mutation(o) \/ Take(o)) \/ Dawn

HSpec == HInit /\ [][HNext]_habits
-----------------------------------------------------------------------------
(* Properties.                                                             *)

\* The ranks of an owner's habits are 0, 1, 2, ... without a gap or a tie, whatever
\* was created, deleted and reordered (the reorder form sends row indexes as ranks).
DenseOrder ==
  \A o \in Owner : {habit[i].order : i \in Ids(o)} = 0 .. (Cardinality(Ids(o)) - 1)

\* Check-ins lie between their habit's start and the present, through edits of the
\* start, other timezones and deletes.
CheckInsInside ==
  \A i \in HabitId :
    checkin[i] # {} =>
      /\ habit[i] # NoHabit
      /\ checkin[i] \subseteq habit[i].start .. (today + Spread)

\* The id of a deleted habit never comes back, so a check-in or an edit that was on
\* its way cannot land on another habit (habit_id_allocator).
IdsAreFinal == \A i \in retired : habit[i] = NoHabit

\* A call made for one owner changes nothing of another's habits.
OwnersApart ==
  [][\A o \in Owner :
       (\E p \in Owner \ {o} :
          \/ \E i \in Ids(p) \cup Ids(p)' : habit'[i] # habit[i] \/ checkin'[i] # checkin[i]
          \/ p \in invalidated' \ invalidated)
       => ~Mutation(o)]_habits

\* Whatever a stream shows of an owner, a change of it is announced.
ChangesInvalidate ==
  [][\A o \in Owner :
       (\E i \in Ids(o) \cup Ids(o)' : habit'[i] # habit[i] \/ checkin'[i] # checkin[i])
         => o \in invalidated']_habits
=============================================================================
