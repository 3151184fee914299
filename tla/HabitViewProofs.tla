--------------------------- MODULE HabitViewProofs ---------------------------
(***************************************************************************)
(* Theorems about HabitView: for any number of habits, weeks, presses,     *)
(* drags and faults.                                                       *)
(*                                                                         *)
(* ViewInv is inductive.  PostsAwaited ties a busy button to its request   *)
(* by a token never given twice; IntentHeld ties the first intent to the   *)
(* attempt until the receipt; ReceiptsSeen says that an answer which can   *)
(* still land was read after the commits it will settle; GridFollows says  *)
(* that while no refresh is due such an answer is what the service has,    *)
(* and that the grid is too unless one is on its way.                      *)
(***************************************************************************)
EXTENDS HabitView, FiniteSetTheorems, TLAPS

Selection  == [week : Int, following : BOOLEAN, current : Int]
Unselected == [week |-> None, following |-> TRUE, current |-> None]
Store      == [ticks : SUBSET Week, order : Seq(Habit), start : Week, now : Week]
Left       == [rows : Nat, nav : Nat, press : 0 .. MaxPress, drag : Nat, drop : 0 .. MaxDrop,
               other : Nat, dawn : Nat, fault : Nat]

VTypes ==
  /\ store \in Store /\ sel \in Selection \cup {Unselected}
  /\ grid \in Grid \cup {None} /\ get \in WeekGet \cup {None} /\ drag \in Dragged \cup {None}
  /\ attempt \in [Week -> Attempt \cup {None}]
  /\ intent \in [Week -> BOOLEAN \cup {None}]
  /\ post \in [Token -> CheckInPost \cup {None}]
  /\ drop \in [1 .. MaxDrop -> OrderPost \cup {None}]
  /\ stream \in {"down", "idle", "due"} /\ left \in Left /\ landed \in SUBSET Token

\* Until the first refresh no week is selected and nothing was asked; no drag without a grid.
SelectedFirst ==
  /\ sel = Unselected => /\ grid = None /\ get = None
                         /\ \A t \in Token : post[t] = None
                         /\ \A n \in 1 .. MaxDrop : drop[n] = None
  /\ drag # None => grid # None

Typed == VTypes /\ SelectedFirst

\* A request and the attempt of its button know each other by a token never given again.
PostsAwaited ==
  /\ \A t \in Token : post[t] # None =>
       /\ t > left.press
       /\ post[t].heard => /\ attempt[post[t].week] # None /\ attempt[post[t].week].token = t
                          /\ attempt[post[t].week].phase = "posting"
       /\ ~post[t].heard => post[t].result = None
       /\ post[t].result = "committed" => t \in landed
  /\ \A w \in Week : attempt[w] # None =>
       /\ attempt[w].token > left.press
       /\ attempt[w].phase = "posting" =>
            LET t == attempt[w].token IN post[t] # None /\ post[t].heard /\ post[t].week = w

-----------------------------------------------------------------------------
(* Lemmas about the operators.                                             *)

LEMMA NoneApart ==
  /\ None \notin Int /\ None \notin BOOLEAN /\ None # "committed" /\ None # "rejected"
  /\ None \notin Shown /\ None \notin Grid /\ None \notin WeekGet /\ None \notin OrderPost
  /\ None \notin CheckInPost /\ None \notin Attempt /\ None \notin Dragged
BY NoneAssumption

LEMMA Selected == ASSUME VTypes, sel # Unselected PROVE sel \in Selection
BY DEF VTypes

\* What is left of the budget only shrinks.
LEMMA SpendKeeps ==
  ASSUME left \in Left, NEW what \in DOMAIN left, Spend(what)
  PROVE  /\ left' \in Left
         /\ what # "press" => left'.press = left.press
         /\ what = "press" => left.press \in 1 .. MaxPress /\ left'.press = left.press - 1
         /\ what = "drop" => left.drop \in 1 .. MaxDrop
<1>1. MaxPress \in Nat /\ MaxDrop \in Nat
  BY HabitGridAssumption
<1>2. what \in {"rows", "nav", "press", "drag", "drop", "other", "dawn", "fault"}
  BY DEF Left
<1>3. left' = [left EXCEPT ![what] = @ - 1] /\ left[what] > 0
  BY DEF Spend
<1>4. CASE what = "press"
  BY <1>1, <1>3, <1>4 DEF Left
<1>5. CASE what = "drop"
  BY <1>1, <1>3, <1>5 DEF Left
<1>6. CASE what \notin {"press", "drop"}
  BY <1>1, <1>2, <1>3, <1>6 DEF Left
<1> QED BY <1>4, <1>5, <1>6

LEMMA SnapshotIsShown ==
  ASSUME Typed, NEW w \in Int
  PROVE  Snapshot(w, store) \in Shown
BY DEF Typed, VTypes, Store, Snapshot, Shown, Week

LEMMA RenderedIsGrid ==
  ASSUME NEW s \in Shown
  PROVE  /\ Rendered(s) \in Grid
         /\ Rendered(s).week = s.week /\ Rendered(s).live = s.live /\ Rendered(s).ticked = s.ticked
         /\ Rendered(s).open = s.open /\ Rendered(s).rows = s.rows /\ Rendered(s).sees = s.sees
BY DEF Shown, Grid, Rendered

LEMMA FencedAre ==
  ASSUME NEW a \in [Week -> Attempt \cup {None}]
  PROVE  /\ Fenced(a) \in SUBSET Week
         /\ \A w \in Week : w \in Fenced(a) <=> a[w] # None /\ a[w].phase \in {"saved", "unread"}
         /\ \A w \in Fenced(a) : a[w] \in Attempt
BY DEF Fenced

LEMMA InPhaseIs ==
  ASSUME NEW a \in [Week -> Attempt \cup {None}], NEW p \in {"saved", "unread"}
  PROVE  /\ InPhase(a, Fenced(a), p) \in [Week -> Attempt \cup {None}]
         /\ \A w \in Week : w \notin Fenced(a) => InPhase(a, Fenced(a), p)[w] = a[w]
         /\ \A w \in Fenced(a) : /\ InPhase(a, Fenced(a), p)[w] \in Attempt
                                 /\ InPhase(a, Fenced(a), p)[w].phase = p
                                 /\ InPhase(a, Fenced(a), p)[w].token = a[w].token
                                 /\ InPhase(a, Fenced(a), p)[w].desired = a[w].desired
<1>1. Fenced(a) \in SUBSET Week /\ \A w \in Fenced(a) : a[w] \in Attempt
  BY FencedAre
<1>2. \A w \in Fenced(a) : /\ [a[w] EXCEPT !.phase = p] \in Attempt
                           /\ [a[w] EXCEPT !.phase = p].phase = p
                           /\ [a[w] EXCEPT !.phase = p].token = a[w].token
                           /\ [a[w] EXCEPT !.phase = p].desired = a[w].desired
  BY <1>1 DEF Attempt
<1> QED BY <1>1, <1>2 DEF InPhase

LEMMA OutdateIs ==
  ASSUME NEW S, S \in {WeekGet, OrderPost}, NEW r \in S, NEW parts \in SUBSET Part, parts # {}
  PROVE  /\ Outdate(r, parts) \in S /\ Outdate(r, parts).changed # {}
         /\ S = OrderPost => Outdate(r, parts).heard = r.heard
<1>1. r # None
  BY NoneApart
<1>2. Outdate(r, parts) = [r EXCEPT !.changed = r.changed \cup parts]
  BY <1>1 DEF Outdate
<1>3. CASE S = WeekGet
  BY <1>2, <1>3 DEF WeekGet
<1>4. CASE S = OrderPost
  BY <1>2, <1>4 DEF OrderPost
<1> QED BY <1>3, <1>4

\* An outdated answer will not land.
LEMMA OutdatedDrops ==
  ASSUME drop \in [1 .. MaxDrop -> OrderPost \cup {None}],
         NEW parts \in SUBSET Part, parts # {}, Outdated(parts)
  PROVE  /\ drop' \in [1 .. MaxDrop -> OrderPost \cup {None}]
         /\ \A n \in 1 .. MaxDrop : drop'[n] = None <=> drop[n] = None
         /\ \A n \in 1 .. MaxDrop : drop'[n] # None => drop'[n].changed # {}
         /\ Heard' = Heard
<1>1. drop' = [n \in 1 .. MaxDrop |-> Outdate(drop[n], parts)]
  BY DEF Outdated
<1>2. \A n \in 1 .. MaxDrop : drop[n] = None => drop'[n] = None
  BY <1>1 DEF Outdate
<1>3. \A n \in 1 .. MaxDrop : drop[n] # None =>
         drop'[n] \in OrderPost /\ drop'[n].changed # {} /\ drop'[n].heard = drop[n].heard
  BY <1>1, OutdateIs
<1>4. \A n \in 1 .. MaxDrop : drop[n] # None => drop'[n] # None
  BY <1>3, NoneApart
<1> QED BY <1>1, <1>2, <1>3, <1>4 DEF Heard

LEMMA ReadingIs ==
  ASSUME NEW s \in Selection, NEW a \in [Week -> Attempt \cup {None}]
  PROVE  /\ Reading(s, a) \in WeekGet /\ Reading(s, a).changed = {} /\ Reading(s, a).snap = None
         /\ Reading(s, a).week = s.week /\ Reading(s, a).since = Fenced(a)
         /\ Reading(s, a) # None
<1>1. Fenced(a) \in SUBSET Week
  BY FencedAre
<1>2. Reading(s, a) \in WeekGet
  BY <1>1 DEF Reading, WeekGet, Selection
<1> QED BY <1>2, NoneApart DEF Reading

\* The rows of the grid stay a sequence of habits.
LEMMA PlaceAtIs ==
  ASSUME NEW rows \in Seq(Habit), NEW h \in Range(rows), NEW k \in DOMAIN rows
  PROVE  PlaceAt(rows, h, k) \in Seq(Habit)
<1> DEFINE i == CHOOSE j \in DOMAIN rows : rows[j] = h
           rest == RemoveAt(rows, i)
<1>1. h \in Habit /\ i \in 1 .. Len(rows) /\ k \in 1 .. Len(rows)
  BY DEF Range
<1> HIDE DEF i
<1>2. rest \in Seq(Habit)
  <2>1. SubSeq(rows, 1, i - 1) \in Seq(Habit) /\ SubSeq(rows, i + 1, Len(rows)) \in Seq(Habit)
    BY <1>1
  <2> QED BY <2>1 DEF RemoveAt
<1>3. Len(rest) = Len(rows) - 1
  <2>1. Len(SubSeq(rows, 1, i - 1)) = i - 1 /\ Len(SubSeq(rows, i + 1, Len(rows))) = Len(rows) - i
    BY <1>1
  <2>2. SubSeq(rows, 1, i - 1) \in Seq(Habit) /\ SubSeq(rows, i + 1, Len(rows)) \in Seq(Habit)
    BY <1>1
  <2>3. \A a, b \in Seq(Habit) : Len(a \o b) = Len(a) + Len(b)
    OBVIOUS
  <2>4. rest = SubSeq(rows, 1, i - 1) \o SubSeq(rows, i + 1, Len(rows))
    BY DEF RemoveAt
  <2>5. Len(rest) = i - 1 + (Len(rows) - i)
    BY <2>1, <2>2, <2>3, <2>4
  <2> QED BY <1>1, <2>5
<1> HIDE DEF rest
<1>4. InsertAt(rest, k, h) \in Seq(Habit)
  <2>1. SubSeq(rest, 1, k - 1) \in Seq(Habit) /\ SubSeq(rest, k, Len(rest)) \in Seq(Habit)
    BY <1>1, <1>2, <1>3
  <2> QED BY <1>1, <2>1 DEF InsertAt
<1> QED BY <1>4 DEF PlaceAt, i, rest

LEMMA OrderIs == Order \subseteq Seq(Habit)
<1> SUFFICES ASSUME NEW S \in SUBSET Habit, NEW o \in SetToSeqs(S) PROVE o \in Seq(Habit)
  BY DEF Order, SetToAllKPermutations
<1>1. IsFiniteSet(S) /\ Cardinality(S) \in Nat
  BY HabitGridAssumption, FS_Subset, FS_CardinalityType
<1>2. o \in [1 .. Cardinality(S) -> S]
  BY DEF SetToSeqs
<1> QED BY <1>1, <1>2

\* Only attempts with a receipt are touched: they are settled, or go on waiting for a read.
OnlyFenced(a, b) ==
  \A w \in Week :
    /\ w \notin Fenced(a) => b[w] = a[w]
    /\ w \in Fenced(a) /\ b[w] # None =>
         b[w].phase \in {"saved", "unread"} /\ b[w].token = a[w].token /\ b[w].desired = a[w].desired

LEMMA EndedIs ==
  ASSUME NEW a \in [Week -> Attempt \cup {None}], NEW others \in BOOLEAN
  PROVE  /\ Ended(a, others) \in [Week -> Attempt \cup {None}]
         /\ OnlyFenced(a, Ended(a, others))
         /\ \A w \in Week : Ended(a, others)[w] = None <=> a[w] = None
         /\ \A w \in Week : Ended(a, others)[w] # None /\ Ended(a, others)[w].phase = "saved" => others
<1>1. CASE others
  BY <1>1, FencedAre DEF Ended, OnlyFenced
<1>2. CASE ~others
  <2> DEFINE b == InPhase(a, Fenced(a), "unread")
  <2>1. Ended(a, others) = b
    BY <1>2 DEF Ended
  <2>2. /\ b \in [Week -> Attempt \cup {None}]
        /\ \A w \in Week : w \notin Fenced(a) => b[w] = a[w]
        /\ \A w \in Fenced(a) : b[w] \in Attempt /\ b[w].phase = "unread" /\ b[w].token = a[w].token
                               /\ b[w].desired = a[w].desired
    BY InPhaseIs
  <2> HIDE DEF b
  <2>3. OnlyFenced(a, b)
    BY <2>2 DEF OnlyFenced
  <2>4. \A w \in Week : b[w] = None <=> a[w] = None
    BY <2>2, FencedAre, NoneApart
  <2>5. \A w \in Week : b[w] # None => b[w].phase # "saved"
    BY <2>2, FencedAre
  <2> QED BY <2>1, <2>2, <2>3, <2>4, <2>5
<1> QED BY <1>1, <1>2

\* What a read does.
LEMMA ReadIs ==
  ASSUME drop \in [1 .. MaxDrop -> OrderPost \cup {None}], NEW s \in Selection,
         NEW a \in [Week -> Attempt \cup {None}], NEW parts \in SUBSET Part, parts # {},
         Read(s, a, parts)
  PROVE  /\ sel' = s /\ sel' # Unselected
         /\ get' \in WeekGet /\ get' # None /\ get'.changed = {} /\ get'.snap = None
         /\ get'.week = s.week /\ get'.since = Fenced(a)
         /\ attempt' \in [Week -> Attempt \cup {None}] /\ OnlyFenced(a, attempt')
         /\ \A w \in Week : attempt'[w] = None <=> a[w] = None
         /\ drop' \in [1 .. MaxDrop -> OrderPost \cup {None}]
         /\ \A n \in 1 .. MaxDrop : drop'[n] = None <=> drop[n] = None
         /\ \A n \in 1 .. MaxDrop : drop'[n] # None => drop'[n].changed # {}
         /\ Heard' = Heard
<1>1. sel' = s /\ get' = Reading(s, a) /\ attempt' = InPhase(a, Fenced(a), "saved") /\ Outdated(parts)
  BY DEF Read
<1>2. s # Unselected
  BY NoneApart DEF Selection, Unselected
<1>3. OnlyFenced(a, attempt')
  BY <1>1, InPhaseIs DEF OnlyFenced
<1>4. \A w \in Week : attempt'[w] = None <=> a[w] = None
  BY <1>1, InPhaseIs, FencedAre, NoneApart
<1> QED BY <1>1, <1>2, <1>3, <1>4, ReadingIs, InPhaseIs, OutdatedDrops

\* A refresh selects the current week if the tab follows it.
LEMMA RefreshSelects ==
  ASSUME store \in Store, sel \in Selection \cup {Unselected},
         NEW s, s = [sel EXCEPT !.current = store.now, !.week = IF sel.following THEN store.now ELSE @]
  PROVE  /\ s \in Selection /\ s.current = store.now /\ (s.following => s.week = store.now)
         /\ {"refresh"} \in SUBSET Part
<1>1. store.now \in Int
  BY DEF Store, Week
<1>2. sel \in [week : Int \cup {None}, following : BOOLEAN, current : Int \cup {None}]
  <2>1. Selection \subseteq [week : Int \cup {None}, following : BOOLEAN, current : Int \cup {None}]
    BY DEF Selection
  <2>2. Unselected \in [week : Int \cup {None}, following : BOOLEAN, current : Int \cup {None}]
    BY DEF Unselected
  <2> QED BY <2>1, <2>2
<1>3. sel.following \/ sel.week \in Int
  BY DEF Selection, Unselected
<1>4. s \in Selection /\ s.current = store.now /\ (s.following => s.week = store.now)
  BY <1>1, <1>2, <1>3 DEF Selection
<1> QED BY <1>4 DEF Part

LEMMA SettledIs ==
  ASSUME NEW a \in [Week -> Attempt \cup {None}], NEW ws \in SUBSET Fenced(a)
  PROVE  /\ Settled(a, ws) \in [Week -> Attempt \cup {None}]
         /\ \A w \in Week : Settled(a, ws)[w] = IF w \in ws THEN None ELSE a[w]
         /\ Fenced(Settled(a, ws)) = Fenced(a) \ ws
BY DEF Settled, Fenced

\* What an answer with a grid in it does.
LEMMA AnswerIs ==
  ASSUME Typed, NEW r \in WeekGet \cup OrderPost, r.snap # None, NEW others \in BOOLEAN, NEW needed,
         Answer(r, others, needed)
  PROVE  /\ drag' = None /\ grid' \in Grid \cup {None} /\ (grid # None => grid' # None)
         /\ attempt' \in [Week -> Attempt \cup {None}] /\ OnlyFenced(attempt, attempt')
         /\ \A w \in Week : attempt'[w] # None /\ attempt'[w].phase = "saved" => others
         /\ \A w \in Week : attempt[w] # None /\ attempt'[w] = None =>
               r.changed = {} /\ w \in Fenced(attempt) \cap r.since
         /\ r.changed = {} => grid' = Rendered(r.snap) /\ r.snap \in Shown
         /\ r.changed # {} => grid' = grid
                               /\ (missed' = {} => missed = {} /\ drag = None /\ needed = {})
<1>1. attempt \in [Week -> Attempt \cup {None}] /\ grid \in Grid \cup {None}
  BY DEF Typed, VTypes
<1>2. r.snap \in Shown
  BY DEF WeekGet, OrderPost
<1>3. CASE r.changed = {}
  <2> DEFINE a == Settled(attempt, Confirmed(r))
  <2>1. grid' = Rendered(r.snap) /\ attempt' = Ended(a, others) /\ drag' = None
    BY <1>3 DEF Answer, Matches
  <2>2. Confirmed(r) \in SUBSET Fenced(attempt) /\ Confirmed(r) \subseteq r.since
    BY DEF Confirmed
  <2>3. /\ a \in [Week -> Attempt \cup {None}]
        /\ \A w \in Week : a[w] = IF w \in Confirmed(r) THEN None ELSE attempt[w]
        /\ Fenced(a) = Fenced(attempt) \ Confirmed(r)
    BY <1>1, <2>2, SettledIs
  <2> HIDE DEF a
  <2>4. /\ attempt' \in [Week -> Attempt \cup {None}] /\ OnlyFenced(a, attempt')
        /\ \A w \in Week : attempt'[w] = None <=> a[w] = None
        /\ \A w \in Week : attempt'[w] # None /\ attempt'[w].phase = "saved" => others
    BY <2>1, <2>3, EndedIs
  <2>5. OnlyFenced(attempt, attempt')
    BY <2>2, <2>3, <2>4 DEF OnlyFenced
  <2>6. \A w \in Week : attempt[w] # None /\ attempt'[w] = None => w \in Fenced(attempt) \cap r.since
    BY <2>2, <2>3, <2>4
  <2>7. grid' \in Grid /\ grid' # None
    BY <1>2, <2>1, RenderedIsGrid, NoneApart
  <2> QED BY <1>2, <1>3, <2>1, <2>4, <2>5, <2>6, <2>7
<1>4. CASE r.changed # {}
  <2>1. /\ grid' = grid /\ attempt' = Ended(attempt, others) /\ drag' = None
        /\ missed' = missed \cup needed \cup (IF drag = None THEN {} ELSE {"abandoned"})
    BY <1>4 DEF Answer, Matches
  <2>2. missed' = {} => missed = {} /\ drag = None /\ needed = {}
    BY <2>1
  <2>3. /\ attempt' \in [Week -> Attempt \cup {None}] /\ OnlyFenced(attempt, attempt')
        /\ \A w \in Week : attempt'[w] = None <=> attempt[w] = None
        /\ \A w \in Week : attempt'[w] # None /\ attempt'[w].phase = "saved" => others
    BY <1>1, <2>1, EndedIs
  <2> QED BY <1>1, <1>4, <2>1, <2>2, <2>3
<1> QED BY <1>3, <1>4

\* The answer to e is the answer to d.
SameAnswer(d, e) ==
  e # None /\ e.week = d.week /\ e.changed = d.changed /\ e.since = d.since /\ e.snap = d.snap

\* A new post of an order, with the week and the receipts of the moment.
LEMMA OrderingIs ==
  ASSUME Typed, sel # Unselected, NEW rows \in Seq(Habit)
  PROVE  /\ Ordering(rows) \in OrderPost /\ Ordering(rows) # None
         /\ Ordering(rows).heard /\ Ordering(rows).changed = {}
         /\ Ordering(rows).week = sel.week /\ Ordering(rows).snap = None
<1>1. attempt \in [Week -> Attempt \cup {None}] /\ sel \in Selection
  BY Selected DEF Typed, VTypes
<1>2. Fenced(attempt) \in SUBSET Week
  BY <1>1, FencedAre
<1>3. Ordering(rows) \in OrderPost
  BY <1>1, <1>2 DEF Ordering, OrderPost, Selection
<1>4. Ordering(rows) # None
  BY <1>3, NoneApart
<1> QED BY <1>3, <1>4 DEF Ordering

\* What posting an order does: a new request of today's key, and those before not heard.
LEMMA CommitOrderIs ==
  ASSUME Typed, grid # None, NEW rows \in Seq(Habit), NEW from, CommitOrder(rows, from)
  PROVE  /\ left' \in Left /\ left'.press = left.press
         /\ drop' \in [1 .. MaxDrop -> OrderPost \cup {None}]
         /\ attempt' \in [Week -> Attempt \cup {None}] /\ OnlyFenced(attempt, attempt')
         /\ \A w \in Week : attempt'[w] = None <=> attempt[w] = None
         /\ rows = from => UNCHANGED <<drop, attempt>>
         /\ rows # from => \E n \in Heard' : drop'[n].changed = {}
         /\ \A n \in 1 .. MaxDrop : drop'[n] # None =>
               \/ drop[n] # None /\ SameAnswer(drop[n], drop'[n])
               \/ drop'[n].week = sel.week /\ drop'[n].snap = None
<1>1. /\ drop \in [1 .. MaxDrop -> OrderPost \cup {None}] /\ attempt \in [Week -> Attempt \cup {None}]
      /\ left \in Left /\ sel \in Selection
  BY Selected DEF Typed, VTypes, SelectedFirst
<1>2. CASE rows = from
  <2>1. UNCHANGED <<drop, attempt, left>>
    BY <1>2 DEF CommitOrder
  <2>2. \A n \in 1 .. MaxDrop : drop'[n] # None => SameAnswer(drop[n], drop'[n])
    BY <2>1 DEF SameAnswer
  <2>3. OnlyFenced(attempt, attempt')
    BY <1>1, <2>1, FencedAre DEF OnlyFenced
  <2> QED BY <1>1, <1>2, <2>1, <2>2, <2>3
<1>3. CASE rows # from
  <2> DEFINE d == Ordering(rows)
  <2>1. /\ Spend("drop") /\ attempt' = InPhase(attempt, Fenced(attempt), "saved")
        /\ drop' = [n \in 1 .. MaxDrop |->
             IF n = left.drop THEN d
             ELSE IF n \in Heard
             THEN IF drop[n].served THEN None ELSE [drop[n] EXCEPT !.heard = FALSE]
             ELSE drop[n]]
    BY <1>1, <1>3 DEF CommitOrder
  <2>2. left' \in Left /\ left'.press = left.press /\ left.drop \in 1 .. MaxDrop
    BY <1>1, <2>1, SpendKeeps DEF Left
  <2>3. /\ d \in OrderPost /\ d # None
        /\ d.heard /\ d.changed = {} /\ d.week = sel.week /\ d.snap = None
    BY OrderingIs DEF Typed, SelectedFirst
  <2> HIDE DEF d
  <2>4. \A n \in Heard : /\ [drop[n] EXCEPT !.heard = FALSE] \in OrderPost
                         /\ SameAnswer(drop[n], [drop[n] EXCEPT !.heard = FALSE])
    <3> SUFFICES ASSUME NEW n \in Heard
                 PROVE  /\ [drop[n] EXCEPT !.heard = FALSE] \in OrderPost
                        /\ SameAnswer(drop[n], [drop[n] EXCEPT !.heard = FALSE])
      OBVIOUS
    <3>1. drop[n] \in OrderPost
      BY <1>1 DEF Heard
    <3>2. [drop[n] EXCEPT !.heard = FALSE] \in OrderPost
      BY <3>1 DEF OrderPost
    <3> QED BY <3>1, <3>2, NoneApart DEF OrderPost, SameAnswer
  <2>5. drop' \in [1 .. MaxDrop -> OrderPost \cup {None}]
    BY <1>1, <2>1, <2>3, <2>4
  <2>6. \A n \in 1 .. MaxDrop : drop'[n] # None =>
          \/ drop[n] # None /\ SameAnswer(drop[n], drop'[n])
          \/ drop'[n].week = sel.week /\ drop'[n].snap = None
    <3> SUFFICES ASSUME NEW n \in 1 .. MaxDrop, drop'[n] # None
                 PROVE  \/ drop[n] # None /\ SameAnswer(drop[n], drop'[n])
                        \/ drop'[n].week = sel.week /\ drop'[n].snap = None
      OBVIOUS
    <3>1. CASE n = left.drop
      BY <2>1, <2>3, <3>1
    <3>2. CASE n # left.drop /\ n \in Heard
      BY <2>1, <2>4, <3>2 DEF Heard
    <3>3. CASE n # left.drop /\ n \notin Heard
      BY <2>1, <3>3 DEF SameAnswer
    <3> QED BY <3>1, <3>2, <3>3
  <2>7. left.drop \in Heard' /\ drop'[left.drop].changed = {}
    <3>1. drop'[left.drop] = d
      BY <2>1, <2>2
    <3> QED BY <2>2, <2>3, <2>5, <3>1 DEF Heard
  <2>8. OnlyFenced(attempt, attempt') /\ attempt' \in [Week -> Attempt \cup {None}]
        /\ \A w \in Week : attempt'[w] = None <=> attempt[w] = None
    BY <1>1, <2>1, InPhaseIs, FencedAre, NoneApart DEF OnlyFenced
  <2> QED BY <1>3, <2>2, <2>5, <2>6, <2>7, <2>8
<1> QED BY <1>2, <1>3

\* A retry is the same order posted anew.
LEMMA OrderRetriedIs ==
  ASSUME Typed, NEW n \in 1 .. MaxDrop, OrderRetried(n)
  PROVE  /\ UNCHANGED <<store, sel, grid, get, attempt, post, drag, stream, landed, intent, missed>>
         /\ drop' \in [1 .. MaxDrop -> OrderPost \cup {None}] /\ drop[n] # None
         /\ \A m \in (1 .. MaxDrop) \ {n} : drop'[m] = drop[m]
         /\ drop'[n] # None /\ drop'[n].heard /\ drop'[n].changed = {}
         /\ drop'[n].week = sel.week /\ drop'[n].snap = None
<1> DEFINE d == Ordering(drop[n].rows)
<1>1. /\ drop \in [1 .. MaxDrop -> OrderPost \cup {None}] /\ drop[n] # None
      /\ drop' = [drop EXCEPT ![n] = d] /\ sel # Unselected
  BY DEF OrderRetried, Heard, Typed, VTypes, SelectedFirst
<1>2. drop[n].rows \in Seq(Habit)
  BY <1>1 DEF OrderPost
<1>3. d \in OrderPost /\ d # None /\ d.heard /\ d.changed = {} /\ d.week = sel.week /\ d.snap = None
  BY <1>1, <1>2, OrderingIs
<1> HIDE DEF d
<1>4. UNCHANGED <<store, sel, grid, get, attempt, post, drag, stream, landed, intent, missed>>
  BY DEF OrderRetried
<1> QED BY <1>1, <1>3, <1>4

-----------------------------------------------------------------------------
(* Types, and nothing before the first refresh.                            *)

LEMMA InitTyped == VInit => Typed
<1> SUFFICES ASSUME VInit PROVE Typed
  OBVIOUS
<1>1. left \in Left /\ left.dawn \in 0 .. LastWeek
  BY HabitGridAssumption DEF VInit, Left
<1>2. store \in Store
  <2>1. PICK o \in Order : store = [ticks |-> {}, order |-> o, start |-> 0, now |-> LastWeek - left.dawn]
    BY DEF VInit
  <2>2. LastWeek \in Nat /\ o \in Seq(Habit)
    BY HabitGridAssumption, OrderIs
  <2>3. LastWeek - left.dawn \in Week /\ 0 \in Week
    BY <1>1, <2>2 DEF Week
  <2> QED BY <2>1, <2>2, <2>3 DEF Store
<1>3. sel = Unselected
  BY DEF VInit, Unselected
<1>4. VTypes
  BY <1>1, <1>2, <1>3 DEF VInit, VTypes
<1>5. SelectedFirst
  BY DEF VInit, SelectedFirst
<1> QED BY <1>4, <1>5 DEF Typed

LEMMA SelectTyped ==
  ASSUME Typed, grid # None, NEW w \in Int, NEW following \in BOOLEAN, Select(w, following)
  PROVE  Typed'
<1> DEFINE s == [sel EXCEPT !.week = w, !.following = following]
<1>1. sel \in Selection /\ sel # Unselected
  BY Selected DEF Typed, SelectedFirst
<1>2. s \in Selection
  BY <1>1 DEF Selection
<1>3. left' \in Left
  BY SpendKeeps DEF Select, Typed, VTypes, Left
<1>4. {"view"} \in SUBSET Part
  BY DEF Part
<1>5. CASE s # sel
  <2>1. Read(s, attempt, {"view"})
    BY <1>5 DEF Select
  <2> HIDE DEF s
  <2>2. /\ sel' = s /\ sel' # Unselected /\ get' \in WeekGet /\ attempt' \in [Week -> Attempt \cup {None}]
        /\ drop' \in [1 .. MaxDrop -> OrderPost \cup {None}]
    BY <1>2, <1>4, <2>1, ReadIs DEF Typed, VTypes
  <2> QED BY <1>2, <1>3, <2>2 DEF Select, Typed, VTypes, SelectedFirst
<1>6. CASE s = sel
  <2>1. /\ get' = Outdate(get, {"view"}) /\ Outdated({"view"}) /\ UNCHANGED <<sel, attempt>>
        /\ UNCHANGED <<store, grid, post, drag, stream, landed, intent>>
    BY <1>6 DEF Select
  <2>2. get' \in WeekGet \cup {None}
    BY <1>4, <2>1, OutdateIs DEF Typed, VTypes, Outdate
  <2>3. drop' \in [1 .. MaxDrop -> OrderPost \cup {None}]
    BY <1>4, <2>1, OutdatedDrops DEF Typed, VTypes
  <2> QED BY <1>1, <1>3, <2>1, <2>2, <2>3 DEF Typed, VTypes, SelectedFirst
<1> QED BY <1>5, <1>6

LEMMA ClickTyped == ASSUME Typed, Click PROVE Typed'
<1>1. grid # None
  BY DEF Click, PreviousWeek, NextWeek, ThisWeek, Press, PressBusy, PressUnread, Button
<1>2. grid \in Grid /\ sel \in Selection /\ sel # Unselected
  BY <1>1, Selected DEF Typed, VTypes, SelectedFirst
<1>3. ASSUME PreviousWeek \/ NextWeek \/ ThisWeek PROVE Typed'
  <2>1. grid.week - 1 \in Int /\ grid.week + 1 \in Int /\ sel.current \in Int
    BY <1>2 DEF Grid, Selection
  <2> QED BY <1>1, <1>3, <2>1, SelectTyped DEF PreviousWeek, NextWeek, ThisWeek
<1>4. ASSUME NEW w \in Week, Press(w) PROVE Typed'
  <2> DEFINE d == Desired(w)
  <2>1. d \in BOOLEAN
    BY <1>2 DEF Desired, Typed, VTypes, Attempt, Grid
  <2> HIDE DEF d
  <2>2. left' \in Left /\ left.press \in Token
    BY <1>4, SpendKeeps DEF Press, Typed, VTypes, Left, Token
  <2>3. post' \in [Token -> CheckInPost \cup {None}]
        /\ attempt' \in [Week -> Attempt \cup {None}]
    <3>1. [week |-> w, desired |-> d, heard |-> TRUE, result |-> None] \in CheckInPost
          /\ [token |-> left.press, desired |-> d, phase |-> "posting"] \in Attempt
      BY <2>1, <2>2 DEF CheckInPost, Attempt
    <3> QED BY <1>4, <3>1 DEF Press, Typed, VTypes, d
  <2>4. intent' \in [Week -> BOOLEAN \cup {None}]
    BY <1>2, <1>4 DEF Press, Typed, VTypes, Grid
  <2>5. grid' \in Grid
    BY <1>2, <1>4, <2>1 DEF Press, Grid, d
  <2>6. grid' # None
    BY <2>5, NoneApart
  <2> QED BY <1>2, <1>4, <2>2, <2>3, <2>4, <2>5, <2>6 DEF Press, Typed, VTypes, SelectedFirst
<1>5. ASSUME NEW w \in Week, PressBusy(w) PROVE Typed'
  <2>1. Desired(w) \in BOOLEAN
    BY <1>2 DEF Desired, Typed, VTypes, Attempt, Grid
  <2>2. grid' \in Grid
    BY <1>2, <1>5, <2>1 DEF PressBusy, Grid
  <2>3. grid' # None
    BY <2>2, NoneApart
  <2> QED BY <1>2, <1>5, <2>2, <2>3 DEF PressBusy, Typed, VTypes, SelectedFirst
<1>6. ASSUME NEW w \in Week, PressUnread(w) PROVE Typed'
  <2>1. {"read"} \in SUBSET Part
    BY DEF Part
  <2>2. /\ sel' = sel /\ get' \in WeekGet /\ attempt' \in [Week -> Attempt \cup {None}]
        /\ drop' \in [1 .. MaxDrop -> OrderPost \cup {None}]
    BY <1>2, <1>6, <2>1, ReadIs DEF PressUnread, Typed, VTypes
  <2> QED BY <1>2, <1>6, <2>2 DEF PressUnread, Typed, VTypes, SelectedFirst
<1> QED BY <1>3, <1>4, <1>5, <1>6 DEF Click

LEMMA ReorderTyped == ASSUME Typed, Reorder PROVE Typed'
<1>1. grid # None /\ grid \in Grid /\ sel # Unselected
  BY DEF Reorder, Drop, CancelDrag, Typed, VTypes, SelectedFirst
<1>2. grid.rows \in Seq(Habit)
  BY <1>1 DEF Grid
<1>3. ASSUME NEW h \in Range(grid.rows), NEW k \in DOMAIN grid.rows
      PROVE  /\ PlaceAt(grid.rows, h, k) \in Seq(Habit) /\ h \in Habit
             /\ [grid EXCEPT !.rows = PlaceAt(@, h, k)] \in Grid
             /\ [grid EXCEPT !.rows = PlaceAt(@, h, k)] # None
  <2>1. PlaceAt(grid.rows, h, k) \in Seq(Habit) /\ h \in Habit
    BY <1>2, PlaceAtIs DEF Range
  <2>2. [grid EXCEPT !.rows = PlaceAt(@, h, k)] \in Grid
    BY <1>1, <2>1 DEF Grid
  <2> QED BY <2>1, <2>2, NoneApart
<1>4. ASSUME NEW h \in Range(grid.rows), NEW k \in DOMAIN grid.rows, Drag(h, k) PROVE Typed'
  <2>1. left' \in Left
    BY <1>4, SpendKeeps DEF Drag, Typed, VTypes, Left
  <2>2. [row |-> h, from |-> grid.rows] \in Dragged
    BY <1>2, <1>3 DEF Dragged
  <2>3. drag' \in Dragged \cup {None}
    BY <1>4, <2>2 DEF Drag, Typed, VTypes
  <2> QED BY <1>1, <1>3, <1>4, <2>1, <2>3 DEF Drag, Typed, VTypes, SelectedFirst
<1>5. CASE Drop
  <2>1. CommitOrder(grid.rows, drag.from)
    BY <1>5 DEF Drop
  <2>2. left' \in Left /\ drop' \in [1 .. MaxDrop -> OrderPost \cup {None}]
        /\ attempt' \in [Week -> Attempt \cup {None}]
    BY <1>1, <1>2, <2>1, CommitOrderIs
  <2> QED BY <1>1, <1>5, <2>2 DEF Drop, Typed, VTypes, SelectedFirst
<1>6. CASE CancelDrag
  <2>1. drag \in Dragged
    BY <1>6 DEF CancelDrag, Typed, VTypes
  <2>2. grid' \in Grid
    BY <1>1, <1>6, <2>1 DEF CancelDrag, Grid, Dragged
  <2>3. grid' # None
    BY <2>2, NoneApart
  <2> QED BY <1>1, <1>6, <2>2, <2>3 DEF CancelDrag, Typed, VTypes, SelectedFirst
<1>7. ASSUME NEW h \in Range(grid.rows), NEW k \in DOMAIN grid.rows, KeyMove(h, k) PROVE Typed'
  <2>1. CommitOrder(PlaceAt(grid.rows, h, k), grid.rows)
    BY <1>7 DEF KeyMove
  <2>2. left' \in Left /\ drop' \in [1 .. MaxDrop -> OrderPost \cup {None}]
        /\ attempt' \in [Week -> Attempt \cup {None}]
    BY <1>1, <1>3, <2>1, CommitOrderIs
  <2> QED BY <1>1, <1>3, <1>7, <2>2 DEF KeyMove, Typed, VTypes, SelectedFirst
<1> QED BY <1>4, <1>5, <1>6, <1>7 DEF Reorder

LEMMA ServeTyped == ASSUME Typed, Serve PROVE Typed'
<1>1. /\ get \in WeekGet \cup {None} /\ store \in Store /\ stream \in {"down", "idle", "due"}
      /\ drop \in [1 .. MaxDrop -> OrderPost \cup {None}] /\ post \in [Token -> CheckInPost \cup {None}]
  BY DEF Typed, VTypes
<1>2. Announced \in {"down", "due"}
  BY DEF Announced
<1>3. CASE ServeWeek
  <2>1. get \in WeekGet /\ get.week \in Int
    BY <1>1, <1>3 DEF ServeWeek, WeekGet
  <2>2. Snapshot(get.week, store) \in Shown
    BY <2>1, SnapshotIsShown
  <2>3. get' \in WeekGet
    BY <1>3, <2>1, <2>2 DEF ServeWeek, WeekGet
  <2> QED BY <1>3, <2>3 DEF ServeWeek, Typed, VTypes, SelectedFirst
<1>4. ASSUME NEW t \in Token, CheckIn(t) PROVE Typed'
  <2>1. post[t] \in CheckInPost /\ post[t].week \in Week
    BY <1>1, <1>4 DEF CheckIn, CheckInPost
  <2>2. store' \in Store /\ stream' \in {"down", "idle", "due"} /\ landed' \in SUBSET Token
    BY <1>1, <1>2, <1>4, <2>1 DEF CheckIn, Store, Typed, VTypes
  <2>3. post' \in [Token -> CheckInPost \cup {None}]
    BY <1>1, <1>4, <2>1 DEF CheckIn, CheckInPost
  <2>4. \A u \in Token : post[u] = None => post'[u] = None
    BY <1>1, <1>4 DEF CheckIn
  <2> QED BY <1>4, <2>2, <2>3, <2>4 DEF CheckIn, Typed, VTypes, SelectedFirst
<1>5. ASSUME NEW n \in 1 .. MaxDrop, ServeOrder(n) PROVE Typed'
  <2>1. drop[n] \in OrderPost
    BY <1>1, <1>5 DEF ServeOrder
  <2>2. store' \in Store
    BY <1>1, <1>5, <2>1 DEF ServeOrder, OrderPost, Store
  <2>3. drop' \in [1 .. MaxDrop -> OrderPost \cup {None}]
    BY <1>1, <1>5, <2>1 DEF ServeOrder, OrderPost
  <2>4. \A m \in 1 .. MaxDrop : drop[m] = None => drop'[m] = None
    BY <1>1, <1>5 DEF ServeOrder
  <2>5. stream' \in {"down", "idle", "due"}
    BY <1>1, <1>2, <1>5 DEF ServeOrder
  <2> QED BY <1>5, <2>2, <2>3, <2>4, <2>5 DEF ServeOrder, Typed, VTypes, SelectedFirst
<1>6. ASSUME NEW n \in 1 .. MaxDrop, ReadOrder(n) PROVE Typed'
  <2>1. drop[n] \in OrderPost /\ drop[n].week \in Int
    BY <1>1, <1>6 DEF ReadOrder, OrderPost
  <2>2. Snapshot(drop[n].week, store) \in Shown
    BY <2>1, SnapshotIsShown
  <2>3. drop' \in [1 .. MaxDrop -> OrderPost \cup {None}]
    BY <1>1, <1>6, <2>1, <2>2 DEF ReadOrder, OrderPost
  <2>4. \A m \in 1 .. MaxDrop : drop[m] = None => drop'[m] = None
    BY <1>1, <1>6 DEF ReadOrder
  <2> QED BY <1>6, <2>3, <2>4 DEF ReadOrder, Typed, VTypes, SelectedFirst
<1>7. DOMAIN drop = 1 .. MaxDrop
  BY <1>1
<1> QED BY <1>3, <1>4, <1>5, <1>6, <1>7 DEF Serve

LEMMA DeliverTyped == ASSUME Typed, PostsAwaited, Deliver PROVE Typed'
<1>1. /\ get \in WeekGet \cup {None} /\ store \in Store /\ sel \in Selection \cup {Unselected}
      /\ drop \in [1 .. MaxDrop -> OrderPost \cup {None}] /\ post \in [Token -> CheckInPost \cup {None}]
      /\ attempt \in [Week -> Attempt \cup {None}]
  BY DEF Typed, VTypes
<1>2. (Heard # {}) \in BOOLEAN /\ (get # None) \in BOOLEAN
  OBVIOUS
<1>3. CASE WeekAnswered
  <2>1. get \in WeekGet \cup OrderPost /\ get.snap # None /\ Answer(get, Heard # {}, {"clicked"})
    BY <1>1, <1>3 DEF WeekAnswered
  <2>2. /\ drag' = None /\ grid' \in Grid \cup {None} /\ (grid # None => grid' # None)
        /\ attempt' \in [Week -> Attempt \cup {None}]
    BY <2>1, AnswerIs
  <2>3. get # None
    BY <1>3 DEF WeekAnswered
  <2> QED BY <1>3, <2>2, <2>3 DEF WeekAnswered, Typed, VTypes, SelectedFirst
<1>4. CASE Refresh
  <2> DEFINE s == [sel EXCEPT !.current = store.now, !.week = IF sel.following THEN store.now ELSE @]
  <2>1. s \in Selection
    BY <1>1, RefreshSelects
  <2>2. Read(s, attempt, {"refresh"}) /\ {"refresh"} \in SUBSET Part
    BY <1>4 DEF Refresh, Part
  <2> HIDE DEF s
  <2>3. /\ sel' = s /\ sel' # Unselected /\ get' \in WeekGet /\ attempt' \in [Week -> Attempt \cup {None}]
        /\ drop' \in [1 .. MaxDrop -> OrderPost \cup {None}]
    BY <1>1, <2>1, <2>2, ReadIs
  <2> QED BY <1>4, <2>1, <2>3 DEF Refresh, Typed, VTypes, SelectedFirst
<1>5. ASSUME NEW t \in Token, Receipt(t) PROVE Typed'
  <2>1. post[t] # None /\ sel \in Selection /\ post[t].week \in Week
    BY <1>1, <1>5 DEF Receipt, Typed, SelectedFirst, CheckInPost
  <2>2. post' = [post EXCEPT ![t] = None] /\ intent' = [intent EXCEPT ![post[t].week] = None]
    BY <1>5 DEF Receipt
  <2>3. post' \in [Token -> CheckInPost \cup {None}] /\ intent' \in [Week -> BOOLEAN \cup {None}]
        /\ \A u \in Token : post[u] = None => post'[u] = None
    BY <1>1, <2>1, <2>2 DEF Typed, VTypes
  <2>4. CASE post[t].result = "rejected"
    <3>1. attempt' \in [Week -> Attempt \cup {None}] /\ UNCHANGED <<sel, get, drop>>
      BY <1>1, <1>5, <2>1, <2>4 DEF Receipt
    <3> QED BY <1>5, <2>3, <3>1 DEF Receipt, Typed, VTypes, SelectedFirst
  <2>5. CASE post[t].result # "rejected"
    <3> DEFINE a == [attempt EXCEPT ![post[t].week].phase = "saved"]
    <3>1. Read(sel, a, {"read"}) /\ {"read"} \in SUBSET Part
      BY <1>5, <2>5 DEF Receipt, Part
    <3>2. attempt[post[t].week] \in Attempt
      <4>1. post[t].heard
        BY <1>5, <2>1 DEF Receipt, PostsAwaited
      <4> QED BY <1>1, <2>1, <4>1 DEF PostsAwaited
    <3>3. a \in [Week -> Attempt \cup {None}]
      BY <1>1, <3>2 DEF Attempt
    <3> HIDE DEF a
    <3>4. /\ sel' = sel /\ get' \in WeekGet /\ attempt' \in [Week -> Attempt \cup {None}]
          /\ drop' \in [1 .. MaxDrop -> OrderPost \cup {None}]
          /\ \A n \in 1 .. MaxDrop : drop'[n] = None <=> drop[n] = None
      BY <1>1, <2>1, <3>1, <3>3, ReadIs
    <3>5. sel # Unselected
      BY <2>1 DEF Typed, SelectedFirst
    <3> QED BY <1>5, <2>3, <3>4, <3>5 DEF Receipt, Typed, VTypes, SelectedFirst
  <2> QED BY <2>4, <2>5
<1>6. ASSUME NEW n \in 1 .. MaxDrop, OrderAnswered(n) PROVE Typed'
  <2>1. drop[n] \in WeekGet \cup OrderPost /\ drop[n].snap # None /\ Answer(drop[n], get # None, {})
        /\ drop' = [drop EXCEPT ![n] = None] /\ drop[n] # None
    BY <1>1, <1>6 DEF OrderAnswered, Heard
  <2>2. /\ drag' = None /\ grid' \in Grid \cup {None} /\ (grid # None => grid' # None)
        /\ attempt' \in [Week -> Attempt \cup {None}]
    BY <2>1, AnswerIs
  <2>3. drop' \in [1 .. MaxDrop -> OrderPost \cup {None}] /\ sel # Unselected
    BY <1>1, <2>1 DEF Typed, SelectedFirst
  <2> QED BY <1>6, <2>2, <2>3 DEF OrderAnswered, Typed, VTypes, SelectedFirst
<1>7. DOMAIN drop = 1 .. MaxDrop
  BY <1>1
<1> QED BY <1>3, <1>4, <1>5, <1>6, <1>7 DEF Deliver

LEMMA FailTyped == ASSUME Typed, PostsAwaited, Fail PROVE Typed'
<1>1. /\ get \in WeekGet \cup {None} /\ sel \in Selection \cup {Unselected}
      /\ drop \in [1 .. MaxDrop -> OrderPost \cup {None}] /\ post \in [Token -> CheckInPost \cup {None}]
      /\ attempt \in [Week -> Attempt \cup {None}]
  BY DEF Typed, VTypes
<1>2. ASSUME Spend("fault") PROVE left' \in Left
  BY <1>2, SpendKeeps DEF Typed, VTypes, Left
<1>3. CASE WeekFailed
  <2>1. attempt' \in [Week -> Attempt \cup {None}]
    BY <1>1, <1>3, EndedIs DEF WeekFailed
  <2> QED BY <1>2, <1>3, <2>1 DEF WeekFailed, Typed, VTypes, SelectedFirst
<1>4. CASE WeekRetried
  <2>1. sel \in Selection /\ sel # Unselected
    BY <1>1, <1>4 DEF WeekRetried, Typed, SelectedFirst
  <2>2. get' \in WeekGet
    BY <1>1, <1>4, <2>1, ReadingIs DEF WeekRetried
  <2> QED BY <1>2, <1>4, <2>1, <2>2 DEF WeekRetried, Typed, VTypes, SelectedFirst
<1>5. CASE Break
  BY <1>2, <1>5 DEF Break, Typed, VTypes, SelectedFirst
<1>6. ASSUME NEW t \in Token, NEW served \in BOOLEAN, CheckInLost(t, served) PROVE Typed'
  <2>1. post[t] \in CheckInPost /\ post[t].heard
    BY <1>1, <1>6 DEF CheckInLost
  <2>2. attempt[post[t].week] \in Attempt
    BY <1>1, <1>6, <2>1 DEF CheckInLost, PostsAwaited, CheckInPost
  <2>3. attempt' \in [Week -> Attempt \cup {None}]
    BY <1>1, <1>6, <2>1, <2>2 DEF CheckInLost, Attempt, CheckInPost
  <2>4. post' \in [Token -> CheckInPost \cup {None}] /\ \A u \in Token : post[u] = None => post'[u] = None
    BY <1>1, <1>6, <2>1 DEF CheckInLost, CheckInPost
  <2> QED BY <1>2, <1>6, <2>3, <2>4 DEF CheckInLost, Typed, VTypes, SelectedFirst
<1>7. ASSUME NEW n \in 1 .. MaxDrop, NEW served \in BOOLEAN, OrderLost(n, served) PROVE Typed'
  <2>1. drop[n] \in OrderPost /\ drop[n] # None
    BY <1>1, <1>7 DEF OrderLost, Heard
  <2>2. drop' \in [1 .. MaxDrop -> OrderPost \cup {None}] /\ \A m \in 1 .. MaxDrop : drop[m] = None => drop'[m] = None
    BY <1>1, <1>7, <2>1 DEF OrderLost, OrderPost
  <2>3. attempt' \in [Week -> Attempt \cup {None}]
    BY <1>1, <1>7, EndedIs DEF OrderLost
  <2> QED BY <1>2, <1>7, <2>2, <2>3 DEF OrderLost, Typed, VTypes, SelectedFirst
<1>8. ASSUME NEW n \in 1 .. MaxDrop, OrderRetried(n) PROVE Typed'
  <2>1. left' \in Left
    BY <1>8, SpendKeeps DEF OrderRetried, Typed, VTypes, Left
  <2> QED BY <1>8, <2>1, OrderRetriedIs DEF Typed, VTypes, SelectedFirst
<1>9. DOMAIN drop = 1 .. MaxDrop
  BY <1>1
<1> QED BY <1>3, <1>4, <1>5, <1>6, <1>7, <1>8, <1>9 DEF Fail

LEMMA ElsewhereTyped == ASSUME Typed, Elsewhere PROVE Typed'
<1>1. store \in Store /\ LastWeek \in Nat
  BY HabitGridAssumption DEF Typed, VTypes
<1>2. Announced \in {"down", "due"}
  BY DEF Announced
<1>3. CASE store.now < LastWeek /\ Spend("dawn") /\ store' = [store EXCEPT !.now = @ + 1]
  <2>1. store' \in Store
    BY <1>1, <1>3 DEF Store, Week
  <2>2. left' \in Left
    BY <1>3, SpendKeeps DEF Typed, VTypes, Left
  <2> QED BY <1>2, <2>1, <2>2 DEF Elsewhere, Typed, VTypes, SelectedFirst
<1>4. CASE ~(store.now < LastWeek /\ Spend("dawn") /\ store' = [store EXCEPT !.now = @ + 1])
  <2>1. left' \in Left
    BY <1>4, SpendKeeps DEF Elsewhere, Typed, VTypes, Left
  <2>2. CASE \E w \in store.start .. store.now : store' = [store EXCEPT !.ticks = SymDiff(@, {w})]
    <3>1. PICK w \in store.start .. store.now : store' = [store EXCEPT !.ticks = SymDiff(@, {w})]
      BY <2>2
    <3>2. w \in Week /\ store.ticks \in SUBSET Week
      BY <1>1 DEF Store, Week
    <3>3. SymDiff(store.ticks, {w}) \in SUBSET Week
      BY <3>2 DEF SymDiff
    <3> QED BY <1>1, <1>2, <2>1, <3>1, <3>3 DEF Elsewhere, Store, Typed, VTypes, SelectedFirst
  <2>3. CASE \E o \in Order : store' = [store EXCEPT !.order = o]
    <3>1. store' \in Store
      BY <1>1, <2>3, OrderIs DEF Store
    <3> QED BY <1>2, <2>1, <3>1 DEF Elsewhere, Typed, VTypes, SelectedFirst
  <2>4. CASE \E w \in 0 .. store.now : store' = [store EXCEPT !.start = w]
    <3>1. store' \in Store
      BY <1>1, <2>4 DEF Store, Week
    <3> QED BY <1>2, <2>1, <3>1 DEF Elsewhere, Typed, VTypes, SelectedFirst
  <2> QED BY <1>4, <2>2, <2>3, <2>4 DEF Elsewhere
<1> QED BY <1>3, <1>4

LEMMA NextTyped == Typed /\ PostsAwaited /\ [VNext]_tab => Typed'
<1> SUFFICES ASSUME Typed, PostsAwaited, [VNext]_tab PROVE Typed'
  OBVIOUS
<1>1. CASE UNCHANGED tab
  BY <1>1 DEF tab, Typed, VTypes, SelectedFirst
<1> QED BY <1>1, ClickTyped, ReorderTyped, ServeTyped, DeliverTyped, FailTyped, ElsewhereTyped DEF VNext

-----------------------------------------------------------------------------
(* Requests and attempts, and the first intent.                             *)

\* The first intent since a receipt is that of the attempt until the next receipt.
IntentHeld ==
  \A w \in Week :
    /\ intent[w] # None => /\ attempt[w] # None /\ attempt[w].phase \in {"posting", "unknown"}
                           /\ attempt[w].desired = intent[w]
    /\ attempt[w] # None /\ attempt[w].phase \in {"posting", "unknown"} => intent[w] # None

Asked == Typed /\ PostsAwaited /\ IntentHeld

\* Steps that settle receipts, or ask to, and no more.
LEMMA FencedKeepsAsked ==
  ASSUME Asked, Typed', OnlyFenced(attempt, attempt'), UNCHANGED <<post, intent>>,
         left'.press = left.press, landed \subseteq landed'
  PROVE  Asked'
<1>1. attempt \in [Week -> Attempt \cup {None}] /\ post \in [Token -> CheckInPost \cup {None}]
  BY DEF Asked, Typed, VTypes
<1>2. \A w \in Week : w \in Fenced(attempt) <=> attempt[w] # None /\ attempt[w].phase \in {"saved", "unread"}
  BY <1>1, FencedAre
<1>3. \A w \in Week : attempt[w] # None => attempt[w].token \in Token
  BY <1>1 DEF Attempt
<1>4. \A t \in Token : post[t] # None => post[t].week \in Week
  BY <1>1 DEF CheckInPost
<1>5. PostsAwaited'
  <2>1. ASSUME NEW t \in Token, post'[t] # None
        PROVE  /\ t > left'.press
               /\ post'[t].heard => /\ attempt'[post'[t].week] # None /\ attempt'[post'[t].week].token = t
                                  /\ attempt'[post'[t].week].phase = "posting"
               /\ ~post'[t].heard => post'[t].result = None
               /\ post'[t].result = "committed" => t \in landed'
    BY <1>2, <1>4, <2>1 DEF Asked, PostsAwaited, OnlyFenced
  <2>2. ASSUME NEW w \in Week, attempt'[w] # None
        PROVE  /\ attempt'[w].token > left'.press
               /\ attempt'[w].phase = "posting" =>
                    /\ post'[attempt'[w].token] # None /\ post'[attempt'[w].token].heard
                    /\ post'[attempt'[w].token].week = w
    <3>1. CASE w \in Fenced(attempt)
      BY <1>2, <2>2, <3>1 DEF Asked, PostsAwaited, OnlyFenced
    <3>2. CASE w \notin Fenced(attempt)
      BY <2>2, <3>2 DEF Asked, PostsAwaited, OnlyFenced
    <3> QED BY <3>1, <3>2
  <2> QED BY <2>1, <2>2 DEF PostsAwaited
<1>6. IntentHeld'
  BY <1>2 DEF Asked, IntentHeld, OnlyFenced
<1> QED BY <1>5, <1>6 DEF Asked

LEMMA SameAttempts ==
  ASSUME attempt \in [Week -> Attempt \cup {None}], attempt' = attempt
  PROVE  OnlyFenced(attempt, attempt')
BY FencedAre DEF OnlyFenced

LEMMA PressKeepsAsked ==
  ASSUME Asked, Typed', NEW w \in Week, Press(w)
  PROVE  Asked'
<1> DEFINE k == left.press
           d == Desired(w)
           r == [week |-> w, desired |-> d, heard |-> TRUE, result |-> None]
           a == [token |-> k, desired |-> d, phase |-> "posting"]
<1>1. attempt \in [Week -> Attempt \cup {None}] /\ post \in [Token -> CheckInPost \cup {None}]
      /\ intent \in [Week -> BOOLEAN \cup {None}] /\ grid \in Grid \cup {None} /\ left \in Left
  BY DEF Asked, Typed, VTypes
<1>2. /\ post' = [post EXCEPT ![k] = r] /\ attempt' = [attempt EXCEPT ![w] = a]
      /\ intent' = [intent EXCEPT ![w] = IF @ = None THEN grid.want ELSE @]
      /\ Spend("press") /\ grid # None /\ landed' = landed
      /\ (attempt[w] # None => attempt[w].phase = "unknown")
  BY DEF Press, Button
<1>3. k \in Token /\ left'.press = k - 1 /\ k \in Int
  BY <1>1, <1>2, SpendKeeps DEF Left, Token
<1>4. grid.want \in BOOLEAN
  BY <1>1, <1>2 DEF Grid
<1>5. d \in BOOLEAN
  BY <1>1, <1>4 DEF Desired, Attempt
<1>6. a \in Attempt /\ r \in CheckInPost
  BY <1>3, <1>5 DEF Attempt, CheckInPost
<1>7. a # None /\ r # None
  <2> HIDE DEF a, r
  <2> QED BY <1>6, NoneApart
<1>8. /\ r.week = w /\ r.heard /\ r.result = None /\ r.result # "committed"
      /\ a.token = k /\ a.phase = "posting" /\ a.desired = d
  BY NoneApart
<1>9. d = IF attempt[w] = None THEN grid.want ELSE attempt[w].desired
  BY DEF Desired
<1>10. \A u \in Token : u \in Int
  BY DEF Token
<1>11. \A v \in Week : attempt[v] # None => attempt[v].token \in Token
  BY <1>1 DEF Attempt
<1>12. \A t \in Token : post[t] # None => post[t].week \in Week
  BY <1>1 DEF CheckInPost
<1>13. post[k] = None
  BY <1>3 DEF Asked, PostsAwaited
<1> HIDE DEF a, r, k, d
<1>14. PostsAwaited'
  <2>1. ASSUME NEW t \in Token, post'[t] # None
        PROVE  /\ t > left'.press
               /\ post'[t].heard => /\ attempt'[post'[t].week] # None /\ attempt'[post'[t].week].token = t
                                  /\ attempt'[post'[t].week].phase = "posting"
               /\ ~post'[t].heard => post'[t].result = None
               /\ post'[t].result = "committed" => t \in landed'
    <3>1. CASE t = k
      <4>1. post'[t] = r /\ attempt'[w] = a
        BY <1>1, <1>2, <1>3, <3>1
      <4>2. t > left'.press
        BY <1>3, <3>1
      <4> QED BY <1>7, <1>8, <3>1, <4>1, <4>2
    <3>2. CASE t # k
      <4>1. post'[t] = post[t] /\ post[t] # None
        BY <1>1, <1>2, <2>1, <3>2
      <4>2. t > left.press /\ t > left'.press
        BY <1>3, <1>10, <4>1 DEF Asked, PostsAwaited, k
      <4>3. post[t].heard => post[t].week # w
        BY <1>2, <4>1 DEF Asked, PostsAwaited
      <4>4. post[t].heard => attempt'[post[t].week] = attempt[post[t].week]
        BY <1>1, <1>2, <1>12, <4>1, <4>3
      <4> QED BY <1>2, <4>1, <4>2, <4>4 DEF Asked, PostsAwaited
    <3> QED BY <3>1, <3>2
  <2>2. ASSUME NEW v \in Week, attempt'[v] # None
        PROVE  /\ attempt'[v].token > left'.press
               /\ attempt'[v].phase = "posting" =>
                    /\ post'[attempt'[v].token] # None /\ post'[attempt'[v].token].heard
                    /\ post'[attempt'[v].token].week = v
    <3>1. CASE v = w
      <4>1. attempt'[v] = a /\ post'[k] = r
        BY <1>1, <1>2, <1>3, <3>1
      <4>2. k > left'.press
        BY <1>3
      <4> QED BY <1>7, <1>8, <3>1, <4>1, <4>2
    <3>2. CASE v # w
      <4>1. attempt'[v] = attempt[v] /\ attempt[v].token \in Token /\ attempt[v].token > left.press
        BY <1>1, <1>2, <1>11, <2>2, <3>2 DEF Asked, PostsAwaited
      <4>2. attempt[v].token # k /\ attempt[v].token > left'.press
        BY <1>3, <1>10, <4>1 DEF k
      <4>3. post'[attempt[v].token] = post[attempt[v].token]
        BY <1>1, <1>2, <4>1, <4>2
      <4> QED BY <2>2, <4>1, <4>2, <4>3 DEF Asked, PostsAwaited
    <3> QED BY <3>1, <3>2
  <2> QED BY <2>1, <2>2 DEF PostsAwaited
<1>15. IntentHeld'
  <2>1. \A v \in Week \ {w} : intent'[v] = intent[v] /\ attempt'[v] = attempt[v]
    BY <1>1, <1>2
  <2>2. attempt'[w] = a
    BY <1>1, <1>2
  <2>3. intent'[w] = d
    <3>1. CASE intent[w] = None
      <4>1. attempt[w] = None
        BY <1>2, <3>1 DEF Asked, IntentHeld
      <4> QED BY <1>1, <1>2, <1>9, <3>1, <4>1
    <3>2. CASE intent[w] # None
      <4>1. attempt[w] # None /\ attempt[w].desired = intent[w]
        BY <3>2 DEF Asked, IntentHeld
      <4> QED BY <1>1, <1>2, <1>9, <3>2, <4>1
    <3> QED BY <3>1, <3>2
  <2>4. intent'[w] # None
    BY <1>5, <2>3, NoneApart
  <2> QED BY <1>7, <1>8, <2>1, <2>2, <2>3, <2>4 DEF Asked, IntentHeld
<1> QED BY <1>14, <1>15 DEF Asked

LEMMA CheckInKeepsAsked ==
  ASSUME Asked, Typed', NEW t \in Token, CheckIn(t)
  PROVE  Asked'
<1> DEFINE ok == store.start <= post[t].week
           q == IF post[t].heard THEN [post[t] EXCEPT !.result = IF ok THEN "committed" ELSE "rejected"] ELSE None
<1>1. post \in [Token -> CheckInPost \cup {None}] /\ attempt \in [Week -> Attempt \cup {None}]
  BY DEF Asked, Typed, VTypes
<1>2. /\ post[t] \in CheckInPost /\ post' = [post EXCEPT ![t] = q] /\ UNCHANGED <<attempt, left, intent>>
      /\ landed' = IF ok THEN landed \cup {t} ELSE landed
  BY <1>1 DEF CheckIn
<1>3. post[t].heard => q # None /\ q.heard = post[t].heard /\ q.week = post[t].week
                      /\ (q.result = "committed" => ok)
  <2>1. post[t].heard => q \in CheckInPost
    BY <1>2 DEF CheckInPost
  <2>2. post[t].heard => q # None
    <3> HIDE DEF q
    <3> QED BY <2>1, NoneApart
  <2> QED BY <1>2, <2>2 DEF CheckInPost
<1>4. ~post[t].heard => q = None
  OBVIOUS
<1>5. post'[t] = q /\ \A u \in Token \ {t} : post'[u] = post[u]
  BY <1>1, <1>2
<1> HIDE DEF q, ok
<1>6. \A v \in Week : attempt[v] # None => attempt[v].token \in Token
  BY <1>1 DEF Attempt
<1>7. post[t] # None
  BY DEF CheckIn
<1>8. PostsAwaited'
  BY <1>2, <1>3, <1>4, <1>5, <1>6, <1>7 DEF Asked, PostsAwaited
<1>9. IntentHeld'
  BY <1>2 DEF Asked, IntentHeld
<1> QED BY <1>8, <1>9 DEF Asked

\* The request a receipt or a failure is about is the one its button waits for.
LEMMA HeardIsAwaited ==
  ASSUME Asked, NEW t \in Token, post[t] # None, post[t].heard
  PROVE  /\ post[t] \in CheckInPost /\ post[t].week \in Week
         /\ attempt[post[t].week] \in Attempt /\ attempt[post[t].week].token = t
         /\ attempt[post[t].week].phase = "posting"
<1>1. post[t] \in CheckInPost /\ post[t].week \in Week
  BY DEF Asked, Typed, VTypes, CheckInPost
<1> QED BY <1>1 DEF Asked, Typed, VTypes, PostsAwaited

\* A request ends for its button w: the button waits no more, the others go on.
LEMMA EndedKeepsAsked ==
  ASSUME Asked, Typed', NEW t \in Token, post[t] # None, post[t].heard,
         \A u \in Token \ {t} : post'[u] = post[u],
         post'[t] # None => ~post'[t].heard /\ post'[t].result = None,
         UNCHANGED landed, left'.press = left.press,
         \A v \in Week \ {post[t].week} :
           /\ intent'[v] = intent[v]
           /\ v \notin Fenced(attempt) => attempt'[v] = attempt[v]
           /\ v \in Fenced(attempt) /\ attempt'[v] # None =>
                attempt'[v].phase \in {"saved", "unread"} /\ attempt'[v].token = attempt[v].token,
         attempt'[post[t].week] # None => attempt'[post[t].week].phase # "posting" /\ attempt'[post[t].week].token = t,
         intent'[post[t].week] # None => /\ attempt'[post[t].week] # None /\ attempt'[post[t].week].phase = "unknown"
                              /\ attempt'[post[t].week].desired = intent'[post[t].week],
         attempt'[post[t].week] # None /\ attempt'[post[t].week].phase = "unknown" => intent'[post[t].week] # None
  PROVE  Asked'
<1> DEFINE w == post[t].week
<1>1. post \in [Token -> CheckInPost \cup {None}] /\ attempt \in [Week -> Attempt \cup {None}]
  BY DEF Asked, Typed, VTypes
<1>2. w \in Week /\ attempt[w] # None /\ attempt[w].token = t /\ attempt[w].phase = "posting"
  BY HeardIsAwaited, NoneApart
<1>3. /\ post'[t] # None => ~post'[t].heard /\ post'[t].result = None
      /\ \A u \in Token \ {t} : post'[u] = post[u]
  OBVIOUS
<1>4. \A v \in Week : v \in Fenced(attempt) <=> attempt[v] # None /\ attempt[v].phase \in {"saved", "unread"}
  BY <1>1, FencedAre
<1>5. \A u \in Token : post[u] # None => post[u].week \in Week
  BY <1>1 DEF CheckInPost
<1>6. t > left.press
  BY DEF Asked, PostsAwaited
<1>7. ASSUME NEW u \in Token, post'[u] # None
      PROVE  /\ u > left'.press
             /\ post'[u].heard => /\ attempt'[post'[u].week] # None /\ attempt'[post'[u].week].token = u
                                /\ attempt'[post'[u].week].phase = "posting"
             /\ ~post'[u].heard => post'[u].result = None
             /\ post'[u].result = "committed" => u \in landed'
  <2>1. CASE u = t
    BY <1>3, <1>6, <1>7, <2>1, NoneApart
  <2>2. CASE u # t
    <3>1. post'[u] = post[u] /\ post[u] # None /\ post[u].week \in Week
      BY <1>3, <1>5, <1>7, <2>2
    <3>2. post[u].heard => post[u].week # w
      BY <1>2, <2>2, <3>1 DEF Asked, PostsAwaited
    <3>3. post[u].heard => post[u].week \notin Fenced(attempt)
      BY <1>4, <3>1 DEF Asked, PostsAwaited
    <3> QED BY <3>1, <3>2, <3>3 DEF Asked, PostsAwaited
  <2> QED BY <2>1, <2>2
<1>8. ASSUME NEW v \in Week, attempt'[v] # None
      PROVE  /\ attempt'[v].token > left'.press
             /\ attempt'[v].phase = "posting" =>
                  /\ post'[attempt'[v].token] # None /\ post'[attempt'[v].token].heard
                  /\ post'[attempt'[v].token].week = v
  <2>1. CASE v = w
    BY <1>6, <1>8, <2>1
  <2>2. CASE v # w /\ v \in Fenced(attempt)
    BY <1>4, <1>8, <2>2 DEF Asked, PostsAwaited
  <2>3. CASE v # w /\ v \notin Fenced(attempt)
    <3>1. attempt'[v] = attempt[v] /\ attempt[v].token \in Token
      BY <1>1, <1>8, <2>3 DEF Attempt
    <3>2. attempt[v].phase = "posting" => attempt[v].token # t
      BY <1>8, <2>3, <3>1 DEF Asked, PostsAwaited
    <3> QED BY <1>3, <1>8, <3>1, <3>2 DEF Asked, PostsAwaited
  <2> QED BY <2>1, <2>2, <2>3
<1>9. PostsAwaited'
  BY <1>7, <1>8 DEF PostsAwaited
<1>10. IntentHeld'
  <2> SUFFICES ASSUME NEW v \in Week
               PROVE  /\ intent'[v] # None => /\ attempt'[v] # None /\ attempt'[v].phase \in {"posting", "unknown"}
                                              /\ attempt'[v].desired = intent'[v]
                      /\ attempt'[v] # None /\ attempt'[v].phase \in {"posting", "unknown"} => intent'[v] # None
    BY DEF IntentHeld
  <2>1. CASE v = w
    BY <2>1
  <2>2. CASE v # w
    BY <1>4, <2>2 DEF Asked, IntentHeld
  <2> QED BY <2>1, <2>2
<1> QED BY <1>9, <1>10 DEF Asked

LEMMA ReceiptKeepsAsked ==
  ASSUME Asked, Typed', NEW t \in Token, Receipt(t)
  PROVE  Asked'
<1> DEFINE w == post[t].week
<1>1. post \in [Token -> CheckInPost \cup {None}] /\ attempt \in [Week -> Attempt \cup {None}]
      /\ intent \in [Week -> BOOLEAN \cup {None}] /\ drop \in [1 .. MaxDrop -> OrderPost \cup {None}]
  BY DEF Asked, Typed, VTypes
<1>2. post[t] # None /\ post[t].heard
  BY DEF Receipt, Asked, PostsAwaited
<1>3. w \in Week /\ attempt[w] \in Attempt /\ attempt[w].token = t /\ attempt[w].phase = "posting"
  BY <1>2, HeardIsAwaited
<1>4. sel \in Selection
  BY <1>2, Selected DEF Asked, Typed, VTypes, SelectedFirst
<1>5. /\ post' = [post EXCEPT ![t] = None] /\ intent' = [intent EXCEPT ![w] = None]
      /\ UNCHANGED <<left, landed>>
  BY DEF Receipt
<1>6. intent'[w] = None /\ \A v \in Week \ {w} : intent'[v] = intent[v]
  BY <1>1, <1>3, <1>5
<1>7. CASE post[t].result = "rejected"
  <2>1. attempt' = [attempt EXCEPT ![w] = None]
    BY <1>7 DEF Receipt
  <2>2. attempt'[w] = None /\ \A v \in Week \ {w} : attempt'[v] = attempt[v]
    BY <1>1, <1>3, <2>1
  <2>3. \A v \in Week \ {w} : v \in Fenced(attempt) => attempt[v].phase \in {"saved", "unread"}
    BY <1>1, FencedAre
  <2>4. post'[t] = None /\ \A u \in Token \ {t} : post'[u] = post[u]
    BY <1>1, <1>5
  <2> QED BY <1>2, <1>5, <1>6, <2>2, <2>3, <2>4, EndedKeepsAsked
<1>8. CASE post[t].result # "rejected"
  <2> DEFINE a == [attempt EXCEPT ![w].phase = "saved"]
  <2>1. Read(sel, a, {"read"}) /\ {"read"} \in SUBSET Part
    BY <1>8 DEF Receipt, Part
  <2>2. /\ a \in [Week -> Attempt \cup {None}] /\ a[w].phase = "saved" /\ a[w].token = t /\ a[w] \in Attempt
        /\ \A v \in Week \ {w} : a[v] = attempt[v]
    BY <1>1, <1>3 DEF Attempt
  <2> HIDE DEF a
  <2>3. OnlyFenced(a, attempt')
    BY <1>1, <1>4, <2>1, <2>2, ReadIs
  <2>4. /\ w \in Fenced(a)
        /\ \A v \in Week \ {w} : v \in Fenced(a) <=> v \in Fenced(attempt)
    BY <1>1, <1>3, <2>2, FencedAre, NoneApart
  <2>5. attempt'[w] # None => attempt'[w].phase \in {"saved", "unread"} /\ attempt'[w].token = t
    BY <1>3, <2>2, <2>3, <2>4 DEF OnlyFenced
  <2>6. \A v \in Week \ {w} :
           /\ intent'[v] = intent[v]
           /\ v \notin Fenced(attempt) => attempt'[v] = attempt[v]
           /\ v \in Fenced(attempt) /\ attempt'[v] # None =>
                attempt'[v].phase \in {"saved", "unread"} /\ attempt'[v].token = attempt[v].token
    BY <1>6, <2>2, <2>3, <2>4 DEF OnlyFenced
  <2>7. attempt'[w] # None => attempt'[w].phase # "posting" /\ attempt'[w].token = t
    BY <2>5
  <2>8. attempt'[w] # None /\ attempt'[w].phase = "unknown" => intent'[w] # None
    BY <2>5
  <2>9. intent'[w] # None => /\ attempt'[w] # None /\ attempt'[w].phase = "unknown"
                             /\ attempt'[w].desired = intent'[w]
    BY <1>6
  <2>10. left'.press = left.press /\ UNCHANGED landed
    BY <1>5
  <2>11. post'[t] = None /\ \A u \in Token \ {t} : post'[u] = post[u]
    BY <1>1, <1>5
  <2> QED BY <1>2, <2>6, <2>7, <2>8, <2>9, <2>10, <2>11, EndedKeepsAsked
<1> QED BY <1>7, <1>8

LEMMA LostKeepsAsked ==
  ASSUME Asked, Typed', NEW t \in Token, NEW served \in BOOLEAN, CheckInLost(t, served)
  PROVE  Asked'
<1> DEFINE w == post[t].week
           q == IF served THEN [post[t] EXCEPT !.heard = FALSE] ELSE None
<1>1. post \in [Token -> CheckInPost \cup {None}] /\ attempt \in [Week -> Attempt \cup {None}] /\ left \in Left
  BY DEF Asked, Typed, VTypes
<1>2. post[t] # None /\ post[t].heard
  BY DEF CheckInLost
<1>3. w \in Week /\ attempt[w] \in Attempt /\ attempt[w].token = t /\ attempt[w].phase = "posting"
      /\ post[t] \in CheckInPost
  BY <1>2, HeardIsAwaited
<1>4. /\ post' = [post EXCEPT ![t] = q] /\ attempt' = [attempt EXCEPT ![w].phase = "unknown"]
      /\ UNCHANGED <<landed, intent>> /\ Spend("fault") /\ (served => post[t].result = None)
  BY DEF CheckInLost
<1>5. q # None => ~q.heard /\ q.result = None
  BY <1>3, <1>4 DEF CheckInPost
<1>6. left'.press = left.press
  BY <1>1, <1>4, SpendKeeps DEF Left
<1>7. /\ attempt'[w].phase = "unknown" /\ attempt'[w].token = t /\ attempt'[w].desired = attempt[w].desired
      /\ attempt'[w] \in Attempt /\ \A v \in Week \ {w} : attempt'[v] = attempt[v]
  BY <1>1, <1>3, <1>4 DEF Attempt
<1>8. intent[w] # None /\ intent[w] = attempt[w].desired
  BY <1>3, NoneApart DEF Asked, IntentHeld
<1>9. \A v \in Week \ {w} : v \in Fenced(attempt) => attempt[v].phase \in {"saved", "unread"}
  BY <1>1, FencedAre
<1>10. attempt'[w] # None
  BY <1>7, NoneApart
<1>11. post'[t] = q /\ \A u \in Token \ {t} : post'[u] = post[u]
  BY <1>1, <1>4
<1> HIDE DEF q
<1>12. post'[t] # None => ~post'[t].heard /\ post'[t].result = None
  BY <1>5, <1>11
<1> QED BY <1>2, <1>3, <1>4, <1>6, <1>7, <1>8, <1>9, <1>10, <1>11, <1>12, EndedKeepsAsked
LEMMA InitAsked == VInit => Asked
<1> SUFFICES ASSUME VInit PROVE Asked
  OBVIOUS
<1>1. Typed
  BY InitTyped
<1>2. /\ \A w \in Week : attempt[w] = None /\ intent[w] = None
      /\ \A t \in Token : post[t] = None
  BY DEF VInit
<1> QED BY <1>1, <1>2 DEF Asked, PostsAwaited, IntentHeld

LEMMA SelectKeepsAsked ==
  ASSUME Asked, Typed', NEW w \in Int, NEW following \in BOOLEAN, grid # None, Select(w, following)
  PROVE  Asked'
<1> DEFINE s == [sel EXCEPT !.week = w, !.following = following]
<1>1. /\ attempt \in [Week -> Attempt \cup {None}] /\ left \in Left
      /\ drop \in [1 .. MaxDrop -> OrderPost \cup {None}] /\ sel \in Selection
  BY Selected DEF Asked, Typed, VTypes, SelectedFirst
<1>2. s \in Selection /\ {"view"} \in SUBSET Part
  BY <1>1 DEF Selection, Part
<1>3. UNCHANGED <<post, landed, intent>> /\ Spend("nav")
  BY DEF Select
<1>4. left'.press = left.press
  BY <1>1, <1>3, SpendKeeps DEF Left
<1>5. OnlyFenced(attempt, attempt')
  <2>1. CASE s # sel
    <3>1. Read(s, attempt, {"view"})
      BY <2>1 DEF Select
    <3> HIDE DEF s
    <3> QED BY <1>1, <1>2, <3>1, ReadIs
  <2>2. CASE s = sel
    BY <1>1, <2>2, SameAttempts DEF Select
  <2> QED BY <2>1, <2>2
<1> QED BY <1>3, <1>4, <1>5, FencedKeepsAsked

LEMMA ClickKeepsAsked == ASSUME Asked, Typed', Click PROVE Asked'
<1>1. attempt \in [Week -> Attempt \cup {None}] /\ grid \in Grid \cup {None}
      /\ drop \in [1 .. MaxDrop -> OrderPost \cup {None}]
  BY DEF Asked, Typed, VTypes
<1>2. CASE PreviousWeek \/ NextWeek \/ ThisWeek
  <2>1. grid # None /\ sel \in Selection
    BY <1>2, Selected DEF Asked, Typed, SelectedFirst, PreviousWeek, NextWeek, ThisWeek
  <2>2. grid.week - 1 \in Int /\ grid.week + 1 \in Int /\ sel.current \in Int
    BY <1>1, <2>1 DEF Grid, Selection
  <2> QED BY <1>2, <2>1, <2>2, SelectKeepsAsked DEF PreviousWeek, NextWeek, ThisWeek
<1>3. ASSUME NEW w \in Week, PressBusy(w) PROVE Asked'
  BY <1>1, <1>3, SameAttempts, FencedKeepsAsked DEF PressBusy
<1>4. ASSUME NEW w \in Week, PressUnread(w) PROVE Asked'
  <2>1. sel \in Selection /\ {"read"} \in SUBSET Part
    BY <1>4, Selected DEF Asked, Typed, SelectedFirst, PressUnread, Button, Part
  <2>2. OnlyFenced(attempt, attempt')
    BY <1>1, <1>4, <2>1, ReadIs DEF PressUnread
  <2> QED BY <1>4, <2>2, FencedKeepsAsked DEF PressUnread
<1> QED BY <1>2, <1>3, <1>4, PressKeepsAsked DEF Click

LEMMA ReorderKeepsAsked == ASSUME Asked, Typed', Reorder PROVE Asked'
<1>1. attempt \in [Week -> Attempt \cup {None}] /\ left \in Left
      /\ grid \in Grid \cup {None} /\ drag \in Dragged \cup {None}
  BY DEF Asked, Typed, VTypes
<1>2. ASSUME NEW rows \in Seq(Habit), NEW from, grid # None, CommitOrder(rows, from),
             UNCHANGED <<post, landed, intent>>
      PROVE  Asked'
  BY <1>2, CommitOrderIs, FencedKeepsAsked DEF Asked
<1>3. ASSUME grid # None, NEW h \in Range(grid.rows), NEW k \in DOMAIN grid.rows, Drag(h, k)
      PROVE  Asked'
  <2>1. left'.press = left.press
    BY <1>1, <1>3, SpendKeeps DEF Drag, Left
  <2> QED BY <1>1, <1>3, <2>1, SameAttempts, FencedKeepsAsked DEF Drag
<1>4. ASSUME grid # None, NEW h \in Range(grid.rows), NEW k \in DOMAIN grid.rows, KeyMove(h, k)
      PROVE  Asked'
  <2>1. grid.rows \in Seq(Habit)
    BY <1>1, <1>4 DEF Grid
  <2>2. PlaceAt(grid.rows, h, k) \in Seq(Habit)
    BY <2>1, PlaceAtIs
  <2> QED BY <1>2, <1>4, <2>2 DEF KeyMove
<1>5. CASE Drop
  <2>1. grid # None /\ grid.rows \in Seq(Habit)
    BY <1>1, <1>5 DEF Asked, Typed, SelectedFirst, Drop, Grid
  <2> QED BY <1>2, <1>5, <2>1 DEF Drop
<1>6. CASE CancelDrag
  BY <1>1, <1>6, SameAttempts, FencedKeepsAsked DEF CancelDrag
<1> QED BY <1>3, <1>4, <1>5, <1>6 DEF Reorder

LEMMA ServeKeepsAsked == ASSUME Asked, Typed', Serve PROVE Asked'
<1>1. attempt \in [Week -> Attempt \cup {None}]
  BY DEF Asked, Typed, VTypes
<1>2. CASE ServeWeek
  BY <1>1, <1>2, SameAttempts, FencedKeepsAsked DEF ServeWeek
<1>3. ASSUME NEW n, ServeOrder(n) \/ ReadOrder(n) PROVE Asked'
  BY <1>1, <1>3, SameAttempts, FencedKeepsAsked DEF ServeOrder, ReadOrder
<1> QED BY <1>2, <1>3, CheckInKeepsAsked DEF Serve

LEMMA DeliverKeepsAsked == ASSUME Asked, Typed', Deliver PROVE Asked'
<1>1. /\ attempt \in [Week -> Attempt \cup {None}] /\ get \in WeekGet \cup {None}
      /\ drop \in [1 .. MaxDrop -> OrderPost \cup {None}] /\ store \in Store
      /\ sel \in Selection \cup {Unselected}
  BY DEF Asked, Typed, VTypes
<1>2. CASE WeekAnswered
  <2>1. get \in WeekGet \cup OrderPost /\ get.snap # None /\ Answer(get, Heard # {}, {"clicked"})
        /\ (Heard # {}) \in BOOLEAN
    BY <1>1, <1>2 DEF WeekAnswered
  <2>2. OnlyFenced(attempt, attempt')
    BY <2>1, AnswerIs DEF Asked
  <2> QED BY <1>2, <2>2, FencedKeepsAsked DEF WeekAnswered
<1>3. CASE Refresh
  <2> DEFINE s == [sel EXCEPT !.current = store.now,
                              !.week = IF sel.following THEN store.now ELSE @]
  <2>1. s \in Selection /\ {"refresh"} \in SUBSET Part
    BY <1>1, RefreshSelects
  <2>2. Read(s, attempt, {"refresh"})
    BY <1>3 DEF Refresh
  <2> HIDE DEF s
  <2>3. OnlyFenced(attempt, attempt')
    BY <1>1, <2>1, <2>2, ReadIs
  <2> QED BY <1>3, <2>3, FencedKeepsAsked DEF Refresh
<1>4. ASSUME NEW n \in 1 .. MaxDrop, OrderAnswered(n) PROVE Asked'
  <2>1. drop[n] \in OrderPost
    BY <1>1, <1>4 DEF OrderAnswered, Heard
  <2>2. OnlyFenced(attempt, attempt')
    BY <1>4, <2>1, AnswerIs DEF OrderAnswered, Asked
  <2> QED BY <1>4, <2>2, FencedKeepsAsked DEF OrderAnswered
<1>5. DOMAIN drop = 1 .. MaxDrop
  BY <1>1
<1> QED BY <1>2, <1>3, <1>4, <1>5, ReceiptKeepsAsked DEF Deliver

LEMMA FailKeepsAsked == ASSUME Asked, Typed', Fail PROVE Asked'
<1>1. attempt \in [Week -> Attempt \cup {None}] /\ left \in Left
  BY DEF Asked, Typed, VTypes
<1>2. Spend("fault") => left'.press = left.press
  BY <1>1, SpendKeeps DEF Left
<1>3. CASE WeekFailed
  <2>1. OnlyFenced(attempt, attempt')
    BY <1>1, <1>3, EndedIs DEF WeekFailed
  <2> QED BY <1>2, <1>3, <2>1, FencedKeepsAsked DEF WeekFailed
<1>4. CASE WeekRetried \/ Break
  BY <1>1, <1>2, <1>4, SameAttempts, FencedKeepsAsked DEF WeekRetried, Break
<1>5. ASSUME NEW n, NEW served, OrderLost(n, served) PROVE Asked'
  <2>1. OnlyFenced(attempt, attempt')
    BY <1>1, <1>5, EndedIs DEF OrderLost
  <2> QED BY <1>2, <1>5, <2>1, FencedKeepsAsked DEF OrderLost
<1>6. ASSUME NEW n, OrderRetried(n) PROVE Asked'
  BY <1>1, <1>2, <1>6, SameAttempts, FencedKeepsAsked DEF OrderRetried
<1> QED BY <1>3, <1>4, <1>5, <1>6, LostKeepsAsked DEF Fail

LEMMA NextKeepsAsked == Asked /\ [VNext]_tab => Asked'
<1> SUFFICES ASSUME Asked, [VNext]_tab PROVE Asked'
  OBVIOUS
<1>1. Typed'
  BY NextTyped DEF Asked
<1>2. CASE UNCHANGED tab
  BY <1>2 DEF tab, Asked, Typed, VTypes, SelectedFirst, PostsAwaited, IntentHeld
<1>3. CASE Elsewhere
  <2>1. attempt \in [Week -> Attempt \cup {None}] /\ left \in Left
    BY DEF Asked, Typed, VTypes
  <2>2. left'.press = left.press
    BY <1>3, <2>1, SpendKeeps DEF Elsewhere, Left
  <2> QED BY <1>1, <1>3, <2>1, <2>2, SameAttempts, FencedKeepsAsked DEF Elsewhere
<1> QED BY <1>1, <1>2, <1>3, ClickKeepsAsked, ReorderKeepsAsked, ServeKeepsAsked,
           DeliverKeepsAsked, FailKeepsAsked DEF VNext

-----------------------------------------------------------------------------
(* What a read that settles a receipt has seen.                             *)

\* An answer that can still land saw the commits of the receipts it will settle.
SeesReceipts(r) ==
  r # None /\ r.changed = {} /\ r.snap # None =>
    \A w \in Fenced(attempt) \cap r.since : attempt[w].token \in r.snap.sees

\* A receipt is for a commit, and until its read failed some request is out for it.
ReceiptsSeen ==
  /\ \A w \in Fenced(attempt) : attempt[w].token \in landed
  /\ \A w \in Fenced(attempt) : attempt[w].phase = "saved" => get # None \/ Heard # {}
  /\ SeesReceipts(get) /\ \A n \in 1 .. MaxDrop : SeesReceipts(drop[n])

\* The steps that bring no receipt: an answer on its way is the one it was, or is read now.
SameOrRead(d, e) ==
  e # None /\ e.changed = {} /\ e.snap # None =>
    (d # None /\ SameAnswer(d, e)) \/ e.snap.sees = landed

LEMMA ReceiptsKept ==
  ASSUME Asked, ReceiptsSeen, Asked',
         \A w \in Week : attempt'[w] # None /\ attempt'[w].phase \in {"saved", "unread"} =>
           w \in Fenced(attempt) /\ attempt'[w].token = attempt[w].token,
         \A w \in Week : attempt'[w] # None /\ attempt'[w].phase = "saved" => get' # None \/ Heard' # {},
         landed \subseteq landed',
         SameOrRead(get, get'), \A n \in 1 .. MaxDrop : SameOrRead(drop[n], drop'[n])
  PROVE  ReceiptsSeen'
<1>1. \A w \in Fenced(attempt)' : /\ w \in Week /\ attempt'[w] # None
                                  /\ attempt'[w].phase \in {"saved", "unread"}
                                  /\ w \in Fenced(attempt) /\ attempt'[w].token = attempt[w].token
  BY DEF Fenced
<1>2. ASSUME NEW d, NEW e, SameOrRead(d, e),
             d # None /\ d.changed = {} /\ d.snap # None =>
               \A w \in Fenced(attempt) \cap d.since : attempt[w].token \in d.snap.sees,
             e # None, e.changed = {}, e.snap # None, NEW w \in Fenced(attempt)', w \in e.since
      PROVE  attempt'[w].token \in e.snap.sees
  BY <1>1, <1>2 DEF SameOrRead, SameAnswer, ReceiptsSeen
<1>3. SeesReceipts(get)' /\ \A n \in 1 .. MaxDrop : SeesReceipts(drop[n])'
  BY <1>2 DEF SeesReceipts, ReceiptsSeen
<1> QED BY <1>1, <1>3 DEF ReceiptsSeen

\* Attempts as before, or settled, or asked for again.
LEMMA ReceiptsKeptBy ==
  ASSUME Asked, ReceiptsSeen, Asked', OnlyFenced(attempt, attempt'),
         \A w \in Week : attempt'[w] # None /\ attempt'[w].phase = "saved" => get' # None \/ Heard' # {},
         landed \subseteq landed',
         SameOrRead(get, get'), \A n \in 1 .. MaxDrop : SameOrRead(drop[n], drop'[n])
  PROVE  ReceiptsSeen'
<1>1. attempt \in [Week -> Attempt \cup {None}]
  BY DEF Asked, Typed, VTypes
<1>2. \A w \in Week : attempt'[w] # None /\ attempt'[w].phase \in {"saved", "unread"} =>
         w \in Fenced(attempt) /\ attempt'[w].token = attempt[w].token
  BY <1>1, FencedAre DEF OnlyFenced
<1> QED BY <1>2, ReceiptsKept

\* Nothing about a read changes but the attempts, of which none comes to wait for one.
LEMMA ReceiptsKeptBySame ==
  ASSUME Asked, ReceiptsSeen, Asked', UNCHANGED <<get, drop>>, landed \subseteq landed',
         \A w \in Week : attempt'[w] # None /\ attempt'[w].phase \in {"saved", "unread"} =>
           attempt'[w] = attempt[w]
  PROVE  ReceiptsSeen'
<1>1. attempt \in [Week -> Attempt \cup {None}]
  BY DEF Asked, Typed, VTypes
<1>2. \A w \in Week : attempt'[w] # None /\ attempt'[w].phase \in {"saved", "unread"} =>
         w \in Fenced(attempt) /\ attempt'[w].token = attempt[w].token
  BY <1>1, FencedAre
<1>3. Heard' = Heard /\ get' = get
  BY DEF Heard
<1>4. \A w \in Week : attempt'[w] # None /\ attempt'[w].phase = "saved" => get' # None \/ Heard' # {}
  BY <1>2, <1>3 DEF ReceiptsSeen
<1>5. SameOrRead(get, get') /\ \A n \in 1 .. MaxDrop : SameOrRead(drop[n], drop'[n])
  BY DEF SameOrRead, SameAnswer
<1> QED BY <1>2, <1>4, <1>5, ReceiptsKept

\* A read asked for now has every receipt before it.
LEMMA ReadKeepsReceipts ==
  ASSUME Asked, Asked', NEW s \in Selection, NEW a \in [Week -> Attempt \cup {None}],
         NEW parts \in SUBSET Part, parts # {}, Read(s, a, parts),
         \A w \in Fenced(a) : a[w].token \in landed'
  PROVE  ReceiptsSeen'
<1>1. /\ get' # None /\ get'.snap = None /\ OnlyFenced(a, attempt')
      /\ \A n \in 1 .. MaxDrop : drop'[n] # None => drop'[n].changed # {}
  BY ReadIs DEF Asked, Typed, VTypes
<1>2. SeesReceipts(get)' /\ \A n \in 1 .. MaxDrop : SeesReceipts(drop[n])'
  BY <1>1 DEF SeesReceipts
<1>3. \A w \in Fenced(attempt)' : w \in Week /\ attempt'[w] # None /\ attempt'[w].phase \in {"saved", "unread"}
  BY DEF Fenced
<1>4. \A w \in Fenced(attempt)' : attempt'[w].token \in landed'
  BY <1>1, <1>3, FencedAre DEF OnlyFenced
<1> QED BY <1>1, <1>2, <1>4 DEF ReceiptsSeen

LEMMA ClickKeepsReceipts == ASSUME Asked, ReceiptsSeen, Asked', Click PROVE ReceiptsSeen'
<1>1. /\ attempt \in [Week -> Attempt \cup {None}] /\ grid \in Grid \cup {None}
      /\ drop \in [1 .. MaxDrop -> OrderPost \cup {None}] /\ get \in WeekGet \cup {None}
  BY DEF Asked, Typed, VTypes
<1>2. ASSUME NEW w \in Int, NEW following \in BOOLEAN, sel \in Selection, Select(w, following)
      PROVE  ReceiptsSeen'
  <2> DEFINE s == [sel EXCEPT !.week = w, !.following = following]
  <2>1. s \in Selection /\ {"view"} \in SUBSET Part
    BY <1>2 DEF Selection, Part
  <2>2. landed' = landed
    BY <1>2 DEF Select
  <2>3. CASE s # sel
    <3>1. Read(s, attempt, {"view"})
      BY <1>2, <2>3 DEF Select
    <3> HIDE DEF s
    <3> QED BY <1>1, <2>1, <2>2, <3>1, ReadKeepsReceipts DEF ReceiptsSeen
  <2>4. CASE s = sel
    <3>1. get' = Outdate(get, {"view"}) /\ Outdated({"view"}) /\ attempt' = attempt
      BY <1>2, <2>4 DEF Select
    <3>2. get' # None => get # None /\ get'.changed # {}
      BY <1>1, <2>1, <3>1, OutdateIs DEF Outdate
    <3>3. get # None => get' # None
      BY <1>1, <2>1, <3>1, OutdateIs, NoneApart
    <3>4. Heard' = Heard /\ \A n \in 1 .. MaxDrop : drop'[n] # None => drop'[n].changed # {}
      BY <1>1, <2>1, <3>1, OutdatedDrops
    <3>5. \A w_1 \in Week : attempt'[w_1] # None /\ attempt'[w_1].phase = "saved" => get' # None \/ Heard' # {}
      BY <1>1, <3>1, <3>3, <3>4, FencedAre DEF ReceiptsSeen
    <3>6. SameOrRead(get, get') /\ \A n \in 1 .. MaxDrop : SameOrRead(drop[n], drop'[n])
      BY <3>2, <3>4 DEF SameOrRead
    <3>7. OnlyFenced(attempt, attempt')
      BY <1>1, <3>1, SameAttempts
    <3> QED BY <2>2, <3>5, <3>6, <3>7, ReceiptsKeptBy
  <2> QED BY <2>3, <2>4
<1>3. CASE PreviousWeek \/ NextWeek \/ ThisWeek
  <2>1. grid # None /\ sel \in Selection
    BY <1>3, Selected DEF Asked, Typed, SelectedFirst, PreviousWeek, NextWeek, ThisWeek
  <2>2. grid.week - 1 \in Int /\ grid.week + 1 \in Int /\ sel.current \in Int
    BY <1>1, <2>1 DEF Grid, Selection
  <2> QED BY <1>2, <1>3, <2>1, <2>2 DEF PreviousWeek, NextWeek, ThisWeek
<1>4. ASSUME NEW w \in Week, Press(w) PROVE ReceiptsSeen'
  <2> DEFINE a == [token |-> left.press, desired |-> Desired(w), phase |-> "posting"]
  <2>1. attempt' = [attempt EXCEPT ![w] = a] /\ UNCHANGED <<get, drop, landed>>
    BY <1>4 DEF Press
  <2>2. a.phase = "posting"
    OBVIOUS
  <2>3. attempt'[w] = a /\ \A v \in Week \ {w} : attempt'[v] = attempt[v]
    BY <1>1, <2>1
  <2> HIDE DEF a
  <2> QED BY <2>1, <2>2, <2>3, ReceiptsKeptBySame
<1>5. ASSUME NEW w \in Week, PressBusy(w) PROVE ReceiptsSeen'
  BY <1>5, ReceiptsKeptBySame DEF PressBusy
<1>6. ASSUME NEW w \in Week, PressUnread(w) PROVE ReceiptsSeen'
  <2>1. sel \in Selection /\ {"read"} \in SUBSET Part
    BY <1>6, Selected DEF Asked, Typed, SelectedFirst, PressUnread, Button, Part
  <2> QED BY <1>1, <1>6, <2>1, ReadKeepsReceipts DEF PressUnread, ReceiptsSeen
<1> QED BY <1>3, <1>4, <1>5, <1>6 DEF Click

LEMMA ReorderKeepsReceipts == ASSUME Asked, ReceiptsSeen, Asked', Reorder PROVE ReceiptsSeen'
<1>1. attempt \in [Week -> Attempt \cup {None}] /\ grid \in Grid \cup {None}
  BY DEF Asked, Typed, VTypes
<1>2. ASSUME NEW rows \in Seq(Habit), NEW from, grid # None, CommitOrder(rows, from),
             UNCHANGED <<get, landed>>
      PROVE  ReceiptsSeen'
  <2>1. CASE rows = from
    BY <1>2, <2>1, ReceiptsKeptBySame DEF CommitOrder
  <2>2. CASE rows # from
    <3>1. /\ OnlyFenced(attempt, attempt') /\ \E n \in Heard' : drop'[n].changed = {}
          /\ \A n \in 1 .. MaxDrop : drop'[n] # None =>
               (drop[n] # None /\ SameAnswer(drop[n], drop'[n])) \/ drop'[n].snap = None
      BY <1>2, <2>2, CommitOrderIs DEF Asked
    <3>2. SameOrRead(get, get') /\ \A n \in 1 .. MaxDrop : SameOrRead(drop[n], drop'[n])
      BY <1>2, <3>1 DEF SameOrRead, SameAnswer
    <3> QED BY <1>2, <3>1, <3>2, ReceiptsKeptBy
  <2> QED BY <2>1, <2>2
<1>3. ASSUME grid # None, NEW h \in Range(grid.rows), NEW k \in DOMAIN grid.rows, Drag(h, k)
      PROVE  ReceiptsSeen'
  BY <1>3, ReceiptsKeptBySame DEF Drag
<1>4. ASSUME grid # None, NEW h \in Range(grid.rows), NEW k \in DOMAIN grid.rows, KeyMove(h, k)
      PROVE  ReceiptsSeen'
  <2>1. grid.rows \in Seq(Habit)
    BY <1>1, <1>4 DEF Grid
  <2>2. PlaceAt(grid.rows, h, k) \in Seq(Habit)
    BY <2>1, PlaceAtIs
  <2> QED BY <1>2, <1>4, <2>2 DEF KeyMove
<1>5. CASE Drop
  <2>1. grid # None /\ grid.rows \in Seq(Habit)
    BY <1>1, <1>5 DEF Asked, Typed, SelectedFirst, Drop, Grid
  <2> QED BY <1>2, <1>5, <2>1 DEF Drop
<1>6. CASE CancelDrag
  BY <1>6, ReceiptsKeptBySame DEF CancelDrag
<1> QED BY <1>3, <1>4, <1>5, <1>6 DEF Reorder

LEMMA ServeWeekIs ==
  ASSUME Typed, ServeWeek
  PROVE  /\ get \in WeekGet /\ get' \in WeekGet /\ get # None /\ get' # None
         /\ get'.week = get.week /\ get'.changed = get.changed /\ get'.since = get.since
         /\ get'.snap = Snapshot(get.week, store)
         /\ UNCHANGED <<store, sel, grid, attempt, drop, drag, stream, landed, missed>>
<1>1. get \in WeekGet /\ get' = [get EXCEPT !.snap = Snapshot(get.week, store)]
      /\ UNCHANGED <<store, sel, grid, attempt, drop, drag, stream, landed, missed>>
  BY DEF ServeWeek, Typed, VTypes
<1>2. Snapshot(get.week, store) \in Shown
  BY <1>1, SnapshotIsShown DEF WeekGet
<1>3. get' \in WeekGet /\ get'.week = get.week /\ get'.changed = get.changed
      /\ get'.since = get.since /\ get'.snap = Snapshot(get.week, store)
  BY <1>1, <1>2 DEF WeekGet
<1> QED BY <1>1, <1>3, NoneApart

LEMMA ServeOrderIs ==
  ASSUME Typed, NEW n \in 1 .. MaxDrop, ServeOrder(n)
  PROVE  /\ Heard \subseteq Heard'
         /\ \A m \in 1 .. MaxDrop : drop'[m] # None => drop[m] # None /\ SameAnswer(drop[m], drop'[m])
         /\ UNCHANGED <<sel, grid, get, attempt, drag, landed, missed>>
         /\ store' # store => stream' # "idle"
         /\ store' = store => stream' = stream
<1>1. drop \in [1 .. MaxDrop -> OrderPost \cup {None}] /\ drop[n] \in OrderPost /\ drop[n] # None
  BY DEF ServeOrder, Typed, VTypes
<1>2. drop' = [drop EXCEPT ![n] = IF drop[n].heard THEN [drop[n] EXCEPT !.served = TRUE] ELSE None]
      /\ UNCHANGED <<sel, grid, get, attempt, drag, landed, missed>>
      /\ stream' = IF store' # store THEN Announced ELSE stream
  BY DEF ServeOrder
<1>3. \A m \in (1 .. MaxDrop) \ {n} : drop'[m] = drop[m]
  BY <1>1, <1>2
<1>4. CASE drop[n].heard
  <2>1. drop'[n] = [drop[n] EXCEPT !.served = TRUE]
    BY <1>1, <1>2, <1>4
  <2>2. drop'[n] \in OrderPost
    BY <1>1, <2>1 DEF OrderPost
  <2>3. drop'[n] # None
    BY <2>2, NoneApart
  <2>4. drop'[n].heard /\ SameAnswer(drop[n], drop'[n])
    BY <1>1, <1>4, <2>1, <2>3 DEF OrderPost, SameAnswer
  <2>5. \A m \in 1 .. MaxDrop : drop'[m] # None => drop[m] # None /\ SameAnswer(drop[m], drop'[m])
    BY <1>1, <1>3, <2>4 DEF SameAnswer
  <2>6. Heard \subseteq Heard'
    BY <1>1, <1>2, <1>3, <2>3, <2>4 DEF Heard
  <2> QED BY <1>2, <2>5, <2>6 DEF Announced
<1>5. CASE ~drop[n].heard
  <2>1. drop'[n] = None
    BY <1>1, <1>2, <1>5
  <2>2. Heard \subseteq Heard'
    BY <1>1, <1>2, <1>3, <1>5 DEF Heard
  <2> QED BY <1>2, <1>3, <2>1, <2>2 DEF SameAnswer, Announced
<1> QED BY <1>4, <1>5

LEMMA ReadOrderIs ==
  ASSUME Typed, NEW n \in 1 .. MaxDrop, ReadOrder(n)
  PROVE  /\ Heard \subseteq Heard'
         /\ \A m \in (1 .. MaxDrop) \ {n} : drop'[m] = drop[m]
         /\ drop[n] # None /\ drop'[n] # None /\ drop'[n].week = drop[n].week
         /\ drop'[n].changed = drop[n].changed /\ drop'[n].since = drop[n].since
         /\ drop'[n].snap = Snapshot(drop[n].week, store)
         /\ UNCHANGED <<store, sel, grid, get, attempt, drag, stream, landed, missed>>
<1>1. drop \in [1 .. MaxDrop -> OrderPost \cup {None}] /\ drop[n] \in OrderPost /\ drop[n] # None
  BY DEF ReadOrder, Typed, VTypes
<1>2. drop' = [drop EXCEPT ![n].snap = Snapshot(drop[n].week, store)]
      /\ UNCHANGED <<store, sel, grid, get, attempt, drag, stream, landed, missed>>
  BY DEF ReadOrder
<1>3. drop'[n] = [drop[n] EXCEPT !.snap = Snapshot(drop[n].week, store)]
      /\ \A m \in (1 .. MaxDrop) \ {n} : drop'[m] = drop[m]
  BY <1>1, <1>2
<1>4. Snapshot(drop[n].week, store) \in Shown
  BY <1>1, SnapshotIsShown DEF OrderPost
<1>5. drop'[n] \in OrderPost /\ drop'[n].week = drop[n].week /\ drop'[n].changed = drop[n].changed
      /\ drop'[n].since = drop[n].since /\ drop'[n].heard = drop[n].heard
      /\ drop'[n].snap = Snapshot(drop[n].week, store)
  BY <1>1, <1>3, <1>4 DEF OrderPost
<1>6. drop'[n] # None
  BY <1>5, NoneApart
<1>7. Heard \subseteq Heard'
  BY <1>1, <1>2, <1>3, <1>5, <1>6 DEF Heard
<1> QED BY <1>1, <1>2, <1>3, <1>5, <1>6, <1>7

LEMMA ServeKeepsReceipts == ASSUME Asked, ReceiptsSeen, Asked', Serve PROVE ReceiptsSeen'
<1>1. /\ attempt \in [Week -> Attempt \cup {None}] /\ get \in WeekGet \cup {None}
      /\ drop \in [1 .. MaxDrop -> OrderPost \cup {None}]
  BY DEF Asked, Typed, VTypes
<1>2. ASSUME attempt' = attempt, landed' = landed, get # None \/ Heard # {} => get' # None \/ Heard' # {},
             SameOrRead(get, get'), \A n \in 1 .. MaxDrop : SameOrRead(drop[n], drop'[n])
      PROVE  ReceiptsSeen'
  <2>1. \A w \in Week : attempt'[w] # None /\ attempt'[w].phase = "saved" => get' # None \/ Heard' # {}
    BY <1>1, <1>2, FencedAre DEF ReceiptsSeen
  <2> QED BY <1>1, <1>2, <2>1, SameAttempts, ReceiptsKeptBy
<1>3. CASE ServeWeek
  <2>1. get' # None /\ get'.snap = Snapshot(get.week, store) /\ UNCHANGED <<attempt, landed, drop>>
    BY <1>3, ServeWeekIs DEF Asked
  <2>2. get'.snap.sees = landed
    BY <2>1 DEF Snapshot
  <2>3. SameOrRead(get, get') /\ \A n \in 1 .. MaxDrop : SameOrRead(drop[n], drop'[n])
    BY <2>1, <2>2 DEF SameOrRead, SameAnswer
  <2> QED BY <1>2, <2>1, <2>3
<1>4. ASSUME NEW t \in Token, CheckIn(t) PROVE ReceiptsSeen'
  <2>1. landed \subseteq landed' /\ UNCHANGED <<get, drop, attempt>>
    BY <1>4 DEF CheckIn
  <2> QED BY <2>1, ReceiptsKeptBySame
<1>5. ASSUME NEW n \in 1 .. MaxDrop, ServeOrder(n) PROVE ReceiptsSeen'
  BY <1>2, <1>5, ServeOrderIs DEF Asked, SameOrRead, SameAnswer
<1>6. ASSUME NEW n \in 1 .. MaxDrop, ReadOrder(n) PROVE ReceiptsSeen'
  <2>1. drop'[n].snap = Snapshot(drop[n].week, store)
    BY <1>6, ReadOrderIs DEF Asked
  <2>2. drop'[n].snap.sees = landed
    BY <2>1 DEF Snapshot
  <2> QED BY <1>2, <1>6, <2>2, ReadOrderIs DEF Asked, SameOrRead, SameAnswer
<1>7. DOMAIN drop = 1 .. MaxDrop
  BY <1>1
<1> QED BY <1>3, <1>4, <1>5, <1>6, <1>7 DEF Serve

LEMMA DeliverKeepsReceipts == ASSUME Asked, ReceiptsSeen, Asked', Deliver PROVE ReceiptsSeen'
<1>1. /\ attempt \in [Week -> Attempt \cup {None}] /\ get \in WeekGet \cup {None} /\ store \in Store
      /\ drop \in [1 .. MaxDrop -> OrderPost \cup {None}] /\ post \in [Token -> CheckInPost \cup {None}]
      /\ sel \in Selection \cup {Unselected}
  BY DEF Asked, Typed, VTypes
<1>2. CASE WeekAnswered
  <2>1. get \in WeekGet \cup OrderPost /\ get.snap # None /\ Answer(get, Heard # {}, {"clicked"})
        /\ (Heard # {}) \in BOOLEAN /\ get' = None /\ UNCHANGED <<drop, landed>>
    BY <1>1, <1>2 DEF WeekAnswered
  <2>2. /\ OnlyFenced(attempt, attempt')
        /\ \A w \in Week : attempt'[w] # None /\ attempt'[w].phase = "saved" => Heard # {}
    BY <2>1, AnswerIs DEF Asked
  <2>3. Heard' = Heard
    BY <2>1 DEF Heard
  <2>4. SameOrRead(get, get') /\ \A n \in 1 .. MaxDrop : SameOrRead(drop[n], drop'[n])
    BY <2>1 DEF SameOrRead, SameAnswer
  <2> QED BY <2>1, <2>2, <2>3, <2>4, ReceiptsKeptBy
<1>3. CASE Refresh
  <2> DEFINE s == [sel EXCEPT !.current = store.now,
                              !.week = IF sel.following THEN store.now ELSE @]
  <2>1. s \in Selection /\ {"refresh"} \in SUBSET Part
    BY <1>1, RefreshSelects
  <2>2. Read(s, attempt, {"refresh"}) /\ landed' = landed
    BY <1>3 DEF Refresh
  <2> HIDE DEF s
  <2> QED BY <1>1, <2>1, <2>2, ReadKeepsReceipts DEF ReceiptsSeen
<1>4. ASSUME NEW t \in Token, Receipt(t) PROVE ReceiptsSeen'
  <2>1. post[t] # None /\ post[t].result # None /\ landed' = landed
    BY <1>4 DEF Receipt
  <2>2. post[t].heard
    BY <2>1 DEF Asked, PostsAwaited
  <2>3. post[t] \in CheckInPost /\ post[t].week \in Week /\ attempt[post[t].week] \in Attempt
        /\ attempt[post[t].week].token = t
    BY <2>1, <2>2, HeardIsAwaited
  <2>4. CASE post[t].result = "rejected"
    <3>1. attempt' = [attempt EXCEPT ![post[t].week] = None] /\ UNCHANGED <<get, drop>>
      BY <1>4, <2>4 DEF Receipt
    <3>2. \A w \in Week : attempt'[w] # None => attempt'[w] = attempt[w]
      BY <1>1, <2>3, <3>1
    <3> QED BY <2>1, <3>1, <3>2, ReceiptsKeptBySame
  <2>5. CASE post[t].result # "rejected"
    <3> DEFINE a == [attempt EXCEPT ![post[t].week].phase = "saved"]
    <3>1. Read(sel, a, {"read"}) /\ {"read"} \in SUBSET Part
      BY <1>4, <2>5 DEF Receipt, Part
    <3>2. /\ a \in [Week -> Attempt \cup {None}] /\ a[post[t].week].token = t
          /\ \A w \in Week \ {post[t].week} : a[w] = attempt[w]
      BY <1>1, <2>3 DEF Attempt
    <3> HIDE DEF a
    <3>3. sel \in Selection
      BY <1>1, <2>1 DEF Asked, Typed, SelectedFirst
    <3>4. t \in landed
      <4>1. post[t].result = "committed"
        BY <2>1, <2>3, <2>5 DEF CheckInPost
      <4> QED BY <2>1, <4>1 DEF Asked, PostsAwaited
    <3>5. \A w \in Fenced(a) : a[w].token \in landed
      <4> SUFFICES ASSUME NEW w \in Fenced(a) PROVE a[w].token \in landed
        OBVIOUS
      <4>1. CASE w = post[t].week
        BY <3>2, <3>4, <4>1
      <4>2. CASE w # post[t].week
        <5>1. w \in Fenced(attempt) /\ a[w] = attempt[w]
          BY <1>1, <3>2, <4>2, FencedAre
        <5> QED BY <5>1 DEF ReceiptsSeen
      <4> QED BY <4>1, <4>2
    <3> QED BY <2>1, <3>1, <3>2, <3>3, <3>5, ReadKeepsReceipts
  <2> QED BY <2>4, <2>5
<1>5. ASSUME NEW n \in 1 .. MaxDrop, OrderAnswered(n) PROVE ReceiptsSeen'
  <2>1. drop[n] \in WeekGet \cup OrderPost /\ drop[n].snap # None /\ Answer(drop[n], get # None, {})
        /\ (get # None) \in BOOLEAN /\ drop' = [drop EXCEPT ![n] = None] /\ UNCHANGED <<get, landed>>
    BY <1>1, <1>5 DEF OrderAnswered, Heard
  <2>2. /\ OnlyFenced(attempt, attempt')
        /\ \A w \in Week : attempt'[w] # None /\ attempt'[w].phase = "saved" => get # None
    BY <2>1, AnswerIs DEF Asked
  <2>3. SameOrRead(get, get') /\ \A m \in 1 .. MaxDrop : SameOrRead(drop[m], drop'[m])
    BY <1>1, <2>1 DEF SameOrRead, SameAnswer
  <2> QED BY <2>1, <2>2, <2>3, ReceiptsKeptBy
<1>6. DOMAIN drop = 1 .. MaxDrop
  BY <1>1
<1> QED BY <1>2, <1>3, <1>4, <1>5, <1>6 DEF Deliver

LEMMA FailKeepsReceipts == ASSUME Asked, ReceiptsSeen, Asked', Fail PROVE ReceiptsSeen'
<1>1. /\ attempt \in [Week -> Attempt \cup {None}] /\ get \in WeekGet \cup {None}
      /\ drop \in [1 .. MaxDrop -> OrderPost \cup {None}] /\ post \in [Token -> CheckInPost \cup {None}]
  BY DEF Asked, Typed, VTypes
<1>2. CASE WeekFailed
  <2>1. get' = None /\ attempt' = Ended(attempt, Heard # {}) /\ UNCHANGED <<drop, landed>>
        /\ (Heard # {}) \in BOOLEAN
    BY <1>2 DEF WeekFailed
  <2>2. /\ OnlyFenced(attempt, attempt')
        /\ \A w \in Week : attempt'[w] # None /\ attempt'[w].phase = "saved" => Heard # {}
    BY <1>1, <2>1, EndedIs
  <2>3. Heard' = Heard
    BY <2>1 DEF Heard
  <2>4. SameOrRead(get, get') /\ \A n \in 1 .. MaxDrop : SameOrRead(drop[n], drop'[n])
    BY <2>1 DEF SameOrRead, SameAnswer
  <2> QED BY <2>1, <2>2, <2>3, <2>4, ReceiptsKeptBy
<1>3. CASE WeekRetried
  <2>1. sel \in Selection
    BY <1>3, Selected DEF WeekRetried, Asked, Typed, SelectedFirst
  <2>2. get' = Reading(sel, attempt) /\ UNCHANGED <<drop, landed, attempt>>
    BY <1>3 DEF WeekRetried
  <2>3. get' # None /\ get'.snap = None
    BY <1>1, <2>1, <2>2, ReadingIs
  <2>4. SameOrRead(get, get') /\ \A n \in 1 .. MaxDrop : SameOrRead(drop[n], drop'[n])
    BY <2>2, <2>3 DEF SameOrRead, SameAnswer
  <2> QED BY <1>1, <2>2, <2>3, <2>4, SameAttempts, ReceiptsKeptBy
<1>4. CASE Break
  BY <1>4, ReceiptsKeptBySame DEF Break
<1>5. ASSUME NEW t \in Token, NEW served \in BOOLEAN, CheckInLost(t, served) PROVE ReceiptsSeen'
  <2>1. post[t] # None /\ post[t].heard /\ UNCHANGED <<get, drop, landed>>
        /\ attempt' = [attempt EXCEPT ![post[t].week].phase = "unknown"]
    BY <1>5 DEF CheckInLost
  <2>2. post[t].week \in Week /\ attempt[post[t].week] \in Attempt
    BY <2>1, HeardIsAwaited
  <2>3. attempt'[post[t].week].phase = "unknown"
        /\ \A w \in Week \ {post[t].week} : attempt'[w] = attempt[w]
    BY <1>1, <2>1, <2>2 DEF Attempt
  <2> QED BY <2>1, <2>3, ReceiptsKeptBySame
<1>6. ASSUME NEW n \in 1 .. MaxDrop, NEW served \in BOOLEAN, OrderLost(n, served) PROVE ReceiptsSeen'
  <2>1. /\ drop' = [drop EXCEPT ![n] = IF served THEN [drop[n] EXCEPT !.heard = FALSE] ELSE None]
        /\ attempt' = Ended(attempt, get # None) /\ UNCHANGED <<get, landed>> /\ (get # None) \in BOOLEAN
    BY <1>6 DEF OrderLost
  <2>2. /\ OnlyFenced(attempt, attempt')
        /\ \A w \in Week : attempt'[w] # None /\ attempt'[w].phase = "saved" => get # None
    BY <1>1, <2>1, EndedIs
  <2>3. drop[n] \in OrderPost
    BY <1>1, <1>6 DEF OrderLost, Heard
  <2>4. drop'[n] # None => drop[n] # None /\ SameAnswer(drop[n], drop'[n])
    <3>1. drop'[n] # None => drop'[n] = [drop[n] EXCEPT !.heard = FALSE]
      BY <1>1, <2>1
    <3> QED BY <2>3, <3>1, NoneApart DEF OrderPost, SameAnswer
  <2>5. \A m \in (1 .. MaxDrop) \ {n} : drop'[m] = drop[m]
    BY <1>1, <2>1
  <2>6. SameOrRead(get, get') /\ \A m \in 1 .. MaxDrop : SameOrRead(drop[m], drop'[m])
    <3>1. \A m \in (1 .. MaxDrop) \ {n} : SameOrRead(drop[m], drop'[m])
      BY <2>5 DEF SameOrRead, SameAnswer
    <3>2. SameOrRead(drop[n], drop'[n])
      BY <2>4 DEF SameOrRead
    <3>3. SameOrRead(get, get')
      BY <2>1 DEF SameOrRead, SameAnswer
    <3> QED BY <3>1, <3>2, <3>3
  <2> QED BY <2>1, <2>2, <2>6, ReceiptsKeptBy
<1>7. ASSUME NEW n \in 1 .. MaxDrop, OrderRetried(n) PROVE ReceiptsSeen'
  <2>1. /\ drop'[n] # None /\ drop'[n].heard /\ drop'[n].snap = None
        /\ \A m \in (1 .. MaxDrop) \ {n} : drop'[m] = drop[m]
        /\ drop' \in [1 .. MaxDrop -> OrderPost \cup {None}] /\ UNCHANGED <<get, attempt, landed>>
    BY <1>7, OrderRetriedIs DEF Asked
  <2>2. Heard' # {}
    BY <2>1 DEF Heard
  <2>3. SameOrRead(get, get') /\ \A m \in 1 .. MaxDrop : SameOrRead(drop[m], drop'[m])
    BY <2>1 DEF SameOrRead, SameAnswer
  <2>4. OnlyFenced(attempt, attempt')
    BY <1>1, <2>1, SameAttempts
  <2> QED BY <2>1, <2>2, <2>3, <2>4, ReceiptsKeptBy
<1>8. DOMAIN drop = 1 .. MaxDrop
  BY <1>1
<1> QED BY <1>2, <1>3, <1>4, <1>5, <1>6, <1>7, <1>8 DEF Fail

LEMMA NextKeepsReceipts == Asked /\ ReceiptsSeen /\ [VNext]_tab => ReceiptsSeen'
<1> SUFFICES ASSUME Asked, ReceiptsSeen, [VNext]_tab PROVE ReceiptsSeen'
  OBVIOUS
<1>1. Asked'
  BY NextKeepsAsked
<1>2. CASE UNCHANGED tab
  BY <1>1, <1>2, ReceiptsKeptBySame DEF tab
<1>3. CASE Elsewhere
  BY <1>1, <1>3, ReceiptsKeptBySame DEF Elsewhere
<1> QED BY <1>1, <1>2, <1>3, ClickKeepsReceipts, ReorderKeepsReceipts, ServeKeepsReceipts,
           DeliverKeepsReceipts, FailKeepsReceipts DEF VNext

-----------------------------------------------------------------------------
(* What the answers on their way show, and what the grid shows meanwhile.   *)

\* An answer that can land is of the selected week, and while no refresh is due, as stored.
FollowsStore(r) ==
  r # None /\ r.changed = {} =>
    /\ r.week = sel.week
    /\ stream = "idle" /\ r.snap # None => r.snap = Snapshot(r.week, store)

\* An order whose answer can land is on its way.
Fresh == \E n \in Heard : drop[n].changed = {}

\* The order the grid goes back to when no row is dragged.
Rows == IF drag = None THEN grid.rows ELSE drag.from

GridShows ==
  /\ grid # None /\ grid.week = sel.week /\ grid.live = (sel.week = store.now)
  /\ grid.open = (store.start <= sel.week) /\ grid.ticked = (sel.week \in store.ticks)
  /\ Rows = store.order \/ Fresh

\* While no refresh is due the selection is of the current week, and the grid shows what is
\* stored unless an answer that will say so is on its way, or the tab missed one.
GridFollows ==
  /\ FollowsStore(get) /\ \A n \in 1 .. MaxDrop : FollowsStore(drop[n])
  /\ stream = "idle" => sel.current = store.now /\ (sel.following => sel.week = store.now)
  /\ stream = "idle" /\ missed = {} /\ get = None => GridShows

ViewInv == Asked /\ ReceiptsSeen /\ GridFollows

\* A refresh is due.
LEMMA DueKeepsFollows ==
  ASSUME GridFollows, stream' # "idle", sel' = sel, get' = get,
         \A n \in 1 .. MaxDrop : drop'[n] # None => drop[n] # None /\ SameAnswer(drop[n], drop'[n])
  PROVE  GridFollows'
BY DEF GridFollows, FollowsStore, SameAnswer

\* The grid shows what it did, and the answers on their way are the same.
LEMMA SameKeepsFollows ==
  ASSUME GridFollows, UNCHANGED <<store, sel, get, stream, landed>>,
         missed' = {} => missed = {},
         \A n \in 1 .. MaxDrop : drop'[n] # None => drop[n] # None /\ SameAnswer(drop[n], drop'[n]),
         Fresh => Fresh',
         grid # None => /\ grid' # None /\ grid'.week = grid.week /\ grid'.live = grid.live
                        /\ grid'.open = grid.open /\ grid'.ticked = grid.ticked /\ Rows' = Rows
  PROVE  GridFollows'
<1>1. \A w : Snapshot(w, store)' = Snapshot(w, store)
  BY DEF Snapshot
<1>2. FollowsStore(get)' /\ \A n \in 1 .. MaxDrop : FollowsStore(drop[n])'
  BY <1>1 DEF GridFollows, FollowsStore, SameAnswer
<1>3. stream' = "idle" /\ missed' = {} /\ get' = None => GridShows'
  BY DEF GridFollows, GridShows
<1> QED BY <1>2, <1>3 DEF GridFollows

\* A read is on its way.
LEMMA ReadKeepsFollows ==
  ASSUME Typed, NEW s \in Selection, NEW a \in [Week -> Attempt \cup {None}],
         NEW parts \in SUBSET Part, parts # {}, Read(s, a, parts), store' = store,
         stream' = "idle" => s.current = store.now /\ (s.following => s.week = store.now)
  PROVE  GridFollows'
<1>1. /\ sel' = s /\ get' # None /\ get'.week = s.week /\ get'.snap = None
      /\ \A n \in 1 .. MaxDrop : drop'[n] # None => drop'[n].changed # {}
  BY ReadIs DEF Typed, VTypes
<1> QED BY <1>1 DEF GridFollows, FollowsStore

LEMMA SelectKeepsFollows ==
  ASSUME Typed, GridFollows, NEW w \in Int, NEW following \in BOOLEAN, grid # None, Select(w, following),
         following => w = sel.current,
         following /\ sel.following => sel.week # sel.current,
         ~following => grid.week # w
  PROVE  GridFollows'
<1> DEFINE s == [sel EXCEPT !.week = w, !.following = following]
<1>1. sel \in Selection /\ get \in WeekGet \cup {None} /\ attempt \in [Week -> Attempt \cup {None}]
      /\ drop \in [1 .. MaxDrop -> OrderPost \cup {None}]
  BY Selected DEF Typed, VTypes, SelectedFirst
<1>2. s \in Selection /\ s.week = w /\ s.following = following /\ s.current = sel.current
      /\ {"view"} \in SUBSET Part
  BY <1>1 DEF Selection, Part
<1>3. UNCHANGED <<store, grid, drag, stream, landed, missed>>
  BY DEF Select
<1>4. CASE s # sel
  <2>1. Read(s, attempt, {"view"})
    BY <1>4 DEF Select
  <2> HIDE DEF s
  <2>2. stream' = "idle" => s.current = store.now /\ (s.following => s.week = store.now)
    BY <1>2, <1>3 DEF GridFollows
  <2> QED BY <1>1, <1>2, <1>3, <2>1, <2>2, ReadKeepsFollows
<1>5. CASE s = sel
  <2>1. get' = Outdate(get, {"view"}) /\ Outdated({"view"}) /\ sel' = sel
    BY <1>5 DEF Select
  <2>2. sel.week = w /\ sel.following = following
    BY <1>2, <1>5
  <2>3. ~(stream = "idle" /\ missed = {} /\ get = None)
    BY <2>2 DEF GridFollows, GridShows
  <2>4. get # None => get' # None
    BY <1>1, <1>2, <2>1, OutdateIs, NoneApart
  <2>5. get' # None => get'.changed # {}
    BY <1>1, <1>2, <2>1, OutdateIs DEF Outdate
  <2>6. \A n \in 1 .. MaxDrop : drop'[n] # None => drop'[n].changed # {}
    BY <1>1, <1>2, <2>1, OutdatedDrops
  <2> QED BY <1>3, <2>1, <2>3, <2>4, <2>5, <2>6 DEF GridFollows, FollowsStore
<1> QED BY <1>4, <1>5

LEMMA ClickKeepsFollows == ASSUME Typed, GridFollows, Click PROVE GridFollows'
<1>1. grid \in Grid \cup {None} /\ attempt \in [Week -> Attempt \cup {None}]
  BY DEF Typed, VTypes
<1>2. CASE PreviousWeek \/ NextWeek \/ ThisWeek
  <2>1. grid # None /\ sel \in Selection
    BY <1>2, Selected DEF Typed, SelectedFirst, PreviousWeek, NextWeek, ThisWeek
  <2>2. grid.week \in Int /\ sel.current \in Int
    BY <1>1, <2>1 DEF Grid, Selection
  <2>3. CASE PreviousWeek \/ NextWeek
    <3>1. grid.week - 1 \in Int /\ grid.week + 1 \in Int
          /\ grid.week - 1 # grid.week /\ grid.week + 1 # grid.week
      BY <2>2
    <3> QED BY <2>1, <2>3, <3>1, SelectKeepsFollows DEF PreviousWeek, NextWeek
  <2>4. CASE ThisWeek
    BY <2>1, <2>2, <2>4, SelectKeepsFollows DEF ThisWeek
  <2> QED BY <1>2, <2>3, <2>4
<1>3. ASSUME NEW w \in Week, Press(w) \/ PressBusy(w) PROVE GridFollows'
  <2>1. /\ grid # None /\ grid' = [grid EXCEPT !.want = Desired(w)]
        /\ UNCHANGED <<store, sel, get, drop, drag, stream, landed, missed>>
    BY <1>3 DEF Press, PressBusy, Button
  <2>2. Desired(w) \in BOOLEAN
    BY <1>1, <2>1 DEF Desired, Grid, Attempt
  <2>3. /\ grid' \in Grid /\ grid'.week = grid.week /\ grid'.live = grid.live
        /\ grid'.open = grid.open /\ grid'.ticked = grid.ticked /\ grid'.rows = grid.rows
    BY <1>1, <2>1, <2>2 DEF Grid
  <2>4. grid' # None /\ Rows' = Rows
    BY <2>1, <2>3, NoneApart DEF Rows
  <2>5. Fresh' = Fresh /\ \A n \in 1 .. MaxDrop : drop'[n] # None => drop[n] # None /\ SameAnswer(drop[n], drop'[n])
    BY <2>1 DEF Fresh, Heard, SameAnswer
  <2> QED BY <2>1, <2>3, <2>4, <2>5, SameKeepsFollows
<1>4. ASSUME NEW w \in Week, PressUnread(w) PROVE GridFollows'
  <2>1. sel \in Selection /\ {"read"} \in SUBSET Part
    BY <1>4, Selected DEF Typed, SelectedFirst, PressUnread, Button, Part
  <2> QED BY <1>1, <1>4, <2>1, ReadKeepsFollows DEF PressUnread, GridFollows
<1> QED BY <1>2, <1>3, <1>4 DEF Click
LEMMA ReorderKeepsFollows == ASSUME Typed, GridFollows, Reorder PROVE GridFollows'
<1>1. grid \in Grid \cup {None} /\ drag \in Dragged \cup {None}
      /\ drop \in [1 .. MaxDrop -> OrderPost \cup {None}]
  BY DEF Typed, VTypes
<1>2. ASSUME NEW rows \in Seq(Habit), NEW from, grid # None, CommitOrder(rows, from),
             UNCHANGED <<store, sel, get, stream, landed, missed>>,
             grid' = [grid EXCEPT !.rows = rows], drag' = None, rows = from => rows = Rows
      PROVE  GridFollows'
  <2>1. /\ rows = from => UNCHANGED drop
        /\ rows # from => \E n \in Heard' : drop'[n].changed = {}
        /\ \A n \in 1 .. MaxDrop : drop'[n] # None =>
             \/ drop[n] # None /\ SameAnswer(drop[n], drop'[n])
             \/ drop'[n].week = sel.week /\ drop'[n].snap = None
    BY <1>2, CommitOrderIs
  <2>2. grid \in Grid /\ grid' \in Grid /\ grid'.rows = rows /\ grid'.week = grid.week
        /\ grid'.live = grid.live /\ grid'.open = grid.open /\ grid'.ticked = grid.ticked
    BY <1>1, <1>2 DEF Grid
  <2>3. grid' # None
    BY <2>2, NoneApart
  <2>4. Rows' = rows
    BY <1>2, <2>2 DEF Rows
  <2>5. \A w : Snapshot(w, store)' = Snapshot(w, store)
    BY <1>2 DEF Snapshot
  <2>6. FollowsStore(get)' /\ \A n \in 1 .. MaxDrop : FollowsStore(drop[n])'
    BY <1>2, <2>1, <2>5 DEF GridFollows, FollowsStore, SameAnswer
  <2>7. (Rows' = Rows /\ Fresh' = Fresh) \/ Fresh'
    BY <1>2, <2>1, <2>4 DEF Fresh, Heard
  <2>8. stream' = "idle" /\ missed' = {} /\ get' = None => GridShows'
    BY <1>2, <2>2, <2>3, <2>7 DEF GridFollows, GridShows
  <2> QED BY <1>2, <2>6, <2>8 DEF GridFollows
<1>3. ASSUME grid # None, NEW h \in Range(grid.rows), NEW k \in DOMAIN grid.rows, Drag(h, k)
      PROVE  GridFollows'
  <2>1. grid \in Grid /\ grid' = [grid EXCEPT !.rows = PlaceAt(grid.rows, h, k)]
        /\ drag' = (IF drag = None THEN [row |-> h, from |-> grid.rows] ELSE drag)
        /\ UNCHANGED <<store, sel, get, drop, stream, landed, missed>>
    BY <1>1, <1>3 DEF Drag
  <2>2. grid.rows \in Seq(Habit) /\ h \in Habit
    BY <2>1 DEF Grid, Range
  <2>3. PlaceAt(grid.rows, h, k) \in Seq(Habit)
    BY <2>2, PlaceAtIs
  <2>4. grid' \in Grid /\ grid'.week = grid.week
        /\ grid'.live = grid.live /\ grid'.open = grid.open /\ grid'.ticked = grid.ticked
    BY <2>1, <2>3 DEF Grid
  <2>5. Rows' = Rows
    <3>1. CASE drag = None
      <4> DEFINE d == [row |-> h, from |-> grid.rows]
      <4>1. d \in Dragged /\ d.from = grid.rows
        BY <2>2 DEF Dragged
      <4>2. drag' = d
        BY <2>1, <3>1
      <4> HIDE DEF d
      <4>3. drag' # None
        BY <4>1, <4>2, NoneApart
      <4> QED BY <3>1, <4>1, <4>2, <4>3 DEF Rows
    <3>2. CASE drag # None
      BY <2>1, <3>2 DEF Rows
    <3> QED BY <3>1, <3>2
  <2>6. Fresh' = Fresh /\ \A n \in 1 .. MaxDrop : drop'[n] # None => drop[n] # None /\ SameAnswer(drop[n], drop'[n])
    BY <2>1 DEF Fresh, Heard, SameAnswer
  <2>7. grid' # None
    BY <2>4, NoneApart
  <2> QED BY <2>1, <2>4, <2>5, <2>6, <2>7, SameKeepsFollows
<1>4. ASSUME grid # None, NEW h \in Range(grid.rows), NEW k \in DOMAIN grid.rows, KeyMove(h, k)
      PROVE  GridFollows'
  <2>1. grid.rows \in Seq(Habit)
    BY <1>1, <1>4 DEF Grid
  <2>2. PlaceAt(grid.rows, h, k) \in Seq(Habit)
    BY <2>1, PlaceAtIs
  <2> QED BY <1>2, <1>4, <2>2 DEF KeyMove
<1>5. CASE Drop
  <2>1. grid # None /\ grid.rows \in Seq(Habit) /\ grid \in Grid
    BY <1>1, <1>5 DEF Typed, SelectedFirst, Drop, Grid
  <2>2. grid' = [grid EXCEPT !.rows = grid.rows]
    BY <1>5, <2>1 DEF Drop, Grid
  <2>3. drag.from = Rows
    BY <1>5 DEF Drop, Rows
  <2>4. /\ CommitOrder(grid.rows, drag.from) /\ drag' = None
        /\ UNCHANGED <<store, sel, get, stream, landed, missed>>
    BY <1>5 DEF Drop
  <2> QED BY <1>2, <2>1, <2>2, <2>3, <2>4
<1>6. CASE CancelDrag
  <2>1. grid \in Grid /\ drag \in Dragged /\ drag # None
    BY <1>1, <1>6 DEF Typed, SelectedFirst, CancelDrag
  <2>2. /\ grid' = [grid EXCEPT !.rows = drag.from] /\ drag' = None
        /\ UNCHANGED <<store, sel, get, drop, stream, landed, missed>>
    BY <1>6 DEF CancelDrag
  <2>3. grid' \in Grid /\ grid'.week = grid.week /\ grid'.rows = drag.from
        /\ grid'.live = grid.live /\ grid'.open = grid.open /\ grid'.ticked = grid.ticked
    BY <2>1, <2>2 DEF Grid, Dragged
  <2>4. grid' # None /\ Rows' = Rows
    BY <2>1, <2>2, <2>3, NoneApart DEF Rows
  <2>5. Fresh' = Fresh /\ \A n \in 1 .. MaxDrop : drop'[n] # None => drop[n] # None /\ SameAnswer(drop[n], drop'[n])
    BY <2>2 DEF Fresh, Heard, SameAnswer
  <2> QED BY <2>2, <2>3, <2>4, <2>5, SameKeepsFollows
<1> QED BY <1>3, <1>4, <1>5, <1>6 DEF Reorder

LEMMA ServeKeepsFollows == ASSUME Typed, GridFollows, Serve PROVE GridFollows'
<1>1. drop \in [1 .. MaxDrop -> OrderPost \cup {None}]
  BY DEF Typed, VTypes
<1>2. CASE ServeWeek
  <2>1. /\ get # None /\ get'.week = get.week /\ get'.changed = get.changed /\ get' # None
        /\ get'.snap = Snapshot(get.week, store)
        /\ UNCHANGED <<store, sel, grid, drop, drag, stream, landed, missed>>
    BY <1>2, ServeWeekIs
  <2>2. \A w : Snapshot(w, store)' = Snapshot(w, store)
    BY <2>1 DEF Snapshot
  <2> QED BY <2>1, <2>2 DEF GridFollows, FollowsStore
<1>3. ASSUME NEW t \in Token, CheckIn(t) PROVE GridFollows'
  <2>1. UNCHANGED <<sel, grid, get, drop, drag, missed>>
    BY <1>3 DEF CheckIn
  <2>2. \A n \in 1 .. MaxDrop : drop'[n] # None => drop[n] # None /\ SameAnswer(drop[n], drop'[n])
    BY <2>1 DEF SameAnswer
  <2>3. CASE stream' # "idle"
    BY <2>1, <2>2, <2>3, DueKeepsFollows
  <2>4. CASE stream' = "idle"
    <3>1. UNCHANGED <<store, landed, stream>>
      BY <1>3, <2>4 DEF CheckIn, Announced
    <3>2. Fresh' = Fresh /\ Rows' = Rows
      BY <2>1 DEF Fresh, Heard, Rows
    <3> QED BY <2>1, <2>2, <3>1, <3>2, SameKeepsFollows
  <2> QED BY <2>3, <2>4
<1>4. ASSUME NEW n \in 1 .. MaxDrop, ServeOrder(n) PROVE GridFollows'
  <2>1. /\ Heard \subseteq Heard'
        /\ \A m \in 1 .. MaxDrop : drop'[m] # None => drop[m] # None /\ SameAnswer(drop[m], drop'[m])
        /\ UNCHANGED <<sel, grid, get, attempt, drag, landed, missed>>
        /\ store' # store => stream' # "idle"
        /\ store' = store => stream' = stream
    BY <1>4, ServeOrderIs
  <2>2. CASE stream' # "idle"
    BY <2>1, <2>2, DueKeepsFollows
  <2>3. CASE stream' = "idle"
    <3>1. Rows' = Rows
      BY <2>1 DEF Rows
    <3>2. \A m \in Heard' : m \in 1 .. MaxDrop /\ drop'[m] # None
      BY <1>1, <1>4 DEF Heard, ServeOrder
    <3>3. Fresh => Fresh'
      BY <2>1, <3>2 DEF Fresh, SameAnswer
    <3> QED BY <2>1, <2>3, <3>1, <3>3, SameKeepsFollows
  <2> QED BY <2>2, <2>3
<1>5. ASSUME NEW n \in 1 .. MaxDrop, ReadOrder(n) PROVE GridFollows'
  <2>1. /\ Heard \subseteq Heard'
        /\ \A m \in (1 .. MaxDrop) \ {n} : drop'[m] = drop[m]
        /\ drop[n] # None /\ drop'[n] # None /\ drop'[n].week = drop[n].week
        /\ drop'[n].changed = drop[n].changed
        /\ drop'[n].snap = Snapshot(drop[n].week, store)
        /\ UNCHANGED <<store, sel, grid, get, drag, stream, landed, missed>>
    BY <1>5, ReadOrderIs
  <2>2. \A w : Snapshot(w, store)' = Snapshot(w, store)
    BY <2>1 DEF Snapshot
  <2>3. FollowsStore(get)' /\ \A m \in 1 .. MaxDrop : FollowsStore(drop[m])'
    BY <2>1, <2>2 DEF GridFollows, FollowsStore
  <2>4. Fresh => Fresh'
    <3>1. \A m \in Heard : m \in 1 .. MaxDrop /\ drop'[m].changed = drop[m].changed
      BY <1>1, <2>1 DEF Heard
    <3> QED BY <2>1, <3>1 DEF Fresh
  <2>5. Rows' = Rows
    BY <2>1 DEF Rows
  <2> QED BY <2>1, <2>3, <2>4, <2>5 DEF GridFollows, GridShows
<1>6. DOMAIN drop = 1 .. MaxDrop
  BY <1>1
<1> QED BY <1>2, <1>3, <1>4, <1>5, <1>6 DEF Serve

\* What is shown when the answer lands.
LEMMA LandedShows ==
  ASSUME NEW r, r # None, r.changed = {}, r.snap # None, FollowsStore(r), r.snap \in Shown,
         grid' = Rendered(r.snap), drag' = None, UNCHANGED <<store, sel, stream>>, stream = "idle"
  PROVE  GridShows'
<1>1. r.snap = Snapshot(sel.week, store)
  BY DEF FollowsStore
<1>2. /\ r.snap.week = sel.week /\ r.snap.live = (sel.week = store.now)
      /\ r.snap.open = (store.start <= sel.week) /\ r.snap.ticked = (sel.week \in store.ticks)
      /\ r.snap.rows = store.order
  BY <1>1 DEF Snapshot
<1>3. /\ grid' \in Grid /\ grid'.week = r.snap.week /\ grid'.live = r.snap.live
      /\ grid'.ticked = r.snap.ticked /\ grid'.open = r.snap.open /\ grid'.rows = r.snap.rows
  BY RenderedIsGrid
<1>4. grid' # None /\ Rows' = store.order
  BY <1>2, <1>3, NoneApart DEF Rows
<1> QED BY <1>2, <1>3, <1>4 DEF GridShows

LEMMA DeliverKeepsFollows == ASSUME Asked, GridFollows, Deliver PROVE GridFollows'
<1>1. /\ attempt \in [Week -> Attempt \cup {None}] /\ get \in WeekGet \cup {None} /\ store \in Store
      /\ drop \in [1 .. MaxDrop -> OrderPost \cup {None}] /\ post \in [Token -> CheckInPost \cup {None}]
      /\ sel \in Selection \cup {Unselected} /\ Typed
  BY DEF Asked, Typed, VTypes
<1>2. CASE WeekAnswered
  <2>1. /\ get \in WeekGet \cup OrderPost /\ get # None /\ get.snap # None
        /\ Answer(get, Heard # {}, {"clicked"}) /\ (Heard # {}) \in BOOLEAN
        /\ get' = None /\ UNCHANGED <<store, sel, drop, stream, landed>>
    BY <1>1, <1>2 DEF WeekAnswered
  <2>2. /\ drag' = None
        /\ get.changed = {} => grid' = Rendered(get.snap) /\ get.snap \in Shown
        /\ get.changed # {} => missed' # {}
    BY <1>1, <2>1, AnswerIs
  <2>3. stream' = "idle" /\ missed' = {} => GridShows'
    BY <2>1, <2>2, LandedShows DEF GridFollows
  <2>4. \A w : Snapshot(w, store)' = Snapshot(w, store)
    BY <2>1 DEF Snapshot
  <2>5. FollowsStore(get)' /\ \A n \in 1 .. MaxDrop : FollowsStore(drop[n])'
    BY <2>1, <2>4 DEF GridFollows, FollowsStore
  <2> QED BY <2>1, <2>3, <2>5 DEF GridFollows
<1>3. CASE Refresh
  <2> DEFINE s == [sel EXCEPT !.current = store.now,
                              !.week = IF sel.following THEN store.now ELSE @]
  <2>1. s \in Selection /\ s.current = store.now /\ (s.following => s.week = store.now)
        /\ {"refresh"} \in SUBSET Part
    BY <1>1, RefreshSelects
  <2>2. Read(s, attempt, {"refresh"}) /\ store' = store
    BY <1>3 DEF Refresh
  <2> HIDE DEF s
  <2> QED BY <1>1, <2>1, <2>2, ReadKeepsFollows
<1>4. ASSUME NEW t \in Token, Receipt(t) PROVE GridFollows'
  <2>1. post[t] # None /\ post[t].result # None
        /\ UNCHANGED <<store, grid, drag, stream, left, landed, missed>>
    BY <1>4 DEF Receipt
  <2>2. post[t].heard
    BY <2>1 DEF Asked, PostsAwaited
  <2>3. post[t].week \in Week /\ attempt[post[t].week] \in Attempt
    BY <2>1, <2>2, HeardIsAwaited
  <2>4. CASE post[t].result = "rejected"
    <3>1. UNCHANGED <<sel, get, drop>>
      BY <1>4, <2>4 DEF Receipt
    <3>2. Fresh' = Fresh /\ Rows' = Rows
          /\ \A n \in 1 .. MaxDrop : drop'[n] # None => drop[n] # None /\ SameAnswer(drop[n], drop'[n])
      BY <2>1, <3>1 DEF Fresh, Heard, Rows, SameAnswer
    <3> QED BY <2>1, <3>1, <3>2, SameKeepsFollows
  <2>5. CASE post[t].result # "rejected"
    <3> DEFINE a == [attempt EXCEPT ![post[t].week].phase = "saved"]
    <3>1. Read(sel, a, {"read"}) /\ {"read"} \in SUBSET Part
      BY <1>4, <2>5 DEF Receipt, Part
    <3>2. a \in [Week -> Attempt \cup {None}]
      BY <1>1, <2>3 DEF Attempt
    <3> HIDE DEF a
    <3>3. sel \in Selection
      BY <1>1, <2>1 DEF Typed, SelectedFirst
    <3>4. stream' = "idle" => sel.current = store.now /\ (sel.following => sel.week = store.now)
      BY <2>1 DEF GridFollows
    <3> QED BY <1>1, <2>1, <3>1, <3>2, <3>3, <3>4, ReadKeepsFollows
  <2> QED BY <2>4, <2>5
<1>5. ASSUME NEW n \in 1 .. MaxDrop, OrderAnswered(n) PROVE GridFollows'
  <2>1. /\ drop[n] \in WeekGet \cup OrderPost /\ drop[n] # None /\ drop[n].snap # None
        /\ Answer(drop[n], get # None, {}) /\ (get # None) \in BOOLEAN
        /\ drop' = [drop EXCEPT ![n] = None] /\ UNCHANGED <<store, sel, get, stream, landed>>
    BY <1>1, <1>5 DEF OrderAnswered, Heard
  <2>2. /\ drag' = None
        /\ drop[n].changed = {} => grid' = Rendered(drop[n].snap) /\ drop[n].snap \in Shown
        /\ drop[n].changed # {} => grid' = grid /\ (missed' = {} => missed = {} /\ drag = None)
    BY <1>1, <2>1, AnswerIs
  <2>3. drop'[n] = None /\ \A m \in (1 .. MaxDrop) \ {n} : drop'[m] = drop[m]
    BY <1>1, <2>1
  <2>4. \A w : Snapshot(w, store)' = Snapshot(w, store)
    BY <2>1 DEF Snapshot
  <2>5. FollowsStore(get)' /\ \A m \in 1 .. MaxDrop : FollowsStore(drop[m])'
    BY <2>1, <2>3, <2>4 DEF GridFollows, FollowsStore
  <2>6. ASSUME stream' = "idle", missed' = {}, get' = None PROVE GridShows'
    <3>1. CASE drop[n].changed = {}
      BY <2>1, <2>2, <2>6, <3>1, LandedShows DEF GridFollows
    <3>2. CASE drop[n].changed # {}
      <4>1. grid' = grid /\ missed = {} /\ Rows' = Rows /\ GridShows
        BY <2>1, <2>2, <2>6, <3>2 DEF GridFollows, Rows
      <4>2. Fresh => Fresh'
        <5>1. DOMAIN drop = 1 .. MaxDrop /\ DOMAIN drop' = 1 .. MaxDrop
          BY <1>1, <2>1
        <5> QED BY <2>3, <3>2, <5>1 DEF Fresh, Heard
      <4> QED BY <2>1, <4>1, <4>2 DEF GridShows
    <3> QED BY <3>1, <3>2
  <2> QED BY <2>1, <2>5, <2>6 DEF GridFollows
<1>6. DOMAIN drop = 1 .. MaxDrop
  BY <1>1
<1> QED BY <1>2, <1>3, <1>4, <1>5, <1>6 DEF Deliver

LEMMA FailKeepsFollows == ASSUME Typed, GridFollows, Fail PROVE GridFollows'
<1>1. /\ attempt \in [Week -> Attempt \cup {None}] /\ drop \in [1 .. MaxDrop -> OrderPost \cup {None}]
  BY DEF Typed, VTypes
<1>2. CASE WeekFailed
  <2>1. get' = None /\ missed' # {} /\ UNCHANGED <<store, sel, drop, stream, landed>>
    BY <1>2 DEF WeekFailed
  <2>2. \A w : Snapshot(w, store)' = Snapshot(w, store)
    BY <2>1 DEF Snapshot
  <2> QED BY <2>1, <2>2 DEF GridFollows, FollowsStore
<1>3. CASE WeekRetried
  <2>1. sel \in Selection
    BY <1>3, Selected DEF WeekRetried, Typed, SelectedFirst
  <2>2. get' = Reading(sel, attempt) /\ UNCHANGED <<store, sel, drop, stream, landed>>
    BY <1>3 DEF WeekRetried
  <2>3. get' # None /\ get'.snap = None /\ get'.week = sel.week
    BY <1>1, <2>1, <2>2, ReadingIs
  <2>4. \A w : Snapshot(w, store)' = Snapshot(w, store)
    BY <2>2 DEF Snapshot
  <2> QED BY <2>2, <2>3, <2>4 DEF GridFollows, FollowsStore
<1>4. CASE Break
  BY <1>4, DueKeepsFollows DEF Break, SameAnswer
<1>5. ASSUME NEW t \in Token, NEW served \in BOOLEAN, CheckInLost(t, served) PROVE GridFollows'
  <2>1. UNCHANGED <<store, sel, grid, get, drop, drag, stream, landed, missed>>
    BY <1>5 DEF CheckInLost
  <2>2. Fresh' = Fresh /\ Rows' = Rows
        /\ \A n \in 1 .. MaxDrop : drop'[n] # None => drop[n] # None /\ SameAnswer(drop[n], drop'[n])
    BY <2>1 DEF Fresh, Heard, Rows, SameAnswer
  <2> QED BY <2>1, <2>2, SameKeepsFollows
<1>6. ASSUME NEW n \in 1 .. MaxDrop, NEW served \in BOOLEAN, OrderLost(n, served) PROVE GridFollows'
  <2>1. /\ drop' = [drop EXCEPT ![n] = IF served THEN [drop[n] EXCEPT !.heard = FALSE] ELSE None]
        /\ missed' # {} /\ UNCHANGED <<store, sel, get, stream, landed>>
    BY <1>6 DEF OrderLost
  <2>2. drop[n] \in OrderPost
    BY <1>1, <1>6 DEF OrderLost, Heard
  <2>3. drop'[n] # None => drop[n] # None /\ SameAnswer(drop[n], drop'[n])
    <3>1. drop'[n] # None => drop'[n] = [drop[n] EXCEPT !.heard = FALSE]
      BY <1>1, <2>1
    <3> QED BY <2>2, <3>1, NoneApart DEF OrderPost, SameAnswer
  <2>4. \A m \in (1 .. MaxDrop) \ {n} : drop'[m] = drop[m]
    BY <1>1, <2>1
  <2>5. \A w : Snapshot(w, store)' = Snapshot(w, store)
    BY <2>1 DEF Snapshot
  <2>6. FollowsStore(drop[n])'
    BY <2>1, <2>3, <2>5 DEF GridFollows, FollowsStore, SameAnswer
  <2>7. \A m \in (1 .. MaxDrop) \ {n} : FollowsStore(drop[m])'
    BY <2>1, <2>4, <2>5 DEF GridFollows, FollowsStore
  <2>8. FollowsStore(get)' /\ \A m \in 1 .. MaxDrop : FollowsStore(drop[m])'
    BY <2>1, <2>5, <2>6, <2>7 DEF GridFollows, FollowsStore
  <2> QED BY <2>1, <2>8 DEF GridFollows
<1>7. ASSUME NEW n \in 1 .. MaxDrop, OrderRetried(n) PROVE GridFollows'
  <2>1. /\ drop'[n] # None /\ drop'[n].heard /\ drop'[n].changed = {}
        /\ drop'[n].week = sel.week /\ drop'[n].snap = None
        /\ \A m \in (1 .. MaxDrop) \ {n} : drop'[m] = drop[m]
        /\ drop' \in [1 .. MaxDrop -> OrderPost \cup {None}]
        /\ UNCHANGED <<store, sel, grid, get, drag, stream, landed, missed>>
    BY <1>7, OrderRetriedIs DEF Asked
  <2>2. Fresh'
    BY <2>1 DEF Fresh, Heard
  <2>3. \A w : Snapshot(w, store)' = Snapshot(w, store)
    BY <2>1 DEF Snapshot
  <2>4. FollowsStore(get)' /\ \A m \in 1 .. MaxDrop : FollowsStore(drop[m])'
    <3>1. FollowsStore(drop[n])'
      BY <2>1 DEF FollowsStore
    <3>2. \A m \in (1 .. MaxDrop) \ {n} : FollowsStore(drop[m])'
      BY <2>1, <2>3 DEF GridFollows, FollowsStore
    <3>3. FollowsStore(get)'
      BY <2>1, <2>3 DEF GridFollows, FollowsStore
    <3> QED BY <3>1, <3>2, <3>3
  <2> QED BY <2>1, <2>2, <2>4 DEF GridFollows, GridShows, Rows
<1>8. DOMAIN drop = 1 .. MaxDrop
  BY <1>1
<1> QED BY <1>2, <1>3, <1>4, <1>5, <1>6, <1>7, <1>8 DEF Fail

LEMMA NextKeepsFollows == Asked /\ GridFollows /\ [VNext]_tab => GridFollows'
<1> SUFFICES ASSUME Asked, GridFollows, [VNext]_tab PROVE GridFollows'
  OBVIOUS
<1>1. Typed
  BY DEF Asked
<1>2. CASE UNCHANGED tab
  <2>1. UNCHANGED <<store, sel, grid, get, drop, drag, stream, landed, missed>>
    BY <1>2 DEF tab
  <2>2. Fresh' = Fresh /\ Rows' = Rows
        /\ \A n \in 1 .. MaxDrop : drop'[n] # None => drop[n] # None /\ SameAnswer(drop[n], drop'[n])
    BY <2>1 DEF Fresh, Heard, Rows, SameAnswer
  <2> QED BY <2>1, <2>2, SameKeepsFollows
<1>3. CASE Elsewhere
  <2>1. stream' # "idle" /\ UNCHANGED <<sel, get, drop>>
    BY <1>3 DEF Elsewhere, Announced
  <2> QED BY <2>1, DueKeepsFollows DEF SameAnswer
<1> QED BY <1>1, <1>2, <1>3, ClickKeepsFollows, ReorderKeepsFollows, ServeKeepsFollows,
           DeliverKeepsFollows, FailKeepsFollows DEF VNext

-----------------------------------------------------------------------------
(* The theorems.                                                            *)

LEMMA ViewInvariant == VSpec => []ViewInv
<1>1. VInit => ViewInv
  <2> SUFFICES ASSUME VInit PROVE ViewInv
    OBVIOUS
  <2>1. Asked
    BY InitAsked
  <2>2. /\ \A w \in Week : attempt[w] = None
        /\ \A n \in 1 .. MaxDrop : drop[n] = None
        /\ get = None /\ stream = "down"
    BY DEF VInit
  <2>3. Fenced(attempt) = {}
    BY <2>2 DEF Fenced
  <2> QED BY <2>1, <2>2, <2>3 DEF ViewInv, ReceiptsSeen, SeesReceipts, GridFollows, FollowsStore
<1>2. ViewInv /\ [VNext]_tab => ViewInv'
  BY NextKeepsAsked, NextKeepsReceipts, NextKeepsFollows DEF ViewInv
<1> QED BY <1>1, <1>2, PTL DEF VSpec

\* Whatever is lost, retried or aborted, until it hears a receipt the tab never posts the
\* opposite of what the first press wanted.
THEOREM IntentIsKept == VSpec => []IntentKept
<1>1. ViewInv => IntentKept
  BY DEF ViewInv, Asked, IntentHeld, IntentKept
<1> QED BY <1>1, ViewInvariant, PTL

\* No button stays busy with nothing on its way that could free it.
THEOREM NoButtonIsStuck == VSpec => []BusyIsWaiting
<1>1. ViewInv => BusyIsWaiting
  <2> SUFFICES ASSUME ViewInv, NEW w \in Week, attempt[w] # None
               PROVE  /\ attempt[w].phase = "posting" => post[attempt[w].token] # None
                      /\ attempt[w].phase = "saved" => get # None \/ Heard # {}
    BY DEF BusyIsWaiting
  <2>1. attempt[w].phase = "posting" => post[attempt[w].token] # None
    BY DEF ViewInv, Asked, PostsAwaited
  <2>2. attempt[w].phase = "saved" => w \in Fenced(attempt)
    BY DEF Fenced
  <2> QED BY <2>1, <2>2 DEF ViewInv, ReceiptsSeen
<1> QED BY <1>1, ViewInvariant, PTL

\* Only a refusal, or an answer with a grid in it, settles an attempt.
LEMMA SettlesOnlyBy ==
  ASSUME Asked, Asked', VNext, NEW w \in Week, attempt[w] # None, attempt'[w] = None
  PROVE  \/ WeekAnswered \/ \E n \in 1 .. MaxDrop : OrderAnswered(n)
         \/ post[attempt[w].token] # None /\ post[attempt[w].token].result = "rejected"
<1>1. /\ attempt \in [Week -> Attempt \cup {None}] /\ grid \in Grid \cup {None} /\ store \in Store
      /\ drop \in [1 .. MaxDrop -> OrderPost \cup {None}] /\ post \in [Token -> CheckInPost \cup {None}]
      /\ sel \in Selection \cup {Unselected} /\ left \in Left /\ Typed
  BY DEF Asked, Typed, VTypes
<1>2. DOMAIN drop = 1 .. MaxDrop /\ {{"read"}, {"view"}, {"refresh"}} \subseteq SUBSET Part
  BY <1>1 DEF Part
<1>3. ASSUME NEW s \in Selection, NEW a \in [Week -> Attempt \cup {None}],
             NEW parts \in SUBSET Part, parts # {}, Read(s, a, parts), a[w] # None
      PROVE  FALSE
  BY <1>1, <1>3, ReadIs
<1>4. ASSUME NEW v \in Int, NEW following \in BOOLEAN, sel \in Selection, Select(v, following)
      PROVE  FALSE
  <2> DEFINE s == [sel EXCEPT !.week = v, !.following = following]
  <2>1. s \in Selection
    BY <1>4 DEF Selection
  <2>2. Read(s, attempt, {"view"}) \/ attempt' = attempt
    BY <1>4 DEF Select
  <2> HIDE DEF s
  <2> QED BY <1>1, <1>2, <1>3, <2>1, <2>2
<1>5. ~(PreviousWeek \/ NextWeek \/ ThisWeek)
  <2> SUFFICES ASSUME PreviousWeek \/ NextWeek \/ ThisWeek PROVE FALSE
    OBVIOUS
  <2>1. grid # None /\ sel \in Selection
    BY Selected, <1>1 DEF Typed, SelectedFirst, PreviousWeek, NextWeek, ThisWeek
  <2>2. grid.week - 1 \in Int /\ grid.week + 1 \in Int /\ sel.current \in Int
    BY <1>1, <2>1 DEF Grid, Selection
  <2> QED BY <1>4, <2>1, <2>2 DEF PreviousWeek, NextWeek, ThisWeek
<1>6. ASSUME NEW v \in Week, Press(v) PROVE FALSE
  <2> DEFINE a == [token |-> left.press, desired |-> Desired(v), phase |-> "posting"]
  <2>1. attempt' = [attempt EXCEPT ![v] = a] /\ Spend("press") /\ grid # None
    BY <1>6 DEF Press, Button
  <2>2. left.press \in Token
    BY <1>1, <2>1, SpendKeeps DEF Left, Token
  <2>3. a \in Attempt
    BY <1>1, <2>1, <2>2 DEF Desired, Grid, Attempt
  <2> HIDE DEF a
  <2> QED BY <1>1, <2>1, <2>3, NoneApart
<1>7. ASSUME NEW v \in Week, PressBusy(v) \/ PressUnread(v) PROVE FALSE
  <2>1. sel \in Selection
    BY <1>1, <1>7 DEF Typed, SelectedFirst, PressBusy, PressUnread, Button
  <2> QED BY <1>1, <1>2, <1>3, <1>7, <2>1 DEF PressBusy, PressUnread
<1>8. ASSUME NEW rows \in Seq(Habit), NEW from, grid # None, CommitOrder(rows, from) PROVE FALSE
  BY <1>1, <1>8, CommitOrderIs
<1>9. ~Reorder
  <2> SUFFICES ASSUME Reorder PROVE FALSE
    OBVIOUS
  <2>1. ASSUME NEW h \in Range(grid.rows), NEW k \in DOMAIN grid.rows, grid # None, KeyMove(h, k) PROVE FALSE
    <3>1. grid.rows \in Seq(Habit)
      BY <1>1, <2>1 DEF Grid
    <3>2. PlaceAt(grid.rows, h, k) \in Seq(Habit)
      BY <3>1, PlaceAtIs
    <3> QED BY <1>8, <2>1, <3>2 DEF KeyMove
  <2>2. ~Drop
    <3> SUFFICES ASSUME Drop PROVE FALSE
      OBVIOUS
    <3>1. grid # None /\ grid.rows \in Seq(Habit) /\ CommitOrder(grid.rows, drag.from)
      BY <1>1 DEF Typed, SelectedFirst, Drop, Grid
    <3> QED BY <1>8, <3>1
  <2>3. \A h, k : ~Drag(h, k)
    BY DEF Drag
  <2>4. ~CancelDrag
    BY DEF CancelDrag
  <2> QED BY <2>1, <2>2, <2>3, <2>4 DEF Reorder
<1>10. ~Serve
  BY DEF Serve, ServeWeek, CheckIn, ServeOrder, ReadOrder
<1>11. ~Refresh
  <2> SUFFICES ASSUME Refresh PROVE FALSE
    OBVIOUS
  <2> DEFINE s == [sel EXCEPT !.current = store.now,
                              !.week = IF sel.following THEN store.now ELSE @]
  <2>1. s \in Selection
    BY <1>1, RefreshSelects
  <2>2. Read(s, attempt, {"refresh"})
    BY DEF Refresh
  <2> HIDE DEF s
  <2> QED BY <1>1, <1>2, <1>3, <2>1, <2>2
<1>12. ASSUME NEW t \in Token, Receipt(t)
       PROVE  post[attempt[w].token] # None /\ post[attempt[w].token].result = "rejected"
  <2>1. post[t] # None /\ post[t].heard
    BY <1>12 DEF Receipt, Asked, PostsAwaited
  <2>2. post[t].week \in Week /\ attempt[post[t].week] \in Attempt /\ attempt[post[t].week].token = t
    BY <2>1, HeardIsAwaited
  <2>3. CASE post[t].result = "rejected"
    <3>1. attempt' = [attempt EXCEPT ![post[t].week] = None]
      BY <1>12, <2>3 DEF Receipt
    <3>2. w = post[t].week
      BY <1>1, <3>1
    <3> QED BY <2>1, <2>2, <2>3, <3>2
  <2>4. CASE post[t].result # "rejected"
    <3> DEFINE a == [attempt EXCEPT ![post[t].week].phase = "saved"]
    <3>1. Read(sel, a, {"read"})
      BY <1>12, <2>4 DEF Receipt
    <3>2. sel \in Selection
      BY <1>1, <2>1 DEF Typed, SelectedFirst
    <3>3. a \in [Week -> Attempt \cup {None}] /\ (w = post[t].week => a[w] \in Attempt)
          /\ (w # post[t].week => a[w] = attempt[w])
      BY <1>1, <2>2 DEF Attempt
    <3> HIDE DEF a
    <3>4. a[w] # None
      BY <3>3, NoneApart
    <3> QED BY <1>2, <1>3, <3>1, <3>2, <3>3, <3>4
  <2> QED BY <2>3, <2>4
<1>13. ~Fail
  <2> SUFFICES ASSUME Fail PROVE FALSE
    OBVIOUS
  <2>1. ASSUME NEW others \in BOOLEAN, attempt' = Ended(attempt, others) PROVE FALSE
    BY <1>1, <2>1, EndedIs
  <2>2. ASSUME NEW t \in Token, NEW served \in BOOLEAN, CheckInLost(t, served) PROVE FALSE
    <3>1. post[t].week \in Week /\ attempt[post[t].week] \in Attempt
          /\ attempt' = [attempt EXCEPT ![post[t].week].phase = "unknown"]
      BY <2>2, HeardIsAwaited DEF CheckInLost
    <3>2. w = post[t].week => attempt'[w] \in Attempt
      BY <1>1, <3>1 DEF Attempt
    <3> QED BY <1>1, <3>1, <3>2, NoneApart
  <2>3. (Heard # {}) \in BOOLEAN /\ (get # None) \in BOOLEAN
    OBVIOUS
  <2> QED BY <2>1, <2>2, <2>3 DEF Fail, WeekFailed, WeekRetried, Break, OrderLost, OrderRetried
<1>14. ~Elsewhere
  BY DEF Elsewhere
<1> QED BY <1>2, <1>5, <1>6, <1>7, <1>9, <1>10, <1>11, <1>12, <1>13, <1>14 DEF VNext, Click, Deliver

\* Only the answer of a read asked for after the receipt counts a check-in as saved, and it
\* shows a week read after the commit.
THEOREM SavedMeansReadBack == VSpec => SavedWasReadBack
<1>1. ViewInv /\ [VNext]_tab =>
        [\A w \in Week :
           attempt[w] # None /\ attempt'[w] = None =>
             \/ post[attempt[w].token] # None /\ post[attempt[w].token].result = "rejected"
             \/ attempt[w].token \in grid'.sees]_tab
  <2> SUFFICES ASSUME ViewInv, VNext, NEW w \in Week, attempt[w] # None, attempt'[w] = None
               PROVE  \/ post[attempt[w].token] # None /\ post[attempt[w].token].result = "rejected"
                      \/ attempt[w].token \in grid'.sees
    OBVIOUS
  <2>1. /\ Asked /\ ReceiptsSeen /\ Typed /\ attempt \in [Week -> Attempt \cup {None}]
        /\ get \in WeekGet \cup {None} /\ drop \in [1 .. MaxDrop -> OrderPost \cup {None}]
        /\ post \in [Token -> CheckInPost \cup {None}]
    BY DEF ViewInv, Asked, Typed, VTypes
  <2>2. ASSUME NEW r \in WeekGet \cup OrderPost, r # None, r.snap # None, NEW others \in BOOLEAN, NEW needed,
               Answer(r, others, needed), SeesReceipts(r)
        PROVE  attempt[w].token \in grid'.sees
    <3>1. r.changed = {} /\ w \in Fenced(attempt) \cap r.since /\ grid' = Rendered(r.snap) /\ r.snap \in Shown
      BY <2>1, <2>2, AnswerIs
    <3>2. grid'.sees = r.snap.sees
      BY <3>1, RenderedIsGrid
    <3> QED BY <2>2, <3>1, <3>2 DEF SeesReceipts
  <2>3. CASE WeekAnswered
    <3>1. get \in WeekGet \cup OrderPost /\ get # None /\ get.snap # None
          /\ Answer(get, Heard # {}, {"clicked"}) /\ (Heard # {}) \in BOOLEAN
      BY <2>1, <2>3 DEF WeekAnswered
    <3> QED BY <2>1, <2>2, <3>1 DEF ReceiptsSeen
  <2>4. ASSUME NEW n \in 1 .. MaxDrop, OrderAnswered(n) PROVE attempt[w].token \in grid'.sees
    <3>1. drop[n] \in WeekGet \cup OrderPost /\ drop[n] # None /\ drop[n].snap # None
          /\ Answer(drop[n], get # None, {}) /\ (get # None) \in BOOLEAN
      BY <2>1, <2>4 DEF OrderAnswered, Heard
    <3> QED BY <2>1, <2>2, <3>1 DEF ReceiptsSeen
  <2>5. Asked'
    BY <2>1, NextKeepsAsked
  <2> QED BY <2>1, <2>3, <2>4, <2>5, SettlesOnlyBy
<1> QED BY <1>1, ViewInvariant, PTL DEF VSpec, SavedWasReadBack

\* At rest, with nothing missed, the tab shows the selected week as the service has it.
THEOREM RestShowsTheWeek == VSpec => []QuietShowsWeek
<1>1. ViewInv => QuietShowsWeek
  <2> SUFFICES ASSUME ViewInv, Quiet, missed = {} PROVE Shows(store)
    BY DEF QuietShowsWeek
  <2>1. GridShows /\ (sel.following => sel.week = store.now)
    BY DEF ViewInv, GridFollows, Quiet
  <2>2. ~Fresh
    BY DEF Quiet, Fresh, Heard
  <2>3. Rows = grid.rows
    BY DEF Quiet, Rows
  <2> QED BY <2>1, <2>2, <2>3 DEF GridShows, Shows
<1> QED BY <1>1, ViewInvariant, PTL

=============================================================================
