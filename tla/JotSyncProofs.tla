---------------------------- MODULE JotSyncProofs ----------------------------
(***************************************************************************)
(* Theorems about JotSync, for any number of tabs, words and messages.     *)
(* Three layers, each resting on the one before: SyncInv, what rows, tabs  *)
(* and messages hold and which of it was committed; LossInv, no typed word *)
(* is lost; TwiceInv, no word is stored twice.  The last two hold while    *)
(* the code gave nothing up but what their exceptions name.                *)
(***************************************************************************)
EXTENDS JotSync, FiniteSetTheorems, TLAPS

-----------------------------------------------------------------------------
(* The invariants.                                                         *)

\* Texts within the cap.
Short == {t \in Text : Length(t) <= MaxLen}

\* The pad an answer confirms.
Answered(s) ==
  [version |-> s.ack.version, text |-> IF s.ack.text = None THEN s.text ELSE s.ack.text]

Letter == [n : Nat, text : Short, base : Nat]

\* The row r is the last of the pads P, its shadow is one of them, and no version
\* stands for two.
RowOK(r, P) ==
  /\ r \in Row /\ P \subseteq [text : Short, version : Nat]
  /\ Get(r) \in P /\ Shadow(r) \in P
  /\ \A p \in P : p.version <= r.version
  /\ \A p, q \in P : p.version = q.version => p = q

\* A tab's texts are within the cap; what it believes, buffers or is answered was
\* committed, unless a beacon changed its belief.
TabOK(k, P, v, g) ==
  /\ k \in Tab /\ k.text \in Short
  /\ k.synced.version <= v
  /\ "beaconed" \in g \/ k.synced \in P
  /\ k.buffered # None => k.buffered \in P
  /\ k.save # None =>
       /\ k.save.text \in Short /\ k.save.base <= v
       /\ k.save.ack # None => Answered(k.save) \in P

\* A tab that believes what was never committed sent it in a beacon that is on its
\* way, was lost, or has made a newer version.
Claimed(s, P, v, M, g) ==
  \/ s \in P \/ s.version < v \/ "dropped" \in g
  \/ \E m \in M : m.text = s.text /\ m.base = s.version

SyncInv ==
  /\ RowOK(row, pads)
  /\ \A c \in Client : TabOK(tab[c], pads, row.version, given)
  /\ beacons \subseteq Letter /\ \A m \in beacons : m.base <= row.version
  /\ \A c \in Client : Claimed(tab[c].synced, pads, row.version, beacons, given)
  /\ tab \in [Client -> Tab]
  /\ typed \subseteq Word /\ erased \subseteq Word /\ troubles \in Nat

\* A text typed on version v of P still holds what w's count was there.
Builds(text, v, P, w) == \A p \in P : p.version = v => p.text[w] <= text[w]

\* A word that nobody erased is in a tab's text as often as in the revision it was
\* typed on, in its save, and in the row once the save is answered.
Holds(k, P, r, w) ==
  /\ Builds(k.text, k.synced.version, P, w)
  /\ k.save # None =>
       /\ Builds(k.save.text, k.save.base, P, w)
       /\ k.save.text[w] <= k.text[w]
       /\ k.save.ack # None => k.save.text[w] <= r.text[w]

Held(w) ==
  \/ row.text[w] > 0
  \/ \E m \in beacons : m.text[w] > 0

NotLost(w) ==
  /\ \A p \in pads : p.text[w] <= row.text[w]
  /\ \A c \in Client : Holds(tab[c], pads, row, w)
  /\ \A m \in beacons : Builds(m.text, m.base, pads, w)
  /\ \A c \in Client : tab[c].synced.text[w] > 0 => Held(w)
  /\ w \in typed => Held(w) \/ \E c \in Client : tab[c].text[w] > 0

LossInv == given \subseteq {"retried", "beaconed"} => \A w \in Word \ erased : NotLost(w)

\* Nobody adds w to the revision he typed on.
Adds(text, v, P, w) == \E p \in P : p.version = v /\ text[w] > p.text[w]

Has(k, w) == k.text[w] > 0 \/ (k.save # None /\ k.save.text[w] > 0)

\* A word that was stored is new to nobody: no tab adds it to what it believes, to its
\* save, or to what that was typed on.
Old(k, P, w) ==
  /\ k.save = None => k.text[w] <= k.synced.text[w]
  /\ k.save # None => k.text[w] <= k.save.text[w]
  /\ k.save # None /\ k.save.ack = None =>
       /\ k.text[w] <= k.synced.text[w]
       /\ ~Adds(k.save.text, k.save.base, P, w)

Stored(w) == \E p \in pads : p.text[w] > 0

Once(w) ==
  /\ \A p \in pads : p.text[w] <= 1
  /\ \A c \in Client : tab[c].text[w] <= 1 /\ (tab[c].save # None => tab[c].save.text[w] <= 1)
  /\ \A m \in beacons : m.text[w] <= 1
  /\ Stored(w) =>
       /\ \A c \in Client : Old(tab[c], pads, w)
       /\ \A m \in beacons : ~Adds(m.text, m.base, pads, w)
  /\ ~Stored(w) =>
       /\ \A c, d \in Client : Has(tab[c], w) /\ Has(tab[d], w) => c = d
       /\ \A m, n \in beacons : m.text[w] > 0 /\ n.text[w] > 0 => m = n
       /\ \A c \in Client, m \in beacons : ~(Has(tab[c], w) /\ m.text[w] > 0)
  /\ w \notin typed =>
       /\ ~Stored(w) /\ \A c \in Client : ~Has(tab[c], w)
       /\ \A m \in beacons : m.text[w] = 0

TwiceInv ==
  {"retried", "beaconed", "mismerged"} \cap given = {} => \A w \in Word : Once(w)

-----------------------------------------------------------------------------
(* Lengths of texts.                                                       *)

\* The words of a text are finitely many.
LEMMA CopiesAreFinite ==
  ASSUME NEW text \in Text
  PROVE  IsFiniteSet(Copies(text)) /\ Length(text) \in Nat
<1> DEFINE f == [w \in Word |-> {w} \X (1 .. text[w])]
           T == {{w} \X (1 .. text[w]) : w \in Word}
<1>1. f \in Surjection(Word, T)
  BY DEF Surjection
<1>2. IsFiniteSet(T)
  BY <1>1, FS_Surjection, JotAssumption
<1>3. ASSUME NEW w \in Word PROVE IsFiniteSet({w} \X (1 .. text[w]))
  <2>1. text[w] \in Int
    BY DEF Text
  <2>2. IsFiniteSet(1 .. text[w])
    <3> HIDE DEF f, T
    <3> QED BY <2>1, FS_Interval
  <2>3. IsFiniteSet({w})
    BY FS_Singleton
  <2> QED BY <2>2, <2>3, FS_Product
<1>4. \A S \in T : IsFiniteSet(S)
  BY <1>3
<1>5. IsFiniteSet(UNION T)
  <2> HIDE DEF T
  <2> QED BY <1>2, <1>4, FS_UNION
<1>6. IsFiniteSet(Copies(text))
  BY <1>5 DEF Copies
<1> QED BY <1>6, FS_CardinalityType DEF Length

LEMMA CopyOf ==
  ASSUME NEW text \in Text, NEW x
  PROVE  x \in Copies(text) <=> \E w \in Word, n \in Nat \ {0} : x = <<w, n>> /\ n <= text[w]
<1>1. \A w \in Word : text[w] \in Nat
  BY DEF Text
<1>2. ASSUME x \in Copies(text)
      PROVE  \E w \in Word, n \in Nat \ {0} : x = <<w, n>> /\ n <= text[w]
  <2>1. PICK w \in Word : x \in {w} \X (1 .. text[w])
    BY <1>2 DEF Copies
  <2>2. PICK n \in 1 .. text[w] : x = <<w, n>>
    BY <2>1
  <2>3. n \in Nat \ {0} /\ n <= text[w]
    BY <1>1, <2>2
  <2> QED BY <2>2, <2>3
<1>3. ASSUME NEW w \in Word, NEW n \in Nat \ {0}, x = <<w, n>>, n <= text[w]
      PROVE  x \in Copies(text)
  <2>1. n \in 1 .. text[w]
    BY <1>1, <1>3
  <2>2. x \in {w} \X (1 .. text[w])
    BY <1>3, <2>1
  <2> QED BY <2>2 DEF Copies
<1> QED BY <1>2, <1>3

LEMMA BlankIsShort == Blank \in Short
<1>1. Blank \in Text
  BY DEF Blank, Text
<1>2. \A x : x \notin Copies(Blank)
  BY <1>1, CopyOf DEF Blank
<1>3. Copies(Blank) = {}
  BY <1>2
<1> QED BY <1>1, <1>3, FS_EmptySet, JotAssumption DEF Short, Length

\* One word more is one longer.
LEMMA TypedIsShort ==
  ASSUME NEW text \in Text, NEW w \in Word, Length(text) < MaxLen
  PROVE  [text EXCEPT ![w] = @ + 1] \in Short
<1> DEFINE more == [text EXCEPT ![w] = @ + 1]
<1>1. more \in Text /\ text[w] \in Nat /\ more[w] = text[w] + 1 /\ \A v \in Word \ {w} : more[v] = text[v]
  BY DEF Text
<1> HIDE DEF more
<1>2. \A x : x \in Copies(more) <=> x \in Copies(text) \cup {<<w, text[w] + 1>>}
  <2> SUFFICES ASSUME NEW x PROVE x \in Copies(more) <=> x \in Copies(text) \/ x = <<w, text[w] + 1>>
    OBVIOUS
  <2>1. ASSUME x \in Copies(more) PROVE x \in Copies(text) \/ x = <<w, text[w] + 1>>
    <3>1. PICK v \in Word, n \in Nat \ {0} : x = <<v, n>> /\ n <= more[v]
      BY <1>1, <2>1, CopyOf
    <3>2. n <= text[v] \/ (v = w /\ n = text[w] + 1)
      BY <1>1, <3>1
    <3> QED BY <3>1, <3>2, CopyOf
  <2>2. ASSUME x \in Copies(text) PROVE x \in Copies(more)
    <3>1. PICK v \in Word, n \in Nat \ {0} : x = <<v, n>> /\ n <= text[v]
      BY <2>2, CopyOf
    <3>2. n <= more[v]
      BY <1>1, <3>1
    <3> QED BY <1>1, <3>1, <3>2, CopyOf
  <2>3. <<w, text[w] + 1>> \in Copies(more)
    <3>1. text[w] + 1 \in Nat \ {0} /\ text[w] + 1 <= more[w]
      BY <1>1
    <3> QED BY <1>1, <3>1, CopyOf
  <2> QED BY <2>1, <2>2, <2>3
<1>3. Copies(more) = Copies(text) \cup {<<w, text[w] + 1>>}
  BY <1>2
<1>4. Length(more) <= Length(text) + 1
  BY <1>3, CopiesAreFinite, FS_AddElement DEF Length
<1>5. Length(more) <= MaxLen
  BY <1>1, <1>4, CopiesAreFinite, JotAssumption
<1> QED BY <1>1, <1>5 DEF Short, more

\* A word less is no longer.
LEMMA ErasedIsShort ==
  ASSUME NEW text \in Short, NEW w \in Word
  PROVE  [text EXCEPT ![w] = 0] \in Short
<1> DEFINE less == [text EXCEPT ![w] = 0]
<1>1. less \in Text /\ text \in Text /\ \A v \in Word : less[v] \in Nat /\ text[v] \in Nat /\ less[v] <= text[v]
  BY DEF Text, Short
<1> HIDE DEF less
<1>2. ASSUME NEW x \in Copies(less) PROVE x \in Copies(text)
  <2>1. PICK v \in Word, n \in Nat \ {0} : x = <<v, n>> /\ n <= less[v]
    BY <1>1, CopyOf
  <2>2. n <= text[v]
    BY <1>1, <2>1
  <2> QED BY <1>1, <2>1, <2>2, CopyOf
<1>3. Length(less) <= Length(text)
  BY <1>1, <1>2, CopiesAreFinite, FS_Subset DEF Length
<1>4. Length(less) <= MaxLen
  BY <1>1, <1>3, CopiesAreFinite, JotAssumption DEF Short
<1> QED BY <1>1, <1>4 DEF Short, less

-----------------------------------------------------------------------------
(* The row and its writes.                                                 *)

\* No record of the loop is None.
LEMMA NoneApart ==
  /\ \A x \in Text : x # None
  /\ \A x \in Pad : x # None
  /\ \A x \in Reply : x # None
  /\ \A x \in Save : x # None
BY NoneAssumption

LEMMA ShadowIsPad ==
  ASSUME NEW r \in Row
  PROVE  Shadow(r) \in Pad /\ Get(r) \in Pad /\ Get(r).text = r.text /\ Get(r).version = r.version
<1>1. Get(r) \in Pad /\ Get(r).text = r.text /\ Get(r).version = r.version
  BY DEF Get, Pad, Row
<1>2. r.baseVersion # NoBase => [text |-> r.baseText, version |-> r.baseVersion] \in Pad
  BY DEF Pad, Row
<1> QED BY <1>1, <1>2 DEF Shadow

\* What a write would store.
LEMMA NextIs ==
  ASSUME NEW r \in Row, NEW text \in Text, NEW base
  PROVE  /\ Next(r, text, base) \in Text
         /\ base = r.version => Next(r, text, base) = text
         /\ base # r.version =>
              \A w \in Word :
                LET n == r.text[w] + text[w] - Shadow(r).text[w] IN
                Next(r, text, base)[w] = IF n < 0 THEN 0 ELSE n
<1> DEFINE n(w) == r.text[w] + text[w] - Shadow(r).text[w]
           merged == [w \in Word |-> IF n(w) < 0 THEN 0 ELSE n(w)]
<1>1. Merge(r, text) = merged
  BY DEF Merge, Patched
<1>2. \A w \in Word : r.text[w] \in Nat /\ text[w] \in Nat /\ Shadow(r).text[w] \in Nat
  BY ShadowIsPad DEF Row, Pad, Text
<1>3. \A w \in Word : (IF n(w) < 0 THEN 0 ELSE n(w)) \in Nat
  BY <1>2
<1> HIDE DEF n
<1>4. merged \in Text
  BY <1>3 DEF Text
<1>5. \A w \in Word : merged[w] = IF n(w) < 0 THEN 0 ELSE n(w)
  OBVIOUS
<1> HIDE DEF merged
<1>6. /\ base = r.version => Next(r, text, base) = text
      /\ base # r.version => Next(r, text, base) = merged
  BY <1>1 DEF Next
<1>7. \A w \in Word : n(w) = r.text[w] + text[w] - Shadow(r).text[w]
  BY DEF n
<1> QED BY <1>4, <1>5, <1>6, <1>7

\* A write is refused and changes nothing, or makes the next version, whose shadow is
\* the revision before.
LEMMA StoreIs ==
  ASSUME NEW r, NEW P, RowOK(r, P), NEW text \in Text, NEW base,
         NEW s, s = Store(r, text, base)
  PROVE  /\ RowOK(s, P \cup {Get(s)})
         /\ \/ TooLong(r, text, base) /\ s = r
            \/ ~TooLong(r, text, base) /\ s.version = r.version + 1 /\ s.text = Next(r, text, base)
<1>1. r \in Row /\ P \subseteq [text : Short, version : Nat] /\ Get(r) \in P /\ Shadow(r) \in P
  BY DEF RowOK
<1>2. CASE TooLong(r, text, base)
  <2>1. s = r /\ P \cup {Get(s)} = P
    BY <1>1, <1>2 DEF Store
  <2> QED BY <1>2, <2>1
<1>3. CASE ~TooLong(r, text, base)
  <2>1. s = [text |-> Next(r, text, base), version |-> r.version + 1,
             baseText |-> r.text, baseVersion |-> r.version]
    BY <1>3 DEF Store
  <2>2. Next(r, text, base) \in Short
    <3>1. ~(Length(Next(r, text, base)) > MaxLen) /\ Next(r, text, base) \in Text
      BY <1>1, <1>3, NextIs DEF TooLong
    <3> QED BY <3>1, CopiesAreFinite, JotAssumption DEF Short
  <2>3. r.version \in Nat /\ r.text \in Text
    BY <1>1 DEF Row
  <2>4. /\ s \in Row /\ s.version = r.version + 1 /\ s.text = Next(r, text, base)
        /\ s.baseVersion = r.version /\ s.baseText = r.text
    BY <2>1, <2>2, <2>3 DEF Row, Short
  <2>5. Get(s) \in [text : Short, version : Nat] /\ Get(s).version = r.version + 1
    BY <2>2, <2>3, <2>4 DEF Get
  <2>6. Shadow(s) = Get(r)
    BY <2>3, <2>4, JotAssumption DEF Shadow, Get
  <2>7. \A p \in P : p.version \in Nat /\ p.version <= r.version
    BY <1>1 DEF RowOK
  <2>8. \A p \in P \cup {Get(s)} : p.version <= s.version
    BY <2>3, <2>4, <2>5, <2>7
  <2>9. \A p, q \in P \cup {Get(s)} : p.version = q.version => p = q
    <3>1. \A p \in P : p.version # Get(s).version
      BY <2>3, <2>5, <2>7
    <3> QED BY <3>1 DEF RowOK
  <2>10. RowOK(s, P \cup {Get(s)})
    BY <1>1, <2>4, <2>5, <2>6, <2>8, <2>9 DEF RowOK
  <2> QED BY <1>3, <2>4, <2>10
<1> QED BY <1>2, <1>3

-----------------------------------------------------------------------------
(* The functions of the loop.                                              *)

\* A save just posted, or none.
Posted(k) ==
  k.save # None => k.save.text = k.text /\ k.save.base = k.synced.version /\ k.save.ack = None

LEMMA FlushIs ==
  ASSUME NEW k \in Tab, NEW f, f = Flush(k)
  PROVE  /\ f \in Tab /\ f.text = k.text /\ f.synced = k.synced /\ f.buffered = k.buffered
         /\ f.save = k.save \/ (k.save = None /\ f.save # None /\ Posted(f))
<1>1. k.text \in Text /\ k.synced \in Pad /\ k.synced.version \in Nat
  BY DEF Tab, Pad
<1>2. Post(k) \in Save /\ Post(k).text = k.text /\ Post(k).base = k.synced.version /\ Post(k).ack = None
  BY <1>1 DEF Post, Save
<1>3. Post(k) # None
  BY <1>2, NoneApart
<1>4. CASE f = [k EXCEPT !.timer = FALSE]
  BY <1>4 DEF Tab
<1>5. CASE f = [k EXCEPT !.timer = FALSE, !.save = Post(k)] /\ k.save = None
  <2>1. f \in Tab /\ f.text = k.text /\ f.synced = k.synced /\ f.buffered = k.buffered /\ f.save = Post(k)
    BY <1>2, <1>5 DEF Tab
  <2> QED BY <1>2, <1>3, <1>5, <2>1 DEF Posted
<1> QED BY <1>4, <1>5 DEF Flush

LEMMA RemoteIs ==
  ASSUME NEW k \in Tab, NEW pad \in Pad, NEW f, f = Remote(k, pad)
  PROVE  /\ f \in Tab /\ f.save = k.save
         /\ \/ /\ f.text = k.text /\ f.synced = k.synced
               /\ f.buffered = k.buffered \/ f.buffered = pad
            \/ /\ f.text = pad.text /\ f.synced = pad /\ f.buffered = k.buffered
               /\ pad.text = k.text \/ (k.text = k.synced.text /\ k.save = None)
<1>1. pad.text \in Text /\ pad.version \in Nat
  BY DEF Pad
<1>2. \/ f = k
      \/ f = [k EXCEPT !.synced = pad] /\ pad.text = k.text
      \/ f = [k EXCEPT !.buffered = pad]
      \/ f = [k EXCEPT !.synced = pad, !.text = pad.text] /\ k.text = k.synced.text /\ k.save = None
  BY DEF Remote, Dirty
<1> QED BY <1>1, <1>2 DEF Tab

\* What the answer to a save makes of a tab.
LEMMA AckedIs ==
  ASSUME NEW k \in Tab, k.save # None, k.save.ack # None, NEW f, f = Acked(k),
         NEW t, t = IF k.save.ack.text = None THEN k.text ELSE k.save.ack.text
  PROVE  /\ f \in Tab /\ Posted(f)
         /\ f.buffered = None \/ f.buffered = k.buffered
         /\ Answered(k.save) \in Pad
         /\ \/ f.text = t /\ f.synced = Answered(k.save)
            \/ /\ k.buffered # None /\ f.synced = k.buffered /\ f.text = k.buffered.text
               /\ f.text = t \/ t = Answered(k.save).text
<1> DEFINE a == k.save.ack
           A == Answered(k.save)
           s == [k EXCEPT !.save = None, !.offline = FALSE, !.synced = A,
                          !.text = IF a.text = None THEN @ ELSE a.text]
           r == Resolve(s)
<1>1. k.save \in Save /\ a \in Reply /\ k.text \in Text /\ k.buffered \in Pad \cup {None}
  BY DEF Tab, Save
<1>2. a.version \in Nat /\ a.text \in Text \cup {None} /\ k.save.text \in Text
  BY <1>1 DEF Save, Reply
<1>3. A \in Pad /\ t \in Text
  BY <1>1, <1>2 DEF Answered, Pad
<1>4. f = IF Dirty(r) THEN Flush(r) ELSE r
  BY DEF Acked, Answered
<1>5. s \in Tab /\ s.save = None /\ s.synced = A /\ s.text = t /\ s.buffered = k.buffered
  <2>1. s = [k EXCEPT !.save = None, !.offline = FALSE, !.synced = A, !.text = t]
    OBVIOUS
  <2> HIDE DEF A, s
  <2> QED BY <1>3, <2>1 DEF Tab
<1> HIDE DEF A, s
<1>6. /\ r \in Tab /\ r.save = None /\ (r.buffered = None \/ r.buffered = k.buffered)
      /\ \/ r.text = t /\ r.synced = A
         \/ /\ k.buffered # None /\ r.synced = k.buffered /\ r.text = k.buffered.text
            /\ r.text = t \/ t = A.text
  <2>1. CASE s.buffered = None
    <3>1. r = s
      BY <2>1 DEF Resolve
    <3> QED BY <1>5, <2>1, <3>1
  <2>2. CASE s.buffered # None
    <3> DEFINE e == [s EXCEPT !.buffered = None]
    <3>1. e \in Tab /\ e.save = None /\ e.synced = A /\ e.text = t /\ e.buffered = None
      BY <1>5 DEF Tab
    <3>2. k.buffered \in Pad /\ k.buffered # None /\ r = Remote(e, k.buffered)
      BY <1>1, <1>5, <2>2 DEF Resolve
    <3> HIDE DEF e, r
    <3> QED BY <3>1, <3>2, RemoteIs
  <2> QED BY <2>1, <2>2
<1> HIDE DEF r
<1>7. f \in Tab /\ Posted(f) /\ f.text = r.text /\ f.synced = r.synced /\ f.buffered = r.buffered
  <2>1. CASE f = r
    BY <1>6, <2>1 DEF Posted
  <2>2. CASE f = Flush(r)
    <3>1. /\ f \in Tab /\ f.text = r.text /\ f.synced = r.synced /\ f.buffered = r.buffered
          /\ f.save = None \/ Posted(f)
      BY <1>6, <2>2, FlushIs
    <3> QED BY <3>1 DEF Posted
  <2> QED BY <1>4, <2>1, <2>2
<1> QED BY <1>3, <1>6, <1>7 DEF A

-----------------------------------------------------------------------------
(* What the functions keep of a tab.                                       *)

LEMMA TabStaysOK ==
  ASSUME NEW k, NEW P, NEW Q, P \subseteq Q, NEW v \in Nat, NEW u \in Nat, v <= u,
         NEW g, NEW h, g \subseteq h, TabOK(k, P, v, g)
  PROVE  TabOK(k, Q, u, h)
<1>1. k \in Tab /\ k.synced.version \in Nat /\ k.synced.version <= u
  BY DEF TabOK, Tab, Pad
<1>2. k.save # None => k.save.base \in Nat /\ k.save.base <= u
  BY DEF TabOK, Tab, Save
<1> QED BY <1>1, <1>2 DEF TabOK

LEMMA OpenedIsOK ==
  ASSUME NEW r, NEW P, NEW g, RowOK(r, P), NEW f, f = Opened(Get(r))
  PROVE  /\ TabOK(f, P, r.version, g) /\ f.save = None
         /\ f.synced = Get(r) /\ f.text = r.text
<1>1. r \in Row /\ Get(r) \in P /\ P \subseteq [text : Short, version : Nat]
  BY DEF RowOK
<1>2. Get(r) \in Pad /\ Get(r).text = r.text /\ Get(r).version = r.version
      /\ r.version \in Nat /\ r.text \in Text
  BY <1>1, ShadowIsPad DEF Row
<1>3. r.text \in Short
  BY <1>1, <1>2
<1>4. /\ f.text = r.text /\ f.synced = Get(r) /\ f.save = None
      /\ f.buffered = None /\ f \in Tab
  BY <1>2 DEF Opened, Tab
<1> QED BY <1>1, <1>2, <1>3, <1>4 DEF TabOK

LEMMA FlushIsOK ==
  ASSUME NEW k, NEW P, NEW v, NEW g, TabOK(k, P, v, g), NEW f, f = Flush(k)
  PROVE  TabOK(f, P, v, g)
<1>1. /\ k \in Tab /\ f \in Tab /\ f.text = k.text /\ f.synced = k.synced /\ f.buffered = k.buffered
      /\ f.save = k.save \/ (k.save = None /\ f.save # None /\ Posted(f))
  BY FlushIs DEF TabOK
<1> QED BY <1>1 DEF TabOK, Posted

LEMMA RemoteIsOK ==
  ASSUME NEW k, NEW r, NEW P, NEW g, RowOK(r, P), TabOK(k, P, r.version, g),
         NEW pad \in P, NEW f, f = Remote(k, pad)
  PROVE  TabOK(f, P, r.version, g)
<1>1. pad.text \in Short /\ pad.version \in Nat /\ pad.version <= r.version /\ pad \in Pad
  BY DEF RowOK, Pad, Short
<1>2. /\ k \in Tab /\ f \in Tab /\ f.save = k.save
      /\ \/ f.text = k.text /\ f.synced = k.synced /\ (f.buffered = k.buffered \/ f.buffered = pad)
         \/ f.text = pad.text /\ f.synced = pad /\ f.buffered = k.buffered
  BY <1>1, RemoteIs DEF TabOK
<1> QED BY <1>1, <1>2 DEF TabOK

LEMMA AckedIsOK ==
  ASSUME NEW k, NEW r, NEW P, NEW g, RowOK(r, P), TabOK(k, P, r.version, g),
         k.save # None, k.save.ack # None, NEW f, f = Acked(k)
  PROVE  TabOK(f, P, r.version, g) /\ f.synced \in P
<1> DEFINE A == Answered(k.save)
           t == IF k.save.ack.text = None THEN k.text ELSE k.save.ack.text
<1>1. k \in Tab /\ k.text \in Short /\ A \in P /\ (k.buffered # None => k.buffered \in P)
  BY DEF TabOK
<1>2. \A p \in P : p.text \in Short /\ p.version \in Nat /\ p.version <= r.version
  BY DEF RowOK
<1>3. t = k.text \/ t = A.text
  BY DEF Answered
<1>4. /\ f \in Tab /\ Posted(f) /\ (f.buffered = None \/ f.buffered = k.buffered)
      /\ \/ f.text = t /\ f.synced = A
         \/ k.buffered # None /\ f.synced = k.buffered /\ f.text = k.buffered.text
  BY <1>1, AckedIs
<1> HIDE DEF A, t
<1>5. f.synced \in P /\ f.text \in Short
  BY <1>1, <1>2, <1>3, <1>4
<1>6. f.synced.version \in Nat /\ f.synced.version <= r.version
  BY <1>2, <1>5
<1> QED BY <1>1, <1>4, <1>5, <1>6 DEF TabOK, Posted

\* Typing or erasing, a failed save, a beacon: the same tab with another text, without
\* its save, or with its text for the belief.
LEMMA EditedIsOK ==
  ASSUME NEW k, NEW P, NEW v, NEW g, TabOK(k, P, v, g), NEW f \in Tab,
         f.text \in Short, f.synced = k.synced, f.save = k.save, f.buffered = k.buffered
  PROVE  TabOK(f, P, v, g)
BY DEF TabOK

LEMMA FailedIsOK ==
  ASSUME NEW k, NEW P, NEW v, NEW g, TabOK(k, P, v, g), NEW f, f = Failed(k)
  PROVE  TabOK(f, P, v, g) /\ f.text = k.text /\ f.synced = k.synced /\ f.save = None
<1>1. /\ k \in Tab /\ f \in Tab /\ f.text = k.text /\ f.synced = k.synced
      /\ f.save = None /\ f.buffered = k.buffered
  BY DEF TabOK, Failed, Tab
<1> QED BY <1>1 DEF TabOK

LEMMA BeaconedIsOK ==
  ASSUME NEW k, NEW P, NEW v, NEW g, NEW h, TabOK(k, P, v, g), g \subseteq h,
         Sends(k) => "beaconed" \in h, NEW f, f = Beaconed(k)
  PROVE  /\ TabOK(f, P, v, h) /\ f.text = k.text /\ f.save = k.save
         /\ f.synced.version = k.synced.version
         /\ f.synced = k.synced \/ (Sends(k) /\ f.synced.text = k.text)
<1>1. k \in Tab /\ k.synced \in Pad /\ k.text \in Text
  BY DEF TabOK, Tab
<1>2. CASE Sends(k)
  <2>1. f = [k EXCEPT !.timer = FALSE, !.synced = [k.synced EXCEPT !.text = k.text]]
    BY <1>1, <1>2 DEF Beaconed
  <2>2. LET s == [k.synced EXCEPT !.text = k.text] IN
        s \in Pad /\ s.text = k.text /\ s.version = k.synced.version
    BY <1>1 DEF Pad
  <2>3. /\ f \in Tab /\ f.text = k.text /\ f.save = k.save /\ f.buffered = k.buffered
        /\ f.synced.version = k.synced.version /\ f.synced.text = k.text
    BY <1>1, <2>1, <2>2 DEF Tab
  <2> QED BY <1>2, <2>3 DEF TabOK
<1>3. CASE ~Sends(k)
  <2>1. /\ f \in Tab /\ f.text = k.text /\ f.synced = k.synced
        /\ f.save = k.save /\ f.buffered = k.buffered
    BY <1>1, <1>3 DEF Beaconed, Tab
  <2> QED BY <2>1 DEF TabOK
<1> QED BY <1>2, <1>3

-----------------------------------------------------------------------------
(* SyncInv is inductive.                                                   *)

LEMMA TabStepKeepsSync ==
  ASSUME SyncInv, UNCHANGED <<row, pads>>, given \subseteq given',
         NEW c \in Client, NEW k, tab' = [tab EXCEPT ![c] = k],
         TabOK(k, pads, row.version, given'),
         beacons \subseteq beacons', beacons' \subseteq Letter,
         \A m \in beacons' : m.base <= row.version,
         Claimed(k.synced, pads, row.version, beacons', given'),
         typed' \subseteq Word, erased' \subseteq Word, troubles' \in Nat
  PROVE  SyncInv'
<1>1. tab' \in [Client -> Tab] /\ tab'[c] = k /\ \A d \in Client \ {c} : tab'[d] = tab[d]
  BY DEF SyncInv, TabOK
<1>2. row.version \in Nat
  BY DEF SyncInv, RowOK, Row
<1>3. \A d \in Client : TabOK(tab'[d], pads, row.version, given')
  <2>1. \A d \in Client : TabOK(tab[d], pads, row.version, given')
    BY <1>2, TabStaysOK DEF SyncInv
  <2> QED BY <1>1, <2>1
<1>4. \A d \in Client : Claimed(tab'[d].synced, pads, row.version, beacons', given')
  BY <1>1 DEF SyncInv, Claimed
<1> QED BY <1>1, <1>3, <1>4 DEF SyncInv

\* What a write does to the row.
LEMMA WrittenIs ==
  ASSUME SyncInv, NEW text \in Short, NEW base \in Nat, base <= row.version, Written(text, base)
  PROVE  /\ RowOK(row', pads') /\ pads' = pads \cup {Get(row')} /\ given \subseteq given'
         /\ row'.version \in Nat /\ row.version <= row'.version
         /\ base < row.version \/ row.version < row'.version
         /\ \/ TooLong(row, text, base) /\ row' = row /\ "refused" \in given'
            \/ /\ row'.version = row.version + 1 /\ row'.text = Next(row, text, base)
               /\ base \in {row.version, Shadow(row).version} \/ "mismerged" \in given'
<1>1. RowOK(row, pads) /\ row \in Row /\ row.version \in Nat /\ text \in Text
  BY DEF SyncInv, RowOK, Row, Short
<1>2. row' = Store(row, text, base) /\ pads' = pads \cup {Get(row')}
  BY DEF Written
<1>3. /\ RowOK(row', pads')
      /\ \/ TooLong(row, text, base) /\ row' = row
         \/ ~TooLong(row, text, base) /\ row'.version = row.version + 1 /\ row'.text = Next(row, text, base)
  BY <1>1, <1>2, StoreIs
<1>4. base = row.version => ~TooLong(row, text, base)
  <2>1. Length(text) \in Nat /\ Length(text) <= MaxLen
    BY CopiesAreFinite DEF Short
  <2> QED BY <2>1, JotAssumption DEF TooLong, Next
<1>5. /\ given \subseteq given'
      /\ TooLong(row, text, base) => "refused" \in given'
      /\ ~TooLong(row, text, base) =>
           base \in {row.version, Shadow(row).version} \/ "mismerged" \in given'
  BY DEF Written
<1>6. row'.version \in Nat /\ row.version <= row'.version /\ (base < row.version \/ row.version < row'.version)
  BY <1>1, <1>3, <1>4
<1> QED BY <1>2, <1>3, <1>5, <1>6

LEMMA ServeKeepsSync == ASSUME SyncInv, NEW c \in Client, Serve(c) PROVE SyncInv'
<1> DEFINE s == tab[c].save
           a == [version |-> row'.version, text |-> IF row'.text = s.text THEN None ELSE row'.text]
           k == [tab[c] EXCEPT !.save = [s EXCEPT !.ack = a]]
<1>1. /\ s # None /\ s.ack = None /\ Written(s.text, s.base)
      /\ tab' = [tab EXCEPT ![c] = k] /\ UNCHANGED <<beacons, typed, erased, troubles>>
  BY DEF Serve
<1>2. /\ tab[c] \in Tab /\ TabOK(tab[c], pads, row.version, given) /\ s \in Save /\ s.base \in Nat
      /\ s.text \in Short /\ s.base <= row.version
  BY <1>1 DEF SyncInv, TabOK, Tab, Save
<1>3. /\ RowOK(row', pads') /\ pads' = pads \cup {Get(row')} /\ given \subseteq given'
      /\ row'.version \in Nat /\ row.version <= row'.version /\ row.version \in Nat
  BY <1>1, <1>2, WrittenIs DEF SyncInv, RowOK, Row
<1>4. row' \in Row /\ row'.text \in Text
  BY <1>3 DEF RowOK, Row
<1>5. a \in Reply
  BY <1>3, <1>4 DEF Reply
<1>6. LET b == [s EXCEPT !.ack = a] IN
      /\ b \in Save /\ b.text = s.text /\ b.base = s.base /\ Answered(b) = Get(row')
  <2>1. LET b == [s EXCEPT !.ack = a] IN b \in Save /\ b.text = s.text /\ b.base = s.base /\ b.ack = a
    BY <1>2, <1>5 DEF Save
  <2>2. a.version = row'.version /\ (IF a.text = None THEN s.text ELSE a.text) = row'.text
    BY <1>4, NoneApart
  <2> HIDE DEF a, s
  <2> QED BY <2>1, <2>2 DEF Answered, Get
<1> HIDE DEF a
<1>7. /\ k \in Tab /\ k.text = tab[c].text /\ k.synced = tab[c].synced /\ k.buffered = tab[c].buffered
      /\ k.save \in Save /\ k.save.text = s.text /\ k.save.base = s.base /\ Answered(k.save) = Get(row')
  BY <1>2, <1>6 DEF Tab
<1> HIDE DEF k
<1>8. TabOK(tab[c], pads', row'.version, given')
  BY <1>2, <1>3, TabStaysOK
<1>9. TabOK(k, pads', row'.version, given')
  BY <1>1, <1>3, <1>7, <1>8 DEF TabOK
<1>10. tab' \in [Client -> Tab] /\ tab'[c] = k /\ \A d \in Client \ {c} : tab'[d] = tab[d]
  BY <1>1, <1>7 DEF SyncInv
<1>11. \A d \in Client : TabOK(tab'[d], pads', row'.version, given')
  <2>1. \A d \in Client : TabOK(tab[d], pads', row'.version, given')
    BY <1>3, TabStaysOK DEF SyncInv
  <2> QED BY <1>9, <1>10, <2>1
<1>12. \A d \in Client : Claimed(tab'[d].synced, pads', row'.version, beacons', given')
  <2>1. \A d \in Client : tab'[d].synced = tab[d].synced /\ tab[d].synced.version \in Nat
    BY <1>7, <1>10 DEF SyncInv, Tab, Pad
  <2> QED BY <1>1, <1>3, <2>1 DEF SyncInv, Claimed
<1>13. \A m \in beacons' : m.base <= row'.version
  BY <1>1, <1>3 DEF SyncInv, Letter
<1> QED BY <1>1, <1>3, <1>10, <1>11, <1>12, <1>13 DEF SyncInv

LEMMA ServeBeaconKeepsSync == ASSUME SyncInv, NEW m \in beacons, ServeBeacon(m) PROVE SyncInv'
<1>1. /\ beacons' = beacons \ {m} /\ Written(m.text, m.base)
      /\ UNCHANGED <<tab, typed, erased, troubles>>
  BY DEF ServeBeacon
<1>2. m.text \in Short /\ m.base \in Nat /\ m.base <= row.version
  BY DEF SyncInv, Letter
<1>3. /\ RowOK(row', pads') /\ pads' = pads \cup {Get(row')} /\ given \subseteq given'
      /\ row'.version \in Nat /\ row.version <= row'.version /\ row.version \in Nat
      /\ m.base < row.version \/ row.version < row'.version
  BY <1>1, <1>2, WrittenIs DEF SyncInv, RowOK, Row
<1>4. \A d \in Client : TabOK(tab'[d], pads', row'.version, given')
  BY <1>1, <1>3, TabStaysOK DEF SyncInv
<1>5. \A d \in Client : Claimed(tab'[d].synced, pads', row'.version, beacons', given')
  <2> SUFFICES ASSUME NEW d \in Client
               PROVE  Claimed(tab[d].synced, pads', row'.version, beacons', given')
    BY <1>1
  <2>1. tab[d].synced.version \in Nat /\ tab[d].synced.version <= row.version
    BY DEF SyncInv, TabOK, Tab, Pad
  <2>2. CASE tab[d].synced \in pads \/ tab[d].synced.version < row.version \/ "dropped" \in given
    BY <1>3, <2>1, <2>2 DEF Claimed
  <2>3. CASE m.text = tab[d].synced.text /\ m.base = tab[d].synced.version
    BY <1>2, <1>3, <2>1, <2>3 DEF Claimed
  <2>4. CASE \E n \in beacons \ {m} : n.text = tab[d].synced.text /\ n.base = tab[d].synced.version
    BY <1>1, <2>4 DEF Claimed
  <2> QED BY <2>2, <2>3, <2>4 DEF SyncInv, Claimed
<1>6. \A n \in beacons' : n.base <= row'.version
  BY <1>1, <1>3 DEF SyncInv, Letter
<1> QED BY <1>1, <1>3, <1>4, <1>5, <1>6 DEF SyncInv

\* The requests a page leaves behind.
LEMMA LeftIs ==
  ASSUME NEW k, NEW P, NEW v \in Nat, NEW g, TabOK(k, P, v, g), troubles \in Nat, NEW m \in Left(k)
  PROVE  /\ m \in Letter /\ m.base <= v
         /\ \/ Sends(k) /\ m.text = k.text /\ m.base = k.synced.version
            \/ /\ k.save # None /\ k.save.ack = None
               /\ m.text = k.save.text /\ m.base = k.save.base
<1>1. /\ k \in Tab /\ k.text \in Short /\ k.synced.version \in Nat /\ k.synced.version <= v
      /\ k.save # None => k.save.text \in Short /\ k.save.base \in Nat /\ k.save.base <= v
  BY DEF TabOK, Tab, Pad, Save
<1>2. CASE Sends(k) /\ m = Message(2 * troubles, k.text, k.synced.version)
  BY <1>1, <1>2 DEF Message, Letter
<1>3. CASE k.save # None /\ k.save.ack = None /\ m = Message(2 * troubles + 1, k.save.text, k.save.base)
  BY <1>1, <1>3 DEF Message, Letter
<1> QED BY <1>2, <1>3 DEF Left

LEMMA InitIsSync == JInit => SyncInv
<1> SUFFICES ASSUME JInit PROVE SyncInv
  OBVIOUS
<1>1. /\ row = Unwritten /\ pads = {Get(Unwritten)}
      /\ tab = [c \in Client |-> Opened(Get(Unwritten))]
      /\ beacons = {} /\ typed = {} /\ erased = {} /\ given = {} /\ troubles = 0
  BY DEF JInit
<1>2. Blank \in Text /\ Blank \in Short
  BY BlankIsShort DEF Short
<1>3. Unwritten \in Row /\ Unwritten.version = 0 /\ Shadow(Unwritten) = Get(Unwritten)
      /\ Get(Unwritten).text = Blank /\ Get(Unwritten).version = 0
      /\ Get(Unwritten) \in [text : Short, version : Nat]
  BY <1>2 DEF Unwritten, Row, Shadow, Get
<1>4. RowOK(row, pads)
  BY <1>1, <1>3 DEF RowOK
<1>5. \A c \in Client : /\ tab[c] = Opened(Get(row))
                        /\ TabOK(tab[c], pads, row.version, given) /\ tab[c].synced \in pads
  BY <1>1, <1>4, OpenedIsOK DEF RowOK
<1>6. tab \in [Client -> Tab]
  BY <1>1, <1>5 DEF TabOK
<1> QED BY <1>1, <1>4, <1>5, <1>6 DEF SyncInv, Claimed

LEMMA NextKeepsSync == SyncInv /\ [JNext]_sync => SyncInv'
<1> SUFFICES ASSUME SyncInv, [JNext]_sync PROVE SyncInv'
  OBVIOUS
<1>1. /\ RowOK(row, pads) /\ row.version \in Nat /\ typed \subseteq Word /\ erased \subseteq Word
      /\ beacons \subseteq Letter /\ \A m \in beacons : m.base <= row.version
      /\ troubles \in Nat /\ tab \in [Client -> Tab]
      /\ \A c \in Client : /\ TabOK(tab[c], pads, row.version, given) /\ tab[c] \in Tab
                           /\ Claimed(tab[c].synced, pads, row.version, beacons, given)
  BY DEF SyncInv, RowOK, Row
\* A step of one tab that sends nothing and leaves its belief, or takes one from pads.
<1>2. ASSUME UNCHANGED <<row, pads, beacons>>, given \subseteq given', NEW c \in Client, NEW k,
             tab' = [tab EXCEPT ![c] = k], TabOK(k, pads, row.version, given),
             k.synced = tab[c].synced \/ k.synced \in pads,
             typed' \subseteq Word, erased' \subseteq Word, troubles' \in Nat
      PROVE  SyncInv'
  <2>1. TabOK(k, pads, row.version, given')
    BY <1>1, <1>2, TabStaysOK
  <2>2. Claimed(k.synced, pads, row.version, beacons', given')
    BY <1>1, <1>2 DEF Claimed
  <2> QED BY <1>1, <1>2, <2>1, <2>2, TabStepKeepsSync
<1>3. CASE UNCHANGED sync
  BY <1>1, <1>3 DEF sync, SyncInv
<1>4. ASSUME NEW c \in Client, NEW w \in Word, Type(c, w) PROVE SyncInv'
  <2> DEFINE t == [tab[c].text EXCEPT ![w] = @ + 1]
             k == [tab[c] EXCEPT !.text = t, !.timer = TRUE]
  <2>1. /\ tab' = [tab EXCEPT ![c] = k] /\ typed' = typed \cup {w}
        /\ UNCHANGED <<row, pads, beacons, erased, given, troubles>> /\ Length(tab[c].text) < MaxLen
    BY <1>4 DEF Type
  <2>2. t \in Short
    BY <1>1, <2>1, TypedIsShort DEF Tab
  <2> HIDE DEF t
  <2> HIDE DEF k
  <2>3. TabOK(k, pads, row.version, given) /\ k.synced = tab[c].synced
    <3>1. /\ k \in Tab /\ k.text = t /\ k.synced = tab[c].synced /\ k.save = tab[c].save
          /\ k.buffered = tab[c].buffered
      BY <1>1, <2>2 DEF k, Tab, Short
    <3> QED BY <1>1, <2>2, <3>1, EditedIsOK
  <2> QED BY <1>1, <1>2, <2>1, <2>3
<1>5. ASSUME NEW c \in Client, NEW w \in Word, Erase(c, w) PROVE SyncInv'
  <2> DEFINE t == [tab[c].text EXCEPT ![w] = 0]
             k == [tab[c] EXCEPT !.text = t, !.timer = TRUE]
  <2>1. /\ tab' = [tab EXCEPT ![c] = k] /\ erased' = erased \cup {w}
        /\ UNCHANGED <<row, pads, beacons, typed, given, troubles>>
    BY <1>5 DEF Erase
  <2>2. t \in Short
    BY <1>1, ErasedIsShort DEF TabOK
  <2> HIDE DEF t
  <2> HIDE DEF k
  <2>3. TabOK(k, pads, row.version, given) /\ k.synced = tab[c].synced
    <3>1. /\ k \in Tab /\ k.text = t /\ k.synced = tab[c].synced /\ k.save = tab[c].save
          /\ k.buffered = tab[c].buffered
      BY <1>1, <2>2 DEF k, Tab, Short
    <3> QED BY <1>1, <2>2, <3>1, EditedIsOK
  <2> QED BY <1>1, <1>2, <2>1, <2>3
<1>6. ASSUME NEW c \in Client, Timer(c) PROVE SyncInv'
  <2> DEFINE k == Flush(tab[c])
  <2>1. tab' = [tab EXCEPT ![c] = k] /\ UNCHANGED <<row, pads, beacons, typed, erased, given, troubles>>
    BY <1>6 DEF Timer
  <2>2. TabOK(k, pads, row.version, given) /\ k.synced = tab[c].synced
    BY <1>1, FlushIsOK, FlushIs
  <2> HIDE DEF k
  <2> QED BY <1>1, <1>2, <2>1, <2>2
<1>7. ASSUME NEW c \in Client, Blur(c) PROVE SyncInv'
  <2> DEFINE o == [tab[c] EXCEPT !.offline = FALSE]
             k == Flush(o)
  <2>1. tab' = [tab EXCEPT ![c] = k] /\ UNCHANGED <<row, pads, beacons, typed, erased, given, troubles>>
    BY <1>7 DEF Blur
  <2>2. o \in Tab /\ o.text = tab[c].text /\ o.synced = tab[c].synced /\ o.save = tab[c].save
        /\ o.buffered = tab[c].buffered
    BY <1>1 DEF Tab
  <2> HIDE DEF o
  <2>3. TabOK(o, pads, row.version, given)
    BY <1>1, <2>2 DEF TabOK
  <2>4. TabOK(k, pads, row.version, given) /\ k.synced = tab[c].synced
    BY <2>2, <2>3, FlushIsOK, FlushIs
  <2> HIDE DEF k
  <2> QED BY <1>1, <1>2, <2>1, <2>4
<1>8. ASSUME NEW c \in Client, Ack(c) PROVE SyncInv'
  <2> DEFINE k == Acked(tab[c])
  <2>1. /\ tab' = [tab EXCEPT ![c] = k] /\ tab[c].save # None /\ tab[c].save.ack # None
        /\ UNCHANGED <<row, pads, beacons, typed, erased, troubles>> /\ given \subseteq given'
    BY <1>8 DEF Ack, Gives
  <2>2. TabOK(k, pads, row.version, given) /\ k.synced \in pads
    BY <1>1, <2>1, AckedIsOK
  <2> HIDE DEF k
  <2> QED BY <1>1, <1>2, <2>1, <2>2
<1>9. ASSUME NEW c \in Client, Fail(c) PROVE SyncInv'
  <2> DEFINE k == Failed(tab[c])
  <2>1. /\ tab' = [tab EXCEPT ![c] = k] /\ troubles' = troubles + 1
        /\ UNCHANGED <<row, pads, beacons, typed, erased>> /\ given \subseteq given'
    BY <1>9 DEF Fail, Gives
  <2>2. TabOK(k, pads, row.version, given) /\ k.synced = tab[c].synced
    BY <1>1, FailedIsOK
  <2> HIDE DEF k
  <2>3. typed' \subseteq Word /\ erased' \subseteq Word /\ troubles' \in Nat
    BY <1>1, <2>1
  <2> QED BY <1>2, <2>1, <2>2, <2>3
<1>10. ASSUME NEW c \in Client, NEW pad \in pads, Receive(c, pad) PROVE SyncInv'
  <2> DEFINE k == Remote(tab[c], pad)
  <2>1. tab' = [tab EXCEPT ![c] = k] /\ UNCHANGED <<row, pads, beacons, typed, erased, given, troubles>>
    BY <1>10 DEF Receive
  <2>2. TabOK(k, pads, row.version, given)
    BY <1>1, RemoteIsOK
  <2>3. k.synced = tab[c].synced \/ k.synced \in pads
    BY DEF Remote
  <2> HIDE DEF k
  <2> QED BY <1>1, <1>2, <2>1, <2>2, <2>3
<1>11. ASSUME NEW c \in Client, Hide(c) PROVE SyncInv'
  <2> DEFINE j == tab[c]
             k == Beaconed(j)
             m == Message(2 * troubles, j.text, j.synced.version)
  <2>1. /\ tab' = [tab EXCEPT ![c] = k] /\ troubles' = troubles + 1 /\ UNCHANGED <<row, pads, typed, erased>>
        /\ beacons' = beacons \cup (IF Sends(j) THEN {m} ELSE {})
        /\ given \subseteq given' /\ (Sends(j) => "beaconed" \in given')
    BY <1>11 DEF Hide, Gives
  <2>2. j.synced.version \in Nat /\ j.text \in Short /\ j.synced.version <= row.version
    BY <1>1 DEF TabOK, Tab, Pad
  <2>3. m \in Letter /\ m.text = j.text /\ m.base = j.synced.version
    BY <1>1, <2>2 DEF Message, Letter
  <2> HIDE DEF m, k
  <2>4. /\ TabOK(k, pads, row.version, given') /\ k.synced.version = j.synced.version
        /\ k.synced = j.synced \/ (Sends(j) /\ k.synced.text = j.text)
    <3>1. TabOK(j, pads, row.version, given) /\ k = Beaconed(j)
      BY <1>1 DEF k
    <3> HIDE DEF j
    <3> QED BY <2>1, <3>1, BeaconedIsOK
  <2>5. beacons \subseteq beacons' /\ beacons' \subseteq Letter /\ \A n \in beacons' : n.base <= row.version
    BY <1>1, <2>1, <2>2, <2>3
  <2>6. Claimed(k.synced, pads, row.version, beacons', given')
    BY <1>1, <2>1, <2>3, <2>4, <2>5 DEF Claimed
  <2> HIDE DEF j
  <2>7. typed' \subseteq Word /\ erased' \subseteq Word /\ troubles' \in Nat
    BY <1>1, <2>1
  <2> QED BY <2>1, <2>4, <2>5, <2>6, <2>7, TabStepKeepsSync
<1>12. ASSUME NEW c \in Client, Reload(c) PROVE SyncInv'
  <2> DEFINE k == Opened(Get(row))
  <2>1. /\ tab' = [tab EXCEPT ![c] = k] /\ troubles' = troubles + 1 /\ UNCHANGED <<row, pads, typed, erased>>
        /\ beacons' = beacons \cup Left(tab[c]) /\ given \subseteq given'
    BY <1>12 DEF Reload, Gives
  <2>2. TabOK(k, pads, row.version, given') /\ k.synced = Get(row) /\ Get(row) \in pads
    BY <1>1, OpenedIsOK DEF RowOK
  <2> HIDE DEF k
  <2>3. beacons \subseteq beacons' /\ beacons' \subseteq Letter /\ \A n \in beacons' : n.base <= row.version
    BY <1>1, <2>1, LeftIs
  <2>4. Claimed(k.synced, pads, row.version, beacons', given')
    BY <2>2 DEF Claimed
  <2>5. typed' \subseteq Word /\ erased' \subseteq Word /\ troubles' \in Nat
    BY <1>1, <2>1
  <2> QED BY <2>1, <2>2, <2>3, <2>4, <2>5, TabStepKeepsSync
<1>13. ASSUME NEW m \in beacons, LoseBeacon(m) PROVE SyncInv'
  <2>1. /\ beacons' = beacons \ {m} /\ troubles' = troubles + 1
        /\ UNCHANGED <<row, pads, tab, typed, erased>> /\ given' = given \cup {"dropped"}
    BY <1>13 DEF LoseBeacon, Gives
  <2>2. \A d \in Client : TabOK(tab'[d], pads', row'.version, given')
    BY <1>1, <2>1, TabStaysOK
  <2>3. \A d \in Client : Claimed(tab'[d].synced, pads', row'.version, beacons', given')
    BY <2>1 DEF Claimed
  <2>4. /\ beacons' \subseteq Letter /\ \A n \in beacons' : n.base <= row.version
        /\ troubles' \in Nat
    BY <1>1, <2>1
  <2> QED BY <1>1, <2>1, <2>2, <2>3, <2>4 DEF SyncInv
<1>14. ASSUME NEW c \in Client, Skip(c) PROVE SyncInv'
  BY <1>1, <1>14 DEF Skip, SyncInv
<1> QED BY <1>3, <1>4, <1>5, <1>6, <1>7, <1>8, <1>9, <1>10, <1>11, <1>12, <1>13, <1>14,
           ServeKeepsSync, ServeBeaconKeepsSync DEF JNext

LEMMA SyncInvariant == JSpec => []SyncInv
BY InitIsSync, NextKeepsSync, PTL DEF JSpec

\* Type correctness, with the cap: the stored text and every tab's text keep to it,
\* although two short writes can merge into a long one (jot.go: ErrTooLong).
THEOREM NotesKeepToTheCap == JSpec => []JTypeOK
<1>1. SyncInv => JTypeOK
  BY DEF SyncInv, RowOK, JTypeOK, Get, Short
<1> QED BY <1>1, SyncInvariant, PTL

\* No tab ever pairs a version with a text the server did not store under it: merges,
\* lost answers, late events and buffered ones never mix revisions (sync.js: flush,
\* remote, resolveBuffered).
THEOREM BeliefsWereCommitted == JSpec => []SyncedWasCommitted
<1>1. SyncInv => SyncedWasCommitted
  BY DEF SyncInv, TabOK, SyncedWasCommitted
<1> QED BY <1>1, SyncInvariant, PTL

\* The save indicator is honest: a tab that shows "saved" and knows the last version
\* shows what the row holds, unless a beacon is on its way or was lost (statusOf).
THEOREM SavedMeansStored == JSpec => []SavedIsStored
<1>1. SyncInv => SavedIsStored
  <2> SUFFICES ASSUME SyncInv, NEW c \in Client, Status(tab[c]) = "saved",
                      tab[c].synced.version = row.version, beacons = {}, "dropped" \notin given
               PROVE  tab[c].text = row.text
    BY DEF SavedIsStored
  <2>1. tab[c].text = tab[c].synced.text
    BY DEF Status, Dirty
  <2>2. row.version \in Nat /\ row \in Row /\ Get(row) \in pads
    BY DEF SyncInv, RowOK, Row
  <2>3. tab[c].synced \in pads
    BY <2>2 DEF SyncInv, Claimed
  <2>4. Get(row).version = row.version /\ Get(row).text = row.text
    BY DEF Get
  <2>5. tab[c].synced = Get(row)
    BY <2>2, <2>3, <2>4 DEF SyncInv, RowOK
  <2> QED BY <2>1, <2>4, <2>5
<1> QED BY <1>1, SyncInvariant, PTL

-----------------------------------------------------------------------------
(* LossInv is inductive.                                                   *)

\* Counts are numbers.
LEMMA Counts ==
  ASSUME SyncInv, NEW w \in Word
  PROVE  /\ row.text[w] \in Nat
         /\ \A p \in pads : p.text[w] \in Nat /\ p.version \in Nat
         /\ \A m \in beacons : m.text[w] \in Nat /\ m.base \in Nat
         /\ \A c \in Client :
              /\ tab[c] \in Tab /\ tab[c].text[w] \in Nat
              /\ tab[c].synced.text[w] \in Nat /\ tab[c].synced.version \in Nat
              /\ tab[c].save # None => tab[c].save.text[w] \in Nat /\ tab[c].save.base \in Nat
<1>1. \A t \in Text : t[w] \in Nat
  BY DEF Text
<1>2. row.text \in Text
  BY DEF SyncInv, RowOK, Row
<1>3. \A p \in pads : p.text \in Text /\ p.version \in Nat
  BY DEF SyncInv, RowOK, Short
<1>4. \A m \in beacons : m.text \in Text /\ m.base \in Nat
  BY DEF SyncInv, Letter, Short
<1>5. \A c \in Client :
        /\ tab[c] \in Tab /\ tab[c].text \in Text
        /\ tab[c].synced.text \in Text /\ tab[c].synced.version \in Nat
        /\ tab[c].save # None => tab[c].save.text \in Text /\ tab[c].save.base \in Nat
  BY DEF SyncInv, Tab, Pad, Save
<1> QED BY <1>1, <1>2, <1>3, <1>4, <1>5

\* A step of one tab, seen from one word.
LEMMA TabStepKeepsWord ==
  ASSUME SyncInv, NEW w \in Word, NotLost(w), UNCHANGED <<row, pads>>,
         NEW c \in Client, NEW k, tab' = [tab EXCEPT ![c] = k],
         beacons \subseteq beacons',
         \A m \in beacons' \ beacons : Builds(m.text, m.base, pads, w),
         Holds(k, pads, row, w),
         k.synced.text[w] > 0 => Held(w)',
         tab[c].text[w] > 0 => Held(w)' \/ k.text[w] > 0,
         w \in typed' => w \in typed \/ k.text[w] > 0
  PROVE  NotLost(w)'
<1>1. tab'[c] = k /\ \A d \in Client \ {c} : tab'[d] = tab[d]
  BY DEF SyncInv
<1>2. Held(w) => Held(w)'
  BY DEF Held
<1>3. \A d \in Client : Holds(tab'[d], pads, row, w)
  BY <1>1 DEF NotLost
<1>4. \A m \in beacons' : Builds(m.text, m.base, pads, w)
  BY DEF NotLost
<1>5. \A d \in Client : tab'[d].synced.text[w] > 0 => Held(w)'
  BY <1>1, <1>2 DEF NotLost
<1>6. w \in typed' => Held(w)' \/ \E d \in Client : tab'[d].text[w] > 0
  BY <1>1, <1>2 DEF NotLost
<1>7. \A p \in pads' : p.text[w] <= row'.text[w]
  BY DEF NotLost
<1> QED BY <1>3, <1>4, <1>5, <1>6, <1>7 DEF NotLost

\* A pad builds on itself, and on nothing else under its version.
LEMMA PadBuilds ==
  ASSUME SyncInv, NEW w \in Word, NEW p \in pads, NEW text, p.text[w] <= text[w]
  PROVE  Builds(text, p.version, pads, w)
BY DEF SyncInv, RowOK, Builds

\* A write that was typed on the row or its shadow takes no word from the row that
\* nobody erased, and adds what it holds.
LEMMA WriteKeepsWord ==
  ASSUME SyncInv, NEW w \in Word, \A p \in pads : p.text[w] <= row.text[w],
         NEW text \in Short, NEW base \in Nat, base <= row.version,
         Builds(text, base, pads, w), Written(text, base),
         given' \subseteq {"retried", "beaconed"}
  PROVE  /\ row'.text[w] \in Nat /\ row.text[w] <= row'.text[w] /\ text[w] <= row'.text[w]
         /\ row'.version = row.version + 1 /\ pads' = pads \cup {Get(row')}
         /\ \A p \in pads' : p.text[w] <= row'.text[w]
<1>1. row \in Row /\ Get(row) \in pads /\ Shadow(row) \in pads /\ text \in Text
  BY DEF SyncInv, RowOK, Short
<1>2. /\ row'.version = row.version + 1 /\ row'.text = Next(row, text, base)
      /\ base \in {row.version, Shadow(row).version} /\ pads' = pads \cup {Get(row')}
  BY WrittenIs
<1>3. row.text[w] \in Nat /\ text[w] \in Nat /\ Shadow(row).text[w] \in Nat
  BY <1>1, Counts DEF Text
<1>4. Get(row).version = row.version /\ Get(row).text = row.text
      /\ Get(row').text = row'.text
  BY DEF Get
<1>5. row'.text[w] \in Nat /\ row.text[w] <= row'.text[w] /\ text[w] <= row'.text[w]
  <2>1. CASE base = row.version
    <3>1. row'.text[w] = text[w]
      BY <1>1, <1>2, <2>1, NextIs
    <3>2. row.text[w] <= text[w]
      BY <1>1, <1>4, <2>1 DEF Builds
    <3> QED BY <1>3, <3>1, <3>2
  <2>2. CASE base # row.version
    <3>1. Shadow(row).text[w] <= text[w] /\ Shadow(row).text[w] <= row.text[w]
      BY <1>1, <1>2, <2>2 DEF Builds
    <3>2. row'.text[w] = LET n == row.text[w] + text[w] - Shadow(row).text[w] IN IF n < 0 THEN 0 ELSE n
      BY <1>1, <1>2, <2>2, NextIs
    <3> QED BY <1>3, <3>1, <3>2
  <2> QED BY <2>1, <2>2
<1>6. \A p \in pads' : p.text[w] <= row'.text[w]
  BY <1>2, <1>3, <1>4, <1>5, Counts
<1> QED BY <1>2, <1>5, <1>6

\* What a new version leaves of the tabs and messages, seen from one word.
LEMMA WriteKeepsNotLost ==
  ASSUME SyncInv, NEW w \in Word, NotLost(w),
         row'.text[w] \in Nat, row.text[w] <= row'.text[w],
         row'.version = row.version + 1, pads' = pads \cup {Get(row')},
         \A p \in pads' : p.text[w] <= row'.text[w],
         tab' \in [Client -> Tab],
         \A d \in Client :
           /\ tab'[d].text = tab[d].text /\ tab'[d].synced = tab[d].synced
           /\ tab'[d].save # None =>
                /\ tab[d].save # None /\ tab'[d].save.text = tab[d].save.text
                /\ tab'[d].save.base = tab[d].save.base
                /\ tab'[d].save.ack # None =>
                     tab[d].save.ack # None \/ tab[d].save.text[w] <= row'.text[w],
         beacons' \subseteq beacons,
         \A m \in beacons \ beacons' : m.text[w] <= row'.text[w],
         typed' = typed
  PROVE  NotLost(w)'
<1>1. row.version \in Nat /\ Get(row').version = row.version + 1 /\ row.text[w] \in Nat
  BY Counts DEF SyncInv, RowOK, Row, Get
<1>2. ASSUME NEW text, NEW v \in Nat, v <= row.version, Builds(text, v, pads, w)
      PROVE  Builds(text, v, pads', w)
  BY <1>1, <1>2 DEF Builds
<1>3. \A d \in Client : Holds(tab'[d], pads', row', w)
  <2> SUFFICES ASSUME NEW d \in Client PROVE Holds(tab'[d], pads', row', w)
    OBVIOUS
  <2>1. /\ tab[d].synced.version \in Nat /\ tab[d].synced.version <= row.version
        /\ tab[d].save # None => /\ tab[d].save.base \in Nat /\ tab[d].save.base <= row.version
                                 /\ tab[d].save.text[w] \in Nat
    BY Counts DEF SyncInv, TabOK
  <2>2. Holds(tab[d], pads, row, w)
    BY DEF NotLost
  <2>3. Builds(tab'[d].text, tab'[d].synced.version, pads', w)
    BY <1>2, <2>1, <2>2 DEF Holds
  <2>4. tab[d].save # None => Builds(tab[d].save.text, tab[d].save.base, pads', w)
    BY <1>2, <2>1, <2>2 DEF Holds
  <2>5. tab[d].save # None /\ tab[d].save.ack # None => tab[d].save.text[w] <= row'.text[w]
    BY <1>1, <2>1, <2>2 DEF Holds
  <2> QED BY <2>2, <2>3, <2>4, <2>5 DEF Holds
<1>4. \A m \in beacons' : Builds(m.text, m.base, pads', w)
  BY <1>2, Counts DEF SyncInv, NotLost
<1>5. Held(w) => Held(w)'
  BY <1>1, Counts DEF Held
<1>6. \A d \in Client : tab'[d].synced.text[w] > 0 => Held(w)'
  BY <1>5 DEF NotLost
<1>7. w \in typed' => Held(w)' \/ \E d \in Client : tab'[d].text[w] > 0
  BY <1>5 DEF NotLost
<1> QED BY <1>3, <1>4, <1>6, <1>7 DEF NotLost

LEMMA ServeKeepsWord ==
  ASSUME SyncInv, NEW c \in Client, Serve(c), NEW w \in Word, NotLost(w),
         given' \subseteq {"retried", "beaconed"}
  PROVE  NotLost(w)'
<1> DEFINE s == tab[c].save
<1>1. /\ s # None /\ s.ack = None /\ Written(s.text, s.base) /\ UNCHANGED <<beacons, typed>>
  BY DEF Serve
<1>2. /\ s.text \in Short /\ s.base \in Nat /\ s.base <= row.version
      /\ Builds(s.text, s.base, pads, w) /\ tab[c] \in Tab /\ s \in Save
  BY <1>1, Counts DEF SyncInv, TabOK, NotLost, Holds, Tab
<1>3. /\ row'.text[w] \in Nat /\ row.text[w] <= row'.text[w] /\ s.text[w] <= row'.text[w]
      /\ row'.version = row.version + 1 /\ pads' = pads \cup {Get(row')}
      /\ \A p \in pads' : p.text[w] <= row'.text[w]
  BY <1>1, <1>2, WriteKeepsWord DEF NotLost
<1>4. /\ tab'[c].text = tab[c].text /\ tab'[c].synced = tab[c].synced
      /\ tab'[c].save.text = s.text /\ tab'[c].save.base = s.base
      /\ \A d \in Client \ {c} : tab'[d] = tab[d]
  <2> DEFINE a == [version |-> row'.version,
                   text |-> IF row'.text = s.text THEN None ELSE row'.text]
  <2>1. tab' = [tab EXCEPT ![c] = [tab[c] EXCEPT !.save = [s EXCEPT !.ack = a]]]
    BY DEF Serve
  <2> HIDE DEF a
  <2> QED BY <1>2, <2>1 DEF SyncInv, Tab, Save
<1>5. tab' \in [Client -> Tab]
  BY ServeKeepsSync DEF SyncInv
<1>6. \A d \in Client :
        /\ tab'[d].text = tab[d].text /\ tab'[d].synced = tab[d].synced
        /\ tab'[d].save # None =>
             /\ tab[d].save # None /\ tab'[d].save.text = tab[d].save.text
             /\ tab'[d].save.base = tab[d].save.base
             /\ tab'[d].save.ack # None =>
                  tab[d].save.ack # None \/ tab[d].save.text[w] <= row'.text[w]
  BY <1>1, <1>3, <1>4
<1> QED BY <1>1, <1>3, <1>5, <1>6, WriteKeepsNotLost

LEMMA ServeBeaconKeepsWord ==
  ASSUME SyncInv, NEW m \in beacons, ServeBeacon(m), NEW w \in Word, NotLost(w),
         given' \subseteq {"retried", "beaconed"}
  PROVE  NotLost(w)'
<1>1. beacons' = beacons \ {m} /\ Written(m.text, m.base) /\ UNCHANGED <<tab, typed>>
  BY DEF ServeBeacon
<1>2. /\ m.text \in Short /\ m.base \in Nat /\ m.base <= row.version
      /\ Builds(m.text, m.base, pads, w)
  BY DEF SyncInv, Letter, NotLost
<1>3. /\ row'.text[w] \in Nat /\ row.text[w] <= row'.text[w] /\ m.text[w] <= row'.text[w]
      /\ row'.version = row.version + 1 /\ pads' = pads \cup {Get(row')}
      /\ \A p \in pads' : p.text[w] <= row'.text[w]
  BY <1>1, <1>2, WriteKeepsWord DEF NotLost
<1>4. tab' \in [Client -> Tab]
  BY <1>1 DEF SyncInv
<1>5. \A d \in Client :
        /\ tab'[d].text = tab[d].text /\ tab'[d].synced = tab[d].synced
        /\ tab'[d].save # None =>
             /\ tab[d].save # None /\ tab'[d].save.text = tab[d].save.text
             /\ tab'[d].save.base = tab[d].save.base
             /\ tab'[d].save.ack # None =>
                  tab[d].save.ack # None \/ tab[d].save.text[w] <= row'.text[w]
  BY <1>1
<1> QED BY <1>1, <1>3, <1>4, <1>5, WriteKeepsNotLost

\* What NotLost says of a tab at hand.
LEMMA AtHand ==
  ASSUME SyncInv, NEW w \in Word, NotLost(w), NEW c \in Client
  PROVE  /\ tab[c] \in Tab /\ Holds(tab[c], pads, row, w)
         /\ tab[c].text[w] \in Nat /\ row.text[w] \in Nat
         /\ tab[c].synced.text[w] > 0 => Held(w)
         /\ \A p \in pads : p.text[w] > 0 => Held(w)
         /\ ~Dirty(tab[c]) /\ tab[c].text[w] > 0 => Held(w)
<1>1. \A p \in pads : p.text[w] \in Nat /\ p.text[w] <= row.text[w]
  BY Counts DEF NotLost
<1>2. row.text[w] \in Nat
  BY Counts
<1>3. \A p \in pads : p.text[w] > 0 => Held(w)
  BY <1>1, <1>2 DEF Held
<1> QED BY <1>2, <1>3, Counts DEF NotLost, Dirty

LEMMA EditKeepsWord ==
  ASSUME SyncInv, NEW c \in Client, NEW v \in Word, Type(c, v) \/ Erase(c, v),
         NEW w \in Word, w \notin erased', NotLost(w)
  PROVE  NotLost(w)'
<1> DEFINE j == tab[c]
<1>1. j \in Tab /\ Holds(j, pads, row, w) /\ j.text \in Text /\ j.text[w] \in Nat
      /\ (j.synced.text[w] > 0 => Held(w)) /\ (j.save # None => j.save.text[w] \in Nat)
      /\ j.synced.version \in Nat
      /\ \A p \in pads : p.text[w] \in Nat
  BY AtHand, Counts DEF Tab
<1>2. PICK t \in Text : /\ tab' = [tab EXCEPT ![c] = [j EXCEPT !.text = t, !.timer = TRUE]]
                        /\ j.text[w] <= t[w] /\ t[w] \in Nat
                        /\ w \in typed' => w \in typed \/ t[w] > 0
                        /\ UNCHANGED <<row, pads, beacons>>
  <2>1. CASE Type(c, v)
    <3> DEFINE t == [j.text EXCEPT ![v] = @ + 1]
    <3>1. /\ tab' = [tab EXCEPT ![c] = [j EXCEPT !.text = t, !.timer = TRUE]]
          /\ UNCHANGED <<row, pads, beacons>> /\ typed' = typed \cup {v}
      BY <2>1 DEF Type
    <3>2. t \in Text /\ j.text[w] <= t[w] /\ t[w] \in Nat /\ (w = v => t[w] > 0)
      BY <1>1 DEF Text
    <3> HIDE DEF t, j
    <3> QED BY <3>1, <3>2
  <2>2. CASE Erase(c, v)
    <3> DEFINE t == [j.text EXCEPT ![v] = 0]
    <3>1. /\ tab' = [tab EXCEPT ![c] = [j EXCEPT !.text = t, !.timer = TRUE]]
          /\ UNCHANGED <<row, pads, beacons, typed>> /\ erased' = erased \cup {v}
      BY <2>2 DEF Erase
    <3>2. w # v
      BY <3>1
    <3>3. t \in Text /\ j.text[w] <= t[w] /\ t[w] \in Nat
      BY <1>1, <3>2 DEF Text
    <3> HIDE DEF t, j
    <3> QED BY <3>1, <3>3
  <2> QED BY <2>1, <2>2
<1> DEFINE k == [j EXCEPT !.text = t, !.timer = TRUE]
<1>3. k.text = t /\ k.synced = j.synced /\ k.save = j.save
  BY <1>1 DEF Tab
<1>4. tab' = [tab EXCEPT ![c] = k]
  BY <1>2
<1> HIDE DEF k
<1>5. Holds(k, pads, row, w)
  BY <1>1, <1>2, <1>3 DEF Holds, Builds
<1>6. k.synced.text[w] > 0 => Held(w)'
  BY <1>1, <1>2, <1>3 DEF Held
<1>7. j.text[w] > 0 => k.text[w] > 0
  BY <1>1, <1>2, <1>3
<1> QED BY <1>2, <1>3, <1>4, <1>5, <1>6, <1>7, TabStepKeepsWord

\* Steps that leave the text and send no message: a flush, an answer that fails.
LEMMA QuietStepKeepsWord ==
  ASSUME SyncInv, NEW w \in Word, NotLost(w), UNCHANGED <<row, pads, beacons, typed>>,
         NEW c \in Client, NEW k \in Tab, tab' = [tab EXCEPT ![c] = k],
         k.text = tab[c].text, k.synced = tab[c].synced,
         k.save = None \/ k.save = tab[c].save \/ Posted(k)
  PROVE  NotLost(w)'
<1>1. Holds(tab[c], pads, row, w) /\ (tab[c].synced.text[w] > 0 => Held(w)) /\ tab[c].text[w] \in Nat
  BY AtHand
<1>2. Holds(k, pads, row, w)
  BY <1>1 DEF Holds, Posted
<1>3. k.synced.text[w] > 0 => Held(w)'
  BY <1>1 DEF Held
<1> QED BY <1>2, <1>3, TabStepKeepsWord

LEMMA AckKeepsWord ==
  ASSUME SyncInv, NEW c \in Client, Ack(c), NEW w \in Word, NotLost(w),
         given' \subseteq {"retried", "beaconed"}
  PROVE  NotLost(w)'
<1> DEFINE j == tab[c]
           A == Answered(j.save)
           t == IF j.save.ack.text = None THEN j.text ELSE j.save.ack.text
           k == Acked(j)
<1>1. /\ tab' = [tab EXCEPT ![c] = k] /\ j.save # None /\ j.save.ack # None
      /\ UNCHANGED <<row, pads, beacons, typed>>
      /\ j.save.ack.text # None => j.text = j.save.text
  BY DEF Ack, Gives
<1>2. /\ j \in Tab /\ Holds(j, pads, row, w) /\ A \in pads
      /\ j.buffered # None => j.buffered \in pads
      /\ j.text[w] \in Nat /\ row.text[w] \in Nat /\ j.save.text[w] \in Nat
      /\ \A p \in pads : p.text[w] > 0 => Held(w)
  BY <1>1, AtHand, Counts DEF SyncInv, TabOK
<1>3. /\ Posted(k)
      /\ \/ k.text = t /\ k.synced = A
         \/ /\ j.buffered # None /\ k.synced = j.buffered /\ k.text = j.buffered.text
            /\ k.text = t \/ t = A.text
  BY <1>1, <1>2, AckedIs
<1>4. A.text[w] <= t[w] /\ t[w] \in Nat
  <2>1. A.text = IF j.save.ack.text = None THEN j.save.text ELSE j.save.ack.text
    BY DEF Answered
  <2>2. A.text[w] \in Nat
    BY <1>2, Counts
  <2>3. j.save.text[w] <= j.text[w]
    BY <1>1, <1>2 DEF Holds
  <2> HIDE DEF A, j
  <2> QED BY <1>2, <2>1, <2>2, <2>3
<1>5. j.text[w] > 0 => Held(w) \/ t[w] > 0
  <2>1. CASE j.save.ack.text = None
    BY <2>1
  <2>2. CASE j.save.ack.text # None
    <3>1. j.save.text[w] <= row.text[w] /\ j.text = j.save.text
      BY <1>1, <1>2, <2>2 DEF Holds
    <3> QED BY <1>2, <3>1 DEF Held
  <2> QED BY <2>1, <2>2
<1> HIDE DEF A, t, j
<1>6. k.synced \in pads /\ k.synced.text[w] <= k.text[w]
  <2>1. \A p \in pads : p.text[w] \in Nat
    BY Counts
  <2> HIDE DEF k
  <2> QED BY <1>2, <1>3, <1>4, <2>1
<1>7. j.text[w] > 0 => Held(w) \/ k.text[w] > 0
  BY <1>2, <1>3, <1>5
<1> HIDE DEF k
<1>8. Builds(k.text, k.synced.version, pads, w)
  BY <1>6, PadBuilds
<1>9. k.text[w] \in Nat
  <2>1. \A p \in pads : p.text[w] \in Nat
    BY Counts
  <2> QED BY <1>2, <1>3, <1>4, <2>1
<1>10. Holds(k, pads, row, w)
  BY <1>3, <1>8, <1>9 DEF Holds, Posted
<1>11. k.synced.text[w] > 0 => Held(w)'
  BY <1>1, <1>2, <1>6 DEF Held
<1>12. tab[c].text[w] > 0 => Held(w)' \/ k.text[w] > 0
  BY <1>1, <1>7 DEF Held, j
<1> QED BY <1>1, <1>10, <1>11, <1>12, TabStepKeepsWord

LEMMA ReceiveKeepsWord ==
  ASSUME SyncInv, NEW c \in Client, NEW pad \in pads, Receive(c, pad), NEW w \in Word, NotLost(w)
  PROVE  NotLost(w)'
<1> DEFINE j == tab[c]
           k == Remote(j, pad)
<1>1. tab' = [tab EXCEPT ![c] = k] /\ UNCHANGED <<row, pads, beacons, typed>>
  BY DEF Receive
<1>2. /\ j \in Tab /\ pad \in Pad /\ Holds(j, pads, row, w) /\ pad.text[w] \in Nat
      /\ j.synced.text[w] > 0 => Held(w)
      /\ pad.text[w] > 0 => Held(w)
  BY AtHand, Counts DEF SyncInv, RowOK, Pad, Short
<1>3. /\ k.save = j.save
      /\ \/ k.text = j.text /\ k.synced = j.synced
         \/ /\ k.text = pad.text /\ k.synced = pad
            /\ pad.text = j.text \/ (j.text = j.synced.text /\ k.save = None)
  BY <1>2, RemoteIs
<1> HIDE DEF k
<1>4. CASE k.text = j.text /\ k.synced = j.synced
  <2>1. Holds(k, pads, row, w)
    BY <1>2, <1>3, <1>4 DEF Holds
  <2>2. k.synced.text[w] > 0 => Held(w)'
    BY <1>1, <1>2, <1>4 DEF Held
  <2> QED BY <1>1, <1>4, <2>1, <2>2, TabStepKeepsWord
<1>5. CASE /\ k.text = pad.text /\ k.synced = pad
           /\ pad.text = j.text \/ (j.text = j.synced.text /\ k.save = None)
  <2>1. Builds(k.text, k.synced.version, pads, w)
    BY <1>2, <1>5, PadBuilds
  <2>2. Holds(k, pads, row, w)
    BY <1>2, <1>3, <1>5, <2>1 DEF Holds
  <2>3. k.synced.text[w] > 0 => Held(w)'
    BY <1>1, <1>2, <1>5 DEF Held
  <2>4. j.text[w] > 0 => Held(w)' \/ k.text[w] > 0
    BY <1>1, <1>2, <1>5 DEF Held
  <2> QED BY <1>1, <2>2, <2>3, <2>4, TabStepKeepsWord
<1> QED BY <1>3, <1>4, <1>5

LEMMA HideKeepsWord ==
  ASSUME SyncInv, NEW c \in Client, Hide(c), NEW w \in Word, NotLost(w)
  PROVE  NotLost(w)'
<1> DEFINE j == tab[c]
           k == Beaconed(j)
           m == Message(2 * troubles, j.text, j.synced.version)
<1>1. /\ tab' = [tab EXCEPT ![c] = k] /\ UNCHANGED <<row, pads, typed>>
      /\ beacons' = beacons \cup (IF Sends(j) THEN {m} ELSE {})
  BY DEF Hide
<1>2. /\ TabOK(j, pads, row.version, given) /\ Holds(j, pads, row, w)
      /\ j.synced.text[w] > 0 => Held(w)
  BY AtHand DEF SyncInv
<1>3. m.text = j.text /\ m.base = j.synced.version
  BY DEF Message
<1>4. /\ k.text = j.text /\ k.save = j.save /\ k.synced.version = j.synced.version
      /\ k.synced = j.synced \/ (Sends(j) /\ k.synced.text = j.text)
  <2> DEFINE h == given \cup {"beaconed"}
  <2>1. given \subseteq h /\ "beaconed" \in h /\ k = Beaconed(j)
    OBVIOUS
  <2> HIDE DEF h, j, k
  <2>2. /\ TabOK(k, pads, row.version, h) /\ k.text = j.text /\ k.save = j.save
        /\ k.synced.version = j.synced.version
        /\ k.synced = j.synced \/ (Sends(j) /\ k.synced.text = j.text)
    BY <1>2, <2>1, BeaconedIsOK
  <2> QED BY <2>2
<1> HIDE DEF j, k, m
<1>5. Holds(k, pads, row, w)
  BY <1>2, <1>4 DEF Holds
<1>6. \A n \in beacons' \ beacons : Builds(n.text, n.base, pads, w)
  BY <1>1, <1>2, <1>3 DEF Holds
<1>7. k.synced.text[w] > 0 => Held(w)'
  BY <1>1, <1>2, <1>3, <1>4 DEF Held
<1>8. beacons \subseteq beacons'
  BY <1>1
<1>9. tab[c].text[w] > 0 => k.text[w] > 0
  BY <1>4 DEF j
<1> QED BY <1>1, <1>5, <1>6, <1>7, <1>8, <1>9, TabStepKeepsWord

LEMMA ReloadKeepsWord ==
  ASSUME SyncInv, NEW c \in Client, Reload(c), NEW w \in Word, NotLost(w)
  PROVE  NotLost(w)'
<1> DEFINE j == tab[c]
           k == Opened(Get(row))
<1>1. /\ tab' = [tab EXCEPT ![c] = k] /\ UNCHANGED <<row, pads, typed>>
      /\ beacons' = beacons \cup Left(j)
  BY DEF Reload
<1>2. /\ TabOK(j, pads, row.version, given) /\ Holds(j, pads, row, w)
      /\ j.text[w] \in Nat /\ row.text[w] \in Nat
      /\ j.save # None => j.save.text[w] \in Nat
      /\ ~Dirty(j) /\ j.text[w] > 0 => Held(w)
      /\ Get(row) \in pads /\ Get(row).text = row.text
      /\ row.text[w] > 0 => Held(w)
      /\ row.version \in Nat /\ troubles \in Nat
  BY AtHand, Counts DEF SyncInv, RowOK, Row, Get, Held
<1>3. k.synced = Get(row) /\ k.text = row.text /\ k.save = None
  BY OpenedIsOK DEF SyncInv
<1> HIDE DEF k
<1>4. Builds(k.text, k.synced.version, pads, w)
  BY <1>2, <1>3, PadBuilds
<1>5. Holds(k, pads, row, w)
  BY <1>3, <1>4 DEF Holds
<1>6. \A n \in beacons' \ beacons : Builds(n.text, n.base, pads, w)
  BY <1>1, <1>2, LeftIs DEF Holds
<1>7. Held(w) => Held(w)'
  BY <1>1 DEF Held
<1>8. k.synced.text[w] > 0 => Held(w)'
  BY <1>2, <1>3, <1>7
<1>9. j.text[w] > 0 => Held(w)'
  <2> SUFFICES ASSUME j.text[w] > 0 PROVE Held(w)'
    OBVIOUS
  <2>1. CASE ~Dirty(j)
    BY <1>2, <1>7, <2>1
  <2>2. CASE Sends(j)
    <3>1. Message(2 * troubles, j.text, j.synced.version) \in beacons'
      BY <1>1, <2>2 DEF Left
    <3>2. Message(2 * troubles, j.text, j.synced.version).text = j.text
      BY DEF Message
    <3> QED BY <3>1, <3>2 DEF Held
  <2>3. CASE Dirty(j) /\ ~Sends(j)
    <3>1. j.save # None /\ j.text = j.save.text
      BY <2>3 DEF Sends
    <3>2. CASE j.save.ack = None
      <4>1. Message(2 * troubles + 1, j.save.text, j.save.base) \in beacons'
        BY <1>1, <3>1, <3>2 DEF Left
      <4>2. Message(2 * troubles + 1, j.save.text, j.save.base).text = j.save.text
        BY DEF Message
      <4> QED BY <3>1, <4>1, <4>2 DEF Held
    <3>3. CASE j.save.ack # None
      <4>1. j.save.text[w] <= row.text[w]
        BY <1>2, <3>1, <3>3 DEF Holds
      <4> QED BY <1>2, <1>7, <3>1, <4>1
    <3> QED BY <3>2, <3>3
  <2> QED BY <2>1, <2>2, <2>3
<1>10. beacons \subseteq beacons'
  BY <1>1
<1> QED BY <1>1, <1>5, <1>6, <1>8, <1>9, <1>10, TabStepKeepsWord

LEMMA NextKeepsLoss == SyncInv /\ LossInv /\ [JNext]_sync => LossInv'
<1> SUFFICES ASSUME SyncInv, LossInv, [JNext]_sync, given' \subseteq {"retried", "beaconed"},
                    NEW w \in Word \ erased'
             PROVE  NotLost(w)'
  BY DEF LossInv
<1>1. given \subseteq given' /\ erased \subseteq erased' /\ w \in Word /\ w \notin erased'
  BY DEF JNext, sync, Type, Erase, Timer, Blur, Serve, Ack, Fail, Skip, Receive, Hide, Reload,
         ServeBeacon, LoseBeacon, Gives, Written
<1>2. NotLost(w)
  BY <1>1 DEF LossInv
<1>3. CASE UNCHANGED sync
  BY <1>2, <1>3 DEF sync, NotLost, Held
<1>4. ASSUME NEW c \in Client, NEW v \in Word, Type(c, v) \/ Erase(c, v) PROVE NotLost(w)'
  BY <1>1, <1>2, <1>4, EditKeepsWord
<1>5. ASSUME NEW c \in Client, Timer(c) PROVE NotLost(w)'
  <2> DEFINE k == Flush(tab[c])
  <2>1. /\ tab' = [tab EXCEPT ![c] = k] /\ UNCHANGED <<row, pads, beacons, typed>>
        /\ tab[c] \in Tab
    BY <1>1, <1>5, Counts DEF Timer
  <2>2. /\ k \in Tab /\ k.text = tab[c].text /\ k.synced = tab[c].synced
        /\ k.save = tab[c].save \/ Posted(k)
    BY <2>1, FlushIs
  <2> HIDE DEF k
  <2> QED BY <1>1, <1>2, <2>1, <2>2, QuietStepKeepsWord
<1>6. ASSUME NEW c \in Client, Blur(c) PROVE NotLost(w)'
  <2> DEFINE o == [tab[c] EXCEPT !.offline = FALSE]
             k == Flush(o)
  <2>1. /\ tab' = [tab EXCEPT ![c] = k] /\ UNCHANGED <<row, pads, beacons, typed>>
        /\ tab[c] \in Tab
    BY <1>1, <1>6, Counts DEF Blur
  <2>2. o \in Tab /\ o.text = tab[c].text /\ o.synced = tab[c].synced /\ o.save = tab[c].save
    BY <2>1 DEF Tab
  <2> HIDE DEF o
  <2>3. /\ k \in Tab /\ k.text = tab[c].text /\ k.synced = tab[c].synced
        /\ k.save = tab[c].save \/ Posted(k)
    BY <2>2, FlushIs
  <2> HIDE DEF k
  <2> QED BY <1>1, <1>2, <2>1, <2>3, QuietStepKeepsWord
<1>7. ASSUME NEW c \in Client, Fail(c) PROVE NotLost(w)'
  <2> DEFINE k == Failed(tab[c])
  <2>1. /\ tab' = [tab EXCEPT ![c] = k] /\ UNCHANGED <<row, pads, beacons, typed>>
        /\ TabOK(tab[c], pads, row.version, given)
    BY <1>7 DEF Fail, SyncInv
  <2>2. k \in Tab /\ k.text = tab[c].text /\ k.synced = tab[c].synced /\ k.save = None
    BY <2>1, FailedIsOK DEF TabOK
  <2> HIDE DEF k
  <2> QED BY <1>1, <1>2, <2>1, <2>2, QuietStepKeepsWord
<1>8. ASSUME NEW m \in beacons, LoseBeacon(m) PROVE FALSE
  BY <1>8 DEF LoseBeacon, Gives
<1>9. ASSUME NEW c \in Client, Skip(c) PROVE NotLost(w)'
  BY <1>2, <1>9 DEF Skip, NotLost, Held
<1> QED BY <1>1, <1>2, <1>3, <1>4, <1>5, <1>6, <1>7, <1>8, <1>9, AckKeepsWord, ReceiveKeepsWord,
           HideKeepsWord, ReloadKeepsWord, ServeKeepsWord, ServeBeaconKeepsWord DEF JNext

LEMMA LossInvariant == JSpec => []LossInv
<1>1. JInit => LossInv
  <2> SUFFICES ASSUME JInit, NEW w \in Word PROVE NotLost(w)
    BY DEF LossInv
  <2>1. SyncInv
    BY InitIsSync
  <2>2. /\ pads = {Get(row)} /\ beacons = {} /\ typed = {} /\ Get(row).text = row.text
        /\ row.text[w] = 0 /\ tab = [c \in Client |-> Opened(Get(row))]
    BY DEF JInit, Get, Unwritten, Blank
  <2>3. \A c \in Client : /\ tab[c].synced = Get(row) /\ tab[c].text = row.text
                          /\ tab[c].save = None
    BY <2>1, <2>2, OpenedIsOK DEF SyncInv
  <2> QED BY <2>2, <2>3 DEF NotLost, Holds, Builds
<1> QED BY <1>1, NextKeepsLoss, SyncInvariant, PTL DEF JSpec

\* Nobody's typing is lost (jot.go: Set keeps both sides of a merge; sync.js): a word
\* typed and erased by nobody is stored or on its way, however saves, merges, answers,
\* retries, events, beacons and reloads of any number of tabs interleave, as long as the
\* code gave nothing up but answers nobody read.
THEOREM NoTypingIsLost == JSpec => []NeitherSideLost
<1>1. SyncInv /\ LossInv => NeitherSideLost
  <2> SUFFICES ASSUME SyncInv, LossInv, given \subseteq {"retried", "beaconed"},
                      NEW w \in typed \ erased
               PROVE  row.text[w] > 0 \/ Pending(w)
    BY DEF NeitherSideLost, Kept
  <2>1. w \in Word /\ NotLost(w)
    BY DEF SyncInv, LossInv
  <2>2. Held(w) \/ \E c \in Client : tab[c].text[w] > 0
    BY <2>1 DEF NotLost
  <2>3. Held(w) => row.text[w] > 0 \/ Pending(w)
    BY DEF Held, Pending
  <2>4. ASSUME NEW c \in Client, tab[c].text[w] > 0 PROVE row.text[w] > 0 \/ Pending(w)
    <3>1. CASE Dirty(tab[c])
      BY <2>4, <3>1 DEF Pending
    <3>2. CASE ~Dirty(tab[c])
      BY <2>1, <2>3, <2>4, <3>2, AtHand
    <3> QED BY <3>1, <3>2
  <2> QED BY <2>2, <2>3, <2>4
<1> QED BY <1>1, SyncInvariant, LossInvariant, PTL

-----------------------------------------------------------------------------
(* TwiceInv is inductive.                                                  *)

\* A step of one tab that sends no message, seen from one word.
LEMMA TabStepKeepsOnce ==
  ASSUME SyncInv, NEW w \in Word, Once(w), UNCHANGED <<row, pads, beacons>>,
         NEW c \in Client, NEW k \in Tab, tab' = [tab EXCEPT ![c] = k],
         typed \subseteq typed',
         k.text[w] <= 1, k.save # None => k.save.text[w] <= 1,
         Stored(w) => Old(k, pads, w),
         ~Stored(w) /\ Has(k, w) => Has(tab[c], w) \/ (w \notin typed /\ w \in typed')
  PROVE  Once(w)'
<1>1. tab'[c] = k /\ \A d \in Client \ {c} : tab'[d] = tab[d]
  BY DEF SyncInv
<1>2. Stored(w)' <=> Stored(w)
  BY DEF Stored
<1>3. \A d \in Client : tab'[d].text[w] <= 1 /\ (tab'[d].save # None => tab'[d].save.text[w] <= 1)
  BY <1>1 DEF Once
<1>4. Stored(w)' => \A d \in Client : Old(tab'[d], pads, w)
  BY <1>1, <1>2 DEF Once
<1>5. ASSUME ~Stored(w) PROVE /\ \A d, e \in Client : Has(tab'[d], w) /\ Has(tab'[e], w) => d = e
                              /\ \A d \in Client, m \in beacons : ~(Has(tab'[d], w) /\ m.text[w] > 0)
  <2>1. CASE w \in typed
    BY <1>1, <1>5, <2>1 DEF Once
  <2>2. CASE w \notin typed
    <3>1. (\A d \in Client : ~Has(tab[d], w)) /\ \A m \in beacons : m.text[w] = 0
      BY <2>2 DEF Once
    <3> QED BY <1>1, <3>1
  <2> QED BY <2>1, <2>2
<1>6. w \notin typed' => ~Stored(w) /\ \A d \in Client : ~Has(tab'[d], w)
  BY <1>1 DEF Once
<1> QED BY <1>2, <1>3, <1>4, <1>5, <1>6 DEF Once

\* What Once says of a tab at hand, as long as no beacon was sent.
LEMMA OnceAtHand ==
  ASSUME SyncInv, NEW w \in Word, Once(w), NEW c \in Client, "beaconed" \notin given
  PROVE  /\ tab[c] \in Tab /\ tab[c].synced \in pads
         /\ tab[c].text[w] \in Nat /\ tab[c].text[w] <= 1 /\ tab[c].synced.text[w] \in Nat
         /\ tab[c].save # None => tab[c].save.text[w] \in Nat /\ tab[c].save.text[w] <= 1
         /\ Stored(w) => Old(tab[c], pads, w)
         /\ \A p \in pads : p.text[w] \in Nat /\ p.text[w] <= 1 /\ (~Stored(w) => p.text[w] = 0)
<1>1. tab[c].synced \in pads
  BY DEF SyncInv, TabOK
<1>2. \A p \in pads : p.text[w] \in Nat /\ (~Stored(w) => p.text[w] = 0)
  BY Counts DEF Stored
<1> QED BY <1>1, <1>2, Counts DEF Once

\* A tab whose save is none or just posted adds nothing if its text does not.
LEMMA PostedIsOld ==
  ASSUME SyncInv, NEW w \in Word, NEW k, Posted(k), k.synced \in pads,
         k.text[w] <= k.synced.text[w], k.text[w] \in Nat
  PROVE  Old(k, pads, w)
<1>1. \A p \in pads : p.version = k.synced.version => p = k.synced
  BY DEF SyncInv, RowOK
<1>2. k.synced.text[w] \in Nat
  BY Counts
<1>3. ~(k.text[w] > k.synced.text[w])
  BY <1>2
<1>4. k.save # None => ~Adds(k.save.text, k.save.base, pads, w)
  BY <1>1, <1>3 DEF Posted, Adds
<1>5. k.text[w] <= k.text[w]
  OBVIOUS
<1> QED BY <1>4, <1>5 DEF Old, Posted

LEMMA EditKeepsOnce ==
  ASSUME SyncInv, NEW c \in Client, NEW v \in Word, Type(c, v) \/ Erase(c, v),
         NEW w \in Word, Once(w), "beaconed" \notin given
  PROVE  Once(w)'
<1> DEFINE j == tab[c]
<1>1. /\ j \in Tab /\ j.text \in Text /\ j.text[w] \in Nat /\ j.text[w] <= 1
      /\ j.synced.text[w] \in Nat
      /\ j.save # None => j.save.text[w] \in Nat /\ j.save.text[w] <= 1
      /\ Stored(w) => Old(j, pads, w)
  BY OnceAtHand DEF Tab
<1>2. PICK t \in Text :
        /\ tab' = [tab EXCEPT ![c] = [j EXCEPT !.text = t, !.timer = TRUE]]
        /\ t[w] \in Nat /\ t[w] <= 1 /\ typed \subseteq typed'
        /\ t[w] <= j.text[w] \/ (w \notin typed /\ w \in typed')
        /\ UNCHANGED <<row, pads, beacons>>
  <2>1. CASE Type(c, v)
    <3> DEFINE t == [j.text EXCEPT ![v] = @ + 1]
    <3>1. /\ tab' = [tab EXCEPT ![c] = [j EXCEPT !.text = t, !.timer = TRUE]] /\ v \notin typed
          /\ UNCHANGED <<row, pads, beacons>> /\ typed' = typed \cup {v}
      BY <2>1 DEF Type
    <3>2. w = v => j.text[w] = 0
      <4>1. w \notin typed => ~(j.text[w] > 0)
        BY DEF Once, Has
      <4> QED BY <1>1, <3>1, <4>1
    <3>3. t \in Text /\ t[w] \in Nat /\ t[w] <= 1 /\ (w # v => t[w] <= j.text[w])
      BY <1>1, <3>2 DEF Text
    <3> HIDE DEF t, j
    <3> QED BY <3>1, <3>3
  <2>2. CASE Erase(c, v)
    <3> DEFINE t == [j.text EXCEPT ![v] = 0]
    <3>1. /\ tab' = [tab EXCEPT ![c] = [j EXCEPT !.text = t, !.timer = TRUE]]
          /\ UNCHANGED <<row, pads, beacons, typed>>
      BY <2>2 DEF Erase
    <3>2. t \in Text /\ t[w] \in Nat /\ t[w] <= 1 /\ t[w] <= j.text[w]
      BY <1>1 DEF Text
    <3> HIDE DEF t, j
    <3> QED BY <3>1, <3>2
  <2> QED BY <2>1, <2>2
<1> DEFINE k == [j EXCEPT !.text = t, !.timer = TRUE]
<1>3. k \in Tab /\ k.text = t /\ k.synced = j.synced /\ k.save = j.save
  BY <1>1 DEF Tab
<1>4. tab' = [tab EXCEPT ![c] = k]
  BY <1>2
<1> HIDE DEF k
<1>5. Stored(w) => Old(k, pads, w)
  <2>1. Stored(w) => t[w] <= j.text[w]
    BY <1>2 DEF Once
  <2> QED BY <1>1, <1>2, <1>3, <2>1 DEF Old
<1>6. Has(k, w) => Has(j, w) \/ (w \notin typed /\ w \in typed')
  BY <1>1, <1>2, <1>3 DEF Has
<1> QED BY <1>1, <1>2, <1>3, <1>4, <1>5, <1>6, TabStepKeepsOnce

\* Steps that leave text and belief, and the save unless they post one.
LEMMA QuietStepKeepsOnce ==
  ASSUME SyncInv, NEW w \in Word, Once(w), "beaconed" \notin given,
         UNCHANGED <<row, pads, beacons, typed>>,
         NEW c \in Client, NEW k \in Tab, tab' = [tab EXCEPT ![c] = k],
         k.text = tab[c].text, k.synced = tab[c].synced,
         \/ k.save = tab[c].save
         \/ Posted(k) /\ (tab[c].save # None => tab[c].save.ack = None)
  PROVE  Once(w)'
<1> DEFINE j == tab[c]
<1>1. /\ j.synced \in pads /\ j.text[w] \in Nat /\ j.text[w] <= 1
      /\ j.save # None => j.save.text[w] <= 1
      /\ Stored(w) => Old(j, pads, w)
  BY OnceAtHand
<1>2. CASE k.save = j.save
  <2>1. Stored(w) => Old(k, pads, w)
    BY <1>1, <1>2 DEF Old
  <2>2. Has(k, w) => Has(j, w)
    BY <1>2 DEF Has
  <2> QED BY <1>1, <1>2, <2>1, <2>2, TabStepKeepsOnce
<1>3. CASE Posted(k) /\ (j.save # None => j.save.ack = None)
  <2>1. Stored(w) => Old(k, pads, w)
    <3>1. Stored(w) => k.text[w] <= k.synced.text[w]
      BY <1>1, <1>3 DEF Old
    <3> QED BY <1>1, <1>3, <3>1, PostedIsOld
  <2>2. Has(k, w) => Has(j, w)
    BY <1>3 DEF Has, Posted
  <2>3. k.save # None => k.save.text[w] <= 1
    BY <1>1, <1>3 DEF Posted
  <2> QED BY <1>1, <2>1, <2>2, <2>3, TabStepKeepsOnce
<1> QED BY <1>2, <1>3

LEMMA AckKeepsOnce ==
  ASSUME SyncInv, NEW c \in Client, Ack(c), NEW w \in Word, Once(w), "beaconed" \notin given
  PROVE  Once(w)'
<1> DEFINE j == tab[c]
           A == Answered(j.save)
           t == IF j.save.ack.text = None THEN j.text ELSE j.save.ack.text
           k == Acked(j)
<1>1. /\ tab' = [tab EXCEPT ![c] = k] /\ j.save # None /\ j.save.ack # None
      /\ UNCHANGED <<row, pads, beacons, typed>>
  BY DEF Ack
<1>2. /\ j \in Tab /\ A \in pads /\ (j.buffered # None => j.buffered \in pads)
      /\ j.text[w] \in Nat /\ j.text[w] <= 1
      /\ Stored(w) => Old(j, pads, w)
      /\ \A p \in pads : p.text[w] \in Nat /\ p.text[w] <= 1 /\ (~Stored(w) => p.text[w] = 0)
  BY <1>1, OnceAtHand DEF SyncInv, TabOK
<1>3. /\ k \in Tab /\ Posted(k)
      /\ \/ k.text = t /\ k.synced = A
         \/ j.buffered # None /\ k.synced = j.buffered /\ k.text = j.buffered.text
  BY <1>1, <1>2, AckedIs
<1>4. /\ t = A.text \/ (t = j.text /\ A.text = j.save.text)
      /\ Stored(w) => j.text[w] <= j.save.text[w]
  BY <1>1, <1>2 DEF Answered, Old
<1> HIDE DEF A, t, k
<1>5. t[w] \in Nat /\ t[w] <= 1 /\ (Stored(w) => t[w] <= A.text[w])
      /\ (~Stored(w) /\ t[w] > 0 => j.text[w] > 0)
  BY <1>2, <1>4
<1>6. k.synced \in pads
  BY <1>2, <1>3
<1>7. k.text[w] \in Nat /\ k.text[w] <= 1 /\ (Stored(w) => k.text[w] <= k.synced.text[w])
      /\ (~Stored(w) /\ k.text[w] > 0 => j.text[w] > 0)
  BY <1>2, <1>3, <1>5
<1>8. Stored(w) => Old(k, pads, w)
  BY <1>3, <1>6, <1>7, PostedIsOld
<1>9. ~Stored(w) /\ Has(k, w) => Has(j, w)
  BY <1>3, <1>7 DEF Has, Posted
<1>10. k.save # None => k.save.text[w] <= 1
  BY <1>3, <1>7 DEF Posted
<1> HIDE DEF j
<1>11. ~Stored(w) /\ Has(k, w) => Has(tab[c], w)
  BY <1>9 DEF j
<1> QED BY <1>1, <1>3, <1>7, <1>8, <1>10, <1>11, TabStepKeepsOnce

LEMMA ReceiveKeepsOnce ==
  ASSUME SyncInv, NEW c \in Client, NEW pad \in pads, Receive(c, pad),
         NEW w \in Word, Once(w), "beaconed" \notin given
  PROVE  Once(w)'
<1> DEFINE j == tab[c]
           k == Remote(j, pad)
<1>1. tab' = [tab EXCEPT ![c] = k] /\ UNCHANGED <<row, pads, beacons, typed>>
  BY DEF Receive
<1>2. /\ j \in Tab /\ pad \in Pad
      /\ pad.text[w] \in Nat /\ pad.text[w] <= 1 /\ (~Stored(w) => pad.text[w] = 0)
      /\ j.save # None => j.save.text[w] <= 1
      /\ Stored(w) => Old(j, pads, w)
  BY OnceAtHand DEF SyncInv, RowOK, Pad, Short
<1>3. /\ k \in Tab /\ k.save = j.save
      /\ \/ k.text = j.text /\ k.synced = j.synced
         \/ /\ k.text = pad.text /\ k.synced = pad
            /\ pad.text = j.text \/ (j.text = j.synced.text /\ k.save = None)
  BY <1>2, RemoteIs
<1> HIDE DEF k
<1>4. CASE k.text = j.text /\ k.synced = j.synced
  BY <1>1, <1>3, <1>4, QuietStepKeepsOnce
<1>5. CASE /\ k.text = pad.text /\ k.synced = pad
           /\ pad.text = j.text \/ (j.text = j.synced.text /\ k.save = None)
  <2>1. Stored(w) => Old(k, pads, w)
    BY <1>2, <1>3, <1>5 DEF Old
  <2>2. ~Stored(w) /\ Has(k, w) => Has(j, w)
    BY <1>2, <1>3, <1>5 DEF Has
  <2> QED BY <1>1, <1>2, <1>3, <1>5, <2>1, <2>2, TabStepKeepsOnce
<1> QED BY <1>3, <1>4, <1>5

LEMMA ReloadKeepsOnce ==
  ASSUME SyncInv, NEW c \in Client, Reload(c), NEW w \in Word, Once(w),
         "beaconed" \notin given, "beaconed" \notin given'
  PROVE  Once(w)'
<1> DEFINE j == tab[c]
           k == Opened(Get(row))
<1>1. /\ tab' = [tab EXCEPT ![c] = k] /\ UNCHANGED <<row, pads, typed>>
      /\ beacons' = beacons \cup Left(j) /\ ~(Sends(j) /\ j.save # None)
  BY DEF Reload, Gives
<1>2. /\ TabOK(j, pads, row.version, given) /\ j.synced \in pads
      /\ j.text[w] \in Nat /\ j.text[w] <= 1
      /\ j.save # None => j.save.text[w] \in Nat /\ j.save.text[w] <= 1
      /\ Stored(w) => Old(j, pads, w)
      /\ \A p \in pads : p.text[w] \in Nat /\ p.text[w] <= 1 /\ (~Stored(w) => p.text[w] = 0)
      /\ Get(row) \in pads /\ row.version \in Nat /\ troubles \in Nat
  BY OnceAtHand DEF SyncInv, RowOK, Row
<1>3. k \in Tab /\ k.synced = Get(row) /\ k.text = k.synced.text /\ k.save = None
  <2>1. TabOK(k, pads, row.version, given) /\ k.synced = Get(row) /\ k.text = row.text /\ k.save = None
    BY OpenedIsOK DEF SyncInv
  <2>2. Get(row).text = row.text
    BY DEF Get
  <2> QED BY <2>1, <2>2 DEF TabOK
<1> HIDE DEF k
<1>4. tab'[c] = k /\ \A d \in Client \ {c} : tab'[d] = tab[d]
  BY <1>1 DEF SyncInv
<1>5. Stored(w)' <=> Stored(w)
  BY <1>1 DEF Stored
<1>6. ASSUME NEW m \in Left(j)
      PROVE  /\ m.text[w] \in Nat /\ m.text[w] <= 1 /\ (m.text[w] > 0 => Has(j, w))
             /\ Stored(w) => ~Adds(m.text, m.base, pads, w)
  <2>1. \/ Sends(j) /\ m.text = j.text /\ m.base = j.synced.version
        \/ j.save # None /\ j.save.ack = None /\ m.text = j.save.text /\ m.base = j.save.base
    BY <1>2, LeftIs
  <2>2. \A p \in pads : p.version = j.synced.version => p = j.synced
    BY <1>2 DEF SyncInv, RowOK
  <2>3. CASE Sends(j) /\ m.text = j.text /\ m.base = j.synced.version
    <3>1. Stored(w) => j.text[w] <= j.synced.text[w]
      BY <1>1, <1>2, <2>3 DEF Old
    <3>2. j.synced.text[w] \in Nat
      BY <1>2
    <3> HIDE DEF j
    <3> QED BY <1>2, <2>2, <2>3, <3>1, <3>2 DEF Adds, Has
  <2>4. CASE j.save # None /\ j.save.ack = None /\ m.text = j.save.text /\ m.base = j.save.base
    BY <1>2, <2>4 DEF Old, Has
  <2> QED BY <2>1, <2>3, <2>4
<1>7. \A m, n \in Left(j) : m = n
  BY <1>1 DEF Left
<1>8. ~Stored(w) => ~Has(k, w)
  <2>1. ~Stored(w) => k.text[w] = 0
    BY <1>2, <1>3
  <2> QED BY <1>3, <2>1 DEF Has
<1>9. k.text[w] <= 1 /\ (Stored(w) => Old(k, pads, w))
  <2>1. k.text[w] \in Nat /\ k.text[w] <= 1 /\ k.text[w] <= k.synced.text[w]
    BY <1>2, <1>3
  <2> QED BY <1>3, <2>1 DEF Old
<1>10. \A d \in Client : /\ tab'[d].text[w] <= 1
                         /\ tab'[d].save # None => tab'[d].save.text[w] <= 1
                         /\ Stored(w) => Old(tab'[d], pads, w)
                         /\ ~Stored(w) /\ Has(tab'[d], w) => d # c /\ Has(tab[d], w)
  BY <1>3, <1>4, <1>8, <1>9 DEF Once
<1>11. \A m \in beacons' : m.text[w] <= 1 /\ (Stored(w) => ~Adds(m.text, m.base, pads, w))
  BY <1>1, <1>6 DEF Once
<1>12. ASSUME ~Stored(w)
       PROVE  /\ \A d, e \in Client : Has(tab'[d], w) /\ Has(tab'[e], w) => d = e
              /\ \A m, n \in beacons' : m.text[w] > 0 /\ n.text[w] > 0 => m = n
              /\ \A d \in Client, m \in beacons' : ~(Has(tab'[d], w) /\ m.text[w] > 0)
  <2>1. \A m \in beacons' : m.text[w] > 0 => m \in beacons \/ (m \in Left(j) /\ Has(j, w))
    BY <1>1, <1>6
  <2>2. \A m \in beacons : ~(Has(j, w) /\ m.text[w] > 0)
    BY <1>12 DEF Once
  <2>3. \A d \in Client : Has(tab'[d], w) => ~Has(j, w)
    BY <1>10, <1>12 DEF Once
  <2> QED BY <1>7, <1>10, <1>12, <2>1, <2>2, <2>3 DEF Once
<1>13. w \notin typed' => /\ ~Stored(w) /\ \A d \in Client : ~Has(tab'[d], w)
                          /\ \A m \in beacons' : m.text[w] = 0
  <2>1. w \notin typed' => ~Stored(w) /\ (\A d \in Client : ~Has(tab[d], w)) /\ \A m \in beacons : m.text[w] = 0
    BY <1>1 DEF Once
  <2> QED BY <1>1, <1>6, <1>10, <2>1
<1> QED BY <1>1, <1>5, <1>10, <1>11, <1>12, <1>13 DEF Once

\* A write that adds no old word, and a new one once: what it makes of the pads.
LEMMA WriteAddsOnce ==
  ASSUME SyncInv, NEW w \in Word, Once(w),
         NEW text \in Short, NEW base \in Nat, base <= row.version, Written(text, base),
         "mismerged" \notin given', text[w] <= 1, Stored(w) => ~Adds(text, base, pads, w)
  PROVE  /\ \A p \in pads' : p.text[w] \in Nat /\ p.text[w] <= 1
         /\ Stored(w) => Stored(w)'
         /\ Stored(w)' => Stored(w) \/ text[w] > 0
         /\ \A t : \A v \in Nat :
              v <= row.version /\ ~Adds(t, v, pads, w) => ~Adds(t, v, pads', w)
<1>1. /\ row \in Row /\ row.version \in Nat /\ Get(row) \in pads /\ Shadow(row) \in pads
      /\ text \in Text /\ text[w] \in Nat
  BY DEF SyncInv, RowOK, Row, Short, Text
<1>2. \A p \in pads : p.text[w] \in Nat /\ p.text[w] <= 1 /\ (p.text[w] > 0 => Stored(w))
  BY Counts DEF Once, Stored
<1>3. Get(row).version = row.version /\ Get(row).text = row.text
      /\ Get(row').version = row'.version /\ Get(row').text = row'.text
  BY DEF Get
<1>4. /\ pads' = pads \cup {Get(row')}
      /\ \/ row' = row
         \/ /\ row'.version = row.version + 1 /\ row'.text = Next(row, text, base)
            /\ base \in {row.version, Shadow(row).version}
  BY WrittenIs
<1>5. /\ row'.text[w] \in Nat /\ row'.text[w] <= 1
      /\ row'.text[w] > 0 => Stored(w) \/ text[w] > 0
  <2>1. CASE row' = row
    BY <1>1, <1>2, <1>3, <2>1
  <2>2. CASE base = row.version /\ row'.text = Next(row, text, base)
    <3>1. row'.text[w] = text[w]
      BY <1>1, <2>2, NextIs
    <3> QED BY <1>1, <3>1
  <2>3. CASE base # row.version /\ base = Shadow(row).version /\ row'.text = Next(row, text, base)
    <3> DEFINE s == Shadow(row).text[w]
               n == row.text[w] + text[w] - s
    <3>1. Next(row, text, base)[w] = IF n < 0 THEN 0 ELSE n
      BY <1>1, <2>3, NextIs
    <3>2. s \in Nat /\ s <= 1 /\ row.text[w] \in Nat /\ row.text[w] <= 1
          /\ (row.text[w] > 0 => Stored(w)) /\ (s > 0 => Stored(w))
      BY <1>1, <1>2, <1>3
    <3>3. Stored(w) => ~(text[w] > s)
      BY <1>1, <2>3 DEF Adds
    <3> HIDE DEF s
    <3>4. n \in Int
      BY <1>1, <3>2
    <3>5. Stored(w) => n <= 1
      BY <1>1, <3>2, <3>3
    <3>6. ~Stored(w) => n = text[w]
      <4>1. ~Stored(w) => s = 0 /\ row.text[w] = 0
        BY <3>2
      <4> QED BY <1>1, <4>1
    <3> HIDE DEF n
    <3>7. row'.text[w] = IF n < 0 THEN 0 ELSE n
      BY <2>3, <3>1
    <3> QED BY <1>1, <3>4, <3>5, <3>6, <3>7
  <2> QED BY <1>4, <2>1, <2>2, <2>3
<1>6. \A p \in pads' : p.text[w] \in Nat /\ p.text[w] <= 1 /\ (p.text[w] > 0 => Stored(w) \/ text[w] > 0)
  BY <1>2, <1>3, <1>4, <1>5
<1>7. /\ Stored(w) => Stored(w)'
      /\ Stored(w)' => Stored(w) \/ text[w] > 0
  BY <1>4, <1>6 DEF Stored
<1>8. ASSUME NEW t, NEW v \in Nat, v <= row.version, ~Adds(t, v, pads, w)
      PROVE  ~Adds(t, v, pads', w)
  <2>1. CASE row' = row
    BY <1>1, <1>4, <1>8, <2>1
  <2>2. CASE row'.version = row.version + 1
    <3>1. row'.version # v
      BY <1>1, <1>8, <2>2
    <3> QED BY <1>3, <1>4, <1>8, <3>1 DEF Adds
  <2> QED BY <1>4, <2>1, <2>2
<1> QED BY <1>6, <1>7, <1>8

\* A text without the word adds none.
LEMMA NothingAdded ==
  ASSUME NEW P, NEW w, \A p \in P : p.text[w] \in Nat, NEW t, t[w] = 0, NEW v
  PROVE  ~Adds(t, v, P, w)
BY DEF Adds

\* What an answer changes of the tabs.
OnlyAnswers ==
  /\ tab' \in [Client -> Tab]
  /\ \A d \in Client :
       /\ tab'[d].text = tab[d].text /\ tab'[d].synced = tab[d].synced
       /\ tab'[d].save # None <=> tab[d].save # None
       /\ tab[d].save # None => /\ tab'[d].save.text = tab[d].save.text
                                /\ tab'[d].save.base = tab[d].save.base
                                /\ tab'[d].save.ack = None => tab[d].save.ack = None

\* Who has a word that is stored for the first time: the tab that gets the answer.
OnlyAnswered(w) ==
  /\ \A d \in Client : Has(tab[d], w) =>
       tab[d].save # None /\ tab'[d].save.ack # None /\ tab[d].save.text[w] > 0
  /\ \A m \in beacons' : m.text[w] = 0

\* What the word is to a tab when it is stored.
LEMMA WriteKeepsOld ==
  ASSUME SyncInv, NEW w \in Word, Once(w), NEW d \in Client, NEW k,
         k.text = tab[d].text, k.synced = tab[d].synced, k.save # None <=> tab[d].save # None,
         tab[d].save # None => /\ k.save.text = tab[d].save.text
                               /\ k.save.base = tab[d].save.base
                               /\ k.save.ack = None => tab[d].save.ack = None,
         NEW P, \A p \in P : p.text[w] \in Nat,
         \A t : \A v \in Nat : v <= row.version /\ ~Adds(t, v, pads, w) => ~Adds(t, v, P, w),
         ~Stored(w) /\ Has(tab[d], w) =>
           tab[d].save # None /\ k.save.ack # None /\ tab[d].save.text[w] > 0
  PROVE  Old(k, P, w)
<1> DEFINE j == tab[d]
<1>1. /\ j.text[w] \in Nat /\ j.synced.text[w] \in Nat /\ j.text[w] <= 1
      /\ j.save # None => /\ j.save.text[w] \in Nat /\ j.save.text[w] <= 1
                          /\ j.save.base \in Nat /\ j.save.base <= row.version
  BY Counts DEF Once, SyncInv, TabOK
<1> HIDE DEF j
<1>2. CASE Stored(w)
  <2>1. Old(j, pads, w)
    BY <1>2 DEF Once, j
  <2>2. j.save # None /\ j.save.ack = None => ~Adds(j.save.text, j.save.base, P, w)
    BY <1>1, <2>1 DEF Old
  <2> QED BY <2>1, <2>2 DEF Old, j
<1>3. CASE ~Stored(w) /\ Has(j, w)
  <2>1. j.save # None /\ k.save.ack # None /\ j.save.text[w] > 0
    BY <1>3 DEF j
  <2>2. j.text[w] <= j.save.text[w]
    BY <1>1, <2>1
  <2> QED BY <2>1, <2>2 DEF Old, j
<1>4. CASE ~Has(j, w)
  <2>1. j.text[w] = 0
    BY <1>1, <1>4 DEF Has
  <2>2. j.save # None => j.save.text[w] = 0
    BY <1>1, <1>4 DEF Has
  <2>3. j.save # None => ~Adds(j.save.text, j.save.base, P, w)
    BY <2>2, NothingAdded
  <2>4. j.text[w] <= j.synced.text[w] /\ (j.save # None => j.text[w] <= j.save.text[w])
    BY <1>1, <2>1, <2>2
  <2> QED BY <2>3, <2>4 DEF Old, j
<1> QED BY <1>2, <1>3, <1>4

LEMMA WriteKeepsOnce ==
  ASSUME SyncInv, NEW w \in Word, Once(w),
         NEW text \in Short, NEW base \in Nat, base <= row.version, Written(text, base),
         "mismerged" \notin given', text[w] <= 1, Stored(w) => ~Adds(text, base, pads, w),
         w \notin typed => text[w] = 0, typed' = typed,
         OnlyAnswers, beacons' \subseteq beacons,
         ~Stored(w) /\ text[w] > 0 => OnlyAnswered(w)
  PROVE  Once(w)'
<1>1. /\ \A p \in pads' : p.text[w] \in Nat /\ p.text[w] <= 1
      /\ Stored(w) => Stored(w)'
      /\ Stored(w)' => Stored(w) \/ text[w] > 0
      /\ \A t : \A v \in Nat :
           v <= row.version /\ ~Adds(t, v, pads, w) => ~Adds(t, v, pads', w)
  BY WriteAddsOnce
<1>2. text[w] \in Nat
  BY DEF Short, Text
<1>3. ASSUME Stored(w)', NEW d \in Client PROVE Old(tab'[d], pads', w)
  <2>1. ~Stored(w) /\ Has(tab[d], w) =>
          tab[d].save # None /\ tab'[d].save.ack # None /\ tab[d].save.text[w] > 0
    BY <1>1, <1>3 DEF OnlyAnswered
  <2> DEFINE k == tab'[d]
  <2>2. /\ k.text = tab[d].text /\ k.synced = tab[d].synced
        /\ k.save # None <=> tab[d].save # None
        /\ tab[d].save # None => /\ k.save.text = tab[d].save.text
                                 /\ k.save.base = tab[d].save.base
                                 /\ k.save.ack = None => tab[d].save.ack = None
    BY DEF OnlyAnswers
  <2>3. ~Stored(w) /\ Has(tab[d], w) =>
          tab[d].save # None /\ k.save.ack # None /\ tab[d].save.text[w] > 0
    BY <2>1
  <2> HIDE DEF k
  <2>4. Old(k, pads', w)
    BY <1>1, <2>2, <2>3, WriteKeepsOld
  <2> QED BY <2>4 DEF k
<1>4. ASSUME Stored(w)', NEW m \in beacons' PROVE ~Adds(m.text, m.base, pads', w)
  <2>1. m \in beacons /\ m.base \in Nat /\ m.base <= row.version
    BY Counts DEF SyncInv
  <2>2. CASE Stored(w)
    BY <1>1, <2>1, <2>2 DEF Once
  <2>3. CASE ~Stored(w)
    <3>1. m.text[w] = 0
      BY <1>1, <1>4, <2>3 DEF OnlyAnswered
    <3> QED BY <1>1, <3>1, NothingAdded
  <2> QED BY <2>2, <2>3
<1>5. w \notin typed' => ~Stored(w)'
  <2>1. w \notin typed => ~Stored(w) /\ ~(text[w] > 0)
    BY <1>2 DEF Once
  <2> QED BY <1>1, <2>1
<1>6. \A d \in Client : /\ Has(tab'[d], w) <=> Has(tab[d], w)
                        /\ tab'[d].text[w] <= 1
                        /\ tab'[d].save # None => tab'[d].save.text[w] <= 1
  BY DEF OnlyAnswers, Has, Once
<1>7. ~Stored(w)' =>
         /\ \A c, d \in Client : Has(tab'[c], w) /\ Has(tab'[d], w) => c = d
         /\ \A m, n \in beacons' : m.text[w] > 0 /\ n.text[w] > 0 => m = n
         /\ \A c \in Client, m \in beacons' : ~(Has(tab'[c], w) /\ m.text[w] > 0)
  <2>1. ~Stored(w) =>
          /\ \A c, d \in Client : Has(tab[c], w) /\ Has(tab[d], w) => c = d
          /\ \A m, n \in beacons : m.text[w] > 0 /\ n.text[w] > 0 => m = n
          /\ \A c \in Client, m \in beacons : ~(Has(tab[c], w) /\ m.text[w] > 0)
    BY DEF Once
  <2> QED BY <1>1, <1>6, <2>1
<1>8. w \notin typed' => (\A c \in Client : ~Has(tab'[c], w)) /\ \A m \in beacons' : m.text[w] = 0
  <2>1. w \notin typed => (\A c \in Client : ~Has(tab[c], w)) /\ \A m \in beacons : m.text[w] = 0
    BY DEF Once
  <2> QED BY <1>6, <2>1
<1>9. \A m \in beacons' : m.text[w] <= 1
  BY DEF Once
<1> QED BY <1>1, <1>3, <1>4, <1>5, <1>6, <1>7, <1>8, <1>9 DEF Once

LEMMA ServeKeepsOnce ==
  ASSUME SyncInv, NEW c \in Client, Serve(c), NEW w \in Word, Once(w), "mismerged" \notin given'
  PROVE  Once(w)'
<1> DEFINE j == tab[c]
           s == tab[c].save
<1>1. /\ s # None /\ s.ack = None /\ Written(s.text, s.base)
      /\ UNCHANGED <<beacons, typed>> /\ beacons' \subseteq beacons
  BY DEF Serve
<1>2. /\ s.text \in Short /\ s.base \in Nat /\ s.base <= row.version /\ j \in Tab /\ s \in Save
      /\ s.text[w] \in Nat /\ s.text[w] <= 1
      /\ Stored(w) => ~Adds(s.text, s.base, pads, w)
  BY <1>1, Counts DEF SyncInv, TabOK, Tab, Once, Old
<1>3. /\ tab'[c].text = j.text /\ tab'[c].synced = j.synced /\ tab'[c].save # None
      /\ tab'[c].save.text = s.text /\ tab'[c].save.base = s.base /\ tab'[c].save.ack # None
      /\ \A d \in Client \ {c} : tab'[d] = tab[d]
  <2> DEFINE a == [version |-> row'.version,
                   text |-> IF row'.text = s.text THEN None ELSE row'.text]
             b == [s EXCEPT !.ack = a]
  <2>1. tab' = [tab EXCEPT ![c] = [j EXCEPT !.save = b]]
    BY DEF Serve
  <2>2. a \in Reply
    <3>1. row'.version \in Nat /\ row'.text \in Text
      BY ServeKeepsSync DEF SyncInv, RowOK, Row
    <3> QED BY <3>1 DEF Reply
  <2> HIDE DEF a
  <2>3. b \in Save /\ b.text = s.text /\ b.base = s.base /\ b.ack = a
    BY <1>2, <2>2 DEF Save
  <2>4. a # None /\ b # None
    BY <2>2, <2>3, NoneApart
  <2> HIDE DEF b, s
  <2> QED BY <1>2, <2>1, <2>3, <2>4 DEF SyncInv, Tab
<1>4. OnlyAnswers
  <2>1. tab' \in [Client -> Tab]
    BY ServeKeepsSync DEF SyncInv
  <2> QED BY <1>1, <1>3, <2>1 DEF OnlyAnswers
<1>5. w \notin typed => s.text[w] = 0
  <2>1. w \notin typed => ~(s.text[w] > 0)
    BY <1>1 DEF Once, Has
  <2> QED BY <1>2, <2>1
<1>6. ~Stored(w) /\ s.text[w] > 0 => OnlyAnswered(w)
  <2> SUFFICES ASSUME ~Stored(w), s.text[w] > 0 PROVE OnlyAnswered(w)
    OBVIOUS
  <2>1. Has(j, w)
    BY <1>1 DEF Has
  <2>2. (\A d \in Client : Has(tab[d], w) => d = c) /\ \A m \in beacons : ~(m.text[w] > 0)
    BY <2>1 DEF Once
  <2>3. \A m \in beacons' : m.text[w] = 0
    BY <1>1, <2>2, Counts
  <2> QED BY <1>1, <1>3, <2>2, <2>3 DEF OnlyAnswered
<1> HIDE DEF s
<1> QED BY <1>1, <1>2, <1>4, <1>5, <1>6, WriteKeepsOnce

LEMMA ServeBeaconKeepsOnce ==
  ASSUME SyncInv, NEW m \in beacons, ServeBeacon(m), NEW w \in Word, Once(w),
         "mismerged" \notin given'
  PROVE  Once(w)'
<1>1. /\ beacons' = beacons \ {m} /\ beacons' \subseteq beacons
      /\ Written(m.text, m.base) /\ UNCHANGED <<tab, typed>>
  BY DEF ServeBeacon
<1>2. /\ m.text \in Short /\ m.base \in Nat /\ m.base <= row.version
      /\ m.text[w] <= 1 /\ (w \notin typed => m.text[w] = 0)
      /\ Stored(w) => ~Adds(m.text, m.base, pads, w)
  BY DEF SyncInv, Letter, Once
<1>3. OnlyAnswers
  BY <1>1 DEF OnlyAnswers, SyncInv
<1>4. ~Stored(w) /\ m.text[w] > 0 => OnlyAnswered(w)
  <2> SUFFICES ASSUME ~Stored(w), m.text[w] > 0 PROVE OnlyAnswered(w)
    OBVIOUS
  <2>1. /\ \A n \in beacons : n.text[w] > 0 => n = m
        /\ \A d \in Client : ~Has(tab[d], w)
    BY DEF Once
  <2>2. \A n \in beacons' : n.text[w] = 0
    BY <1>1, <2>1, Counts
  <2> QED BY <2>1, <2>2 DEF OnlyAnswered
<1> QED BY <1>1, <1>2, <1>3, <1>4, WriteKeepsOnce

\* A lost message takes nothing from Once.
LEMMA LoseBeaconKeepsOnce ==
  ASSUME NEW m \in beacons, LoseBeacon(m), NEW w \in Word, Once(w)
  PROVE  Once(w)'
<1>1. UNCHANGED <<row, pads, tab, typed>> /\ beacons' \subseteq beacons
  BY DEF LoseBeacon
<1>2. Stored(w)' <=> Stored(w)
  BY <1>1 DEF Stored
<1> QED BY <1>1, <1>2 DEF Once

LEMMA NextKeepsTwice == SyncInv /\ TwiceInv /\ [JNext]_sync => TwiceInv'
<1> SUFFICES ASSUME SyncInv, TwiceInv, [JNext]_sync,
                    {"retried", "beaconed", "mismerged"} \cap given' = {}, NEW w \in Word
             PROVE  Once(w)'
  BY DEF TwiceInv
<1>1. given \subseteq given'
  BY DEF JNext, sync, Type, Erase, Timer, Blur, Serve, Ack, Fail, Skip, Receive, Hide, Reload,
         ServeBeacon, LoseBeacon, Gives, Written
<1>2. /\ Once(w) /\ "beaconed" \notin given /\ "retried" \notin given'
      /\ "beaconed" \notin given' /\ "mismerged" \notin given'
  BY <1>1 DEF TwiceInv
<1>3. CASE UNCHANGED sync
  BY <1>2, <1>3 DEF sync, Once, Stored
<1>4. ASSUME NEW c \in Client, NEW v \in Word, Type(c, v) \/ Erase(c, v) PROVE Once(w)'
  BY <1>2, <1>4, EditKeepsOnce
<1>5. ASSUME NEW c \in Client, Timer(c) PROVE Once(w)'
  <2> DEFINE k == Flush(tab[c])
  <2>1. /\ tab' = [tab EXCEPT ![c] = k] /\ UNCHANGED <<row, pads, beacons, typed>>
        /\ tab[c] \in Tab
    BY <1>5, Counts DEF Timer
  <2>2. /\ k \in Tab /\ k.text = tab[c].text /\ k.synced = tab[c].synced
        /\ k.save = tab[c].save \/ (Posted(k) /\ tab[c].save = None)
    BY <2>1, FlushIs
  <2> HIDE DEF k
  <2> QED BY <1>2, <2>1, <2>2, QuietStepKeepsOnce
<1>6. ASSUME NEW c \in Client, Blur(c) PROVE Once(w)'
  <2> DEFINE o == [tab[c] EXCEPT !.offline = FALSE]
             k == Flush(o)
  <2>1. /\ tab' = [tab EXCEPT ![c] = k] /\ UNCHANGED <<row, pads, beacons, typed>>
        /\ tab[c] \in Tab /\ tab[c].save = None
    BY <1>6, Counts DEF Blur
  <2>2. o \in Tab /\ o.text = tab[c].text /\ o.synced = tab[c].synced /\ o.save = tab[c].save
    BY <2>1 DEF Tab
  <2> HIDE DEF o
  <2>3. /\ k \in Tab /\ k.text = tab[c].text /\ k.synced = tab[c].synced
        /\ k.save = tab[c].save \/ Posted(k)
    BY <2>2, FlushIs
  <2> HIDE DEF k
  <2> QED BY <1>2, <2>1, <2>3, QuietStepKeepsOnce
<1>7. ASSUME NEW c \in Client, Fail(c) PROVE Once(w)'
  <2> DEFINE k == Failed(tab[c])
  <2>1. /\ tab' = [tab EXCEPT ![c] = k] /\ UNCHANGED <<row, pads, beacons, typed>>
        /\ TabOK(tab[c], pads, row.version, given) /\ tab[c].save.ack = None
    BY <1>2, <1>7 DEF Fail, SyncInv, Gives
  <2>2. k \in Tab /\ k.text = tab[c].text /\ k.synced = tab[c].synced /\ k.save = None
    BY <2>1, FailedIsOK DEF TabOK
  <2> HIDE DEF k
  <2>3. Posted(k)
    BY <2>2 DEF Posted
  <2> QED BY <1>2, <2>1, <2>2, <2>3, QuietStepKeepsOnce
<1>8. ASSUME NEW c \in Client, Hide(c) PROVE Once(w)'
  <2> DEFINE k == Beaconed(tab[c])
  <2>1. ~Sends(tab[c])
    BY <1>2, <1>8 DEF Hide, Gives
  <2>2. /\ tab' = [tab EXCEPT ![c] = k] /\ UNCHANGED <<row, pads, beacons, typed>>
        /\ TabOK(tab[c], pads, row.version, given)
    BY <1>8, <2>1 DEF Hide, SyncInv
  <2>3. /\ k \in Tab /\ k.text = tab[c].text /\ k.synced = tab[c].synced
        /\ k.save = tab[c].save
    BY <1>1, <2>1, <2>2, BeaconedIsOK DEF TabOK
  <2> HIDE DEF k
  <2> QED BY <1>2, <2>2, <2>3, QuietStepKeepsOnce
<1>9. ASSUME NEW c \in Client, Serve(c) PROVE Once(w)'
  BY <1>2, <1>9, ServeKeepsOnce
<1>10. ASSUME NEW c \in Client, Ack(c) PROVE Once(w)'
  BY <1>2, <1>10, AckKeepsOnce
<1>11. ASSUME NEW c \in Client, Reload(c) PROVE Once(w)'
  BY <1>2, <1>11, ReloadKeepsOnce
<1>12. ASSUME NEW c \in Client, NEW pad \in pads, Receive(c, pad) PROVE Once(w)'
  BY <1>2, <1>12, ReceiveKeepsOnce
<1>13. ASSUME NEW m \in beacons, ServeBeacon(m) \/ LoseBeacon(m) PROVE Once(w)'
  BY <1>2, <1>13, ServeBeaconKeepsOnce, LoseBeaconKeepsOnce
<1>14. ASSUME NEW c \in Client, Skip(c) PROVE Once(w)'
  BY <1>2, <1>14 DEF Skip, Once, Stored
<1> QED BY <1>3, <1>4, <1>5, <1>6, <1>7, <1>8, <1>9, <1>10, <1>11, <1>12, <1>13, <1>14 DEF JNext

LEMMA TwiceInvariant == JSpec => []TwiceInv
<1>1. JInit => TwiceInv
  <2> SUFFICES ASSUME JInit, NEW w \in Word PROVE Once(w)
    BY DEF TwiceInv
  <2>1. SyncInv
    BY InitIsSync
  <2>2. /\ pads = {Get(row)} /\ beacons = {} /\ Get(row).text = row.text
        /\ row.text[w] = 0 /\ tab = [c \in Client |-> Opened(Get(row))]
    BY DEF JInit, Get, Unwritten, Blank
  <2>3. \A c \in Client : tab[c].text = row.text /\ tab[c].save = None
    BY <2>1, <2>2, OpenedIsOK DEF SyncInv
  <2>4. ~Stored(w) /\ \A c \in Client : ~Has(tab[c], w)
    BY <2>2, <2>3 DEF Stored, Has
  <2> QED BY <2>2, <2>3, <2>4 DEF Once
<1> QED BY <1>1, NextKeepsTwice, SyncInvariant, PTL DEF JSpec

\* Nothing is stored twice (jot.go: the merge takes each side's change once; sync.js: one
\* save in flight, and a late or repeated event is ignored): a word typed once is stored at
\* most once, however saves, merges, answers, events and reloads of any number of tabs
\* interleave, unless stored text was sent again or a write was merged against a shadow
\* it was not typed on.
THEOREM NothingIsStoredTwice == JSpec => []StoredOnce
<1>1. SyncInv /\ TwiceInv => StoredOnce
  <2> SUFFICES ASSUME SyncInv, TwiceInv, {"retried", "beaconed", "mismerged"} \cap given = {},
                      NEW w \in Word
               PROVE  row.text[w] <= 1
    BY DEF StoredOnce
  <2>1. Get(row) \in pads /\ Get(row).text = row.text /\ Once(w)
    BY DEF SyncInv, RowOK, TwiceInv, Get
  <2> QED BY <2>1 DEF Once
<1> QED BY <1>1, SyncInvariant, TwiceInvariant, PTL
=============================================================================
