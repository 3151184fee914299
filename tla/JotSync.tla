------------------------------ MODULE JotSync ------------------------------
(***************************************************************************)
(* The save and convergence loop of the Jotpad (static/js/jot/sync.js) in  *)
(* several open tabs of one user, against the note of module Jot, over a   *)
(* network that loses requests and answers, delays beacons, and delivers   *)
(* live events late, out of order, once more on a reconnect, or never.     *)
(***************************************************************************)
EXTENDS Jot

CONSTANTS
  Client,       \* open tabs
  None,         \* no request, no buffered event, no answer
  MaxErased,    \* bound: words erased
  MaxTroubles   \* bound: messages lost or skipped, and times a tab is hidden or reloaded

ASSUME SyncAssumption == {MaxErased, MaxTroubles} \subseteq Nat

VARIABLES
  row,        \* table jot_note, this note's row
  pads,       \* every pad committed so far: what events and snapshots carry
  tab,        \* client -> its sync loop, see Tab
  beacons,    \* beacons, and saves whose page is gone, not yet served
  typed,      \* words some user typed
  erased,     \* words some user erased
  given,      \* what the code gave up so far, a part of Given
  troubles,   \* messages lost or skipped, and tabs hidden or reloaded, so far
  news        \* client -> what became of the stored pad's event for its tab, see News

sync == <<row, pads, tab, beacons, typed, erased, given, troubles, news>>

\* "mismerged": a write was merged against a shadow it was not typed on; "refused":
\* a write over the cap; "snapped": an answer replaced text typed after its request;
\* "retried": a stored save whose answer was lost goes out again on its old base;
\* "beaconed": so does text sent by a beacon, whose answer nobody reads; "dropped": a
\* lost beacon.
Given == {"mismerged", "refused", "snapped", "retried", "beaconed", "dropped"}

\* The broker sends each tab the event of a commit at most once; "received" also says that
\* an answer or a new page brought the stored pad.  "stranded": the tab
\* got it and buffered it for a save that it then had no reason to post; "displaced": an
\* older event took its place in the buffer; "rewound": the tab adopted it, and the answer
\* to an older save took the tab back to an older version.
Outdone == {"stranded", "displaced", "rewound"}
News == {"coming", "received", "skipped"} \cup Outdone

\* Notes what is given up, if it is.
Gives(what, so) == given' = IF so THEN given \cup {what} ELSE given

\* A tab: the editor's text, synced, the save in flight with its answer once the
\* server gave it, the buffered event, whether a debounce or retry timer is set,
\* and the offline flag.
Reply == [version : Nat, text : Text \cup {None}]
Save == [text : Text, base : Nat, ack : Reply \cup {None}]
Tab  == [text : Text, synced : Pad, save : Save \cup {None},
         buffered : Pad \cup {None}, timer : BOOLEAN, offline : BOOLEAN]

ASSUME NoneAssumption == None \notin Text \cup Pad \cup Reply \cup Save

Opened(pad) == [text |-> pad.text, synced |-> pad, save |-> None,
                buffered |-> None, timer |-> FALSE, offline |-> FALSE]

JInit ==
  /\ row = Unwritten /\ pads = {Get(Unwritten)}
  /\ tab = [c \in Client |-> Opened(Get(Unwritten))]
  /\ beacons = {} /\ typed = {} /\ erased = {}
  /\ given = {} /\ troubles = 0 /\ news = [c \in Client |-> "received"]

-----------------------------------------------------------------------------
(* The functions of createJotSync, as what they make of a tab.              *)

Dirty(k) == k.text # k.synced.text

\* statusOf
Status(k) ==
  IF k.offline THEN "offline"
  ELSE IF Dirty(k) \/ k.save # None THEN "saving" ELSE "saved"

Post(k) == [text |-> k.text, base |-> k.synced.version, ack |-> None]

\* flush
Flush(k) ==
  IF k.save # None \/ ~Dirty(k) THEN [k EXCEPT !.timer = FALSE]
  ELSE [k EXCEPT !.timer = FALSE, !.save = Post(k)]

\* Slip: the event's version is not looked at.
RemoteUnordered(k, pad) ==
  IF pad.text = k.text THEN [k EXCEPT !.synced = pad]
  ELSE IF Dirty(k) \/ k.save # None THEN [k EXCEPT !.buffered = pad]
  ELSE [k EXCEPT !.synced = pad, !.text = pad.text]

\* Slip: unsaved typing does not buffer.
RemoteApplies(k, pad) ==
  IF pad.version <= k.synced.version THEN k
  ELSE [k EXCEPT !.synced = pad, !.text = pad.text]

\* remote, remoteAction: ignore, adopt, buffer or apply.
Remote(k, pad) ==
  IF pad.version <= k.synced.version THEN k
  ELSE IF pad.text = k.text THEN [k EXCEPT !.synced = pad]
  ELSE IF Dirty(k) \/ k.save # None THEN [k EXCEPT !.buffered = pad]
  ELSE [k EXCEPT !.synced = pad, !.text = pad.text]

\* resolveBuffered
Resolve(k) ==
  IF k.buffered = None THEN k ELSE Remote([k EXCEPT !.buffered = None], k.buffered)

\* Slip: what is in the editor when the answer comes counts as saved.
AckedAsShown(k) ==
  LET a == k.save.ack
      saved == [k EXCEPT !.save = None, !.offline = FALSE,
                         !.synced = [version |-> a.version,
                                     text |-> IF a.text = None THEN k.text ELSE a.text],
                         !.text = IF a.text = None THEN @ ELSE a.text]
  IN IF Dirty(Resolve(saved)) THEN Flush(Resolve(saved)) ELSE Resolve(saved)

\* Slip: the answer's version is not adopted.
AckedOldBase(k) ==
  LET a == k.save.ack
      saved == [k EXCEPT !.save = None, !.offline = FALSE,
                         !.synced.text = IF a.text = None THEN k.save.text ELSE a.text,
                         !.text = IF a.text = None THEN @ ELSE a.text]
  IN IF Dirty(Resolve(saved)) THEN Flush(Resolve(saved)) ELSE Resolve(saved)

\* Slip: an answer leaves what was buffered where it is.
AckedUnresolved(k) ==
  LET a == k.save.ack
      saved == [k EXCEPT !.save = None, !.offline = FALSE,
                         !.synced = [version |-> a.version,
                                     text |-> IF a.text = None THEN k.save.text ELSE a.text],
                         !.text = IF a.text = None THEN @ ELSE a.text]
  IN IF Dirty(saved) THEN Flush(saved) ELSE saved

\* The answer to a save: adopt its version, snap to its text, resolve what was
\* buffered, and save again what is still dirty.
Acked(k) ==
  LET a == k.save.ack
      saved == [k EXCEPT !.save = None, !.offline = FALSE,
                         !.synced = [version |-> a.version,
                                     text |-> IF a.text = None THEN k.save.text ELSE a.text],
                         !.text = IF a.text = None THEN @ ELSE a.text]
  IN IF Dirty(Resolve(saved)) THEN Flush(Resolve(saved)) ELSE Resolve(saved)

\* Slip: a failed save sets no retry timer.
FailedForGood(k) == [k EXCEPT !.save = None, !.offline = TRUE]

\* A rejected fetch: offline, and a retry timer.
Failed(k) == [k EXCEPT !.save = None, !.offline = TRUE, !.timer = TRUE]

\* beacon: what it sends, and the tab after it.
Sends(k) == Dirty(k) /\ ~(k.save # None /\ k.text = k.save.text)
Beaconed(k) ==
  IF Sends(k) THEN [k EXCEPT !.timer = FALSE, !.synced.text = k.text]
  ELSE [k EXCEPT !.timer = FALSE]

\* The unanswered requests a page leaves behind when it is closed: its beacon, and
\* its save, which keepalive lets complete.
Message(n, text, base) == [n |-> n, text |-> text, base |-> base]
Left(k) ==
  (IF Sends(k) THEN {Message(2 * troubles, k.text, k.synced.version)} ELSE {})
  \cup (IF k.save # None /\ k.save.ack = None
        THEN {Message(2 * troubles + 1, k.save.text, k.save.base)} ELSE {})

-----------------------------------------------------------------------------
(* Actions.                                                                *)

\* A user types a word: edited() sets the debounce timer.
Type(c, w) ==
  /\ w \notin typed /\ Length(tab[c].text) < MaxLen
  /\ tab' = [tab EXCEPT ![c].text[w] = @ + 1, ![c].timer = TRUE]
  /\ typed' = typed \cup {w}
  /\ UNCHANGED <<row, pads, beacons, erased, given, troubles, news>>

Erase(c, w) ==
  /\ w \notin erased /\ Cardinality(erased) < MaxErased /\ tab[c].text[w] > 0
  /\ tab' = [tab EXCEPT ![c].text[w] = 0, ![c].timer = TRUE]
  /\ erased' = erased \cup {w}
  /\ UNCHANGED <<row, pads, beacons, typed, given, troubles, news>>

\* Nothing is left to post, so no answer will resolve what is buffered.
Strands(k) ==
  ~Dirty(k) /\ k.save = None /\ k.buffered # None /\ k.buffered.version > k.synced.version

\* The debounce or retry timer fires.
Timer(c) ==
  /\ tab[c].timer
  /\ tab' = [tab EXCEPT ![c] = Flush(@)]
  /\ news' = [news EXCEPT ![c] = IF @ = "received" /\ Strands(tab[c]) THEN "stranded" ELSE @]
  /\ UNCHANGED <<row, pads, beacons, typed, erased, given, troubles>>

\* The editor loses focus, or the browser comes back online.
Blur(c) ==
  /\ Dirty(tab[c]) /\ tab[c].save = None
  /\ tab' = [tab EXCEPT ![c] = Flush([@ EXCEPT !.offline = FALSE])]
  /\ UNCHANGED <<row, pads, beacons, typed, erased, given, troubles, news>>

\* A write reaches the server, which publishes what it committed to every tab.
Written(text, base) ==
  /\ row' = Store(row, text, base)
  /\ pads' = pads \cup {Get(row')}
  /\ given' = given
       \cup (IF TooLong(row, text, base) THEN {"refused"} ELSE {})
       \cup (IF ~TooLong(row, text, base) /\ base \notin {row.version, Shadow(row).version}
             THEN {"mismerged"} ELSE {})
  /\ news' = IF row' = row THEN news ELSE [c \in Client |-> "coming"]

\* JotHandler: the answer carries the text only if it is not the one sent.
Serve(c) ==
  LET s == tab[c].save
  IN /\ s # None /\ s.ack = None
     /\ Written(s.text, s.base)
     /\ tab' = [tab EXCEPT ![c].save.ack =
          [version |-> row'.version, text |-> IF row'.text = s.text THEN None ELSE row'.text]]
     /\ UNCHANGED <<beacons, typed, erased, troubles>>

Ack(c) ==
  LET k == tab[c]
  IN /\ k.save # None /\ k.save.ack # None
     /\ tab' = [tab EXCEPT ![c] = Acked(k)]
     /\ Gives("snapped", k.save.ack.text # None /\ k.text # k.save.text)
     /\ news' = [news EXCEPT ![c] =
          IF Acked(k).synced.version = row.version THEN "received"
          ELSE IF @ = "received" /\ Acked(k).synced.version < k.synced.version THEN "rewound"
          ELSE @]
     /\ UNCHANGED <<row, pads, beacons, typed, erased, troubles>>

\* The request fails before it is served, or its answer is lost.
Fail(c) ==
  /\ tab[c].save # None /\ troubles < MaxTroubles
  /\ tab' = [tab EXCEPT ![c] = Failed(@)]
  /\ troubles' = troubles + 1
  /\ Gives("retried", tab[c].save.ack # None)
  /\ UNCHANGED <<row, pads, beacons, typed, erased, news>>

\* remote does not compare an event with the one that waits in the buffer.
Displaces(k, pad) ==
  k.buffered # None /\ k.buffered.version > pad.version /\ Remote(k, pad).buffered = pad

\* A live event, or the snapshot of a reconnected stream: any committed pad, in
\* any order (publishing is not ordered like committing).
Receive(c, pad) ==
  /\ tab' = [tab EXCEPT ![c] = Remote(@, pad)]
  /\ news' = [news EXCEPT ![c] = IF pad = Get(row) THEN "received"
                                ELSE IF @ = "received" /\ Displaces(tab[c], pad) THEN "displaced"
                                ELSE @]
  /\ UNCHANGED <<row, pads, beacons, typed, erased, given, troubles>>

\* The tab's channel is full when the stored pad is published, or its stream has ended
\* and is not opened again.
Skip(c) ==
  /\ news[c] = "coming" /\ troubles < MaxTroubles
  /\ news' = [news EXCEPT ![c] = "skipped"]
  /\ troubles' = troubles + 1
  /\ UNCHANGED <<row, pads, tab, beacons, typed, erased, given>>

\* visibilitychange: the tab is hidden and goes on.
Hide(c) ==
  LET k == tab[c]
  IN /\ troubles < MaxTroubles /\ Dirty(k)
     /\ beacons' = beacons \cup (IF Sends(k) THEN {Message(2 * troubles, k.text, k.synced.version)}
                                             ELSE {})
     /\ tab' = [tab EXCEPT ![c] = Beaconed(k)]
     /\ troubles' = troubles + 1
     /\ Gives("beaconed", Sends(k))
     /\ UNCHANGED <<row, pads, typed, erased, news>>

\* pagehide, and a new page rendered from the stored note.
Reload(c) ==
  /\ troubles < MaxTroubles
  /\ beacons' = beacons \cup Left(tab[c])
  /\ tab' = [tab EXCEPT ![c] = Opened(Get(row))]
  /\ troubles' = troubles + 1
  /\ Gives("beaconed", Sends(tab[c]) /\ tab[c].save # None)
  /\ news' = [news EXCEPT ![c] = "received"]
  /\ UNCHANGED <<row, pads, typed, erased>>

ServeBeacon(m) ==
  /\ beacons' = beacons \ {m}
  /\ Written(m.text, m.base)
  /\ UNCHANGED <<tab, typed, erased, troubles>>

LoseBeacon(m) ==
  /\ troubles < MaxTroubles
  /\ beacons' = beacons \ {m}
  /\ troubles' = troubles + 1
  /\ Gives("dropped", TRUE)
  /\ UNCHANGED <<row, pads, tab, typed, erased, news>>

JNext ==
  \/ \E c \in Client :
       \/ \E w \in Word : Type(c, w) \/ Erase(c, w)
       \/ Timer(c) \/ Blur(c) \/ Serve(c) \/ Ack(c) \/ Fail(c) \/ Skip(c) \/ Hide(c) \/ Reload(c)
       \/ \E pad \in pads : Receive(c, pad)
  \/ \E m \in beacons : ServeBeacon(m) \/ LoseBeacon(m)

JSpec == JInit /\ [][JNext]_sync

\* The event of the stored pad, if it is on its way, reaches the tab: over its stream, or
\* with the snapshot of the one that replaces it.
Deliver(c) == news[c] = "coming" /\ Receive(c, Get(row))

\* Timers fire, the server serves and answers, and an event on its way arrives, once.
FairJSpec ==
  /\ JSpec
  /\ \A c \in Client : WF_sync(Timer(c)) /\ WF_sync(Serve(c)) /\ WF_sync(Ack(c)) /\ WF_sync(Deliver(c))
  /\ WF_sync(\E m \in beacons : ServeBeacon(m))

-----------------------------------------------------------------------------
(* Properties.                                                             *)

\* The values the row and the tabs can hold; a stored note keeps to the cap even
\* when two short writes merge into a long one (ErrTooLong).
JTypeOK ==
  /\ row \in Row /\ tab \in [Client -> Tab]
  /\ Length(row.text) <= MaxLen

\* A tab never believes a (version, text) pair the server did not commit: neither a
\* merge, a lost answer, a late event nor a buffered one mixes two revisions up.  Only
\* a beacon, whose answer nobody reads, leaves its text with the old version.
SyncedWasCommitted ==
  "beaconed" \in given \/ \A c \in Client : tab[c].synced \in pads

\* What the indicator calls saved is what the server holds, once the tab knows the
\* last version and no beacon is on its way or lost (statusOf, the honest save state).
SavedIsStored ==
  \A c \in Client :
    Status(tab[c]) = "saved" /\ tab[c].synced.version = row.version /\ beacons = {}
      => "dropped" \in given \/ tab[c].text = row.text

\* A word on its way to the server, or still to be sent.
Pending(w) ==
  \/ \E c \in Client :
       \/ tab[c].text[w] > 0 /\ (Dirty(tab[c]) \/ tab[c].save # None)
       \/ tab[c].save # None /\ tab[c].save.text[w] > 0
  \/ \E m \in beacons : m.text[w] > 0

\* A word typed and erased by nobody is stored or on its way.
Kept == \A w \in typed \ erased : row.text[w] > 0 \/ Pending(w)

\* Neither side's typing is lost (jot.Set), except where the code gives one side
\* up: a merge on a shadow older or newer than the writer's base, an answer that
\* snaps the editor while the user types on, a write over the cap and a lost beacon.
NeitherSideLost == given \subseteq {"retried", "beaconed"} => Kept

\* A word typed once is stored at most once, unless stored text was sent again, or a
\* write was merged against a shadow it was not typed on, which may have lost the word
\* while the row has it back from another such write.
StoredOnce ==
  {"retried", "beaconed", "mismerged"} \cap given = {} => \A w \in Word : row.text[w] <= 1

\* The same through retries: only a beacon is a duplicate the code accepts (sync.js:
\* one duplicate write beats a lost paragraph).
NoDuplicates == "beaconed" \in given \/ \A w \in Word : row.text[w] <= 1

\* No save is under way, and the tab shows the stored text if its event came and stayed.
UpToDate(c) ==
  tab[c].save = None /\ (tab[c].text = row.text \/ news[c] \in {"skipped"} \cup Outdone)

\* When the users stop and the network stops losing messages, every tab comes to show
\* the stored text and stays there.  Excepted are a tab that the last event skipped; one
\* that got it but has it wait in the buffer for a save that nothing is left to post, or
\* displaced there by an older event, or undone by the answer to an older save; and a
\* beacon that was lost or refused.
Converge ==
  <>[](\/ \A c \in Client : UpToDate(c)
       \/ "dropped" \in given \/ {"beaconed", "refused"} \subseteq given)
=============================================================================
