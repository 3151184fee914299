-------------------------- MODULE LiveUpdatesProofs --------------------------
(***************************************************************************)
(* Theorems about LiveUpdates: for any number of tabs, of concurrent       *)
(* mutations and of broken streams, and for every channel capacity.        *)
(*                                                                         *)
(* That only committed columns are seen is an invariant of types: every    *)
(* column on its way to a tab is built from halves of committed ones, and  *)
(* the column of an open transaction is not on its way.                    *)
(*                                                                         *)
(* That a quiet tab shows the stored column follows the last commit: until *)
(* it is published nothing is claimed; from then on the newest thing on    *)
(* its way to a connected tab is that column, unless it was skipped.       *)
(***************************************************************************)
EXTENDS LiveUpdates, TLAPS

\* Columns whose halves were committed, perhaps not together.
Seen == [blocks : {h.blocks : h \in history}, hours : {h.hours : h \in history}]

Column == [blocks : Nat, hours : Nat]
WorkerPhase == {"idle", "posted", "open", "rejected", "committed", "reread", "answer"}
StreamPhase == {"down", "subscribed", "read", "live", "loading"}
Request == [phase : WorkerPhase, tab : Tab \cup {Nobody}, rev : Nat, column : Column]
Handler == [phase : StreamPhase, blocks : Nat, skipped : BOOLEAN]

LTypes ==
  /\ plan \in history /\ history \subseteq Column
  /\ worker \in [Worker -> Request]
  /\ stream \in [Tab -> Handler]
  /\ posts \in Nat /\ breaks \in Nat /\ crossed \in BOOLEAN

\* Where a column made of committed halves is held.
ColumnsSeen ==
  /\ shown \in [Tab -> Seen]
  /\ events \in [Tab -> Seq(Seen)]
  /\ wire \in [Tab -> Seq(Seen)]

\* What a handler has read, in part or whole, was committed.
ReadsSeen ==
  /\ \A w \in Worker :
       /\ worker[w].phase \in {"committed", "answer"} => worker[w].column \in Seen
       /\ worker[w].phase = "reread" => \E h \in history : h.blocks = worker[w].column.blocks
  /\ \A t \in Tab : stream[t].phase \in {"read", "loading"} =>
       \E h \in history : h.blocks = stream[t].blocks

CommittedInv == LTypes /\ ColumnsSeen /\ ReadsSeen

-----------------------------------------------------------------------------
(* Only committed columns are seen.                                         *)

LEMMA PlanIsSeen == ASSUME CommittedInv PROVE plan \in Seen /\ plan \in Column
<1>1. plan \in history /\ plan \in Column
  BY DEF CommittedInv, LTypes
<1> QED BY <1>1 DEF Seen, Column

\* The answer to a snapshot's two reads.
LEMMA HalvesAreSeen ==
  ASSUME CommittedInv, NEW b, \E h \in history : h.blocks = b
  PROVE  [blocks |-> b, hours |-> plan.hours] \in Seen
<1>1. plan \in history
  BY DEF CommittedInv, LTypes
<1> QED BY <1>1 DEF Seen

\* What was seen stays so as the history grows.
LEMMA SeenGrows == ASSUME history \subseteq history' PROVE Seen \subseteq Seen'
BY DEF Seen

LEMMA SeqGrows == ASSUME NEW S, NEW T, S \subseteq T PROVE Seq(S) \subseteq Seq(T)
OBVIOUS

LEMMA InitCommitted == LInit => CommittedInv
<1> SUFFICES ASSUME LInit PROVE CommittedInv
  OBVIOUS
<1>1. First \in Column /\ plan = First /\ history = {First}
  BY DEF LInit, First, Column
<1>2. LTypes
  BY <1>1 DEF LInit, LTypes, Idle, Down, Request, Handler, WorkerPhase, StreamPhase
<1>3. First \in Seen
  BY <1>1 DEF First, Seen
<1>4. ColumnsSeen
  BY <1>3 DEF LInit, ColumnsSeen
<1>5. ReadsSeen
  BY DEF LInit, ReadsSeen, Idle, Down
<1> QED BY <1>2, <1>4, <1>5 DEF CommittedInv

\* A request's own step, when the table does not change.
LEMMA WorkerStep ==
  ASSUME CommittedInv, NEW w \in Worker, NEW r \in Request,
         worker' = [worker EXCEPT ![w] = r], UNCHANGED <<plan, history, breaks, crossed>>,
         posts' \in Nat, stream' \in [Tab -> Handler],
         \A t \in Tab : stream'[t].phase = stream[t].phase /\ stream'[t].blocks = stream[t].blocks,
         r.phase \in {"committed", "answer"} => r.column \in Seen,
         r.phase = "reread" => \E h \in history : h.blocks = r.column.blocks,
         ColumnsSeen'
  PROVE  CommittedInv'
<1> USE DEF CommittedInv
<1>1. LTypes'
  BY DEF LTypes
<1>2. Seen' = Seen
  BY DEF Seen
<1>3. ReadsSeen'
  BY <1>2 DEF ReadsSeen, LTypes
<1> QED BY <1>1, <1>3

\* A step of one tab's stream.
LEMMA StreamStep ==
  ASSUME CommittedInv, NEW t \in Tab, NEW s \in Handler,
         stream' = [stream EXCEPT ![t] = s], UNCHANGED <<plan, history, posts, crossed>>,
         worker' \in [Worker -> Request], breaks' \in Nat,
         \A w \in Worker : worker'[w].phase = worker[w].phase /\ worker'[w].column = worker[w].column,
         s.phase \in {"read", "loading"} => \E h \in history : h.blocks = s.blocks,
         ColumnsSeen'
  PROVE  CommittedInv'
<1> USE DEF CommittedInv
<1>1. LTypes'
  BY DEF LTypes
<1>2. Seen' = Seen
  BY DEF Seen
<1>3. ReadsSeen'
  BY <1>2 DEF ReadsSeen, LTypes
<1> QED BY <1>1, <1>3

LEMMA CommitKeepsCommitted ==
  ASSUME CommittedInv, NEW w \in Worker, Commit(w)
  PROVE  CommittedInv'
<1> USE DEF CommittedInv
<1> DEFINE c == worker[w].column
<1>1. plan' = c /\ c \in Column /\ history' = history \cup {c}
  BY DEF Commit, LTypes, Request
<1>2. LTypes'
  BY <1>1 DEF Commit, LTypes, Request, WorkerPhase
<1>3. Seen \subseteq Seen' /\ c \in Seen'
  BY <1>1, SeenGrows DEF Seen, Column
<1>4. ColumnsSeen'
  <2>1. Seq(Seen) \subseteq Seq(Seen')
    BY <1>3, SeqGrows
  <2> QED BY <1>3, <2>1 DEF ColumnsSeen, Commit
<1>5. ReadsSeen'
  <2>1. worker' = [worker EXCEPT ![w].phase = "committed"] /\ stream' = stream
    BY DEF Commit
  <2>2. \A v \in Worker : worker'[v].column = worker[v].column
                          /\ (v # w => worker'[v].phase = worker[v].phase)
    BY <2>1 DEF LTypes, Request
  <2>3. worker'[w].phase = "committed"
    BY <2>1 DEF LTypes, Request
  <2> QED BY <1>1, <1>3, <2>1, <2>2, <2>3 DEF ReadsSeen
<1> QED BY <1>2, <1>4, <1>5

LEMMA PostKeepsCommitted ==
  ASSUME CommittedInv, NEW w \in Worker, NEW t \in Tab \cup {Nobody}, Post(w, t)
  PROVE  CommittedInv'
<1> DEFINE r == [Idle EXCEPT !.phase = "posted", !.tab = t, !.rev = posts + 1]
<1>1. posts \in Nat /\ stream \in [Tab -> Handler]
  BY DEF CommittedInv, LTypes
<1>2. r \in Request /\ r.phase = "posted"
  <2>1. Idle \in Request
    BY DEF Idle, First, Request, WorkerPhase, Column
  <2>2. posts + 1 \in Nat
    BY <1>1
  <2> DEFINE n == posts + 1
             a == [Idle EXCEPT !.phase = "posted"]
             b == [a EXCEPT !.tab = t]
  <2>3. a \in Request /\ a.phase = "posted"
    BY <2>1 DEF Request, WorkerPhase
  <2>4. b \in Request /\ b.phase = "posted"
    <3> HIDE DEF a
    <3> QED BY <2>3 DEF Request
  <2>5. [b EXCEPT !.rev = n] \in Request /\ [b EXCEPT !.rev = n].phase = "posted"
    <3> HIDE DEF b, n
    <3> QED BY <2>2, <2>4 DEF Request, n
  <2>6. r = [b EXCEPT !.rev = n]
    OBVIOUS
  <2> QED BY <2>5, <2>6
<1>3. ColumnsSeen'
  BY DEF CommittedInv, ColumnsSeen, Post, Seen
<1>4. worker' = [worker EXCEPT ![w] = r] /\ posts' \in Nat
      /\ UNCHANGED <<plan, history, stream, breaks, crossed>>
  BY <1>1 DEF Post
<1> HIDE DEF r
<1> QED BY <1>1, <1>2, <1>3, <1>4, WorkerStep

LEMMA ServingKeepsCommitted ==
  ASSUME CommittedInv, NEW w \in Worker, Serving(w)
  PROVE  CommittedInv'
<1>1. worker[w] \in Request /\ posts \in Nat /\ stream \in [Tab -> Handler]
      /\ worker \in [Worker -> Request] /\ plan \in history
  BY DEF CommittedInv, LTypes
<1>p. plan \in Seen /\ plan \in Column
  BY PlanIsSeen
<1>2. Idle \in Request /\ Idle.phase = "idle"
  BY DEF Idle, First, Request, WorkerPhase, Column
<1>3. ColumnsSeen
  BY DEF CommittedInv
<1>4. ASSUME UNCHANGED <<history, events, wire, shown>> PROVE ColumnsSeen'
  BY <1>3, <1>4 DEF ColumnsSeen, Seen
<1>5. ASSUME NEW half \in {"blocks", "hours"}, Write(w, half) PROVE CommittedInv'
  <2> DEFINE r == [worker[w] EXCEPT !.phase = "open", !.column = [plan EXCEPT ![half] = worker[w].rev]]
  <2>1. r \in Request /\ r.phase = "open"
    BY <1>1, <1>p DEF Request, WorkerPhase, Column
  <2>2. worker' = [worker EXCEPT ![w] = r] /\ UNCHANGED <<plan, history, stream, posts, breaks, crossed>>
    BY <1>1, <1>5 DEF Write
  <2>3. ColumnsSeen'
    BY <1>4, <1>5 DEF Write
  <2> HIDE DEF r
  <2> QED BY <1>1, <2>1, <2>2, <2>3, WorkerStep
<1>6. CASE Reject(w)
  <2> DEFINE r == [worker[w] EXCEPT !.phase = "rejected"]
  <2>1. r \in Request /\ r.phase = "rejected"
    BY <1>1 DEF Request, WorkerPhase
  <2>2. worker' = [worker EXCEPT ![w] = r] /\ UNCHANGED <<plan, history, stream, posts, breaks, crossed>>
    BY <1>1, <1>6 DEF Reject
  <2>3. ColumnsSeen'
    BY <1>4, <1>6 DEF Reject
  <2> HIDE DEF r
  <2> QED BY <1>1, <2>1, <2>2, <2>3, WorkerStep
<1>7. CASE Commit(w)
  BY <1>7, CommitKeepsCommitted
<1>8. CASE Rollback(w)
  <2>1. ColumnsSeen'
    BY <1>4, <1>8 DEF Rollback
  <2> QED BY <1>1, <1>2, <1>8, <2>1, WorkerStep DEF Rollback
<1>9. CASE Publish(w)
  <2> DEFINE r == [worker[w] EXCEPT !.phase = "answer"]
  <2>1. worker[w].column \in Seen /\ worker[w].phase = "committed"
    BY <1>9 DEF Publish, CommittedInv, ReadsSeen
  <2>2. r \in Request /\ r.phase = "answer" /\ r.column \in Seen
    BY <1>1, <2>1 DEF Request, WorkerPhase
  <2>3. worker' = [worker EXCEPT ![w] = r] /\ UNCHANGED <<plan, history, posts, breaks, crossed>>
    BY <1>1, <1>9 DEF Publish
  <2>4. stream' \in [Tab -> Handler]
        /\ \A t \in Tab : stream'[t].phase = stream[t].phase /\ stream'[t].blocks = stream[t].blocks
    BY <1>1, <1>9 DEF Publish, Skipping, Handler
  <2>5. Fanned(worker[w].column) \in [Tab -> Seq(Seen)]
    BY <1>3, <2>1 DEF Fanned, ColumnsSeen
  <2>6. ColumnsSeen'
    <3>1. Seen' = Seen /\ shown' = shown /\ wire' = wire /\ events' = Fanned(worker[w].column)
      BY <1>9 DEF Publish, Seen
    <3> QED BY <1>3, <2>5, <3>1 DEF ColumnsSeen
  <2> HIDE DEF r
  <2> QED BY <1>1, <2>2, <2>3, <2>4, <2>6, WorkerStep
<1>10. CASE RereadBlocks(w)
  <2> DEFINE r == [worker[w] EXCEPT !.phase = "reread", !.column.blocks = plan.blocks]
  <2>1. r \in Request /\ r.phase = "reread" /\ r.column.blocks = plan.blocks
    BY <1>1, <1>p DEF Request, WorkerPhase, Column
  <2>2. worker' = [worker EXCEPT ![w] = r] /\ UNCHANGED <<plan, history, stream, posts, breaks, crossed>>
    BY <1>1, <1>10 DEF RereadBlocks
  <2>3. ColumnsSeen'
    BY <1>4, <1>10 DEF RereadBlocks
  <2> HIDE DEF r
  <2> QED BY <1>1, <2>1, <2>2, <2>3, WorkerStep
<1>11. CASE RereadHours(w)
  <2> DEFINE r == [worker[w] EXCEPT !.phase = "answer", !.column.hours = plan.hours]
  <2>1. \E h \in history : h.blocks = worker[w].column.blocks
    BY <1>11 DEF RereadHours, CommittedInv, ReadsSeen
  <2>2. r \in Request /\ r.phase = "answer"
    BY <1>1, <1>p DEF Request, WorkerPhase, Column
  <2>3. r.column = [blocks |-> worker[w].column.blocks, hours |-> plan.hours]
    BY <1>1 DEF Request, Column
  <2>4. r.column \in Seen
    BY <2>1, <2>3, HalvesAreSeen
  <2>5. worker' = [worker EXCEPT ![w] = r] /\ UNCHANGED <<plan, history, stream, posts, breaks, crossed>>
    BY <1>1, <1>11 DEF RereadHours
  <2>6. ColumnsSeen'
    BY <1>4, <1>11 DEF RereadHours
  <2> HIDE DEF r
  <2> QED BY <1>1, <2>2, <2>4, <2>5, <2>6, WorkerStep
<1>12. ASSUME NEW lost \in BOOLEAN, Answer(w, lost) PROVE CommittedInv'
  <2>1. worker[w].column \in Seen
    BY <1>12 DEF Answer, CommittedInv, ReadsSeen
  <2>2. shown' \in [Tab -> Seen]
    BY <1>1, <1>3, <1>12, <2>1 DEF Answer, ColumnsSeen
  <2>3. ColumnsSeen'
    BY <1>3, <1>12, <2>2 DEF Answer, ColumnsSeen, Seen
  <2> QED BY <1>1, <1>2, <1>12, <2>3, WorkerStep DEF Answer
<1> QED BY <1>5, <1>6, <1>7, <1>8, <1>9, <1>10, <1>11, <1>12, Zenon DEF Serving

LEMMA StreamingKeepsCommitted ==
  ASSUME CommittedInv, NEW t \in Tab, Streaming(t) \/ Disconnect(t) \/ Reload(t)
  PROVE  CommittedInv'
<1>1. stream[t] \in Handler /\ breaks \in Nat /\ worker \in [Worker -> Request]
      /\ plan \in history /\ stream \in [Tab -> Handler]
  BY DEF CommittedInv, LTypes
<1>p. plan.blocks \in Nat
  BY PlanIsSeen DEF Column
<1>2. Down \in Handler /\ Down.phase = "down"
  BY DEF Down, Handler, StreamPhase
<1>3. ColumnsSeen
  BY DEF CommittedInv
<1>4. ASSUME UNCHANGED <<history, events, wire, shown>> PROVE ColumnsSeen'
  BY <1>3, <1>4 DEF ColumnsSeen, Seen
<1>5. CASE Connect(t)
  <2> DEFINE s == [Down EXCEPT !.phase = "subscribed"]
  <2>1. s \in Handler /\ s.phase = "subscribed"
    BY DEF Down, Handler, StreamPhase
  <2>2. ColumnsSeen'
    BY <1>4, <1>5 DEF Connect
  <2>3. stream' = [stream EXCEPT ![t] = s] /\ UNCHANGED <<plan, history, worker, posts, breaks, crossed>>
    BY <1>5 DEF Connect
  <2> HIDE DEF s
  <2> QED BY <1>1, <2>1, <2>2, <2>3, StreamStep
<1>6. CASE ReadBlocks(t)
  <2> DEFINE s == [stream[t] EXCEPT !.phase = "read", !.blocks = plan.blocks]
  <2>1. s \in Handler /\ s.blocks = plan.blocks
    BY <1>1, <1>p DEF Handler, StreamPhase
  <2>2. ColumnsSeen'
    BY <1>4, <1>6 DEF ReadBlocks
  <2>3. stream' = [stream EXCEPT ![t] = s] /\ UNCHANGED <<plan, history, worker, posts, breaks, crossed>>
    BY <1>1, <1>6 DEF ReadBlocks
  <2> HIDE DEF s
  <2> QED BY <1>1, <2>1, <2>2, <2>3, StreamStep
<1>7. CASE ReadHours(t)
  <2> DEFINE s == [stream[t] EXCEPT !.phase = "live"]
             c == [blocks |-> stream[t].blocks, hours |-> plan.hours]
  <2>1. s \in Handler /\ s.phase = "live"
    BY <1>1 DEF Handler, StreamPhase
  <2>2. c \in Seen
    BY <1>7, HalvesAreSeen DEF ReadHours, CommittedInv, ReadsSeen
  <2>3. stream' = [stream EXCEPT ![t] = s] /\ UNCHANGED <<plan, history, worker, posts, breaks, crossed>>
        /\ wire' = [wire EXCEPT ![t] = Append(@, c)] /\ UNCHANGED <<events, shown>>
    BY <1>1, <1>7 DEF ReadHours
  <2> HIDE DEF s, c
  <2>4. ColumnsSeen'
    <3>1. Seen' = Seen
      BY <2>3 DEF Seen
    <3>2. wire[t] \in Seq(Seen) /\ Append(wire[t], c) \in Seq(Seen)
      BY <1>3, <2>2 DEF ColumnsSeen
    <3> QED BY <1>3, <2>3, <3>1, <3>2 DEF ColumnsSeen
  <2> QED BY <1>1, <2>1, <2>3, <2>4, StreamStep
<1>8. CASE Forward(t)
  <2>1. wire' = [wire EXCEPT ![t] = Append(@, Head(events[t]))] /\ shown' = shown
        /\ events' = [events EXCEPT ![t] = Tail(@)] /\ events[t] # << >> /\ history' = history
    BY <1>8 DEF Forward
  <2>2. events[t] \in Seq(Seen) /\ Head(events[t]) \in Seen /\ Tail(events[t]) \in Seq(Seen)
    BY <1>3, <2>1 DEF ColumnsSeen
  <2>3. Seen' = Seen
    BY <2>1 DEF Seen
  <2>4. ColumnsSeen'
    BY <1>3, <2>1, <2>2, <2>3 DEF ColumnsSeen
  <2> QED BY <1>8, <2>3, <2>4 DEF Forward, CommittedInv, LTypes, ReadsSeen
<1>9. CASE Deliver(t)
  <2>1. wire' = [wire EXCEPT ![t] = Tail(@)] /\ wire[t] # << >> /\ history' = history
        /\ shown' = [shown EXCEPT ![t] = Head(wire[t])] /\ events' = events
    BY <1>9 DEF Deliver
  <2>2. wire[t] \in Seq(Seen) /\ Head(wire[t]) \in Seen /\ Tail(wire[t]) \in Seq(Seen)
    BY <1>3, <2>1 DEF ColumnsSeen
  <2>3. Seen' = Seen
    BY <2>1 DEF Seen
  <2>4. ColumnsSeen'
    BY <1>3, <2>1, <2>2, <2>3 DEF ColumnsSeen
  <2> QED BY <1>9, <2>3, <2>4 DEF Deliver, CommittedInv, LTypes, ReadsSeen
<1>10. CASE Loaded(t)
  <2> DEFINE c == [blocks |-> stream[t].blocks, hours |-> plan.hours]
  <2>1. c \in Seen
    BY <1>10, HalvesAreSeen DEF Loaded, CommittedInv, ReadsSeen
  <2>2. stream' = [stream EXCEPT ![t] = Down] /\ UNCHANGED <<plan, history, worker, posts, breaks, crossed>>
        /\ shown' = [shown EXCEPT ![t] = c] /\ UNCHANGED <<events, wire>>
    BY <1>10 DEF Loaded
  <2> HIDE DEF c
  <2>3. ColumnsSeen'
    BY <1>3, <2>1, <2>2 DEF ColumnsSeen, Seen
  <2> QED BY <1>1, <1>2, <2>2, <2>3, StreamStep
<1>11. CASE Disconnect(t)
  <2>1. ColumnsSeen'
    <3>1. Seen' = Seen /\ << >> \in Seq(Seen)
      BY <1>11 DEF Disconnect, Seen
    <3> QED BY <1>3, <1>11, <3>1 DEF Disconnect, ColumnsSeen
  <2>2. breaks' \in Nat
    BY <1>1, <1>11 DEF Disconnect
  <2>3. stream' = [stream EXCEPT ![t] = Down] /\ UNCHANGED <<plan, history, worker, posts, crossed>>
    BY <1>11 DEF Disconnect
  <2> QED BY <1>1, <1>2, <2>1, <2>2, <2>3, StreamStep
<1>12. CASE Reload(t)
  <2> DEFINE s == [Down EXCEPT !.phase = "loading", !.blocks = plan.blocks]
  <2>2. s \in Handler /\ s.blocks = plan.blocks
    BY <1>p, <1>2 DEF Handler, StreamPhase
  <2>3. ColumnsSeen'
    <3>1. Seen' = Seen /\ << >> \in Seq(Seen)
      BY <1>12 DEF Reload, Seen
    <3> QED BY <1>3, <1>12, <3>1 DEF Reload, ColumnsSeen
  <2>4. worker' \in [Worker -> Request]
        /\ \A w \in Worker : worker'[w].phase = worker[w].phase /\ worker'[w].column = worker[w].column
    BY <1>1, <1>12 DEF Reload, Request
  <2>5. breaks' \in Nat /\ stream' = [stream EXCEPT ![t] = s] /\ UNCHANGED <<plan, history, posts, crossed>>
    BY <1>1, <1>12 DEF Reload
  <2> HIDE DEF s
  <2> QED BY <1>1, <2>2, <2>3, <2>4, <2>5, StreamStep
<1> QED BY <1>5, <1>6, <1>7, <1>8, <1>9, <1>10, <1>11, <1>12 DEF Streaming

LEMMA RestartKeepsCommitted ==
  ASSUME CommittedInv, Restart
  PROVE  CommittedInv'
<1>1. ColumnsSeen'
  BY DEF Restart, CommittedInv, ColumnsSeen, Seen
<1>2. Idle \in Request /\ Down \in Handler /\ breaks' \in Nat
  BY DEF CommittedInv, LTypes, Restart, Idle, Down, First, Request, Handler, WorkerPhase, StreamPhase, Column
<1>3. LTypes'
  BY <1>2 DEF CommittedInv, LTypes, Restart
<1>4. ReadsSeen'
  BY DEF Restart, ReadsSeen, Idle, Down
<1> QED BY <1>1, <1>3, <1>4 DEF CommittedInv

LEMMA NextKeepsCommitted == CommittedInv /\ [LNext]_live => CommittedInv'
<1> SUFFICES ASSUME CommittedInv, [LNext]_live PROVE CommittedInv'
  OBVIOUS
<1>1. CASE UNCHANGED live
  BY <1>1 DEF live, CommittedInv, LTypes, ColumnsSeen, ReadsSeen, Seen
<1> QED BY <1>1, PostKeepsCommitted, ServingKeepsCommitted, StreamingKeepsCommitted,
           RestartKeepsCommitted DEF LNext

LEMMA CommittedHolds == LSpec => []CommittedInv
BY InitCommitted, NextKeepsCommitted, PTL DEF LSpec

\* Whatever transactions roll back and however the streams break, each half of every
\* column a tab shows, or that is on its way to one, was committed
\* (block.Publisher: subscribers see post-commit state only).
THEOREM OnlyCommittedIsSeen == LSpec => []OnlyCommitted
<1>1. CommittedInv => OnlyCommitted
  <2> SUFFICES ASSUME CommittedInv, NEW c \in InSight
               PROVE  (\E h \in history : h.blocks = c.blocks) /\ (\E h \in history : h.hours = c.hours)
    BY DEF OnlyCommitted
  <2>1. c \in Seen
    <3>1. CASE \E t \in Tab : c = shown[t]
      BY <3>1 DEF CommittedInv, ColumnsSeen
    <3>2. ASSUME NEW t \in Tab, NEW k \in DOMAIN events[t], c = events[t][k] PROVE c \in Seen
      BY <3>2 DEF CommittedInv, ColumnsSeen
    <3>3. ASSUME NEW t \in Tab, NEW k \in DOMAIN wire[t], c = wire[t][k] PROVE c \in Seen
      BY <3>3 DEF CommittedInv, ColumnsSeen
    <3>4. ASSUME NEW w \in Worker, worker[w].phase = "answer", c = worker[w].column PROVE c \in Seen
      BY <3>4 DEF CommittedInv, ReadsSeen
    <3> QED BY <3>1, <3>2, <3>3, <3>4 DEF InSight
  <2> QED BY <2>1 DEF Seen
<1> QED BY <1>1, CommittedHolds, PTL

-----------------------------------------------------------------------------
(* A quiet tab shows the stored column.                                     *)

\* The newest column on its way to a tab, or what it shows if none is.
Newest(t) ==
  IF events[t] # << >> THEN events[t][Len(events[t])]
  ELSE IF wire[t] # << >> THEN wire[t][Len(wire[t])] ELSE shown[t]

\* The last commit is still to be published.
Unpublished == \E w \in Worker : worker[w].phase = "committed"

\* What a handler of a mutation holds is the stored column, as far as it has read it.
AnswersStored ==
  \A w \in Worker :
    /\ worker[w].phase \in {"committed", "answer"} => worker[w].column = plan
    /\ worker[w].phase = "reread" => worker[w].column.blocks = plan.blocks

\* The stored column is the newest on its way to a connected tab; before its first
\* snapshot, what the snapshot has read is stored, or an event that is follows it.
NewestStored(t) ==
  ~stream[t].skipped =>
    /\ stream[t].phase \in {"subscribed", "read"} /\ events[t] # << >> => Newest(t) = plan
    /\ stream[t].phase = "read" /\ events[t] = << >> => stream[t].blocks = plan.blocks
    /\ stream[t].phase = "live" => Newest(t) = plan

\* Only a subscription has a channel.
Unsubscribed == \A t \in Tab : ~Subscribed(t) => events[t] = << >>

OrderedInv ==
  /\ CommittedInv /\ Unsubscribed
  /\ ~crossed => AnswersStored /\ (Unpublished \/ \A t \in Tab : NewestStored(t))

LEMMA InitOrdered == LInit => OrderedInv
BY InitCommitted DEF LInit, OrderedInv, Unsubscribed, Subscribed, AnswersStored, NewestStored, Idle, Down

\* A request's step that neither commits nor publishes and touches no tab.
LEMMA WorkerOrdered ==
  ASSUME OrderedInv, CommittedInv', NEW w \in Worker, NEW r,
         worker' = [worker EXCEPT ![w] = r], UNCHANGED <<plan, crossed, stream, events, wire, shown>>,
         worker[w].phase # "committed", r.phase # "committed",
         ~crossed /\ r.phase = "answer" => r.column = plan,
         ~crossed /\ r.phase = "reread" => r.column.blocks = plan.blocks
  PROVE  OrderedInv'
<1>1. worker \in [Worker -> Request]
  BY DEF OrderedInv, CommittedInv, LTypes
<1>2. Unsubscribed'
  BY DEF OrderedInv, Unsubscribed, Subscribed
<1>3. ~crossed => AnswersStored'
  BY <1>1 DEF OrderedInv, AnswersStored
<1>4. Unpublished => Unpublished'
  BY <1>1 DEF Unpublished
<1>5. \A t \in Tab : NewestStored(t) => NewestStored(t)'
  BY DEF NewestStored, Newest
<1> QED BY <1>2, <1>3, <1>4, <1>5 DEF OrderedInv

\* A step of one tab's stream; requests may lose their page, no more.
LEMMA StreamOrdered ==
  ASSUME OrderedInv, CommittedInv', NEW t \in Tab, UNCHANGED <<plan, crossed>>,
         \A w \in Worker : worker'[w].phase = worker[w].phase /\ worker'[w].column = worker[w].column,
         \A u \in Tab \ {t} : /\ stream'[u] = stream[u] /\ events'[u] = events[u]
                              /\ wire'[u] = wire[u] /\ shown'[u] = shown[u],
         ~Subscribed(t)' => events'[t] = << >>,
         NewestStored(t) => NewestStored(t)'
  PROVE  OrderedInv'
<1>1. Unsubscribed'
  BY DEF OrderedInv, Unsubscribed, Subscribed
<1>2. AnswersStored => AnswersStored'
  BY DEF AnswersStored
<1>3. Unpublished => Unpublished'
  BY DEF Unpublished
<1>4. \A u \in Tab : NewestStored(u) => NewestStored(u)'
  <2> SUFFICES ASSUME NEW u \in Tab \ {t}, NewestStored(u) PROVE NewestStored(u)'
    OBVIOUS
  <2> QED BY DEF NewestStored, Newest
<1> QED BY <1>1, <1>2, <1>3, <1>4 DEF OrderedInv

LEMMA CommitKeepsOrdered ==
  ASSUME OrderedInv, CommittedInv', NEW w \in Worker, Commit(w)
  PROVE  OrderedInv'
<1>1. worker \in [Worker -> Request] /\ worker' = [worker EXCEPT ![w].phase = "committed"]
      /\ plan' = worker[w].column
  BY DEF OrderedInv, CommittedInv, LTypes, Commit
<1>2. Unsubscribed'
  BY DEF OrderedInv, Unsubscribed, Subscribed, Commit
<1>3. worker'[w].phase = "committed" /\ worker'[w].column = plan'
      /\ \A v \in Worker \ {w} : worker'[v] = worker[v]
  BY <1>1 DEF Request
<1>4. ~crossed' => AnswersStored'
  <2> SUFFICES ASSUME ~crossed' PROVE AnswersStored'
    OBVIOUS
  <2>1. \A v \in Worker : worker[v].phase \notin {"committed", "reread", "answer"}
    BY DEF Commit
  <2> QED BY <1>3, <2>1 DEF AnswersStored
<1> QED BY <1>2, <1>3, <1>4 DEF OrderedInv, Unpublished

LEMMA PublishKeepsOrdered ==
  ASSUME OrderedInv, CommittedInv', NEW w \in Worker, Publish(w)
  PROVE  OrderedInv'
<1>1. /\ worker \in [Worker -> Request] /\ stream \in [Tab -> Handler]
      /\ events \in [Tab -> Seq(Seen)]
  BY DEF OrderedInv, CommittedInv, LTypes, ColumnsSeen
<1>2. /\ worker[w].phase = "committed" /\ worker' = [worker EXCEPT ![w].phase = "answer"]
      /\ events' = Fanned(worker[w].column) /\ stream' = Skipping
      /\ UNCHANGED <<plan, wire, shown, crossed>>
  BY DEF Publish
<1>3. \A t \in Tab : stream'[t].phase = stream[t].phase
  BY <1>1, <1>2 DEF Skipping, Handler
<1>4. Unsubscribed'
  BY <1>2, <1>3 DEF OrderedInv, Unsubscribed, Subscribed, Fanned
<1>5. ASSUME ~crossed PROVE AnswersStored' /\ \A t \in Tab : NewestStored(t)'
  <2>1. worker[w].column = plan
    BY <1>2, <1>5 DEF OrderedInv, AnswersStored
  <2>2. AnswersStored'
    BY <1>1, <1>2, <1>5, <2>1 DEF OrderedInv, AnswersStored, Request
  <2>3. ASSUME NEW t \in Tab PROVE NewestStored(t)'
    <3>1. CASE ~Subscribed(t)
      BY <1>3, <3>1 DEF Subscribed, NewestStored
    <3>2. CASE Subscribed(t) /\ Len(events[t]) >= Buffer
      <4>1. stream'[t].skipped
        BY <1>1, <1>2, <3>2 DEF Skipping, Handler
      <4> QED BY <4>1 DEF NewestStored
    <3>3. CASE Subscribed(t) /\ Len(events[t]) < Buffer
      <4>1. events'[t] = Append(events[t], plan) /\ events[t] \in Seq(Seen)
        BY <1>1, <1>2, <2>1, <3>3 DEF Fanned
      <4>2. events'[t] # << >> /\ events'[t][Len(events'[t])] = plan'
        BY <1>2, <4>1
      <4> QED BY <4>2 DEF NewestStored, Newest
    <3>4. Len(events[t]) \in Nat /\ Buffer \in Nat
      BY <1>1, LiveAssumption
    <3> QED BY <3>1, <3>2, <3>3, <3>4
  <2> QED BY <2>2, <2>3
<1> QED BY <1>2, <1>4, <1>5 DEF OrderedInv

LEMMA AnswerKeepsOrdered ==
  ASSUME OrderedInv, CommittedInv', NEW w \in Worker, NEW lost \in BOOLEAN, Answer(w, lost)
  PROVE  OrderedInv'
<1>1. worker \in [Worker -> Request] /\ shown \in [Tab -> Seen]
  BY DEF OrderedInv, CommittedInv, LTypes, ColumnsSeen
<1>2. /\ worker[w].phase = "answer" /\ worker' = [worker EXCEPT ![w] = Idle]
      /\ UNCHANGED <<plan, stream, events, wire, crossed>>
  BY DEF Answer
<1>3. Unsubscribed'
  BY <1>2 DEF OrderedInv, Unsubscribed, Subscribed
<1>4. AnswersStored => AnswersStored'
  BY <1>1, <1>2 DEF AnswersStored, Idle
<1>5. Unpublished => Unpublished'
  BY <1>1, <1>2 DEF Unpublished
<1>6. ASSUME ~crossed, NEW t \in Tab, NewestStored(t) PROVE NewestStored(t)'
  <2>1. worker[w].column = plan
    BY <1>2, <1>6 DEF OrderedInv, AnswersStored
  <2>2. shown'[t] \in {shown[t], plan}
    BY <1>1, <2>1 DEF Answer
  <2> QED BY <1>2, <1>6, <2>2 DEF NewestStored, Newest
<1> QED BY <1>2, <1>3, <1>4, <1>5, <1>6 DEF OrderedInv

LEMMA ServingKeepsOrdered ==
  ASSUME OrderedInv, CommittedInv', NEW w \in Worker, Serving(w)
  PROVE  OrderedInv'
<1>1. worker[w] \in Request /\ worker \in [Worker -> Request] /\ plan \in Column
  BY PlanIsSeen DEF OrderedInv, CommittedInv, LTypes
<1>2. ASSUME NEW half \in {"blocks", "hours"}, Write(w, half) PROVE OrderedInv'
  <2> DEFINE r == [worker[w] EXCEPT !.phase = "open", !.column = [plan EXCEPT ![half] = worker[w].rev]]
  <2>1. r.phase = "open" /\ worker[w].phase = "posted"
    BY <1>1, <1>2 DEF Request, Write, Lock
  <2>2. worker' = [worker EXCEPT ![w] = r] /\ UNCHANGED <<plan, crossed, stream, events, wire, shown>>
    BY <1>1, <1>2 DEF Write
  <2> HIDE DEF r
  <2> QED BY <2>1, <2>2, WorkerOrdered
<1>3. CASE Reject(w)
  <2> DEFINE r == [worker[w] EXCEPT !.phase = "rejected"]
  <2>1. r.phase = "rejected" /\ worker[w].phase = "posted"
    BY <1>1, <1>3 DEF Request, Reject, Lock
  <2>2. worker' = [worker EXCEPT ![w] = r] /\ UNCHANGED <<plan, crossed, stream, events, wire, shown>>
    BY <1>1, <1>3 DEF Reject
  <2> HIDE DEF r
  <2> QED BY <2>1, <2>2, WorkerOrdered
<1>4. CASE Rollback(w)
  <2>1. Idle.phase = "idle" /\ worker[w].phase = "open"
    BY <1>4 DEF Idle, Rollback
  <2>2. worker' = [worker EXCEPT ![w] = Idle] /\ UNCHANGED <<plan, crossed, stream, events, wire, shown>>
    BY <1>4 DEF Rollback
  <2> QED BY <2>1, <2>2, WorkerOrdered
<1>5. CASE RereadBlocks(w)
  <2> DEFINE r == [worker[w] EXCEPT !.phase = "reread", !.column.blocks = plan.blocks]
  <2>1. r.phase = "reread" /\ r.column.blocks = plan.blocks /\ worker[w].phase = "rejected"
    BY <1>1, <1>5 DEF Request, Column, RereadBlocks
  <2>2. worker' = [worker EXCEPT ![w] = r] /\ UNCHANGED <<plan, crossed, stream, events, wire, shown>>
    BY <1>1, <1>5 DEF RereadBlocks
  <2> HIDE DEF r
  <2> QED BY <2>1, <2>2, WorkerOrdered
<1>6. CASE RereadHours(w)
  <2> DEFINE r == [worker[w] EXCEPT !.phase = "answer", !.column.hours = plan.hours]
  <2>1. worker[w].phase = "reread" /\ r.phase = "answer"
    BY <1>1, <1>6 DEF Request, RereadHours
  <2>2. ASSUME ~crossed PROVE r.column = plan
    <3>1. worker[w].column.blocks = plan.blocks
      BY <2>1, <2>2 DEF OrderedInv, AnswersStored
    <3> QED BY <1>1, <3>1 DEF Request, Column
  <2>3. worker' = [worker EXCEPT ![w] = r] /\ UNCHANGED <<plan, crossed, stream, events, wire, shown>>
    BY <1>1, <1>6 DEF RereadHours
  <2> HIDE DEF r
  <2> QED BY <2>1, <2>2, <2>3, WorkerOrdered
<1> QED BY <1>2, <1>3, <1>4, <1>5, <1>6, CommitKeepsOrdered, PublishKeepsOrdered,
           AnswerKeepsOrdered, Zenon DEF Serving

LEMMA LastOfAppend ==
  ASSUME NEW S, NEW q \in Seq(S), NEW c \in S
  PROVE  Append(q, c) # << >> /\ Append(q, c)[Len(Append(q, c))] = c
OBVIOUS

LEMMA LastOfTail ==
  ASSUME NEW S, NEW q \in Seq(S), q # << >>
  PROVE  /\ Tail(q) # << >> => Tail(q)[Len(Tail(q))] = q[Len(q)]
         /\ Tail(q) = << >> => Head(q) = q[Len(q)]
<1>1. Len(q) \in Nat \ {0} /\ Head(q) = q[1]
  OBVIOUS
<1>2. Tail(q) \in Seq(S) /\ Len(Tail(q)) = Len(q) - 1
  OBVIOUS
<1>3. \A k \in 1 .. Len(Tail(q)) : Tail(q)[k] = q[k + 1]
  OBVIOUS
<1>4. Tail(q) = << >> => Len(q) = 1
  <2> SUFFICES ASSUME Tail(q) = << >> PROVE Len(q) = 1
    OBVIOUS
  <2>1. Len(Tail(q)) = Len(<< >>) /\ Len(<< >>) = 0
    OBVIOUS
  <2> QED BY <1>1, <1>2, <2>1
<1>5. Tail(q) # << >> => Len(q) - 1 \in 1 .. Len(Tail(q))
  BY <1>1, <1>2
<1>6. Tail(q) # << >> => Tail(q)[Len(Tail(q))] = q[Len(q) - 1 + 1]
  BY <1>2, <1>3, <1>5
<1> QED BY <1>1, <1>4, <1>6

LEMMA StreamingKeepsOrdered ==
  ASSUME OrderedInv, CommittedInv', NEW t \in Tab, Streaming(t) \/ Disconnect(t) \/ Reload(t)
  PROVE  OrderedInv'
<1>1. /\ stream \in [Tab -> Handler] /\ events \in [Tab -> Seq(Seen)] /\ wire \in [Tab -> Seq(Seen)]
      /\ shown \in [Tab -> Seen] /\ worker \in [Worker -> Request]
  BY DEF OrderedInv, CommittedInv, LTypes, ColumnsSeen
<1>2. stream[t] \in Handler /\ events[t] \in Seq(Seen) /\ wire[t] \in Seq(Seen)
  BY <1>1
<1>3. Down.phase = "down" /\ Down.skipped = FALSE
  BY DEF Down
<1>4. ~Subscribed(t) => events[t] = << >>
  BY DEF OrderedInv, Unsubscribed
<1>5. CASE Connect(t)
  <2>1. stream'[t].phase = "subscribed" /\ UNCHANGED <<plan, crossed, worker, events, wire, shown>>
        /\ \A u \in Tab \ {t} : stream'[u] = stream[u]
    BY <1>1, <1>5 DEF Connect, Down
  <2>2. events[t] = << >>
    BY <1>4, <1>5 DEF Connect, Subscribed
  <2>3. NewestStored(t)' /\ Subscribed(t)'
    BY <2>1, <2>2 DEF NewestStored, Subscribed
  <2> QED BY <2>1, <2>3, StreamOrdered
<1>6. CASE ReadBlocks(t)
  <2>1. /\ stream[t].phase = "subscribed" /\ stream'[t].phase = "read"
        /\ stream'[t].blocks = plan.blocks /\ stream'[t].skipped = stream[t].skipped
        /\ UNCHANGED <<plan, crossed, worker, events, wire, shown>>
        /\ \A u \in Tab \ {t} : stream'[u] = stream[u]
    BY <1>1, <1>6 DEF ReadBlocks, Handler
  <2>2. Subscribed(t)' /\ (NewestStored(t) => NewestStored(t)')
    BY <2>1 DEF NewestStored, Newest, Subscribed
  <2> QED BY <2>1, <2>2, StreamOrdered
<1>7. CASE ReadHours(t)
  <2> DEFINE c == [blocks |-> stream[t].blocks, hours |-> plan.hours]
  <2>1. /\ stream[t].phase = "read" /\ stream'[t].phase = "live"
        /\ stream'[t].skipped = stream[t].skipped
        /\ UNCHANGED <<plan, crossed, worker, events, shown>>
        /\ \A u \in Tab \ {t} : stream'[u] = stream[u] /\ wire'[u] = wire[u]
    BY <1>1, <1>7 DEF ReadHours, Handler
  <2>2. wire'[t] = Append(wire[t], c)
    BY <1>1, <1>7 DEF ReadHours
  <2>3. c \in Seen
    BY <2>1, HalvesAreSeen DEF OrderedInv, CommittedInv, ReadsSeen
  <2>4. plan \in Column
    BY PlanIsSeen DEF OrderedInv
  <2>5. stream[t].blocks = plan.blocks => c = plan
    BY <2>4 DEF Column
  <2> HIDE DEF c
  <2>6. wire'[t] # << >> /\ wire'[t][Len(wire'[t])] = c
    BY <1>2, <2>2, <2>3, LastOfAppend
  <2>7. Subscribed(t)' /\ (NewestStored(t) => NewestStored(t)')
    BY <2>1, <2>5, <2>6 DEF NewestStored, Newest, Subscribed
  <2> QED BY <2>1, <2>7, StreamOrdered
<1>8. CASE Forward(t)
  <2>1. /\ stream[t].phase = "live" /\ events[t] # << >>
        /\ UNCHANGED <<plan, crossed, worker, stream, shown>>
        /\ events'[t] = Tail(events[t]) /\ wire'[t] = Append(wire[t], Head(events[t]))
        /\ \A u \in Tab \ {t} : events'[u] = events[u] /\ wire'[u] = wire[u]
    BY <1>1, <1>8 DEF Forward
  <2>2. Head(events[t]) \in Seen
    BY <1>2, <2>1
  <2>3. wire'[t] # << >> /\ wire'[t][Len(wire'[t])] = Head(events[t])
    BY <1>2, <2>1, <2>2, LastOfAppend
  <2>4. Newest(t)' = Newest(t)
    BY <1>2, <2>1, <2>3, LastOfTail DEF Newest
  <2>5. Subscribed(t)' /\ (NewestStored(t) => NewestStored(t)')
    BY <2>1, <2>4 DEF NewestStored, Subscribed
  <2> QED BY <2>1, <2>5, StreamOrdered
<1>9. CASE Deliver(t)
  <2>1. /\ wire[t] # << >> /\ UNCHANGED <<plan, crossed, worker, stream, events>>
        /\ wire'[t] = Tail(wire[t]) /\ shown'[t] = Head(wire[t])
        /\ \A u \in Tab \ {t} : wire'[u] = wire[u] /\ shown'[u] = shown[u]
    BY <1>1, <1>9 DEF Deliver
  <2>2. Newest(t)' = Newest(t)
    BY <1>2, <2>1, LastOfTail DEF Newest
  <2>3. (~Subscribed(t)' => events'[t] = << >>) /\ (NewestStored(t) => NewestStored(t)')
    BY <1>4, <2>1, <2>2 DEF NewestStored, Subscribed
  <2> QED BY <2>1, <2>3, StreamOrdered
<1>10. CASE Loaded(t)
  <2>1. /\ stream[t].phase = "loading" /\ stream'[t].phase = "down"
        /\ UNCHANGED <<plan, crossed, worker, events, wire>>
        /\ \A u \in Tab \ {t} : stream'[u] = stream[u] /\ shown'[u] = shown[u]
    BY <1>1, <1>3, <1>10 DEF Loaded
  <2>2. events'[t] = << >> /\ NewestStored(t)'
    BY <1>4, <2>1 DEF NewestStored, Subscribed
  <2> QED BY <2>1, <2>2, StreamOrdered
<1>11. CASE Disconnect(t)
  <2>1. /\ stream'[t].phase = "down" /\ events'[t] = << >>
        /\ UNCHANGED <<plan, crossed, worker, shown>>
        /\ \A u \in Tab \ {t} : stream'[u] = stream[u] /\ events'[u] = events[u] /\ wire'[u] = wire[u]
    BY <1>1, <1>3, <1>11 DEF Disconnect
  <2>2. NewestStored(t)'
    BY <2>1 DEF NewestStored
  <2> QED BY <2>1, <2>2, StreamOrdered
<1>12. CASE Reload(t)
  <2>1. /\ stream'[t].phase = "loading" /\ events'[t] = << >>
        /\ UNCHANGED <<plan, crossed, shown>>
        /\ \A u \in Tab \ {t} : stream'[u] = stream[u] /\ events'[u] = events[u] /\ wire'[u] = wire[u]
    BY <1>1, <1>12 DEF Reload, Down
  <2>2. \A w \in Worker : worker'[w].phase = worker[w].phase /\ worker'[w].column = worker[w].column
    BY <1>1, <1>12 DEF Reload, Request
  <2>3. NewestStored(t)'
    BY <2>1 DEF NewestStored
  <2> QED BY <2>1, <2>2, <2>3, StreamOrdered
<1> QED BY <1>5, <1>6, <1>7, <1>8, <1>9, <1>10, <1>11, <1>12 DEF Streaming

LEMMA RestartKeepsOrdered ==
  ASSUME OrderedInv, CommittedInv', Restart
  PROVE  OrderedInv'
<1>1. Unsubscribed'
  BY DEF Restart, Unsubscribed
<1>2. AnswersStored'
  BY DEF Restart, AnswersStored, Idle
<1>3. \A t \in Tab : NewestStored(t)'
  BY DEF Restart, NewestStored, Down
<1> QED BY <1>1, <1>2, <1>3 DEF OrderedInv

LEMMA NextKeepsOrdered == OrderedInv /\ [LNext]_live => OrderedInv'
<1> SUFFICES ASSUME OrderedInv, [LNext]_live PROVE OrderedInv'
  OBVIOUS
<1>1. CommittedInv'
  BY NextKeepsCommitted DEF OrderedInv
<1>2. CASE UNCHANGED live
  BY <1>1, <1>2 DEF live, OrderedInv, Unsubscribed, Subscribed, AnswersStored, Unpublished, NewestStored, Newest
<1>3. ASSUME NEW w \in Worker, NEW t \in Tab \cup {Nobody}, Post(w, t) PROVE OrderedInv'
  <2> DEFINE r == [Idle EXCEPT !.phase = "posted", !.tab = t, !.rev = posts + 1]
  <2>1. r.phase = "posted" /\ worker[w].phase = "idle"
    BY <1>3 DEF Post, Idle
  <2>2. worker' = [worker EXCEPT ![w] = r] /\ UNCHANGED <<plan, crossed, stream, events, wire, shown>>
    BY <1>3 DEF Post
  <2> HIDE DEF r
  <2> QED BY <1>1, <2>1, <2>2, WorkerOrdered
<1> QED BY <1>1, <1>2, <1>3, ServingKeepsOrdered, StreamingKeepsOrdered, RestartKeepsOrdered DEF LNext

\* A connected tab with nothing on its way to it and nothing skipped shows the stored
\* column, unless the last commit crossed another request (events.go: subscribing before
\* the snapshot queues a concurrent commit, so its two reads need no transaction).
THEOREM QuietTabsShowThePlan == LSpec => []QuietShowsOrdered
<1>1. OrderedInv => QuietShowsOrdered
  <2> SUFFICES ASSUME OrderedInv, ~crossed, NEW t \in Tab, Quiet(t) PROVE shown[t] = plan
    BY DEF QuietShowsOrdered
  <2>1. ~Unpublished
    BY DEF Quiet, Unpublished
  <2>2. NewestStored(t)
    BY <2>1 DEF OrderedInv
  <2> QED BY <2>2 DEF Quiet, NewestStored, Newest
<1> QED BY <1>1, InitOrdered, NextKeepsOrdered, PTL DEF LSpec
=============================================================================
