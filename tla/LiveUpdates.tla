---------------------------- MODULE LiveUpdates ----------------------------
(***************************************************************************)
(* How a committed Day Plan reaches one user's open tabs: the mutation     *)
(* handlers (frontend.mutate, block.Service.commit), the in-process broker *)
(* (pubsub.Broker), the /events handler of each tab and its SSE stream.    *)
(*                                                                         *)
(* A column is abstracted to the two halves the code reads separately: the *)
(* revision of the block rows and the revision of the hours.  What a       *)
(* mutation does to them is module DayPlan's business; here it gives one   *)
(* half a new revision, in a transaction, and everything after the commit  *)
(* (publishing, answering, forwarding, patching) is a step of its own.     *)
(***************************************************************************)
EXTENDS Integers, Sequences, FiniteSets

CONSTANTS
  Tab,        \* one user's open tabs
  Worker,     \* goroutines serving that user's mutations
  Nobody,     \* the tab of a request from another device, or whose page is gone
  Buffer,     \* capacity of a subscription's channel (16 in the code)
  MaxWire,    \* bound: patches written to a stream and not yet applied
  MaxPosts,   \* bound: mutations
  MaxBreaks   \* bound: dropped streams, reloads and restarts

ASSUME LiveAssumption ==
  /\ Nobody \notin Tab
  /\ {Buffer, MaxWire, MaxPosts, MaxBreaks} \subseteq Nat

VARIABLES
  plan,      \* the committed column
  history,   \* every column that was ever committed
  worker,    \* worker -> its request
  stream,    \* tab -> its /events handler
  events,    \* tab -> its subscription's channel of block events
  wire,      \* tab -> patches on its SSE response
  shown,     \* tab -> the column it shows
  posts,     \* mutations posted so far
  breaks,    \* streams dropped, pages reloaded and restarts so far
  crossed    \* the last commit came between another request's reading and answering

live == <<plan, history, worker, stream, events, wire, shown, posts, breaks, crossed>>

First == [blocks |-> 0, hours |-> 0]

Idle == [phase |-> "idle", tab |-> Nobody, rev |-> 0, column |-> First]
Down == [phase |-> "down", blocks |-> 0, skipped |-> FALSE]

\* Phases in which a handler holds a subscription.
Subscribed(t) == stream[t].phase \in {"subscribed", "read", "live"}

LInit ==
  /\ plan = First /\ history = {First}
  /\ worker = [w \in Worker |-> Idle]
  /\ stream = [t \in Tab |-> Down]
  /\ events = [t \in Tab |-> << >>] /\ wire = [t \in Tab |-> << >>]
  /\ shown = [t \in Tab |-> First]
  /\ posts = 0 /\ breaks = 0 /\ crossed = FALSE

-----------------------------------------------------------------------------
(* A mutation's handler.                                                    *)

Post(w, t) ==
  /\ worker[w].phase = "idle" /\ posts < MaxPosts
  /\ worker' = [worker EXCEPT ![w] = [Idle EXCEPT !.phase = "posted", !.tab = t, !.rev = posts + 1]]
  /\ posts' = posts + 1
  /\ UNCHANGED <<plan, history, stream, events, wire, shown, breaks, crossed>>

\* BeginTx takes the write lock (_txlock=immediate): one transaction at a time.
Lock(w) == worker[w].phase = "posted" /\ \A v \in Worker : worker[v].phase # "open"

\* fn writes one half inside the transaction and commit() reads the result back.
Write(w, half) ==
  /\ Lock(w)
  /\ worker' = [worker EXCEPT ![w].phase = "open",
                              ![w].column = [plan EXCEPT ![half] = worker[w].rev]]
  /\ UNCHANGED <<plan, history, stream, events, wire, shown, posts, breaks, crossed>>

\* fn refuses: the transaction rolls back and mutate will re-read the plan.
Reject(w) ==
  /\ Lock(w)
  /\ worker' = [worker EXCEPT ![w].phase = "rejected"]
  /\ UNCHANGED <<plan, history, stream, events, wire, shown, posts, breaks, crossed>>

Commit(w) ==
  /\ worker[w].phase = "open"
  /\ plan' = worker[w].column
  /\ history' = history \cup {plan'}
  /\ worker' = [worker EXCEPT ![w].phase = "committed"]
  /\ crossed' = \E v \in Worker : worker[v].phase \in {"committed", "reread", "answer"}
  /\ UNCHANGED <<stream, events, wire, shown, posts, breaks>>

\* A statement or the commit fails, or the request is cancelled: a bare 500.
Rollback(w) ==
  /\ worker[w].phase = "open"
  /\ worker' = [worker EXCEPT ![w] = Idle]
  /\ UNCHANGED <<plan, history, stream, events, wire, shown, posts, breaks, crossed>>

\* Broker.Publish, under the broker's mutex: a full channel is skipped.
Fanned(column) ==
  [t \in Tab |-> IF Subscribed(t) /\ Len(events[t]) < Buffer
                 THEN Append(events[t], column) ELSE events[t]]

Skipping ==
  [t \in Tab |-> IF Subscribed(t) /\ Len(events[t]) >= Buffer
                 THEN [stream[t] EXCEPT !.skipped = TRUE] ELSE stream[t]]

\* Slip: the event goes out while the transaction is still open.
PublishEarly(w) ==
  \/ /\ worker[w].phase = "open"
     /\ events' = Fanned(worker[w].column) /\ stream' = Skipping
     /\ UNCHANGED <<plan, history, worker, wire, shown, posts, breaks, crossed>>
  \/ /\ worker[w].phase = "committed"
     /\ worker' = [worker EXCEPT ![w].phase = "answer"]
     /\ UNCHANGED <<plan, history, stream, events, wire, shown, posts, breaks, crossed>>

Publish(w) ==
  /\ worker[w].phase = "committed"
  /\ events' = Fanned(worker[w].column) /\ stream' = Skipping
  /\ worker' = [worker EXCEPT ![w].phase = "answer"]
  /\ UNCHANGED <<plan, history, wire, shown, posts, breaks, crossed>>

\* snapshot() after a rejection: two reads outside any transaction.
RereadBlocks(w) ==
  /\ worker[w].phase = "rejected"
  /\ worker' = [worker EXCEPT ![w].phase = "reread", ![w].column.blocks = plan.blocks]
  /\ UNCHANGED <<plan, history, stream, events, wire, shown, posts, breaks, crossed>>

RereadHours(w) ==
  /\ worker[w].phase = "reread"
  /\ worker' = [worker EXCEPT ![w].phase = "answer", ![w].column.hours = plan.hours]
  /\ UNCHANGED <<plan, history, stream, events, wire, shown, posts, breaks, crossed>>

\* patchColumn on the POST's own response, which may be lost.
Answer(w, lost) ==
  LET r == worker[w]
  IN /\ r.phase = "answer"
     /\ worker' = [worker EXCEPT ![w] = Idle]
     /\ shown' = IF lost \/ r.tab = Nobody THEN shown ELSE [shown EXCEPT ![r.tab] = r.column]
     /\ UNCHANGED <<plan, history, stream, events, wire, posts, breaks, crossed>>

-----------------------------------------------------------------------------
(* A tab's /events handler and its stream.                                  *)

Connect(t) ==
  /\ stream[t].phase = "down"
  /\ stream' = [stream EXCEPT ![t] = [Down EXCEPT !.phase = "subscribed"]]
  /\ UNCHANGED <<plan, history, worker, events, wire, shown, posts, breaks, crossed>>

ReadBlocks(t) ==
  /\ stream[t].phase = "subscribed"
  /\ stream' = [stream EXCEPT ![t].phase = "read", ![t].blocks = plan.blocks]
  /\ UNCHANGED <<plan, history, worker, events, wire, shown, posts, breaks, crossed>>

\* Slip: the subscription is made after the snapshot was read.
ReadHoursThenSubscribe(t) ==
  /\ stream[t].phase = "read"
  /\ stream' = [stream EXCEPT ![t].phase = "live"]
  /\ wire' = [wire EXCEPT ![t] = Append(@, [blocks |-> stream[t].blocks, hours |-> plan.hours])]
  /\ events' = [events EXCEPT ![t] = << >>]
  /\ UNCHANGED <<plan, history, worker, shown, posts, breaks, crossed>>

\* Slip: a reconnected stream sends events only, no snapshot.
ReadNothing(t) ==
  /\ stream[t].phase = "read"
  /\ stream' = [stream EXCEPT ![t].phase = "live"]
  /\ UNCHANGED <<plan, history, worker, events, wire, shown, posts, breaks, crossed>>

\* The second read, then the stream's first patch.
ReadHours(t) ==
  /\ stream[t].phase = "read"
  /\ stream' = [stream EXCEPT ![t].phase = "live"]
  /\ wire' = [wire EXCEPT ![t] = Append(@, [blocks |-> stream[t].blocks, hours |-> plan.hours])]
  /\ UNCHANGED <<plan, history, worker, events, shown, posts, breaks, crossed>>

\* The select loop takes an event; a stalled connection blocks the write.
Forward(t) ==
  /\ stream[t].phase = "live" /\ events[t] # << >> /\ Len(wire[t]) < MaxWire
  /\ wire' = [wire EXCEPT ![t] = Append(@, Head(events[t]))]
  /\ events' = [events EXCEPT ![t] = Tail(@)]
  /\ UNCHANGED <<plan, history, worker, stream, shown, posts, breaks, crossed>>

Deliver(t) ==
  /\ wire[t] # << >>
  /\ shown' = [shown EXCEPT ![t] = Head(wire[t])]
  /\ wire' = [wire EXCEPT ![t] = Tail(@)]
  /\ UNCHANGED <<plan, history, worker, stream, events, posts, breaks, crossed>>

\* The connection breaks: sub.Close, and what was on the wire is lost.
Disconnect(t) ==
  /\ stream[t].phase # "down" /\ breaks < MaxBreaks
  /\ stream' = [stream EXCEPT ![t] = Down]
  /\ events' = [events EXCEPT ![t] = << >>]
  /\ wire' = [wire EXCEPT ![t] = << >>]
  /\ breaks' = breaks + 1
  /\ UNCHANGED <<plan, history, worker, shown, posts, crossed>>

\* PageHandler: the page goes away with its stream and pending answers, and the
\* new one is rendered from the same two reads.
Reload(t) ==
  /\ stream[t].phase # "loading" /\ breaks < MaxBreaks
  /\ stream' = [stream EXCEPT ![t] = [Down EXCEPT !.phase = "loading", !.blocks = plan.blocks]]
  /\ events' = [events EXCEPT ![t] = << >>]
  /\ wire' = [wire EXCEPT ![t] = << >>]
  /\ worker' = [w \in Worker |-> IF worker[w].tab = t THEN [worker[w] EXCEPT !.tab = Nobody]
                                                      ELSE worker[w]]
  /\ breaks' = breaks + 1
  /\ UNCHANGED <<plan, history, shown, posts, crossed>>

Loaded(t) ==
  /\ stream[t].phase = "loading"
  /\ shown' = [shown EXCEPT ![t] = [blocks |-> stream[t].blocks, hours |-> plan.hours]]
  /\ stream' = [stream EXCEPT ![t] = Down]
  /\ UNCHANGED <<plan, history, worker, events, wire, posts, breaks, crossed>>

\* A deploy or a crash: the broker, its channels and every request are gone; an
\* open transaction rolls back and what was committed stays.
Restart ==
  /\ breaks < MaxBreaks
  /\ worker' = [w \in Worker |-> Idle]
  /\ stream' = [t \in Tab |-> Down]
  /\ events' = [t \in Tab |-> << >>] /\ wire' = [t \in Tab |-> << >>]
  /\ breaks' = breaks + 1
  /\ UNCHANGED <<plan, history, shown, posts, crossed>>

Serving(w) ==
  \/ \E half \in {"blocks", "hours"} : Write(w, half)
  \/ Reject(w) \/ Commit(w) \/ Rollback(w) \/ Publish(w)
  \/ RereadBlocks(w) \/ RereadHours(w)
  \/ \E lost \in BOOLEAN : Answer(w, lost)

Streaming(t) ==
  Connect(t) \/ ReadBlocks(t) \/ ReadHours(t) \/ Forward(t) \/ Deliver(t) \/ Loaded(t)

LNext ==
  \/ \E w \in Worker, t \in Tab \cup {Nobody} : Post(w, t)
  \/ \E w \in Worker : Serving(w)
  \/ \E t \in Tab : Streaming(t) \/ Disconnect(t) \/ Reload(t)
  \/ Restart

LSpec == LInit /\ [][LNext]_live

\* Handlers run, the browser reconnects a dropped EventSource and applies what
\* arrives.  Nothing makes a user post or a connection break.
FairLSpec ==
  /\ LSpec
  /\ \A w \in Worker : WF_live(Serving(w))
  /\ \A t \in Tab : WF_live(Streaming(t))

-----------------------------------------------------------------------------
(* Properties.                                                             *)

\* Every column on its way to a tab, or shown by one.
InSight ==
  (UNION {{shown[t]} \cup {events[t][k] : k \in DOMAIN events[t]}
                     \cup {wire[t][k] : k \in DOMAIN wire[t]} : t \in Tab})
  \cup {worker[w].column : w \in {v \in Worker : worker[v].phase = "answer"}}

\* Subscribers never see uncommitted state: each half of every column in sight was
\* committed, although transactions roll back (block.Publisher, "post-commit only").
OnlyCommitted ==
  \A c \in InSight :
    /\ \E h \in history : h.blocks = c.blocks
    /\ \E h \in history : h.hours = c.hours

\* Connected, and nothing on its way to the tab or skipped for it.
Quiet(t) ==
  /\ stream[t].phase = "live" /\ ~stream[t].skipped
  /\ events[t] = << >> /\ wire[t] = << >>
  /\ \A w \in Worker : worker[w].phase \in {"idle", "posted", "open"}

\* A quiet tab shows the stored column, unless the last commit crossed another
\* request.  (events.go: subscribing before every snapshot queues a concurrent
\* commit, so the two reads of the snapshot need no transaction.)
QuietShowsOrdered == crossed \/ \A t \in Tab : Quiet(t) => shown[t] = plan

\* The same without the exception (patchColumn patches the authoritative column).
QuietShowsStored == \A t \in Tab : Quiet(t) => shown[t] = plan

\* A tab that reconnects after the last mutation settled comes to show the stored
\* column, whatever was skipped, lost or reordered before, unless its connection
\* breaks again (Broker.Publish: a slow consumer recovers on its next reconnect).
ReconnectHeals ==
  \A t \in Tab :
    (/\ stream[t].phase = "subscribed"
     /\ posts = MaxPosts /\ \A w \in Worker : worker[w].phase = "idle")
      ~> (shown[t] = plan \/ stream[t].phase \in {"down", "loading"})
=============================================================================
