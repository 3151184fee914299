# unbusy.day — a verification project in TLA+

unbusy.day is a Day Plan (time blocks on a grid of 30-minute slots), a habit tracker and a
Jotpad (one plain-text scratch note per tab strip entry). One Go process serves HTML and
server-sent events from one SQLite file; the browser runs Datastar and some vanilla
JavaScript. The modules here model what is hard to test in it: what several tabs, devices,
requests, timers and broken connections can do to one plan, one note or one login.

Run a model with `tlc -workers 2 -config MCxxx_yyy.cfg MCxxx`, a proof with `tlapm
DayPlanProofs.tla`. `PROJECT.json` is the index: components, runs, mutants, the map from
every definition to the lines it translates, hazards, findings, theorems.

## 1. Inventory

| Component | State | Operations | Hard behaviour | What makes it correct |
|---|---|---|---|---|
| Day Plan service (`internal/block`) | tables `block`, `user.day_start/day_end` | Create, Delete, Clear, Rename, SetLayout, SetBounds; `snapshot` reads | every operation has its own validation; all owners share the table; the hours form is computed apart from SetBounds | no overlap, nothing outside the day; nothing legal refused; owners apart |
| Push cascade and gestures (`static/js/blocks`) | the DOM column, at most one keyboard and one pointer gesture, each with a snapshot of the column it began on | grab/move/drop/cancel, resize, press/preview/release/settle, delete | a patch lands in mid-gesture; transitions are awaited; two input paths | proposals the server accepts; a patch wins; a tab at rest shows the stored column |
| Live updates (`internal/pubsub`, `frontend/events.go`, `frontend/blocks.go`) | per-stream channels of 16 events, SSE responses | commit, publish, answer; subscribe, snapshot, forward; reconnect, reload, restart | commits, publishes, answers and snapshots interleave; full channels skip; streams break; deploys restart the process | only committed state is seen; quiet tabs agree with the table; a reconnect heals |
| Jotpad (`internal/jot`, `static/js/jot/sync.js`) | row `jot_note` with one shadow revision; per tab: text, synced, save in flight, buffered event, timer | Set (compare-and-swap, merge), flush, ack, retry, remote, beacon, teardown | lost answers and retries, beacons nobody answers, events out of order, merges on one shadow | no word lost, none twice, "saved" is true, all tabs converge |
| Login (`internal/auth`) | tables `user`, `login_code`, `suppression`, `session` | RequestCode (reads, DNS, upsert, ceiling, mail), VerifyCode, Suppress | RequestCode is many steps with no transaction around them | bounded guessing, single use, the newest mail holds the stored code, dead ends end |
| Habits (`internal/habit`) | tables `habit`, `habit_checkin`, `habit_id_allocator` | Create, Edit, SetCheckIn, SetOrder, Delete | ids travel to clients and come back late; ranks from three places; timezones | dense ranks, unique names, final ids, check-ins inside the habit's life |
| Login rate limiter (`internal/web/ratelimit.go`) | token buckets per source and one shared | Limit, sweep | eviction under traffic | the sweeper cannot be noticed |
| Send ceiling (`internal/auth/ceiling.go`) | times of recent mails | allow | asked with a time captured earlier | never more than the cap |
| Habit grid (`components/habits.templ`, `static/js/habits`, `frontend/habits.go`) | the selected week and its keys, the rendered grid, check-in attempts, a drag, reads and posts in flight | select a week, press a check-in, drag or key-move a row; week, receipt, refresh and order answers | reads and posts abort each other, answers match a selector or are dropped, receipts are lost, patches end drags | the grid at rest shows the stored week; retries keep their intent; no button waits for nothing |
| Login gate (`frontend/login.go`, `presence.go`, `suppression.go`, `seswebhook.go`) | requests in progress, table `suppression`, SNS deliveries | the limiter, presence, suppression, ceiling and mail of one request; notifications recipient by recipient | the checks are separate steps; a notification fails part-way and comes again | a reported address is not mailed again |

The other parts (sessions, mailer, migrations, static assets, page scripts, tools) are in
`PROJECT.json` "components" with what is or is not modelled of each and why.

**How they interact.** A gesture or form posts to a handler. The handler calls its
service, which runs one `BEGIN IMMEDIATE` transaction (`_txlock=immediate`, ADR 0007: one
writer at a time, the lock taken before the first read), commits, and publishes to the
broker; the handler then answers with the rendered column. Each open tab holds one
`/events` stream whose handler subscribed to the broker *before* it read its first
snapshot, and forwards what the broker sends: whole columns for the Day Plan, text and
version for the Jotpad, bare invalidations for habits. A rejected request is answered with
the stored column re-read outside any transaction. Nothing carries a version except the
Jotpad.

## 2. Modules

| Module | Models | Notes |
|---|---|---|
| `DayPlan` | `block.go`, `layout.go`, the hours form | one action per mutator; a refusal is a disabled action |
| `DayPlanProofs` | | theorems about `DayPlan` |
| `PushLayout` | `push.js`, `keyboard-reducer.js` | pure operators on layouts (functions from ids to `[slot, span]`) |
| `Gestures` | `keyboard.js`, `pointer.js`, `commit.js`, `grid.js` | composes `DayPlan` (the server) and `PushLayout` with one tab |
| `GesturesProofs` | | theorems about `PushLayout` and `Gestures` |
| `LiveUpdates` | `pubsub.go`, `events.go`, `frontend/blocks.go` | a column is two revisions: blocks and hours |
| `LiveUpdatesProofs` | | theorems about `LiveUpdates` |
| `Jot` | `jot.go` | one note; a text is how often it holds each word |
| `JotSync` | `sync.js`, `frontend/jot.go` | extends `Jot` with tabs, answers, events, beacons |
| `JotSyncProofs` | | theorems about `JotSync` |
| `Auth` | `auth.go`, `suppression.go` | RequestCode as separate steps, VerifyCode atomic |
| `AuthProofs` | | theorems about `Auth` |
| `Habits` | `habit.go` and the local date of `calendar.go` | days are numbers, names are fold keys |
| `HabitsProofs` | | theorems about `Habits` |
| `RollingCounts` | | how many events lie at most n ticks back: used by `Auth`, `RateLimit`, `SendCeiling` |
| `TokenBuckets` | what the limiter promises: buckets that are never evicted | abstract specification |
| `RateLimit` | `ratelimit.go` | implements `TokenBuckets` (`Unswept`) |
| `SendCeiling` | `ceiling.go` and its caller | |
| `LoginGate` | `login.go`, `presence.go`, `suppression.go`, `seswebhook.go` | composes `RateLimit` and `SendCeiling` with the steps between them |
| `LoginGateProofs` | | theorems about `RateLimit` and `LoginGate` |
| `HabitGrid` | the keys of a week read, its answers, what a patch does to the grid | `habits.templ`, `habits_view.go`, the reading half of `checkins.js` |
| `HabitView` | check-ins, reordering, the event stream, other devices | extends `HabitGrid`; `checkins.js`, `reorder.js`, `frontend/habits.go` |
| `HabitViewProofs` | | theorems about `HabitView` |
| `MC*` | small instances | bounds and symmetry only |

Definitions keep the names of the source where TLA+ allows. Definitions marked `Slip` are
not part of the models: each is a plausible bug of the definition that follows it, used by
the mutants of `PROJECT.json` to show that a property would notice.

### How state and actions correspond

* **DayPlan.** `block` is the table (`NoRow` for an unused id), `bounds` the two user
  columns. Each mutator is a transaction, hence one action. Requests carry slots and spans
  the server must refuse too (`SlotInput`, `SpanInput`). `Envelope`/`Offered` are the two
  signals and the comparisons of `hours.templ`.
* **Gestures.** `dom` is what the `data-*` attributes hold: `writeLayout` changes it, a
  patch replaces it. `grab`, `kresize` and `pointer` are the module-level variables of the
  two files, with the snapshot each captures. A pointer gesture goes through `"held"` and
  `"settling"`, because `finishSettle` awaits CSS transitions. `outbox` and `inbox` are
  requests and patches in flight; `Foreign` is any edit in another tab. `Serve` is a
  request whose column reaches the tab; `Unanswered` is one that ends without: a 500 before
  anything is stored or in the re-read of a rejection (blocks.go:100-111), an answer lost
  after the change was stored, a post aborted by the next one of the same URL. The request
  may then be posted once more. `Refresh` is the stored column coming over the stream.
  `crossed` only records that the last patch landed amid a keyboard gesture, `unanswered`
  that a request ended without a column and none was sent since.
* **LiveUpdates.** A worker goes `posted`, `open` (write lock held), `committed`
  (published next), `answer`, or `rejected`, `reread`, `answer`. A stream goes `subscribed`,
  `read` (blocks read, hours not), `live`. `Restart` forgets every request, stream and
  channel and keeps the table. `crossed` records that the last commit came while another
  request was between reading its answer and sending it.
* **JotSync.** `tab[c]` holds the variables of the closure `createJotSync`; `Flush`,
  `Acked`, `Failed`, `Remote`, `Resolve`, `Beaconed` are its functions. `pads` is every
  committed (version, text): an old event may come at any time (`Receive`), which is more
  than the broker can do and only makes the safety properties stronger. For convergence
  `news[c]` follows the one event of the stored pad: coming, received once (`Deliver`), or
  skipped because the tab's channel was full or its stream ended for good (`Skip`;
  pubsub.go:67-77); and, once received, how the tab can come to ignore it.
  `given` collects what the code gave up in the run so far, by name (below).
* **Auth.** RequestCode is `Look` (user row), `CheckSuppression`, `ResolveMX` (DNS, then
  the code and `time.Now()`), `Upsert` (one statement), `Send` (ceiling and SMTP: sent or
  withheld). Times are ages; `Tick` ages everything. `request[r].at` is how old the
  captured time is; at the upsert it is at most `MaxStale`, from there to the mail nothing
  bounds it (auth.go:151 sets no deadline), so mails may leave in any order. `newest[e]` is
  the code in the last mail, `slow` the addresses whose last mail left later than the
  throttle, `withheld` those whose stored code was not mailed. `wrong[e][n]` is how many
  wrong guesses were made at most n ticks ago.
* **Habits.** `today` is the earliest civil date anywhere and a request's own date is up to
  `Spread` later; `Dawn` is midnight. The allocator and the re-rank of Delete are parts of
  their actions.
* **RateLimit / SendCeiling.** Ticks refill buckets and age recorded sends; `Sweep` may run
  between any two requests. The list of recorded send times is kept as `sends[n]`, how many
  are at most n ticks old: `allow` prunes by age and takes the length, so it can tell no
  more of the list. The history variables of both modules (`passed`, `admitted`, `mails`)
  are such counts too (`RollingCounts`).
* **LoginGate.** `job[r]` is what the goroutine of a request does next: `presence` (the
  Turnstile answer, then the suppression list), `deliverable` (the MX lookup, then
  `time.Now()`), `upsert` (throttled, or the ceiling is asked), `send`. Each step is one
  action; `Pass` and `Reject` of `RateLimit` and `Capture`, `Drop`, `Allow` of `SendCeiling`
  are conjuncts of them, and both clocks tick together. `notice` is one SES notification:
  `at` is the recipient the handler is at, `acked` that SNS got its 200. An error part-way
  is a 500 and a fresh delivery; SNS may also repeat an acknowledged one.
* **HabitGrid / HabitView.** `sel` are the page's signals, `grid` the rendered grid, `get`
  the week read in flight (a new one aborts it), `drop` the reorder posts, `post` the
  check-in posts, `attempt` the map of checkins.js. A read or a reorder that meets a network
  error ends or is asked again with the signals of then (`WeekRetried`, `OrderRetried`).
  Keys never repeat, so a request does not carry a key but the parts of it that have
  `changed` since; its answer lands when none have (`ReadSelector`). `since` holds the
  receipts a read was asked for after, which is what `data-read` decides. An aborted or lost
  request may still reach the server (`heard`). A refresh is one signal patch: a new token,
  the current week, and the read that follows.

## 3. Runs

Nine runs pass and three show a disagreement of the code with its own documentation. All
numbers are the bounds of the cfg; every property of a passing run has a mutant that
breaks it in that run.

| Run | Question | Bounds, and why they are enough |
|---|---|---|
| `dayplan_plans` | Can any history of mutations make a plan illegal, refuse a legal layout, offer hours SetBounds refuses, or touch another owner? | 2 owners, 3 shared ids, days within 4 slots, requests with layouts of up to 2 placements, their slots and spans legal or not. Overlap needs two blocks; a proposal that omits, repeats or steals one needs three ids and two owners; the day can grow and shrink at either end. What validation accepts (`LayoutExact`) is checked for layouts of up to 3. |
| `push_cascade` | Is every proposal of every gesture legal, minimal, closest-first, and is every legal layout reachable? | every column of up to 3 blocks in every day within 6 slots, reached as an initial state; 3 blocks make a chain, slack in the middle, and a compression that reaches a second block; the tight days (3 blocks in 3 slots) are where reaching a layout needs pushing. |
| `gesture_arbitration` | Does a patch always end a pointer gesture, do the two paths stay apart, does a tab at rest agree with the server? | 2 blocks on 2 slots, two requests (served in either order, any number of them lost, failed or posted again) and one patch in flight (`MaxPatches`), one edit elsewhere that may change the day: a patch can land in any phase of any gesture, before or after its request is served, and one request can fail while another is answered. A second patch under way adds nothing the tab can tell: it sees them one at a time. Geometry is `push_cascade`'s question. |
| `keyboard_stale` (violation) | The same without the exception | keyboard only, 2 blocks on 3 slots |
| `live_tabs` | Is only committed state seen; does a quiet tab agree with the table; does a reconnect heal? | a tab, 2 concurrent handlers serving it and other devices, 3 mutations, 1 broken stream, reload or restart, channel and wire of one entry (so both overflow). Tabs do not influence each other except through requests, which other devices (`Nobody`) make too. |
| `live_reordered` (violation) | The same without the exception | 2 mutations |
| `jot_notes` | Is no word lost or doubled, is "saved" true, is a stored note within the cap, do tabs converge? | 2 tabs, 2 words typed once and one of them erased, cap 3, one trouble (a message lost or skipped, or a tab hidden or reloaded). A merge needs two writers; a stale base needs a third write, which a tab's second flush gives. |
| `jot_twice` (violation) | Is a word stored at most once through retries? | 2 tabs, 2 words |
| `login_codes` | Are guesses bounded, codes single-use, does the newest mail hold the stored code, does every dead end end? | 1 address (addresses never meet in a statement), 2 concurrent requests, 3 codes, a throttle of 0, a lifetime of 1, a cooldown of 2 ticks, two attempts, an upsert up to 1 tick late, a mail however late: throttle < lifetime < cooldown leaves a re-issue before and after each, two attempts a guess that an unlocked row carries through a re-issue, and two requests the mail that overtakes. |
| `habits_owners` | Ranks, ids, check-ins, isolation, announcements | 2 owners, 3 ids ever handed out, 2 names, one midnight, timezones one day apart, one check-in per habit at a time |
| `login_gate` | Are budgets and cap kept along the whole path of a request, can anybody tell that idle buckets are evicted, is a reported address left alone? | 2 sources (burst 1, full and evictable after 2 ticks; the shared bucket 2), 2 concurrent requests, limit 1 in a window of 3 with times up to 1 old, 2 addresses in one notification: a partial failure needs two recipients, the shared budget lies between one source's and two sources', and a stale time needs a second request. |
| `habit_view` | Does the grid at rest show the stored week, do buttons and retries keep their word, whatever is lost, aborted or reordered? | 2 weeks, up to 3 habits, in three scenarios (`MCBudget`): 3 presses with 2 faults, another device's change and a week selected; 2 drags or key moves with another device's reorder, creation or deletion and a fault, which leaves an aborted post, its successor and a stale answer; both kinds over a week's turn with 2 selections. Scenarios keep the product of the gestures small; the third lets them meet. |

`CHECK_DEADLOCK FALSE` appears where the system really may come to rest: all posts,
edits, words and breaks of the bounds are used up.

### Exceptions written into passing properties

Some properties hold except where the code knowingly or unknowingly gives something up.
The exception is then a named part of the property, recorded by a history variable that no
guard reads:

* `QuietConverged` excepts a patch landing amid a keyboard gesture (`crossed`; finding 1)
  and a request that ended without a column (`unanswered`): nothing in the page undoes the
  optimistic layout then, and a tab at rest shows a layout that may never have been stored
  until a later request, another tab's edit or a reopened stream brings a column.
* `QuietShowsOrdered` excepts a last commit that crossed another request's answer
  (`crossed`; finding 2).
* `NeitherSideLost`, `StoredOnce`, `SavedIsStored`, `SyncedWasCommitted`, `Converge` name
  members of `given` (`Converge` the last one, and `refused` together with `beaconed`):
  `mismerged` (jot.go:165-171 merges a write against the one shadow
  even if it was typed on an older revision, so words of third parties can be taken out),
  `refused` (a write or merge over the cap is refused whole and the editor snaps back),
  `snapped` (sync.js:158-160 replaces the editor by merged text although the user typed on
  since the request), `retried` (finding 3), `beaconed` (a beacon's answer is unreadable, so
  its text is kept with the old version), `dropped` (a lost beacon's text still counts as
  saved, sync.js:207-213). `StoredOnce` names `mismerged` beside the two repeats because of
  three tabs and one word: it is stored, two tabs fall behind with it in their text, the
  third erases it. Each of the two then adds another word; the first merge restores the
  erased one, and the second, made against a shadow that lacks it, inserts it once more.
  Two tabs, which is what `jot_notes` has, cannot do that: the attempt to prove the
  property for any number of tabs showed it.
* `Converge` excepts a tab that did not get the event of the stored pad, or did not keep
  what it brought, and that nothing brings up to date before the next event, save or reload:
  `skipped` (above); `stranded` (a save fails while an event is buffered, the user takes the
  typing back, and the retry finds nothing to post, so no answer resolves the buffer:
  sync.js:131-138, 165-172, 193); `displaced` (an older event replaces the buffered one,
  sync.js:193); `rewound` (the answer to a save adopts its version although an event already
  brought a later one, sync.js:158). TLC finds a counterexample when any of the four is
  struck from the property. That a beacon is `refused` after its tab counted it as saved does
  not happen within the bounds of the run; the exception is kept because the code allows it.
* `NewestMailMatches` excepts addresses whose stored code was not mailed (`withheld`: the
  upsert, auth.go:124, kills the previous code before the ceiling and the mail server are
  asked, auth.go:147) and those whose last mail left later than the throttle (`slow`: a
  later request may have replaced its code and mailed first). It says what the newest mail
  holds, not that its code works: a code asked for before the account was minted never does.
  `DeadEndsEnd` covers that state, the withheld code and the lock: a user who keeps asking
  leaves each of them.
* `QuietShowsWeek` excepts what is in `missed`: `failed` (a read or reorder ended without an
  answer; the page says so, or the next event repairs it), `clicked` (Previous, Next
  or an arrow pressed twice before the grid rendered raises `habitview` without changing
  the week, so the read effect does not run again and the answer under way no longer
  matches: habits.templ:25, 51), `abandoned` (reorder.js:111-119 ends a drag on any
  patch that holds a grid and leaves its rows as they are, although a patch whose selector
  no longer matches changes nothing). In the last two the grid stays behind with nothing
  on its way, until a week is selected or an event arrives.
* `CapHolds` is about the window less `MaxStale`: sends are recorded with the time captured
  before the upsert (auth.go:115), so they leave the window that much early.

Three more disagreements were seen while modelling. A rejection's answer is two reads in two
statements (blocks.go:30-35) and may pair old blocks with new hours; a stream's snapshot may
too, but the event queued behind it repairs it, and `QuietShowsOrdered` covers only the
snapshot (the commit that tears an answer also sets `crossed`). And RequestCode stores the
`user_id` it read before a DNS lookup (auth.go:91, 124): if another code minted the account
meanwhile, redeeming this one inserts the address twice and fails (auth.go:211) —
`VerifyRight` is disabled then — until a new code is requested (`Stranded` in
`DeadEndsEnd`). And the habit dialogs post with Datastar's automatic retry, which reads the
signals again: after a network error, closing the editor and opening another habit's makes
the retry post that one (habits_edit.templ:31), so the first edit is lost; no module holds
the dialogs yet.

### Findings

1. `keyboard_stale`: grab a block with the keyboard, let another tab's edit arrive, press
   Escape: the grab-start layout is written over the newer column (keyboard.js:163, 245)
   and nothing in flight repairs it. The pointer path guards against this.
2. `live_reordered`: publishing and answering happen after the lock is released
   (block.go:133-140) and columns have no version, so two mutations can arrive in the other
   order than they committed.
3. `jot_twice`: a save whose answer is lost is retried with its old base; the server sees a
   stale base and merges the same insertion a second time (sync.js:165-172).

## 4. Fairness

* `FairLSpec`: handlers and stream handlers keep running (goroutines are scheduled), the
  browser's EventSource reconnects a dropped stream and applies what arrives. Nobody has to
  post, and no connection has to break. `ReconnectHeals` starts when a stream subscribed
  after the last mutation and gives up if the connection breaks again.
* `FairJSpec`: set timers fire; the server serves a request and its answer arrives, unless
  the request fails, which may happen `MaxTroubles` times; beacons not lost are served; the
  event of the stored pad, if it is on its way to a tab and not skipped, reaches it, once.
  No event is repeated and no stream has to break. Users need not type or blur.
* `FairASpec`: time passes; a user who keeps asking (`Look`) has each request served; the
  MX lookup, tried again and again, succeeds for one request or another again and again
  (strong fairness). Nobody has to guess, verify or suppress. Fairness is on a request's
  next step, whichever its outcome: a mail need not be sent, and a code withheld each time
  it is issued is a dead end left when the next one is.

## 5. Proofs

All proofs are checked by TLAPS from nothing. They hold for every value of the constants
allowed by the named assumptions.

* **DayPlanProofs** (assumptions: limits are ordered integers, inputs are integers, the set
  of ids is finite, `NoRow` is no row, `Blank` no label). `PlanTypes` is type correctness.
  `PlanStaysLegal` is the legality of every plan: for any number of owners, blocks and
  slots, no overlap, nothing outside the day, days within the limits. The inductive
  invariant `PlanInv` is the types, legality restated as inequalities between positions
  (`Apart`, `Inside`, which SMT can use where it cannot use intersections of intervals), and
  `Inside` adds that every span is positive: without it an empty run would be apart from
  everything, and Create, which tests occupied slots, would not see it. The hard step is
  SetLayout: it updates only the blocks a proposal names, so legality needs that a proposal
  with as many entries as the owner has blocks, all known and no two alike, names them all.
  That is the pigeonhole lemma `LayoutNamesAll`, from the library's cardinality theorems and
  the finiteness of an owner's rows. SetBounds needs that `Contains` of every stored run is
  what the invariant says of its cells. `OwnersAreIsolated` is an action property proved
  from the owner guards of the statements. `FormOffersWhatFits` says that the two numbers
  the hours form sees decide what SetBounds would. `Envelope` chooses the first and last
  slot of a plan with `CHOOSE`; that they exist comes from the library's theorem on minimal
  elements (`LeastInt`, `GreatestInt`), and a day that contains both contains every run
  because runs are whole intervals. `ValidationIsExact` says that validation refuses nothing
  legal: counting cells with and without the run they belong to (`Covered`, `Pairs`) tells
  whether runs are disjoint (`DisjointByCounting`), which is how `ValidateLayout` goes
  through a proposal.
* **HabitsProofs** (assumptions: bounds are naturals, `NoHabit` is no row). `HabitInv` adds
  `IdsAllocated` to the properties: no row and no deleted id is above the allocator's mark.
  Without it a new habit could be given an id with a past, its check-ins included. With it:
  `IdsStayFinal`, `CheckInsStayInside`, and `RanksStayDense`, where each way ranks are made
  is a bijection onto 0 .. n-1: an order that names n habits once each (pigeonhole), the
  count of habits listed before each one (Delete), the number of the others (Create).
  `OwnersStayApart` and `EveryChangeInvalidates` are action properties on the same
  invariant.
* **LiveUpdatesProofs** (assumption: bounds and capacities are naturals).
  `OnlyCommittedIsSeen`: every column on its way to a tab is made of halves of committed
  ones (`Seen`), and the column of an open transaction is not on its way; two halves need
  not be of one commit, since answers and snapshots read twice. `QuietTabsShowThePlan`:
  until the last commit is published nothing is claimed; from then on the last column of a
  connected tab's queues is the stored one, unless a full channel skipped it, and a stream
  that reads its snapshot now reads the stored column (`OrderedInv`).
* **AuthProofs** (assumption: limits are naturals, neither throttle nor lifetime is longer
  than the recovery window; `None` is no row and no request). `CodesAreUsedOnce` needs
  `CodesApart`: codes of requests in progress, of rows and of mails are told apart.
  `GuessesAreBounded`: while a row's budget is younger than the window, guesses of the
  budget before it may lie in the window too, so the bound is two budgets; once it is older,
  only its own (`Within`), and a budget is renewed only when it is older (`Punctual`).
  `NewestMailHoldsTheCode` has no hypothesis on how long mails take: while a request's time
  is not older than the throttle no other upsert can have come after it, so a mail that was
  not `slow` holds the stored code, however late the mails before it were.
* **JotSyncProofs** (assumption: finitely many words; `None` is no text and no message).
  Three layers. `SyncInv`: no version stands for two texts, the row and its shadow were
  committed, and what a tab believes, buffers or is answered was too, unless a beacon's text
  is on its way, was lost or was overtaken (`Claimed`); it gives `NotesKeepToTheCap`,
  `BeliefsWereCommitted` and `SavedMeansStored`. `LossInv`: a word nobody erased is in a
  tab's text as often as in the revision it was typed on, in the save, and in the row once
  the save is answered, so a merge cannot take it for erased (`NoTypingIsLost`). `TwiceInv`:
  a word that was stored is new to nobody, and one that was not is in one place
  (`NothingIsStoredTwice`). Both carry the exceptions of section 3.
* **HabitViewProofs** (assumption: weeks are integers, the budgets naturals, `None` is none
  of the records). `ViewInv` has four parts beside the types. `PostsAwaited` ties a busy
  button to its request by a token never given twice (`NoButtonIsStuck`); `IntentHeld` ties
  the first press to the attempt until its receipt (`IntentIsKept`); `ReceiptsSeen` says
  that an answer that can still land was read after the commits it will settle
  (`SavedMeansReadBack`, an action property); `GridFollows` says that while no refresh is
  due such an answer is what the service has, and that the grid is too unless one is on its
  way (`RestShowsTheWeek`).
* **LoginGateProofs**, the limiter (assumption: a bucket fills before it is idle enough to
  be swept, `Full <= MaxIdle + 1`; 30 s against 15 min in the code). `LevelsInRange` is type
  correctness with the bucket levels. `SweepIsInvisible` is the refinement: under the
  mapping `Kept` (a source without entry has a full bucket) every step of `RateLimit` is a
  step or a stutter of `TokenBuckets`. The invariant it needs, `FullWhenIdle`, says that a
  bucket holds at least what its idle time refilled, or is full: so the sweeper evicts only
  full buckets and a new one is no gift. `BudgetsAreKept`: for every n, what was spent in
  the last n ticks and the level left are at most a full bucket and n ticks' refill
  (`Spent`). The bound of the property alone is not inductive: it forgets that a bucket just
  spent is low.
* **LoginGateProofs**, the path (assumption: `Email` is finite, so that a notification names
  finitely many). `ReportedIsNeverMailed`: for any number of sources, of requests running at
  once and of recipients, an address SNS was told about is mailed by no later request. Its
  invariant has two parts. `HandledIsListed`: the recipients before the handler's place are
  on the list, in the first delivery and in each repeated one, so a 200 means that all are.
  `KnownIsListed`: a request for a reported address has its address on the list from arrival
  until it reads the list, and ends there, because nothing takes an address off.
  `LoginPathIsLimited` carries the limiter's refinement and budgets over to the composed
  path: every step of the path is a step of the limiter or leaves it alone. `CeilingHolds`:
  a mail was recorded with a time at most `MaxStale` older than it, and no cutoff forgets a
  time that recent, so recent mails are no more than what the ceiling remembers (`CapInv`).
* **GesturesProofs** (assumptions: those of `DayPlan`; the tab's user is an owner, first
  days are days within the limits, budgets are naturals, a label exists; `None` is no
  gesture and `NoLayout` no layout). The cascade first, for any day and any number of blocks
  of any span. It is a fold; what it computes is proved without an induction theorem, by a
  smallest counterexample: if the sweep went wrong on a set of blocks already met, it did on
  a smallest such set, and without its last block it was still right (`LeastSet`).
  `PushIsPushed` sums it up: what `Push` returns for a legal layout keeps the blocks, is
  legal, displaces toward the vacated side and no farther than what pushes, and compresses
  the closest blocks first. The converse, for a resize, is `ResizeAccepted`: it is accepted
  just when the block stays in the day and a slot is left for each block below, because the
  sweep leaves below every block it has cleared the slots the others need (`Roomy`). Then
  the gestures, in layers. `GTypes` is the types together with `PlanInv` of the service.
  `PointerInv` ties a pointer gesture to the column shown (`PointerKeepsItsColumn`,
  `PathsExclude`, the pointer path against both keyboard gestures; of a keyboard move and a
  keyboard resize against each other nothing is claimed, since one whose block a patch
  removed stays in its variable): every action that changes the column ends it.
  `ProposeInv`: what a gesture proposes is its start or `Push` of its start, so a gesture
  that began on a legal column proposes a sound layout whatever other tabs do
  (`CascadeIsSound`). `ConvergeInv`: the last patch on its way is the stored column, and
  with none on its way the column shown, or the one a cancelled gesture goes back to, is,
  unless a request ended without a column (`QuietTabsConverge`, for any number of edits
  elsewhere). `SourceInv`: without edits elsewhere, the column shown and every column on its
  way are past states of the plan, of which deletions alone took blocks, so all gestures
  begin on legal columns (`ProposalsStayLegal`, `PushStaysMinimal`,
  `CompressStaysClosestFirst`), no size of a resize is skipped (`ResizesHaveNoHoles`), and
  every legal layout of the column's blocks, and no other, is at most two gestures per slot
  of the day away (`LayoutsAreReachable`). These five have the hypothesis `MaxForeign = 0`:
  with another tab's edits, cancelling a keyboard gesture that a patch crossed writes an old
  layout into a column of the new day (finding 1), and a gesture begun there may propose
  anything, which is what the server's validation is for. The run of these properties has
  `MaxForeign` = 0 too. The last two hold with any number of edits elsewhere of a tab at
  rest that shows the stored column (`RestingTabsAreFree`, from `QuietTabsConverge`).
* **GesturesProofs**, how any layout becomes any other. The search of the property is a
  recursive function (`Reached`), unfolded once (`ReachedIs`); `Leads(x, y, k)` says that k
  more gestures find y wherever x was found, so that routes add up. A block may be dragged
  or resized into room that no other takes, and displaces none (`FreeGesture`). The route
  has four parts: shorten each long block to a slot; drag the blocks to the end of the day,
  the one that the wanted order has last first (`SortDown`: those a drag meets give a slot,
  those below its target stay, `UnitDrag`); drag each up to its place, the first one first
  (`SpreadUp`); lengthen the long ones (`ShrunkIs`, `OneByOne`). That is two gestures a block
  and one for each long block before and after; the day has a slot for each block and a
  second one for each long block (`LongFit`), hence the bound. Only the second part needs the
  cascade to push. Conversely a gesture makes only legal layouts (`ReachedAreLegal`).

What stays with TLC: liveness under fairness (`ReconnectHeals`, `Converge`, `DeadEndsEnd`),
which is out of the prover's reach. Every other property of a passing run has its theorem.

## 6. Abstractions

Labels, types, names and codes are values that are compared; columns in `LiveUpdates` are
two revision numbers; a Jotpad text is how often it holds each word, so a merge keeps, drops
and repeats words, and where in the text they stand is not modelled (every hunk of
diffmatchpatch is taken to apply). Pixels, auto-scroll, focus, announcements, HTML,
formatting of clock and date, SMTP and DNS dialogues, token contents and logging are left
out. In `HabitGrid` each week has one check-in button, all of one habit, and the other
habits are as old as the first week; two buttons meet only in the count of fetches, which
one button's read and a reorder already share. The page infers from a counter of started and
finished fetches (checkins.js:109-117) whether another read is under way; the module knows
it. The two agree when every fetch that starts also finishes, in whatever order, which is
how Datastar dispatches the events; a miscount is not explored. The first try of a reorder
that is posted again is not served after its second. The browser's timezone is fixed: a
habit started on a later date of another timezone, which a week does not list (habit.go:113)
and a reorder therefore omits, is not modelled. In `LoginGate` whether an address is
throttled is left open, and the process does not restart: both limiters are in memory and
start afresh by design. In `Gestures` patches reach the tab in commit order: what delivery
does to them is `LiveUpdates`. SQLite's transactions are taken as serial, which
`_txlock=immediate` and a single process give.

## 7. Plan

Done in order of importance: the Day Plan service and its proofs, the cascade and the
gestures, live updates, the Jotpad, login, habits, the two limiters, the login path that
composes them with the SES feedback, and the habit grid.

Next, models: `PlanTx` (a mutation's own statements with other connections' reads between
them, shown to implement `DayPlan`) and `HabitForm` (the create, edit and delete dialogs and
their retries).

Not modelled, and not planned: sessions (one row with an absolute expiry, one statement a
request), the mailer's and the DNS dialogue, signature checks, the migration runner,
styling and scripts that only display, offline tools. Each has its reason in `PROJECT.json`.

Proofs: every safety and action property of a passing run has its theorem; the three
liveness properties stay with TLC.
