------------------------------ MODULE RateLimit -----------------------------
(***************************************************************************)
(* internal/web/ratelimit.go: buckets are made when a source first shows   *)
(* up, and a sweeper evicts the idle ones.  One action is one request: the *)
(* map is locked for the lookup and each bucket for its token, and a       *)
(* bucket in use is never idle enough to be evicted in between.            *)
(***************************************************************************)
EXTENDS RollingCounts

CONSTANTS
  Source, Every, Burst, GlobalEvery, GlobalBurst,   \* as in TokenBuckets
  MaxIdle,     \* ticks a bucket may stay untouched (15 min)
  NoEntry,     \* a source without a bucket
  Window       \* longest span over which admissions are counted

VARIABLES
  ips,       \* source -> [tokens, idle], or NoEntry
  global,    \* level of the shared bucket
  passed,    \* source -> n -> its admissions at most n ticks back
  admitted   \* the same of all sources together

ratelimit == <<ips, global, passed, admitted>>

Full       == Every * Burst
GlobalFull == GlobalEvery * GlobalBurst

\* A long-idle bucket is full: 15 min against 30 s.
ASSUME RateLimitAssumption ==
  /\ {Every, Burst, GlobalEvery, GlobalBurst} \subseteq Nat \ {0}
  /\ MaxIdle \in Nat /\ Window \in Nat /\ Full <= MaxIdle + 1

Entry == [tokens : 0 .. Full, idle : 0 .. (MaxIdle + 1)]

ASSUME NoEntryAssumption == NoEntry \notin Entry

RInit ==
  /\ ips = [s \in Source |-> NoEntry]
  /\ global = GlobalFull
  /\ passed = [s \in Source |-> NoneUpTo(Window)] /\ admitted = NoneUpTo(Window)

\* Slip: every request makes a new bucket.
LimiterForAnew(s) == [tokens |-> Full, idle |-> 0]

\* The bucket of a source, made when missing, and touched.
LimiterFor(s) ==
  IF ips[s] = NoEntry THEN [tokens |-> Full, idle |-> 0] ELSE [ips[s] EXCEPT !.idle = 0]

Taken(entry) == [entry EXCEPT !.tokens = @ - Every]

\* Slip: a request the shared bucket has no token for is served.
PassUncapped(s) ==
  LET e == LimiterFor(s)
  IN /\ e.tokens >= Every
     /\ ips' = [ips EXCEPT ![s] = Taken(e)]
     /\ global' = IF global >= GlobalEvery THEN global - GlobalEvery ELSE global
     /\ passed' = [passed EXCEPT ![s] = OneMore(@, 0)] /\ admitted' = OneMore(admitted, 0)

Pass(s) ==
  LET e == LimiterFor(s)
  IN /\ e.tokens >= Every /\ global >= GlobalEvery
     /\ ips' = [ips EXCEPT ![s] = Taken(e)]
     /\ global' = global - GlobalEvery
     /\ passed' = [passed EXCEPT ![s] = OneMore(@, 0)] /\ admitted' = OneMore(admitted, 0)

\* Slip: a refused request runs into debt.
RejectInDebt(s) ==
  LET e == LimiterFor(s)
  IN /\ e.tokens < Every \/ global < GlobalEvery
     /\ ips' = [ips EXCEPT ![s] = Taken(e)]
     /\ UNCHANGED <<global, passed, admitted>>

\* 429: over the source's rate, or over the shared one after its own token is gone.
Reject(s) ==
  LET e == LimiterFor(s)
  IN /\ e.tokens < Every \/ global < GlobalEvery
     /\ ips' = [ips EXCEPT ![s] = IF e.tokens < Every THEN e ELSE Taken(e)]
     /\ UNCHANGED <<global, passed, admitted>>

\* Slip: the sweep forgets to look at the time.
SweepBusy ==
  /\ ips' = [s \in Source |-> NoEntry]
  /\ UNCHANGED <<global, passed, admitted>>

Sweep ==
  /\ ips' = [s \in Source |->
       IF ips[s] # NoEntry /\ ips[s].idle > MaxIdle THEN NoEntry ELSE ips[s]]
  /\ UNCHANGED <<global, passed, admitted>>

Tick ==
  /\ ips' = [s \in Source |->
       IF ips[s] = NoEntry THEN NoEntry
       ELSE [tokens |-> IF ips[s].tokens < Full THEN ips[s].tokens + 1 ELSE Full,
             idle   |-> IF ips[s].idle <= MaxIdle THEN ips[s].idle + 1 ELSE ips[s].idle]]
  /\ global' = IF global < GlobalFull THEN global + 1 ELSE GlobalFull
  /\ passed' = [s \in Source |-> TickLater(passed[s])] /\ admitted' = TickLater(admitted)

RNext == (\E s \in Source : Pass(s) \/ Reject(s)) \/ Sweep \/ Tick

RSpec == RInit /\ [][RNext]_ratelimit
-----------------------------------------------------------------------------
(* Properties.                                                             *)

RTypeOK ==
  /\ ips \in [Source -> Entry \cup {NoEntry}]
  /\ global \in 0 .. GlobalFull

\* In n ticks a source gets no more than its burst and what n ticks refill, across
\* sweeps of its bucket, and so do all sources together, however many.
WithinBudgets ==
  \A n \in 0 .. Window :
    /\ \A s \in Source : passed[s][n] <= Burst + (n \div Every)
    /\ admitted[n] <= GlobalBurst + (n \div GlobalEvery)

\* A source without an entry has the full bucket it would be given.
Kept == [s \in Source |-> IF ips[s] = NoEntry THEN Full ELSE ips[s].tokens]

Buckets == INSTANCE TokenBuckets WITH bucket <- Kept

\* Evicting a long-idle bucket is indistinguishable from a fresh one: with sweeps,
\* every request gets the answer it would get without (ratelimit.go:75-76).
Unswept == Buckets!TSpec
=============================================================================
