--------------------------- MODULE LoginGateProofs --------------------------
(***************************************************************************)
(* Theorems about the login path and its limiter, for any number of        *)
(* sources, concurrent requests and recipients, and for all rates, bursts  *)
(* and idle times that RateLimitAssumption admits.                         *)
(*                                                                         *)
(* With its sweeper the limiter implements buckets that are kept for ever: *)
(* a bucket refills at least as fast as its idle time grows, so one that   *)
(* is idle long enough to be evicted is full.  And so it keeps its         *)
(* budgets: what was spent in n ticks and what is left in the bucket,      *)
(* which an eviction does not change, is no more than a full bucket and n  *)
(* ticks' refill.  The path inherits both.                                 *)
(*                                                                         *)
(* An address SNS was told about is not mailed again: while the handler is *)
(* at a recipient, all before it are on the list, whatever delivery this   *)
(* is, so a 200 means that all are; and a request that comes later finds   *)
(* its address on the list, which never shrinks.                           *)
(*                                                                         *)
(* The send ceiling holds because every mail was recorded with a time at   *)
(* most MaxStale older, and no request's cutoff forgets a time that        *)
(* recent.                                                                 *)
(***************************************************************************)
EXTENDS LoginGate, FiniteSetTheorems, TLAPS

-----------------------------------------------------------------------------
(* The limiter by itself.                                                  *)

\* A bucket that was left alone for n ticks holds n ticks' worth, or is full.
FullWhenIdle ==
  \A s \in Source : ips[s] # NoEntry => ips[s].tokens = Full \/ ips[s].idle <= ips[s].tokens

RInv == RTypeOK /\ FullWhenIdle

LEMMA Levels == Full \in Nat /\ GlobalFull \in Nat
<1>1. Every \in Nat /\ Burst \in Nat /\ GlobalEvery \in Nat /\ GlobalBurst \in Nat
  BY RateLimitAssumption
<1> QED BY <1>1 DEF Full, GlobalFull

\* What the lookup of a bucket returns: its level is the kept one.
LEMMA LimiterForLevel ==
  ASSUME RInv, NEW s \in Source
  PROVE  /\ LimiterFor(s) \in Entry
         /\ LimiterFor(s).idle = 0
         /\ LimiterFor(s).tokens = Kept[s]
<1>1. CASE ips[s] = NoEntry
  BY <1>1, Levels, RateLimitAssumption DEF LimiterFor, Entry, Kept
<1>2. CASE ips[s] # NoEntry
  <2>1. ips[s] \in Entry
    BY <1>2 DEF RInv, RTypeOK
  <2> QED BY <1>2, <2>1, RateLimitAssumption DEF LimiterFor, Entry, Kept
<1> QED BY <1>1, <1>2

LEMMA InitRInv == RInit => RInv
BY Levels DEF RInit, RInv, RTypeOK, FullWhenIdle

\* A request replaces the entry of its source by an untouched one with fewer tokens.
LEMMA TouchKeepsRInv ==
  ASSUME RInv, NEW s \in Source, NEW e \in Entry, e.idle = 0,
         ips' = [ips EXCEPT ![s] = e], global' \in 0 .. GlobalFull
  PROVE  RInv'
<1>1. e.idle <= e.tokens
  BY Levels DEF Entry
<1> QED BY <1>1 DEF RInv, RTypeOK, FullWhenIdle

LEMMA TakenEntry ==
  ASSUME NEW e \in Entry, e.tokens >= Every
  PROVE  /\ Taken(e) \in Entry
         /\ Taken(e).idle = e.idle
         /\ Taken(e).tokens = e.tokens - Every
BY Levels, RateLimitAssumption DEF Taken, Entry

LEMMA NextRInv == RInv /\ [RNext]_ratelimit => RInv'
<1> SUFFICES ASSUME RInv, [RNext]_ratelimit PROVE RInv'
  OBVIOUS
<1>1. ASSUME NEW s \in Source, Pass(s) PROVE RInv'
  <2> DEFINE e == LimiterFor(s)
  <2>1. e \in Entry /\ e.idle = 0 /\ e.tokens >= Every
    BY <1>1, LimiterForLevel DEF Pass
  <2>2. Taken(e) \in Entry /\ Taken(e).idle = 0
    BY <2>1, TakenEntry
  <2>3. global' \in 0 .. GlobalFull
    BY <1>1, Levels, RateLimitAssumption DEF Pass, RInv, RTypeOK
  <2> QED BY <1>1, <2>2, <2>3, TouchKeepsRInv DEF Pass
<1>2. ASSUME NEW s \in Source, Reject(s) PROVE RInv'
  <2> DEFINE e == LimiterFor(s)
             f == IF e.tokens < Every THEN e ELSE Taken(e)
  <2>1. e \in Entry /\ e.idle = 0
    BY LimiterForLevel
  <2>2. f \in Entry /\ f.idle = 0
    BY <2>1, TakenEntry, RateLimitAssumption, Levels DEF Entry
  <2>3. global' \in 0 .. GlobalFull /\ ips' = [ips EXCEPT ![s] = f]
    BY <1>2 DEF Reject, RInv, RTypeOK
  <2> QED BY <2>2, <2>3, TouchKeepsRInv
<1>3. CASE Sweep
  BY <1>3 DEF Sweep, RInv, RTypeOK, FullWhenIdle
<1>4. CASE Tick
  <2>1. global' \in 0 .. GlobalFull
    BY <1>4, Levels DEF Tick, RInv, RTypeOK
  <2>2. ASSUME NEW s \in Source, ips[s] # NoEntry, ips'[s] # NoEntry
        PROVE  /\ ips'[s] \in Entry
               /\ ips'[s].tokens = Full \/ ips'[s].idle <= ips'[s].tokens
    <3>1. ips[s] \in Entry /\ (ips[s].tokens = Full \/ ips[s].idle <= ips[s].tokens)
      BY <2>2 DEF RInv, RTypeOK, FullWhenIdle
    <3>2. ips'[s] =
            [tokens |-> IF ips[s].tokens < Full THEN ips[s].tokens + 1 ELSE Full,
             idle |-> IF ips[s].idle <= MaxIdle THEN ips[s].idle + 1 ELSE ips[s].idle]
      BY <1>4, <2>2 DEF Tick
    <3> QED BY <3>1, <3>2, Levels, RateLimitAssumption DEF Entry
  <2>3. \A s \in Source : ips[s] = NoEntry => ips'[s] = NoEntry
    BY <1>4 DEF Tick
  <2>4. ips' \in [Source -> Entry \cup {NoEntry}]
    <3>1. \A s \in Source : ips'[s] \in Entry \cup {NoEntry}
      BY <2>2, <2>3
    <3> QED BY <1>4, <3>1 DEF Tick
  <2> QED BY <2>1, <2>2, <2>3, <2>4 DEF RInv, RTypeOK, FullWhenIdle
<1>5. CASE UNCHANGED ratelimit
  BY <1>5 DEF ratelimit, RInv, RTypeOK, FullWhenIdle
<1> QED BY <1>1, <1>2, <1>3, <1>4, <1>5 DEF RNext

LEMMA SpecRInv == RSpec => []RInv
BY InitRInv, NextRInv, PTL DEF RSpec

\* The tokens of a bucket and its idle time stay within their ranges, and the shared
\* bucket never goes below empty, however requests, refusals and sweeps interleave.
THEOREM LevelsInRange == RSpec => []RTypeOK
<1>1. RInv => RTypeOK
  BY DEF RInv
<1> QED BY <1>1, SpecRInv, PTL
-----------------------------------------------------------------------------
(* The refinement.                                                         *)

LEMMA EntryReplaced ==
  ASSUME RInv, NEW s \in Source, NEW f \in Entry, ips' = [ips EXCEPT ![s] = f]
  PROVE  Kept' = [Kept EXCEPT ![s] = f.tokens]
<1>1. ips'[s] = f /\ \A t \in Source \ {s} : ips'[t] = ips[t]
  BY DEF RInv, RTypeOK
<1>2. Kept'[s] = f.tokens
  BY <1>1, NoEntryAssumption DEF Kept
<1>3. \A t \in Source \ {s} : Kept'[t] = Kept[t]
  BY <1>1 DEF Kept
<1>4. Kept' = [t \in Source |-> Kept'[t]] /\ Kept = [t \in Source |-> Kept[t]]
  BY DEF Kept
<1> HIDE DEF Kept
<1> QED BY <1>2, <1>3, <1>4

\* A request is answered from its source's kept level and the shared one.
LEMMA PassMaps ==
  ASSUME RInv, NEW s \in Source, Pass(s)
  PROVE  Buckets!Admitted(s)
<1> DEFINE e == LimiterFor(s)
<1>1. /\ e \in Entry /\ e.tokens = Kept[s] /\ e.tokens >= Every
      /\ global >= GlobalEvery /\ global' = global - GlobalEvery
      /\ ips' = [ips EXCEPT ![s] = Taken(e)]
  BY LimiterForLevel DEF Pass
<1>2. Taken(e) \in Entry /\ Taken(e).tokens = Kept[s] - Every
  BY <1>1, TakenEntry
<1>3. Kept' = [Kept EXCEPT ![s] = Kept[s] - Every]
  BY <1>1, <1>2, EntryReplaced
<1> QED BY <1>1, <1>3 DEF Buckets!Admitted

LEMMA RejectMaps ==
  ASSUME RInv, NEW s \in Source, Reject(s)
  PROVE  Buckets!Refused(s)
<1> DEFINE e == LimiterFor(s)
<1>1. /\ e \in Entry /\ e.tokens = Kept[s] /\ global' = global
      /\ e.tokens < Every \/ global < GlobalEvery
      /\ ips' = [ips EXCEPT ![s] = IF e.tokens < Every THEN e ELSE Taken(e)]
  BY LimiterForLevel DEF Reject
<1>2. CASE e.tokens < Every
  <2>1. Kept' = [Kept EXCEPT ![s] = Kept[s]]
    BY <1>1, <1>2, EntryReplaced
  <2>2. Kept' = Kept
    BY <2>1 DEF Kept
  <2> QED BY <1>1, <1>2, <2>2 DEF Buckets!Refused
<1>3. CASE ~(e.tokens < Every)
  <2>1. e.tokens >= Every
    BY <1>1, <1>3, Levels, RateLimitAssumption DEF Entry
  <2>2. Taken(e) \in Entry /\ Taken(e).tokens = Kept[s] - Every
    BY <1>1, <2>1, TakenEntry
  <2>3. Kept' = [Kept EXCEPT ![s] = Kept[s] - Every]
    BY <1>1, <1>3, <2>2, EntryReplaced
  <2> QED BY <1>1, <1>3, <2>1, <2>3 DEF Buckets!Refused
<1> QED BY <1>2, <1>3

\* What is evicted is full, so the kept levels do not notice.
LEMMA SweepMaps ==
  ASSUME RInv, Sweep
  PROVE  UNCHANGED <<Kept, global>>
<1>1. ASSUME NEW s \in Source
      PROVE  Kept'[s] = Kept[s]
  <2>1. CASE ips[s] # NoEntry /\ ips[s].idle > MaxIdle
    <3>1. ips[s] \in Entry /\ (ips[s].tokens = Full \/ ips[s].idle <= ips[s].tokens)
      BY <2>1 DEF RInv, RTypeOK, FullWhenIdle
    <3>2. ips[s].tokens = Full
      BY <2>1, <3>1, Levels, RateLimitAssumption DEF Entry
    <3> QED BY <2>1, <3>2 DEF Sweep, Kept
  <2>2. CASE ~(ips[s] # NoEntry /\ ips[s].idle > MaxIdle)
    BY <2>2 DEF Sweep, Kept
  <2> QED BY <2>1, <2>2
<1>2. Kept' = Kept
  BY <1>1 DEF Kept
<1> QED BY <1>2 DEF Sweep

LEMMA TickMaps ==
  ASSUME RInv, Tick
  PROVE  Buckets!Refill
<1>1. ASSUME NEW s \in Source
      PROVE  Kept'[s] = Buckets!Refilled(Kept[s], Full)
  <2>1. CASE ips[s] = NoEntry
    BY <2>1, Levels DEF Tick, Kept, Buckets!Refilled
  <2>2. CASE ips[s] # NoEntry
    <3>1. ips'[s].tokens = IF ips[s].tokens < Full THEN ips[s].tokens + 1 ELSE Full
      BY <2>2 DEF Tick
    <3>2. ips'[s] # NoEntry
      <4>1. ips[s] \in Entry
        BY <2>2 DEF RInv, RTypeOK
      <4>2. ips'[s] \in Entry
        BY <2>2, <4>1, Levels, RateLimitAssumption DEF Tick, Entry
      <4> QED BY <4>2, NoEntryAssumption
    <3> QED BY <2>2, <3>1, <3>2 DEF Kept, Buckets!Refilled
  <2> QED BY <2>1, <2>2
<1>2. Kept' = [s \in Source |-> Buckets!Refilled(Kept[s], Full)]
  BY <1>1 DEF Kept
<1>3. global' = Buckets!Refilled(global, GlobalFull)
  BY DEF Tick, Buckets!Refilled
<1> QED BY <1>2, <1>3 DEF Buckets!Refill, Buckets!Full, Buckets!GlobalFull, Full, GlobalFull

\* Evicting a long-idle bucket is indistinguishable from a fresh one (ratelimit.go:75):
\* with the sweeper running at any time, the limiter implements buckets that are
\* never evicted.
THEOREM SweepIsInvisible == RSpec => Unswept
<1>1. RInit => Buckets!TInit
  BY DEF RInit, Kept, Buckets!TInit, Buckets!Full, Buckets!GlobalFull, Full, GlobalFull
<1>2. RInv /\ [RNext]_ratelimit => [Buckets!TNext]_<<Kept, global>>
  <2> SUFFICES ASSUME RInv, [RNext]_ratelimit
               PROVE  [Buckets!TNext]_<<Kept, global>>
    OBVIOUS
  <2>1. ASSUME NEW s \in Source, Pass(s) \/ Reject(s)
        PROVE  Buckets!TNext
    BY <2>1, PassMaps, RejectMaps DEF Buckets!TNext
  <2>2. CASE Sweep
    BY <2>2, SweepMaps
  <2>3. CASE Tick
    BY <2>3, TickMaps DEF Buckets!TNext
  <2>4. CASE UNCHANGED ratelimit
    BY <2>4 DEF ratelimit, Kept
  <2> QED BY <2>1, <2>2, <2>3, <2>4 DEF RNext
<1> QED BY <1>1, <1>2, SpecRInv, PTL DEF RSpec, Unswept, Buckets!TSpec
-----------------------------------------------------------------------------
(* The budgets.                                                            *)

\* Tokens spent in n ticks and those left are no more than what a full bucket held and
\* what n ticks refill.
Spent(counts, every, level, full) ==
  \A n \in 0 .. Window : counts[n] * every + level <= full + n

BudgetInv ==
  /\ passed \in [Source -> [0 .. Window -> Nat]] /\ admitted \in [0 .. Window -> Nat]
  /\ \A s \in Source : Spent(passed[s], Every, Kept[s], Full)
  /\ Spent(admitted, GlobalEvery, global, GlobalFull)

LEMMA KeptIsLevel ==
  ASSUME RInv, NEW s \in Source
  PROVE  Kept[s] \in Nat /\ Kept[s] <= Full
<1>1. ips[s] # NoEntry => ips[s].tokens \in 0 .. Full
  BY DEF RInv, RTypeOK, Entry
<1> QED BY <1>1, Levels DEF Kept

\* What a token buys.
LEMMA TokenSpent ==
  ASSUME NEW counts \in [0 .. Window -> Nat], NEW every \in Nat, NEW level \in Nat, NEW full \in Nat,
         Spent(counts, every, level, full), level >= every
  PROVE  /\ OneMore(counts, 0) \in [0 .. Window -> Nat]
         /\ Spent(OneMore(counts, 0), every, level - every, full)
<1>1. OneMore(counts, 0) = [n \in 0 .. Window |-> counts[n] + 1]
  BY DEF OneMore
<1>2. ASSUME NEW n \in 0 .. Window
      PROVE  (counts[n] + 1) * every + (level - every) <= full + n
  <2>1. counts[n] \in Nat /\ counts[n] * every + level <= full + n /\ n \in Nat
    BY RateLimitAssumption DEF Spent
  <2>2. (counts[n] + 1) * every = counts[n] * every + every
    BY <2>1
  <2>3. counts[n] * every \in Nat
    BY <2>1
  <2> QED BY <2>1, <2>2, <2>3
<1> DEFINE c == OneMore(counts, 0)
<1>3. c = [n \in 0 .. Window |-> counts[n] + 1]
  BY <1>1
<1> HIDE DEF c
<1>4. \A n \in 0 .. Window : counts[n] \in Nat
  OBVIOUS
<1>5. c \in [0 .. Window -> Nat] /\ \A n \in 0 .. Window : c[n] = counts[n] + 1
  BY <1>3, <1>4
<1>6. ASSUME NEW n \in 0 .. Window
      PROVE  c[n] * every + (level - every) <= full + n
  <2>1. c[n] = counts[n] + 1
    BY <1>5
  <2> QED BY <1>2, <2>1
<1>7. Spent(c, every, level - every, full)
  BY <1>6 DEF Spent
<1> QED BY <1>5, <1>7 DEF c

\* What a tick refills.
LEMMA TickRefills ==
  ASSUME NEW counts \in [0 .. Window -> Nat], NEW every \in Nat, NEW level \in Nat, NEW full \in Nat,
         NEW later \in Nat, Spent(counts, every, level, full), later <= full, later <= level + 1
  PROVE  /\ TickLater(counts) \in [0 .. Window -> Nat]
         /\ Spent(TickLater(counts), every, later, full)
<1> DEFINE c == TickLater(counts)
<1>1. c = [n \in 0 .. Window |-> IF n = 0 THEN 0 ELSE counts[n - 1]]
  BY DEF TickLater
<1>2. ASSUME NEW n \in 0 .. Window
      PROVE  c[n] \in Nat /\ c[n] * every + later <= full + n
  <2>1. CASE n = 0
    BY <1>1, <2>1
  <2>2. CASE n # 0
    <3>1. n - 1 \in 0 .. Window /\ n \in Nat
      BY <2>2, RateLimitAssumption
    <3>2. c[n] = counts[n - 1] /\ counts[n - 1] \in Nat
      BY <1>1, <2>2, <3>1
    <3>3. counts[n - 1] * every + level <= full + (n - 1) /\ counts[n - 1] * every \in Nat
      BY <3>1, <3>2 DEF Spent
    <3> HIDE DEF c
    <3> QED BY <3>1, <3>2, <3>3
  <2> QED BY <2>1, <2>2
<1> QED BY <1>1, <1>2 DEF Spent

\* Tokens are whole.
LEMMA WholeTokens ==
  ASSUME NEW a \in Nat, NEW b \in Nat, NEW n \in Nat, NEW e \in Nat \ {0}, a * e <= e * b + n
  PROVE  a <= b + (n \div e)
<1> DEFINE q == n \div e
<1>1. q \in Nat /\ n = e * q + (n % e) /\ n % e \in Nat /\ n % e < e
  OBVIOUS
<1> HIDE DEF q
<1> SUFFICES ASSUME ~(a <= b + q) PROVE FALSE
  BY DEF q
<1>2. PICK d \in Nat : a = b + q + 1 + d
  <2>1. a - (b + q + 1) \in Nat
    BY <1>1
  <2> QED BY <1>1, <2>1
<1>3. a * e = e * b + e * q + e + d * e
  BY <1>1, <1>2
<1>4. d * e \in Nat /\ e * b \in Nat /\ e * q \in Nat
  BY <1>1
<1> QED BY <1>1, <1>3, <1>4

LEMMA NextKeepsBudgets == RInv /\ BudgetInv /\ [RNext]_ratelimit => BudgetInv'
<1> SUFFICES ASSUME RInv, BudgetInv, [RNext]_ratelimit PROVE BudgetInv'
  OBVIOUS
<1>1. /\ Every \in Nat /\ GlobalEvery \in Nat /\ Full \in Nat /\ GlobalFull \in Nat
      /\ global \in Nat /\ global <= GlobalFull
      /\ \A s \in Source : Kept[s] \in Nat /\ Kept[s] <= Full
  BY RateLimitAssumption, Levels, KeptIsLevel DEF RInv, RTypeOK
<1>2. /\ \A s \in Source : passed[s] \in [0 .. Window -> Nat] /\ Spent(passed[s], Every, Kept[s], Full)
      /\ admitted \in [0 .. Window -> Nat] /\ Spent(admitted, GlobalEvery, global, GlobalFull)
  BY DEF BudgetInv
<1>3. ASSUME NEW s \in Source, Pass(s) PROVE BudgetInv'
  <2>1. Kept[s] >= Every /\ global >= GlobalEvery
        /\ Kept' = [Kept EXCEPT ![s] = Kept[s] - Every] /\ global' = global - GlobalEvery
    BY <1>3, PassMaps DEF Buckets!Admitted
  <2>2. passed' = [passed EXCEPT ![s] = OneMore(passed[s], 0)] /\ admitted' = OneMore(admitted, 0)
    BY <1>3 DEF Pass
  <2>3. Kept'[s] = Kept[s] - Every /\ \A t \in Source \ {s} : Kept'[t] = Kept[t]
    BY <2>1 DEF Kept
  <2>4. OneMore(passed[s], 0) \in [0 .. Window -> Nat] /\ Spent(OneMore(passed[s], 0), Every, Kept[s] - Every, Full)
    BY <1>1, <1>2, <2>1, TokenSpent
  <2>5. admitted' \in [0 .. Window -> Nat] /\ Spent(admitted', GlobalEvery, global', GlobalFull)
    BY <1>1, <1>2, <2>1, <2>2, TokenSpent
  <2>6. ASSUME NEW t \in Source
        PROVE  passed'[t] \in [0 .. Window -> Nat] /\ Spent(passed'[t], Every, Kept'[t], Full)
    BY <1>2, <2>2, <2>3, <2>4 DEF BudgetInv
  <2> QED BY <2>2, <2>5, <2>6 DEF BudgetInv, Spent
<1>4. ASSUME UNCHANGED <<passed, admitted, global>>,
             \A s \in Source : Kept'[s] \in Nat /\ Kept'[s] <= Kept[s]
      PROVE  BudgetInv'
  <2>1. ASSUME NEW s \in Source, NEW n \in 0 .. Window
        PROVE  passed[s][n] * Every + Kept'[s] <= Full + n
    <3>1. passed[s][n] \in Nat /\ passed[s][n] * Every + Kept[s] <= Full + n /\ n \in Nat
      BY <1>2, RateLimitAssumption DEF Spent
    <3>2. passed[s][n] * Every \in Nat /\ Kept[s] \in Nat /\ Kept'[s] \in Nat /\ Kept'[s] <= Kept[s]
      BY <1>1, <1>4, <3>1
    <3> QED BY <1>1, <3>1, <3>2
  <2> QED BY <1>4, <2>1 DEF BudgetInv, Spent
<1>5. ASSUME NEW s \in Source, Reject(s) PROVE BudgetInv'
  <2>1. UNCHANGED <<passed, admitted>>
    BY <1>5 DEF Reject
  <2>2. /\ global' = global
        /\ Kept' = Kept \/ (Kept[s] >= Every /\ Kept' = [Kept EXCEPT ![s] = Kept[s] - Every])
    BY <1>5, RejectMaps DEF Buckets!Refused
  <2>3. \A t \in Source : Kept'[t] = Kept[t] \/ (Kept[t] >= Every /\ Kept'[t] = Kept[t] - Every)
    BY <2>2 DEF Kept
  <2> QED BY <1>1, <1>4, <2>1, <2>2, <2>3
<1>6. CASE Sweep
  <2>1. UNCHANGED <<passed, admitted, global>> /\ Kept' = Kept
    BY <1>6, SweepMaps DEF Sweep
  <2> QED BY <1>1, <1>4, <2>1
<1>7. CASE Tick
  <2>1. passed' = [s \in Source |-> TickLater(passed[s])] /\ admitted' = TickLater(admitted)
    BY <1>7 DEF Tick
  <2>2. /\ Kept' = [s \in Source |-> Buckets!Refilled(Kept[s], Full)]
        /\ global' = Buckets!Refilled(global, GlobalFull)
    BY <1>7, TickMaps DEF Buckets!Refill, Buckets!Full, Buckets!GlobalFull, Full, GlobalFull
  <2>3. \A level, full \in Nat : level <= full =>
          /\ Buckets!Refilled(level, full) \in Nat /\ Buckets!Refilled(level, full) <= full
          /\ Buckets!Refilled(level, full) <= level + 1
    BY DEF Buckets!Refilled
  <2>4. admitted' \in [0 .. Window -> Nat] /\ Spent(admitted', GlobalEvery, global', GlobalFull)
    BY <1>1, <1>2, <2>1, <2>2, <2>3, TickRefills
  <2>5. ASSUME NEW s \in Source
        PROVE  passed'[s] \in [0 .. Window -> Nat] /\ Spent(passed'[s], Every, Kept'[s], Full)
    <3>1. passed'[s] = TickLater(passed[s]) /\ Kept'[s] = Buckets!Refilled(Kept[s], Full)
      BY <2>1, <2>2
    <3>2. /\ passed[s] \in [0 .. Window -> Nat] /\ Kept[s] \in Nat /\ Kept[s] <= Full
          /\ Spent(passed[s], Every, Kept[s], Full)
      BY <1>1, <1>2
    <3>3. Kept'[s] \in Nat /\ Kept'[s] <= Full /\ Kept'[s] <= Kept[s] + 1
      BY <1>1, <2>3, <3>1, <3>2
    <3> QED BY <1>1, <3>1, <3>2, <3>3, TickRefills
  <2> QED BY <2>1, <2>4, <2>5 DEF BudgetInv, Spent
<1>8. CASE UNCHANGED ratelimit
  BY <1>8 DEF ratelimit, BudgetInv, Spent, Kept
<1> QED BY <1>3, <1>5, <1>6, <1>7, <1>8 DEF RNext

LEMMA BudgetInvariant == RSpec => []BudgetInv
<1>1. RInit => BudgetInv
  <2> SUFFICES ASSUME RInit PROVE BudgetInv
    OBVIOUS
  <2>1. /\ passed = [s \in Source |-> NoneUpTo(Window)] /\ admitted = NoneUpTo(Window)
        /\ global = GlobalFull /\ \A s \in Source : Kept[s] = Full
    BY DEF RInit, Kept
  <2>2. NoneUpTo(Window) \in [0 .. Window -> Nat] /\ \A n \in 0 .. Window : NoneUpTo(Window)[n] = 0
    BY DEF NoneUpTo
  <2>3. \A every, full \in Nat : Spent(NoneUpTo(Window), every, full, full)
    BY <2>2 DEF Spent
  <2> QED BY <2>1, <2>2, <2>3, Levels, RateLimitAssumption DEF BudgetInv
<1> QED BY <1>1, SpecRInv, NextKeepsBudgets, PTL DEF RSpec

\* In any n ticks a source is admitted at most its burst and n/Every times, and all sources
\* together the shared burst and n/GlobalEvery times, however many sources come and whenever
\* their buckets are swept (ratelimit.go: 5 and a token each 6 s, 20 for all).
THEOREM BudgetsAreKept == RSpec => []WithinBudgets
<1>1. RInv /\ BudgetInv => WithinBudgets
  <2> SUFFICES ASSUME RInv, BudgetInv, NEW n \in 0 .. Window
               PROVE  /\ \A s \in Source : passed[s][n] <= Burst + (n \div Every)
                      /\ admitted[n] <= GlobalBurst + (n \div GlobalEvery)
    BY DEF WithinBudgets
  <2>1. /\ Every \in Nat \ {0} /\ Burst \in Nat /\ GlobalEvery \in Nat \ {0} /\ GlobalBurst \in Nat
        /\ n \in Nat /\ global \in Nat /\ Full \in Nat /\ GlobalFull \in Nat
    BY RateLimitAssumption, Levels DEF RInv, RTypeOK
  <2>2. admitted[n] <= GlobalBurst + (n \div GlobalEvery)
    <3>1. admitted[n] \in Nat /\ admitted[n] * GlobalEvery + global <= GlobalFull + n
      BY DEF BudgetInv, Spent
    <3>2. admitted[n] * GlobalEvery \in Nat
      BY <2>1, <3>1
    <3>3. admitted[n] * GlobalEvery <= GlobalEvery * GlobalBurst + n
      BY <2>1, <3>1, <3>2 DEF GlobalFull
    <3> QED BY <2>1, <3>1, <3>3, WholeTokens
  <2>3. ASSUME NEW s \in Source PROVE passed[s][n] <= Burst + (n \div Every)
    <3>1. passed[s][n] \in Nat /\ passed[s][n] * Every + Kept[s] <= Full + n /\ Kept[s] \in Nat
      BY KeptIsLevel DEF BudgetInv, Spent
    <3>2. passed[s][n] * Every \in Nat
      BY <2>1, <3>1
    <3>3. passed[s][n] * Every <= Every * Burst + n
      BY <2>1, <3>1, <3>2 DEF Full
    <3> QED BY <2>1, <3>1, <3>3, WholeTokens
  <2> QED BY <2>2, <2>3
<1> QED BY <1>1, SpecRInv, BudgetInvariant, PTL
-----------------------------------------------------------------------------
(* Addresses SNS was told about.                                           *)

Stage  == {"presence", "deliverable", "upsert", "send"}
Job    == [next : Stage, email : Email, known : BOOLEAN]
Notice == [who : Seq(Email), lasting : BOOLEAN, at : Nat \cup {None}, acked : BOOLEAN]

GTypes ==
  /\ job \in [Request -> Job \cup {None}]
  /\ notice \in Notice \cup {None}

\* Recipients already handled, in this delivery or in one that was acknowledged.
Done ==
  IF notice.acked THEN DOMAIN notice.who
  ELSE {k \in DOMAIN notice.who : notice.at # None /\ k < notice.at}

HandledIsListed ==
  notice # None /\ notice.lasting => \A k \in Done : notice.who[k] \in suppressed

\* Only a request that has not read the list yet is for a reported address.
KnownIsListed ==
  \A r \in Request : job[r] # None /\ job[r].known =>
    job[r].next = "presence" /\ job[r].email \in suppressed

GInv == GTypes /\ HandledIsListed /\ KnownIsListed

LEMMA ConfirmedIsListed ==
  ASSUME GInv, NEW a \in Email, Confirmed(a)
  PROVE  a \in suppressed
<1>1. notice \in Notice /\ notice # None /\ notice.acked /\ notice.lasting
  BY DEF Confirmed, GInv, GTypes
<1>2. PICK k \in DOMAIN notice.who : a = notice.who[k]
  BY DEF Confirmed, Range
<1> QED BY <1>1, <1>2 DEF GInv, HandledIsListed, Done

LEMMA InitGInv == GInit => GInv
BY DEF GInit, GInv, GTypes, HandledIsListed, KnownIsListed

\* A step of a request that leaves the list and the notification alone: its request ends,
\* or goes on and was not for a reported address unless it is still to read the list.
LEMMA JobKeepsGInv ==
  ASSUME GInv, NEW r \in Request, NEW j \in Job \cup {None},
         job' = [job EXCEPT ![r] = j], UNCHANGED <<suppressed, notice>>,
         j # None /\ j.known => j.next = "presence" /\ j.email \in suppressed
  PROVE  GInv'
BY DEF GInv, GTypes, HandledIsListed, KnownIsListed, Done

LEMMA ServeKeepsGInv ==
  ASSUME GInv, NEW r \in Request, Serve(r)
  PROVE  GInv'
<1> USE DEF GInv, GTypes, At
<1>1. UNCHANGED <<suppressed, notice>>
  BY DEF Serve, Refused, ReadList, CaptureTime, Throttled, AskCeiling, Sent
<1>2. CASE End(r)
  BY <1>1, <1>2, JobKeepsGInv DEF End
<1>3. ASSUME NEW s \in Stage, Goes(r, s), job[r] # None, ~job[r].known
      PROVE  GInv'
  <2>1. [job[r] EXCEPT !.next = s] \in Job /\ [job[r] EXCEPT !.next = s].known = job[r].known
    BY <1>3 DEF Job
  <2> QED BY <2>1, <1>1, <1>3, JobKeepsGInv DEF Goes
<1>4. CASE ReadList(r)
  <2>1. job[r].email \notin suppressed => ~job[r].known
    BY <1>4 DEF ReadList, KnownIsListed, Job
  <2> QED BY <2>1, <1>2, <1>3, <1>4 DEF ReadList, Stage
<1>5. CASE CaptureTime(r)
  BY <1>3, <1>5 DEF CaptureTime, KnownIsListed, Stage
<1>6. CASE AskCeiling(r)
  BY <1>2, <1>3, <1>6 DEF AskCeiling, KnownIsListed, Stage
<1> QED
  BY <1>2, <1>4, <1>5, <1>6 DEF Serve, Refused, Throttled, Sent

LEMMA ArriveKeepsGInv ==
  ASSUME GInv, NEW r \in Request, NEW s \in Source, NEW a \in Email, Arrive(r, s, a)
  PROVE  GInv'
<1> DEFINE j == [next |-> "presence", email |-> a, known |-> Confirmed(a)]
<1>1. Confirmed(a) \in BOOLEAN
  BY DEF Confirmed
<1>2. j \in Job
  BY <1>1 DEF Job, Stage
<1>3. j.known => j.next = "presence" /\ j.email \in suppressed
  BY ConfirmedIsListed
<1>4. job' = [job EXCEPT ![r] = j] /\ UNCHANGED <<suppressed, notice>>
  BY DEF Arrive
<1> HIDE DEF j
<1> QED BY <1>2, <1>3, <1>4, JobKeepsGInv

\* The list only grows; a handled recipient stays on it.
LEMMA WebhookKeepsGInv ==
  ASSUME GInv, Webhook
  PROVE  GInv'
<1>1. job' = job
  BY DEF Webhook, Feedback, Deliver, SuppressNext, SuppressFails, Acknowledge, Idling
<1>2. suppressed \subseteq suppressed'
  BY DEF Webhook, Feedback, Deliver, SuppressNext, SuppressFails, Acknowledge
<1>3. KnownIsListed'
  BY <1>1, <1>2 DEF GInv, KnownIsListed
<1>4. ASSUME NEW who \in SetToSeqs(Email), NEW lasting \in BOOLEAN, Feedback(who, lasting)
      PROVE  GTypes' /\ HandledIsListed'
  <2>1. Cardinality(Email) \in Nat
    BY EmailAssumption, FS_CardinalityType
  <2>2. who \in Seq(Email)
    BY <2>1 DEF SetToSeqs
  <2>3. notice' = [who |-> who, lasting |-> lasting, at |-> None, acked |-> FALSE]
    BY <1>4 DEF Feedback
  <2>4. notice' \in Notice
    BY <2>2, <2>3 DEF Notice
  <2> QED BY <1>1, <2>3, <2>4 DEF GInv, GTypes, HandledIsListed, Done
<1>5. CASE Deliver
  <2>1. notice \in Notice /\ notice # None
    BY <1>5 DEF Deliver, GInv, GTypes
  <2>2. Len(notice.who) + 1 \in Nat
    BY <2>1 DEF Notice
  <2>3. GTypes'
    BY <1>1, <1>5, <2>1, <2>2 DEF Deliver, GInv, GTypes, Notice
  <2>4. notice'.lasting => Done' \subseteq Done
    BY <1>5, <2>1 DEF Deliver, Done, Notice
  <2> QED BY <1>2, <1>3, <1>5, <2>1, <2>3, <2>4 DEF Deliver, GInv, HandledIsListed, Notice
<1>6. CASE SuppressNext
  <2>1. notice \in Notice /\ notice # None /\ notice.at # None /\ notice.at \in Nat
    BY <1>6 DEF SuppressNext, Handling, GInv, GTypes, Notice
  <2>2. GTypes'
    BY <1>1, <1>6, <2>1 DEF SuppressNext, GInv, GTypes, Notice
  <2>3. \A k \in Done' : k \in Done \/ k = notice.at
    BY <1>6, <2>1 DEF SuppressNext, Done, Notice
  <2> QED BY <1>2, <1>3, <1>6, <2>1, <2>2, <2>3 DEF SuppressNext, GInv, HandledIsListed, Notice
<1>7. CASE SuppressFails
  <2>1. notice \in Notice /\ notice # None
    BY <1>7 DEF SuppressFails, Handling, GInv, GTypes
  <2>2. GTypes'
    BY <1>1, <1>7, <2>1 DEF SuppressFails, GInv, GTypes, Notice
  <2>3. Done' \subseteq Done
    BY <1>7, <2>1 DEF SuppressFails, Done, Notice
  <2> QED BY <1>3, <1>7, <2>1, <2>2, <2>3 DEF SuppressFails, GInv, HandledIsListed, Notice
<1>8. CASE Acknowledge
  <2>1. notice \in Notice /\ notice # None /\ notice.at # None /\ notice.at \in Nat
    BY <1>8 DEF Acknowledge, GInv, GTypes, Notice
  <2>2. GTypes'
    BY <1>1, <1>8, <2>1 DEF Acknowledge, GInv, GTypes, Notice
  <2>3. Done' \subseteq Done
    BY <1>8, <2>1 DEF Acknowledge, Done, Notice
  <2> QED BY <1>3, <1>8, <2>1, <2>2, <2>3 DEF Acknowledge, GInv, HandledIsListed, Notice
<1> QED
  BY <1>3, <1>4, <1>5, <1>6, <1>7, <1>8 DEF Webhook, GInv

LEMMA NextGInv == GInv /\ [GNext]_gate => GInv'
<1> SUFFICES ASSUME GInv, [GNext]_gate PROVE GInv'
  OBVIOUS
<1>1. ASSUME NEW s \in Source, NEW r \in Request, NEW a \in Email, Arrive(r, s, a) PROVE GInv'
  BY <1>1, ArriveKeepsGInv
<1>2. ASSUME NEW r \in Request, Serve(r) PROVE GInv'
  BY <1>2, ServeKeepsGInv
<1>3. CASE Webhook
  BY <1>3, WebhookKeepsGInv
<1>4. CASE UNCHANGED <<job, suppressed, notice>>
  BY <1>4 DEF GInv, GTypes, HandledIsListed, KnownIsListed, Done
<1> QED
  BY <1>1, <1>2, <1>3, <1>4 DEF GNext, gate, TooMany, GateSweep, GateTick

\* Once SNS was told that a lasting bounce or a complaint is taken, no later request of
\* its recipients reaches the mailer (Suppress, IsSuppressed, handleNotification).
THEOREM ReportedIsNeverMailed == GSpec => []NeverMailedAgain
<1>1. GInv => NeverMailedAgain
  BY DEF GInv, KnownIsListed, NeverMailedAgain, At
<1> QED BY <1>1, InitGInv, NextGInv, PTL DEF GSpec

-----------------------------------------------------------------------------
(* The limiter on the path.                                                *)

\* Whatever else a request does, it passes the limiter once.
LEMMA GateKeepsToLimiter == [GNext]_gate => [RNext]_ratelimit
<1> SUFFICES ASSUME [GNext]_gate PROVE [RNext]_ratelimit
  OBVIOUS
<1>1. CASE \E s \in Source : TooMany(s) \/ \E r \in Request, a \in Email : Arrive(r, s, a)
  BY <1>1 DEF TooMany, Arrive, RNext
<1>2. CASE \E r \in Request : Serve(r)
  BY <1>2 DEF Serve, Refused, ReadList, CaptureTime, Throttled, AskCeiling, Sent
<1>3. CASE GateSweep \/ GateTick
  BY <1>3 DEF GateSweep, GateTick, RNext
<1>4. CASE Webhook
  BY <1>4 DEF Webhook, Feedback, Deliver, SuppressNext, SuppressFails, Acknowledge, Idling
<1>5. CASE UNCHANGED gate
  BY <1>5 DEF gate, ratelimit
<1> QED BY <1>1, <1>2, <1>3, <1>4, <1>5 DEF GNext

LEMMA GateIsLimited == GSpec => RSpec
<1>1. GInit => RInit
  BY DEF GInit
<1> QED BY <1>1, GateKeepsToLimiter, PTL DEF GSpec, RSpec

\* Along the whole login path, whatever becomes of the requests: the limiter is one whose
\* buckets are never evicted, and in any n ticks a source is admitted at most its burst and
\* n/Every times, all sources together the shared burst and n/GlobalEvery times.
THEOREM LoginPathIsLimited == GSpec => Unswept /\ []WithinBudgets
BY GateIsLimited, SweepIsInvisible, BudgetsAreKept, PTL

-----------------------------------------------------------------------------
(* The send ceiling.                                                       *)

\* A recorded time is at most MaxStale older than the mail it was recorded for.
CapInv ==
  /\ captured \in [Request -> (0 .. MaxStale) \cup {Idle}]
  /\ sends \in [0 .. Oldest -> Nat] /\ mails \in [0 .. RecentMail -> Nat]
  /\ \A m, n \in 0 .. Oldest : m <= n => sends[m] <= sends[n]
  /\ sends[Oldest] <= Limit
  /\ \A n \in 0 .. RecentMail : mails[n] <= sends[n + MaxStale]

LEMMA Windows ==
  /\ Limit \in Nat /\ Span \in Nat /\ MaxStale \in Nat /\ Oldest \in Nat /\ RecentMail \in Nat
  /\ Oldest = Span + MaxStale /\ RecentMail + MaxStale = Span - 1
BY CeilingAssumption DEF Oldest, RecentMail

\* The cutoff of a request forgets no time that a recent mail was recorded with.
LEMMA PrunedIs ==
  ASSUME CapInv, NEW at \in 0 .. MaxStale
  PROVE  LET kept == Unexpired(at) IN
         /\ kept \in [0 .. Oldest -> Nat]
         /\ \A m, n \in 0 .. Oldest : m <= n => kept[m] <= kept[n]
         /\ kept[Oldest] <= Limit
         /\ \A n \in 0 .. RecentMail : kept[n + MaxStale] = sends[n + MaxStale]
<1> DEFINE kept == Unexpired(at)
           cut  == at + Span
<1>1. at \in Nat /\ at <= MaxStale /\ cut \in Nat /\ cut - 1 \in 0 .. Oldest
  BY Windows, CeilingAssumption
<1>2. kept = [n \in 0 .. Oldest |-> IF n < cut THEN sends[n] ELSE sends[cut - 1]]
  BY DEF CapInv, Unexpired
<1> HIDE DEF kept
<1>3. /\ sends \in [0 .. Oldest -> Nat] /\ sends[Oldest] <= Limit
      /\ \A m, n \in 0 .. Oldest : m <= n => sends[m] <= sends[n]
  BY DEF CapInv
<1>4. kept \in [0 .. Oldest -> Nat]
  BY <1>1, <1>2, <1>3
<1>5. ASSUME NEW m \in 0 .. Oldest, NEW n \in 0 .. Oldest, m <= n
      PROVE  kept[m] <= kept[n]
  <2>1. CASE n < cut
    BY <1>1, <1>2, <1>3, <1>5, <2>1, Windows
  <2>2. CASE ~(n < cut) /\ m < cut
    <3>1. m <= cut - 1
      BY <1>1, <1>5, <2>2, Windows
    <3> QED BY <1>1, <1>2, <1>3, <2>2, <3>1
  <2>3. CASE ~(n < cut) /\ ~(m < cut)
    BY <1>1, <1>2, <1>3, <2>3
  <2> QED BY <2>1, <2>2, <2>3
<1>6. kept[Oldest] <= Limit
  <2>1. Oldest \in 0 .. Oldest /\ sends[cut - 1] <= sends[Oldest] /\ sends[Oldest] \in Nat /\ sends[cut - 1] \in Nat
    BY <1>1, <1>3, Windows
  <2> QED BY <1>2, <1>3, <2>1, Windows
<1>7. ASSUME NEW n \in 0 .. RecentMail
      PROVE  kept[n + MaxStale] = sends[n + MaxStale]
  <2>1. n + MaxStale \in 0 .. Oldest /\ n + MaxStale < cut
    BY <1>1, Windows
  <2> QED BY <1>2, <2>1
<1> QED BY <1>4, <1>5, <1>6, <1>7 DEF kept

LEMMA AllowKeepsCap ==
  ASSUME CapInv, NEW r \in Request, Allow(r)
  PROVE  CapInv'
<1> DEFINE at   == captured[r]
           kept == Unexpired(at)
<1>1. at \in 0 .. MaxStale
  BY DEF CapInv, Allow
<1>2. /\ kept \in [0 .. Oldest -> Nat] /\ kept[Oldest] <= Limit
      /\ \A m, n \in 0 .. Oldest : m <= n => kept[m] <= kept[n]
      /\ \A n \in 0 .. RecentMail : kept[n + MaxStale] = sends[n + MaxStale]
  BY <1>1, PrunedIs
<1>3. captured' \in [Request -> (0 .. MaxStale) \cup {Idle}]
  BY DEF CapInv, Allow
<1>4. /\ mails \in [0 .. RecentMail -> Nat]
      /\ \A n \in 0 .. RecentMail : n + MaxStale \in 0 .. Oldest /\ mails[n] <= kept[n + MaxStale]
  <2>1. /\ mails \in [0 .. RecentMail -> Nat]
        /\ \A n \in 0 .. RecentMail : mails[n] <= sends[n + MaxStale]
    BY DEF CapInv
  <2>2. \A n \in 0 .. RecentMail : n + MaxStale \in 0 .. Oldest
    BY Windows
  <2> HIDE DEF kept
  <2> QED BY <1>2, <2>1, <2>2
<1>5. \/ sends' = kept /\ mails' = mails
      \/ ~(kept[Oldest] >= Limit) /\ sends' = OneMore(kept, at) /\ mails' = OneMore(mails, 0)
  BY DEF Allow
<1> HIDE DEF at, kept
<1>6. CASE sends' = kept /\ mails' = mails
  BY <1>2, <1>3, <1>4, <1>6 DEF CapInv
<1>7. CASE ~(kept[Oldest] >= Limit) /\ sends' = OneMore(kept, at) /\ mails' = OneMore(mails, 0)
  <2>1. sends' = [n \in 0 .. Oldest |-> IF n < at THEN kept[n] ELSE kept[n] + 1]
    BY <1>2, <1>7 DEF OneMore
  <2>2. mails' = [n \in 0 .. RecentMail |-> mails[n] + 1]
    BY <1>4, <1>7 DEF OneMore
  <2>3. sends' \in [0 .. Oldest -> Nat] /\ mails' \in [0 .. RecentMail -> Nat]
    BY <1>2, <1>4, <2>1, <2>2
  <2>4. \A m, n \in 0 .. Oldest : m <= n => sends'[m] <= sends'[n]
    <3> SUFFICES ASSUME NEW m \in 0 .. Oldest, NEW n \in 0 .. Oldest, m <= n
                 PROVE  sends'[m] <= sends'[n]
      OBVIOUS
    <3>1. kept[m] <= kept[n] /\ kept[m] \in Nat /\ kept[n] \in Nat
      BY <1>2
    <3> QED BY <1>1, <2>1, <3>1, Windows
  <2>5. sends'[Oldest] <= Limit
    <3>1. Oldest \in 0 .. Oldest /\ kept[Oldest] \in Nat /\ kept[Oldest] < Limit
      BY <1>2, <1>7, Windows
    <3> QED BY <1>1, <2>1, <3>1, Windows
  <2>6. \A n \in 0 .. RecentMail : mails'[n] <= sends'[n + MaxStale]
    <3> SUFFICES ASSUME NEW n \in 0 .. RecentMail PROVE mails'[n] <= sends'[n + MaxStale]
      OBVIOUS
    <3>1. /\ n + MaxStale \in 0 .. Oldest /\ ~(n + MaxStale < at)
          /\ mails[n] <= kept[n + MaxStale] /\ mails[n] \in Nat /\ kept[n + MaxStale] \in Nat
      BY <1>1, <1>2, <1>4, Windows
    <3> QED BY <2>1, <2>2, <3>1
  <2> QED BY <1>3, <2>3, <2>4, <2>5, <2>6 DEF CapInv
<1> QED BY <1>5, <1>6, <1>7

LEMMA TickKeepsCap ==
  ASSUME CapInv, CTick
  PROVE  CapInv'
<1>1. captured' \in [Request -> (0 .. MaxStale) \cup {Idle}]
  <2>1. ASSUME NEW r \in Request, captured[r] # Idle
        PROVE  captured[r] + 1 \in 0 .. MaxStale
    BY <2>1, Windows DEF CapInv, CTick
  <2> QED BY <2>1 DEF CTick
<1>2. /\ sends \in [0 .. Oldest -> Nat] /\ mails \in [0 .. RecentMail -> Nat]
      /\ \A m, n \in 0 .. Oldest : m <= n => sends[m] <= sends[n]
      /\ sends[Oldest] <= Limit /\ \A n \in 0 .. RecentMail : mails[n] <= sends[n + MaxStale]
  BY DEF CapInv
<1>3. /\ sends' = [n \in 0 .. Oldest |-> IF n = 0 THEN 0 ELSE sends[n - 1]]
      /\ mails' = [n \in 0 .. RecentMail |-> IF n = 0 THEN 0 ELSE mails[n - 1]]
  BY <1>2 DEF CTick, TickLater
<1>4. \A w \in Nat : \A n \in 0 .. w : n \in Nat /\ (n # 0 => n - 1 \in 0 .. w)
  OBVIOUS
<1>5. sends' \in [0 .. Oldest -> Nat] /\ mails' \in [0 .. RecentMail -> Nat]
  BY <1>2, <1>3, <1>4, Windows
<1>6. ASSUME NEW m \in 0 .. Oldest, NEW n \in 0 .. Oldest, m <= n
      PROVE  sends'[m] <= sends'[n]
  <2>1. CASE m = 0
    BY <1>3, <1>5, <2>1
  <2>2. CASE m # 0
    <3>1. m - 1 \in 0 .. Oldest /\ n - 1 \in 0 .. Oldest /\ m - 1 <= n - 1 /\ n # 0
      BY <1>6, <2>2, Windows
    <3> QED BY <1>2, <1>3, <2>2, <3>1
  <2> QED BY <2>1, <2>2
<1>7. sends'[Oldest] <= Limit
  <2>1. CASE Oldest = 0
    BY <1>3, <2>1, Windows
  <2>2. CASE Oldest # 0
    <3>1. Oldest \in 0 .. Oldest /\ Oldest - 1 \in 0 .. Oldest
      BY <2>2, Windows
    <3>2. sends[Oldest - 1] <= sends[Oldest] /\ sends[Oldest - 1] \in Nat /\ sends[Oldest] \in Nat
      BY <1>2, <3>1, Windows
    <3> QED BY <1>2, <1>3, <2>2, <3>1, <3>2, Windows
  <2> QED BY <2>1, <2>2
<1>8. ASSUME NEW n \in 0 .. RecentMail
      PROVE  mails'[n] <= sends'[n + MaxStale]
  <2>1. n + MaxStale \in 0 .. Oldest
    BY Windows
  <2>2. CASE n = 0
    BY <1>3, <1>5, <2>1, <2>2
  <2>3. CASE n # 0
    <3>1. /\ n - 1 \in 0 .. RecentMail /\ (n - 1) + MaxStale = (n + MaxStale) - 1 /\ n + MaxStale # 0
      BY <2>3, Windows
    <3> QED BY <1>2, <1>3, <2>1, <2>3, <3>1
  <2> QED BY <2>2, <2>3
<1> QED BY <1>1, <1>5, <1>6, <1>7, <1>8 DEF CapInv

LEMMA NextKeepsCap == CapInv /\ [GNext]_gate => CapInv'
<1> SUFFICES ASSUME CapInv, [GNext]_gate PROVE CapInv'
  OBVIOUS
<1>1. ASSUME UNCHANGED ceiling PROVE CapInv'
  BY <1>1 DEF ceiling, CapInv
<1>2. ASSUME NEW r \in Request, Capture(r) \/ Drop(r) PROVE CapInv'
  <2>1. captured' \in [Request -> (0 .. MaxStale) \cup {Idle}]
    <3>1. 0 \in 0 .. MaxStale /\ captured \in [Request -> (0 .. MaxStale) \cup {Idle}]
      BY Windows DEF CapInv
    <3>2. captured' = [captured EXCEPT ![r] = 0] \/ captured' = [captured EXCEPT ![r] = Idle]
      BY <1>2 DEF Capture, Drop
    <3> QED BY <3>1, <3>2
  <2> QED BY <1>2, <2>1 DEF Capture, Drop, CapInv
<1>3. CASE \E s \in Source : TooMany(s) \/ \E r \in Request, a \in Email : Arrive(r, s, a)
  BY <1>1, <1>3 DEF TooMany, Arrive
<1>4. ASSUME NEW r \in Request, Serve(r) PROVE CapInv'
  BY <1>1, <1>2, <1>4, AllowKeepsCap DEF Serve, Refused, ReadList, CaptureTime, Throttled, AskCeiling, Sent
<1>5. CASE GateSweep \/ GateTick
  BY <1>1, <1>5, TickKeepsCap DEF GateSweep, GateTick
<1>6. CASE Webhook
  BY <1>1, <1>6 DEF Webhook, Feedback, Deliver, SuppressNext, SuppressFails, Acknowledge, Idling
<1>7. CASE UNCHANGED gate
  BY <1>1, <1>7 DEF gate, ceiling
<1> QED BY <1>3, <1>4, <1>5, <1>6, <1>7 DEF GNext

\* No window, less the time a request may wait between its clock and the ceiling, sees more
\* login mails than the limit, however many requests ask at once and with whichever of
\* their captured times they prune (allow, ceiling.go).
THEOREM CeilingHolds == GSpec => []CapHolds
<1>1. GInit => CapInv
  <2> SUFFICES ASSUME GInit PROVE CapInv
    OBVIOUS
  <2>1. /\ captured = [r \in Request |-> Idle]
        /\ sends = [n \in 0 .. Oldest |-> 0] /\ mails = [n \in 0 .. RecentMail |-> 0]
    BY DEF GInit, CInit, NoneUpTo
  <2>2. Oldest \in 0 .. Oldest /\ \A n \in 0 .. RecentMail : n + MaxStale \in 0 .. Oldest
    BY Windows
  <2> QED BY <2>1, <2>2, Windows DEF CapInv
<1>2. CapInv => CapHolds
  <2> SUFFICES ASSUME CapInv PROVE CapHolds
    OBVIOUS
  <2>1. /\ RecentMail \in 0 .. RecentMail /\ Span - 1 \in 0 .. Oldest /\ Oldest \in 0 .. Oldest
        /\ RecentMail + MaxStale = Span - 1 /\ Span - 1 <= Oldest
    BY Windows
  <2>2. /\ mails[RecentMail] \in Nat /\ sends[Span - 1] \in Nat /\ sends[Oldest] \in Nat
        /\ mails[RecentMail] <= sends[Span - 1] /\ sends[Span - 1] <= sends[Oldest] /\ sends[Oldest] <= Limit
    BY <2>1 DEF CapInv
  <2> QED BY <2>2, Windows DEF CapHolds
<1> QED BY <1>1, <1>2, NextKeepsCap, PTL DEF GSpec
=============================================================================
