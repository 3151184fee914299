----------------------------- MODULE SendCeiling ----------------------------
(***************************************************************************)
(* internal/auth/ceiling.go: the circuit breaker on outbound login mail.   *)
(* A request captures the time, waits for its upsert, and only then asks   *)
(* the ceiling with the time it captured.  Times are kept as ages.         *)
(***************************************************************************)
EXTENDS RollingCounts

CONSTANTS
  Request,    \* goroutines serving RequestCode
  Idle,       \* not past its capture of the time
  Limit,      \* sendCeiling.max
  Span,     \* sendCeiling.window
  MaxStale    \* bound: ticks between the capture and the question

ASSUME CeilingAssumption ==
  /\ Limit \in Nat /\ Span \in Nat /\ MaxStale \in Nat /\ MaxStale < Span

VARIABLES
  captured,   \* request -> age of the time it captured, or Idle
  sends,      \* sendCeiling.sends: n -> recorded times at most n ticks back
  mails       \* n -> mails let through at most n ticks ago

ceiling == <<captured, sends, mails>>

\* No request counts times recorded earlier, nor does CapHolds earlier mails.
Oldest     == Span + MaxStale
RecentMail == Span - MaxStale - 1

CInit ==
  /\ captured = [r \in Request |-> Idle]
  /\ sends = NoneUpTo(Oldest) /\ mails = NoneUpTo(RecentMail)

\* now := time.Now()
Capture(r) ==
  /\ captured[r] = Idle
  /\ captured' = [captured EXCEPT ![r] = 0]
  /\ UNCHANGED <<sends, mails>>

\* The upsert found the address throttled or locked.
Drop(r) ==
  /\ captured[r] # Idle
  /\ captured' = [captured EXCEPT ![r] = Idle]
  /\ UNCHANGED <<sends, mails>>

\* Slip: the recorded sends are pruned by half a window.
UnexpiredHalf(at) ==
  LET cutoff == at + (Span \div 2)
  IN [n \in DOMAIN sends |-> IF n < cutoff THEN sends[n] ELSE sends[cutoff - 1]]

\* Recorded sends after the cutoff of a request's own now.
Unexpired(at) ==
  LET cutoff == at + Span
  IN [n \in DOMAIN sends |-> IF n < cutoff THEN sends[n] ELSE sends[cutoff - 1]]

\* allow(now): under the mutex, prune, count, record.
Allow(r) ==
  LET kept == Unexpired(captured[r])
  IN /\ captured[r] # Idle
     /\ captured' = [captured EXCEPT ![r] = Idle]
     /\ IF kept[Oldest] >= Limit
        THEN sends' = kept /\ UNCHANGED mails
        ELSE sends' = OneMore(kept, captured[r]) /\ mails' = OneMore(mails, 0)

CTick ==
  /\ \A r \in Request : captured[r] # Idle => captured[r] < MaxStale
  /\ captured' = [r \in Request |-> IF captured[r] = Idle THEN Idle ELSE captured[r] + 1]
  /\ sends' = TickLater(sends) /\ mails' = TickLater(mails)

CNext == (\E r \in Request : Capture(r) \/ Drop(r) \/ Allow(r)) \/ CTick

CSpec == CInit /\ [][CNext]_ceiling
-----------------------------------------------------------------------------
(* Properties.                                                             *)

\* In any window, less the time a request may spend between its capture and its
\* question, no more than the limit goes out.
CapHolds == mails[RecentMail] <= Limit
=============================================================================
