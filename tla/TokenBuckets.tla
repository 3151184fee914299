---------------------------- MODULE TokenBuckets ----------------------------
(***************************************************************************)
(* What the login rate limiter promises: every source has one token bucket *)
(* for ever, all sources share another, and a request needs a token of     *)
(* both.  A level counts ticks; Every ticks make a token.                  *)
(***************************************************************************)
EXTENDS Integers

CONSTANTS
  Source,       \* client addresses
  Every,        \* ticks per token of a source (6 s)
  Burst,        \* tokens a source's bucket holds (5)
  GlobalEvery,  \* ticks per token of all sources (6 s)
  GlobalBurst   \* tokens the shared bucket holds (20)

VARIABLES bucket, global

Full       == Every * Burst
GlobalFull == GlobalEvery * GlobalBurst

Refilled(level, full) == IF level < full THEN level + 1 ELSE full

TInit == bucket = [s \in Source |-> Full] /\ global = GlobalFull

Admitted(s) ==
  /\ bucket[s] >= Every /\ global >= GlobalEvery
  /\ bucket' = [bucket EXCEPT ![s] = @ - Every]
  /\ global' = global - GlobalEvery

\* The source's token is spent before the shared bucket refuses.
Refused(s) ==
  /\ \/ bucket[s] < Every /\ UNCHANGED bucket
     \/ /\ bucket[s] >= Every /\ global < GlobalEvery
        /\ bucket' = [bucket EXCEPT ![s] = @ - Every]
  /\ UNCHANGED global

Refill ==
  /\ bucket' = [s \in Source |-> Refilled(bucket[s], Full)]
  /\ global' = Refilled(global, GlobalFull)

TNext == (\E s \in Source : Admitted(s) \/ Refused(s)) \/ Refill

TSpec == TInit /\ [][TNext]_<<bucket, global>>
=============================================================================
