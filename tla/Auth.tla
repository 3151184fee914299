-------------------------------- MODULE Auth --------------------------------
(***************************************************************************)
(* Passwordless login, internal/auth: requesting a login code (a sequence  *)
(* of separate reads, one upsert and a mail), verifying one (one immediate *)
(* transaction), and suppression of addresses.                             *)
(*                                                                         *)
(* Times are kept as ages: a Tick makes every stored time one unit older,  *)
(* and beyond Horizon all ages compare alike.  A request computes its      *)
(* cutoffs from the time it captured, which is older than the moment its   *)
(* upsert gets the write lock, by MaxStale at most.  Its mail may take any *)
(* time after that: SendCode has no deadline.                              *)
(***************************************************************************)
EXTENDS RollingCounts

CONSTANTS
  Email,        \* normalized addresses
  Code,         \* login codes; a fresh one never repeats one still around
  Request,      \* goroutines serving RequestCode
  None,         \* no row, no request
  Throttle,     \* requestThrottle (60 s)
  CodeTTL,      \* codeTTL (10 min)
  Recovery,     \* CodeRecoveryWindow (10 min)
  MaxAttempts,  \* maxAttempts (5)
  MaxStale      \* bound: age of a request's captured time at its upsert

ASSUME AuthAssumption ==
  /\ {Throttle, CodeTTL, Recovery, MaxAttempts, MaxStale} \subseteq Nat
  /\ Throttle <= Recovery /\ CodeTTL <= Recovery

VARIABLES
  account,     \* table user: the addresses that have a row
  login,       \* table login_code: address -> row, or None
  suppressed,  \* table suppression
  request,     \* goroutine -> RequestCode in progress, or None
  newest,      \* address -> code in the most recent mail, or None
  redeemed,    \* codes that gave a session
  wrong,       \* address -> n -> wrong guesses at most n ticks ago, since its last login
  withheld,    \* addresses whose stored code was not mailed
  slow         \* addresses whose most recent mail went out later than Throttle

auth == <<account, login, suppressed, request, newest, redeemed, wrong, withheld, slow>>

Horizon == Recovery + MaxStale + 1

\* The window of WindowBudget.
Budgeted == Recovery - MaxStale

\* A row of login_code, and a request on its way to one.
Row    == [code : Code, known : BOOLEAN, attempts : Nat, since : Nat, created : Nat]
Asking == [email : Email, phase : {"looked", "checked", "ready", "stored"}, known : BOOLEAN,
           at : Nat, code : Code \cup {None}]

ASSUME NoneAssumption == None \notin Row \cup Asking

AInit ==
  /\ account = {} /\ suppressed = {} /\ redeemed = {} /\ withheld = {} /\ slow = {}
  /\ login = [e \in Email |-> None]
  /\ request = [r \in Request |-> None]
  /\ newest = [e \in Email |-> None]
  /\ wrong = [e \in Email |-> NoneUpTo(Budgeted)]

-----------------------------------------------------------------------------
(* RequestCode.                                                             *)

\* The SELECT of the user row, outside any transaction.
Look(r, e) ==
  /\ request[r] = None
  /\ request' = [request EXCEPT ![r] =
       [email |-> e, phase |-> "looked", known |-> e \in account, at |-> 0, code |-> None]]
  /\ UNCHANGED <<account, login, suppressed, newest, redeemed, wrong, withheld, slow>>

\* IsSuppressed: a suppressed address ends the request silently.
CheckSuppression(r) ==
  LET q == request[r]
  IN /\ q # None /\ q.phase = "looked"
     /\ request' = [request EXCEPT ![r] =
          IF q.email \in suppressed THEN None ELSE [q EXCEPT !.phase = "checked"]]
     /\ UNCHANGED <<account, login, suppressed, newest, redeemed, wrong, withheld, slow>>

\* Codes that a row, a request or a mail still holds.
Around ==
  {login[e].code : e \in {d \in Email : login[d] # None}}
  \cup {request[r].code : r \in {q \in Request : request[q] # None}}
  \cup {newest[e] : e \in Email}

\* newCode: codes are only ever compared, so which of the others it is does not matter.
FreshCode == CHOOSE c \in Code : c \notin Around

\* deliverable: the MX lookup; then newCode and time.Now().
ResolveMX(r, found) ==
  LET q == request[r]
  IN /\ q # None /\ q.phase = "checked"
     /\ IF found
        THEN /\ Code \ Around # {}
             /\ request' = [request EXCEPT ![r] = [q EXCEPT !.phase = "ready", !.code = FreshCode]]
             /\ redeemed' = redeemed \ {FreshCode}
        ELSE request' = [request EXCEPT ![r] = None] /\ UNCHANGED redeemed
     /\ UNCHANGED <<account, login, suppressed, newest, wrong, withheld, slow>>

\* Slip: the cooldown is the throttle's.
DecayedSoon(row, at) == row.since > at + Throttle

\* attempts_since lies before the recovery cutoff of a request.
Decayed(row, at) == row.since > at + Recovery

\* Slip: a locked address stays locked.
MayReissueUnlocked(row, at) == row.created > at + Throttle /\ row.attempts < MaxAttempts

\* Slip: a request is throttled by nothing but the lock.
MayReissueUnthrottled(row, at) == row.attempts < MaxAttempts \/ Decayed(row, at)

\* The WHERE clause of the upsert: neither throttled nor locked.
MayReissue(row, at) ==
  /\ row.created > at + Throttle
  /\ row.attempts < MaxAttempts \/ Decayed(row, at)

\* Slip: the hash of the old code stays.
ReissuedOldHash(row, q) ==
  [code |-> row.code, known |-> q.known,
   attempts |-> IF Decayed(row, q.at) THEN 0 ELSE row.attempts,
   since |-> IF Decayed(row, q.at) THEN q.at ELSE row.since,
   created |-> q.at]

\* Slip: a code issued again brings new guesses.
ReissuedFresh(row, q) ==
  [code |-> q.code, known |-> q.known, attempts |-> 0,
   since |-> IF Decayed(row, q.at) THEN q.at ELSE row.since,
   created |-> q.at]

\* Slip: the owner of the row stays.
ReissuedOldOwner(row, q) ==
  [code |-> q.code, known |-> row.known,
   attempts |-> IF Decayed(row, q.at) THEN 0 ELSE row.attempts,
   since |-> IF Decayed(row, q.at) THEN q.at ELSE row.since,
   created |-> q.at]

\* DO UPDATE: a new code, with the attempts carried forward unless they decayed.
Reissued(row, q) ==
  [code |-> q.code, known |-> q.known,
   attempts |-> IF Decayed(row, q.at) THEN 0 ELSE row.attempts,
   since |-> IF Decayed(row, q.at) THEN q.at ELSE row.since,
   created |-> q.at]

Issued(q) ==
  [code |-> q.code, known |-> q.known, attempts |-> 0, since |-> q.at, created |-> q.at]

\* INSERT ... ON CONFLICT (email) DO UPDATE ... WHERE.
Upsert(r) ==
  LET q == request[r]
      row == login[q.email]
  IN /\ q # None /\ q.phase = "ready"
     /\ IF row # None /\ ~MayReissue(row, q.at)
        THEN request' = [request EXCEPT ![r] = None] /\ UNCHANGED <<login, withheld>>
        ELSE /\ login' = [login EXCEPT ![q.email] =
                  IF row = None THEN Issued(q) ELSE Reissued(row, q)]
             /\ request' = [request EXCEPT ![r] = [q EXCEPT !.phase = "stored"]]
             /\ withheld' = withheld \ {q.email}
     /\ UNCHANGED <<account, suppressed, newest, redeemed, wrong, slow>>

\* The ceiling and SendCode: the mail goes out, however late, or it is withheld.
Send(r, sent) ==
  LET q == request[r]
      e == q.email
  IN /\ q # None /\ q.phase = "stored"
     /\ newest' = IF sent THEN [newest EXCEPT ![e] = q.code] ELSE newest
     /\ slow' = IF ~sent THEN slow ELSE IF q.at > Throttle THEN slow \cup {e} ELSE slow \ {e}
     /\ withheld' = IF ~sent /\ login[e] # None /\ login[e].code = q.code
                    THEN withheld \cup {e} ELSE withheld
     /\ request' = [request EXCEPT ![r] = None]
     /\ UNCHANGED <<account, login, suppressed, redeemed, wrong>>

-----------------------------------------------------------------------------
(* VerifyCode: one immediate transaction.  A missing, expired or locked row *)
(* changes nothing.                                                         *)

\* Slip: the lock is left to the re-issue.
RedeemableUnlocked(e) == login[e] # None /\ login[e].created <= CodeTTL

Redeemable(e) ==
  login[e] # None /\ login[e].created <= CodeTTL /\ login[e].attempts < MaxAttempts

\* A code that is not the stored one counts as an attempt.
VerifyWrong(e) ==
  /\ Redeemable(e)
  /\ login' = [login EXCEPT ![e].attempts = @ + 1]
  /\ wrong' = [wrong EXCEPT ![e] = OneMore(@, 0)]
  /\ UNCHANGED <<account, suppressed, request, newest, redeemed, withheld, slow>>

\* The stored code went out: no request still carries it, and it was not withheld.
Mailed(e) ==
  e \notin withheld /\ \A r \in Request : request[r] # None => request[r].code # login[e].code

\* Slip: the code outlives the session it gave.
VerifyRightAgain(e) ==
  /\ Redeemable(e) /\ Mailed(e)
  /\ account' = account \cup {e}
  /\ redeemed' = redeemed \cup {login[e].code}
  /\ UNCHANGED <<login, suppressed, request, newest, wrong, withheld, slow>>

\* A correct code (nobody enters one before it is mailed) gives a session, mints the account
\* of a row without one, and is deleted.  The INSERT of an account that exists by now fails
\* and rolls back.
VerifyRight(e) ==
  /\ Redeemable(e) /\ Mailed(e)
  /\ login[e].known \/ e \notin account
  /\ account' = account \cup {e}
  /\ redeemed' = redeemed \cup {login[e].code}
  /\ login' = [login EXCEPT ![e] = None]
  /\ wrong' = [wrong EXCEPT ![e] = NoneUpTo(Budgeted)]
  /\ UNCHANGED <<suppressed, request, newest, withheld, slow>>

-----------------------------------------------------------------------------
\* Service.Suppress, from the feedback webhook.
Suppress(e) ==
  /\ e \notin suppressed
  /\ suppressed' = suppressed \cup {e}
  /\ UNCHANGED <<account, login, request, newest, redeemed, wrong, withheld, slow>>

Older(n) == IF n < Horizon THEN n + 1 ELSE n

\* Of the age of a request it matters whether it passed MaxStale or Throttle.
Later(n) == IF n <= MaxStale \/ n <= Throttle THEN n + 1 ELSE n

\* Time passes: not too much of it before an upsert, any amount before a mail.
Tick ==
  /\ \A r \in Request : request[r] # None /\ request[r].phase = "ready" => request[r].at < MaxStale
  /\ login' = [e \in Email |->
       IF login[e] = None THEN None
       ELSE [login[e] EXCEPT !.since = Older(@), !.created = Older(@)]]
  /\ request' = [r \in Request |->
       IF request[r] = None \/ request[r].phase \notin {"ready", "stored"} THEN request[r]
       ELSE [request[r] EXCEPT !.at = Later(@)]]
  /\ wrong' = [e \in Email |-> TickLater(wrong[e])]
  /\ UNCHANGED <<account, suppressed, newest, redeemed, withheld, slow>>

Issue(r) ==
  \/ CheckSuppression(r) \/ Upsert(r)
  \/ \E ok \in BOOLEAN : ResolveMX(r, ok) \/ Send(r, ok)

ANext ==
  \/ \E r \in Request, e \in Email : Look(r, e)
  \/ \E r \in Request : Issue(r)
  \/ \E e \in Email : VerifyWrong(e) \/ VerifyRight(e) \/ Suppress(e)
  \/ Tick

ASpec == AInit /\ [][ANext]_auth

\* A user who keeps asking, a resolver that answers sometimes, and time.
FairASpec ==
  /\ ASpec
  /\ WF_auth(Tick)
  /\ \A e \in Email : WF_auth(\E r \in Request : Look(r, e))
  /\ \A r \in Request : WF_auth(Issue(r))
  /\ SF_auth(\E r \in Request : ResolveMX(r, TRUE))

-----------------------------------------------------------------------------
(* Properties.                                                             *)

\* Re-issuing a code does not renew the guesses (ADR 0001: 5 verify attempts, carried
\* across re-issues): a row counts every wrong guess younger than its budget, and over a
\* recovery window an address gets at most the budget before the decay and the one after
\* it, both up to how late an upsert may come.
WindowBudget ==
  \A e \in Email : \A n \in 0 .. Budgeted :
    /\ wrong[e][n] <= 2 * MaxAttempts
    /\ login[e] # None /\ n + MaxStale < login[e].since => wrong[e][n] <= login[e].attempts

\* A code gives one session: no row ever holds a code that was redeemed, whatever
\* requests were on their way while it was (single use).
SingleUse == \A e \in Email : login[e] # None => login[e].code \notin redeemed

\* Nothing is being issued for an address.
Settled(e) == \A r \in Request : request[r] # None => request[r].email # e

\* The code VerifyCode accepts is the one in the most recent mail, where a user whose code
\* fails is told to look (login.go:97), unless the stored code was withheld, or that mail
\* took longer than the throttle and may come from a request that a later one overtook.
NewestMailMatches ==
  \A e \in Email \ (withheld \cup slow) :
    Settled(e) /\ Redeemable(e) => newest[e] = login[e].code

\* The guesses at the stored code are used up.
Locked(e) == login[e] # None /\ login[e].attempts = MaxAttempts

\* The stored code cannot be redeemed: it was asked for before the account was minted,
\* and minting it again fails.
Stranded(e) == login[e] # None /\ ~login[e].known /\ e \in account

DeadEnd(e) == Locked(e) \/ Stranded(e) \/ e \in withheld

\* A user who keeps asking gets out of every dead end, unless the address is suppressed:
\* a locked address after the cooldown (CodeRecoveryWindow), a code whose account was
\* minted meanwhile and one that was not mailed after the throttle.
DeadEndsEnd == \A e \in Email : DeadEnd(e) ~> (e \in suppressed \/ ~DeadEnd(e))
=============================================================================
