------------------------------ MODULE LoginGate ------------------------------
(***************************************************************************)
(* What stands between POST /login/code and a login mail: the rate limiter *)
(* (RateLimit), the presence check, the suppression list and the send      *)
(* ceiling (SendCeiling), one step of one request at a time, beside the    *)
(* SES webhook that fills the suppression list (router.go, login.go,       *)
(* presence.go, suppression.go, seswebhook.go).                            *)
(*                                                                         *)
(* Whether an address is throttled or locked is left open here: Auth says. *)
(***************************************************************************)
EXTENDS RateLimit, SendCeiling, FiniteSets, SequencesExt

CONSTANTS Email, None

ASSUME EmailAssumption == IsFiniteSet(Email)

VARIABLES
  job,         \* request -> what its goroutine is about to do, or None
  suppressed,  \* the suppression table
  notice       \* SES feedback with the state of its delivery by SNS, or None

gate == <<ips, global, passed, admitted, captured, sends, mails, job, suppressed, notice>>

GInit ==
  /\ RInit /\ CInit
  /\ job = [r \in Request |-> None]
  /\ suppressed = {} /\ notice = None

End(r)       == job' = [job EXCEPT ![r] = None]
Goes(r, to)  == job' = [job EXCEPT ![r].next = to]
At(r, stage) == job[r] # None /\ job[r].next = stage

-----------------------------------------------------------------------------
(* A request for a code.                                                   *)

\* SNS was told that this address bounces or complained.
Confirmed(a) == notice # None /\ notice.acked /\ notice.lasting /\ a \in Range(notice.who)

\* Limit in front of RequestCodeHandler; known is kept for NeverMailedAgain.
Arrive(r, s, a) ==
  /\ job[r] = None /\ Pass(s)
  /\ job' = [job EXCEPT ![r] = [next |-> "presence", email |-> a, known |-> Confirmed(a)]]
  /\ UNCHANGED <<ceiling, suppressed, notice>>

TooMany(s) == Reject(s) /\ UNCHANGED <<ceiling, job, suppressed, notice>>

\* Presence failed or could not be checked, the address has no mail server, or a read
\* failed: nothing was spent but the source's token.
Refused(r) ==
  /\ At(r, "presence") \/ At(r, "deliverable")
  /\ End(r)
  /\ UNCHANGED <<ratelimit, ceiling, suppressed, notice>>

\* Slip: a list that cannot be read lets the request through.
ReadListOpen(r) ==
  /\ At(r, "presence")
  /\ Goes(r, "deliverable")
  /\ UNCHANGED <<ratelimit, ceiling, suppressed, notice>>

\* Presence is fine: RequestCode reads the suppression list.
ReadList(r) ==
  /\ At(r, "presence")
  /\ IF job[r].email \in suppressed THEN End(r) ELSE Goes(r, "deliverable")
  /\ UNCHANGED <<ratelimit, ceiling, suppressed, notice>>

\* The address takes mail: the time is captured for the code and for the ceiling.
CaptureTime(r) ==
  /\ At(r, "deliverable")
  /\ Capture(r) /\ Goes(r, "upsert")
  /\ UNCHANGED <<ratelimit, suppressed, notice>>

Throttled(r) == At(r, "upsert") /\ Drop(r) /\ End(r) /\ UNCHANGED <<ratelimit, suppressed, notice>>

AskCeiling(r) ==
  /\ At(r, "upsert")
  /\ Allow(r)
  /\ IF mails' = mails THEN End(r) ELSE Goes(r, "send")
  /\ UNCHANGED <<ratelimit, suppressed, notice>>

\* SendCode returned, with or without an error.
Sent(r) == At(r, "send") /\ End(r) /\ UNCHANGED <<ratelimit, ceiling, suppressed, notice>>

GateSweep == Sweep /\ UNCHANGED <<ceiling, job, suppressed, notice>>

GateTick == Tick /\ CTick /\ UNCHANGED <<job, suppressed, notice>>

-----------------------------------------------------------------------------
(* SES feedback.  SNS delivers a notification until it is acknowledged, and *)
(* may deliver it again after that.                                        *)

Idling == UNCHANGED <<ratelimit, ceiling, job>>

\* A bounce or complaint about mails sent before, or elsewhere.
Feedback(who, lasting) ==
  /\ notice = None
  /\ notice' = [who |-> who, lasting |-> lasting, at |-> None, acked |-> FALSE]
  /\ Idling /\ UNCHANGED suppressed

\* The topic and the signature are right; a transient bounce names nobody to suppress.
Deliver ==
  /\ notice # None /\ notice.at = None
  /\ notice' = [notice EXCEPT !.at = IF notice.lasting THEN 1 ELSE Len(notice.who) + 1]
  /\ Idling /\ UNCHANGED suppressed

Handling == notice # None /\ notice.at # None /\ notice.at <= Len(notice.who)

SuppressNext ==
  /\ Handling
  /\ suppressed' = suppressed \cup {notice.who[notice.at]}
  /\ notice' = [notice EXCEPT !.at = @ + 1]
  /\ Idling

\* Slip: the handler goes on to the next recipient.
SkipFailed ==
  /\ Handling
  /\ notice' = [notice EXCEPT !.at = @ + 1]
  /\ Idling /\ UNCHANGED suppressed

\* The upsert failed, or the process died: 500 or nothing, and SNS comes again.
SuppressFails ==
  /\ Handling
  /\ notice' = [notice EXCEPT !.at = None]
  /\ Idling /\ UNCHANGED suppressed

Acknowledge ==
  /\ notice # None /\ notice.at # None /\ notice.at > Len(notice.who)
  /\ notice' = [notice EXCEPT !.at = None, !.acked = TRUE]
  /\ Idling /\ UNCHANGED suppressed

-----------------------------------------------------------------------------
Serve(r) ==
  \/ Refused(r) \/ ReadList(r) \/ CaptureTime(r)
  \/ Throttled(r) \/ AskCeiling(r) \/ Sent(r)

Webhook ==
  \/ \E who \in SetToSeqs(Email), lasting \in BOOLEAN : Feedback(who, lasting)
  \/ Deliver \/ SuppressNext \/ SuppressFails \/ Acknowledge

GNext ==
  \/ \E s \in Source : TooMany(s) \/ \E r \in Request, a \in Email : Arrive(r, s, a)
  \/ \E r \in Request : Serve(r)
  \/ GateSweep \/ GateTick \/ Webhook

GSpec == GInit /\ [][GNext]_gate
-----------------------------------------------------------------------------
(* Properties.                                                             *)

\* Once SNS was told that a lasting bounce or a complaint is taken, no later request of
\* any of its recipients is mailed, whatever failed on the way to that answer
\* (suppression.go:13, "RequestCode must never mail again").
NeverMailedAgain == \A r \in Request : At(r, "send") => ~job[r].known
=============================================================================
