----------------------------- MODULE AuthProofs -----------------------------
(***************************************************************************)
(* Theorems about Auth: for any addresses, codes and goroutines, and any   *)
(* limits.                                                                 *)
(*                                                                         *)
(* CodesInv is inductive.  That no row holds a redeemed code rests on      *)
(* CodesApart: the codes of requests differ, those of rows differ, and one *)
(* not stored yet is neither a row's nor redeemed.                         *)
(*                                                                         *)
(* NewestInv is about the order of mails, which may take any time.  While  *)
(* a request is younger than the throttle nothing replaces what it stored, *)
(* so a mail sent by then holds the code of the row, and stays the newest  *)
(* until that code is replaced or an older request's mail arrives late.    *)
(*                                                                         *)
(* BudgetInv is about time: while a row's budget is younger than a window, *)
(* the window may hold guesses of the budget before it; once it is older,  *)
(* only its own; and a budget is renewed only when it is older.            *)
(***************************************************************************)
EXTENDS Auth, TLAPS

\* A request past the drawing of its code.
Drawn(r) == request[r] # None /\ request[r].phase \in {"ready", "stored"}

ATypes ==
  /\ login \in [Email -> Row \cup {None}]
  /\ request \in [Request -> Asking \cup {None}]
  /\ newest \in [Email -> Code \cup {None}]
  /\ \A r \in Request : Drawn(r) => request[r].code \in Code

CodesApart ==
  /\ \A r, s \in Request : Drawn(r) /\ Drawn(s) /\ r # s => request[r].code # request[s].code
  /\ \A r \in Request : Drawn(r) /\ request[r].phase = "ready" =>
       /\ request[r].code \notin redeemed
       /\ \A e \in Email : login[e] # None => login[e].code # request[r].code
  /\ \A d, e \in Email : login[d] # None /\ login[e] # None /\ d # e => login[d].code # login[e].code

CodesInv == ATypes /\ CodesApart /\ SingleUse

-----------------------------------------------------------------------------
(* Lemmas about the operators.                                             *)

LEMMA RowsAre ==
  ASSUME ATypes, NEW q \in Asking, q.code \in Code
  PROVE  /\ Issued(q) \in Row /\ Issued(q) # None /\ Issued(q).code = q.code /\ Issued(q).created = q.at
         /\ \A row \in Row : /\ Reissued(row, q) \in Row /\ Reissued(row, q) # None
                             /\ Reissued(row, q).code = q.code /\ Reissued(row, q).created = q.at
<1>1. Issued(q) \in Row /\ Issued(q).code = q.code /\ Issued(q).created = q.at
  BY DEF Issued, Row, Asking
<1>2. \A row \in Row : /\ Reissued(row, q) \in Row /\ Reissued(row, q).code = q.code
                       /\ Reissued(row, q).created = q.at
  BY DEF Reissued, Row, Asking
<1> QED BY <1>1, <1>2, NoneAssumption

LEMMA OlderIs == ASSUME NEW n \in Nat PROVE Older(n) \in Nat /\ Later(n) \in Nat
BY DEF Older, Later

\* What an upsert stores: nothing, or the request's code.
LEMMA UpsertIs ==
  ASSUME ATypes, NEW r \in Request, Upsert(r)
  PROVE  LET q == request[r] IN
         /\ q \in Asking /\ q # None /\ q.phase = "ready" /\ q.code \in Code
         /\ UNCHANGED <<newest, redeemed, slow>>
         /\ \A s \in Request \ {r} : request'[s] = request[s]
         /\ \A e \in Email \ {q.email} : login'[e] = login[e]
         /\ withheld' \in {withheld, withheld \ {q.email}}
         /\ \/ login' = login /\ request'[r] = None /\ withheld' = withheld
            \/ /\ login'[q.email] \in Row /\ login'[q.email] # None
               /\ login'[q.email].code = q.code /\ login'[q.email].created = q.at
               /\ request'[r] \in Asking /\ request'[r] # None /\ request'[r].phase = "stored"
               /\ request'[r].code = q.code /\ request'[r].email = q.email /\ request'[r].at = q.at
               /\ login[q.email] # None => MayReissue(login[q.email], q.at)
         /\ login' \in [Email -> Row \cup {None}] /\ request' \in [Request -> Asking \cup {None}]
<1> DEFINE q == request[r]
           row == login[q.email]
           new == IF row = None THEN Issued(q) ELSE Reissued(row, q)
           done == [q EXCEPT !.phase = "stored"]
<1>1. q \in Asking /\ q # None /\ q.phase = "ready" /\ q.email \in Email /\ q.code \in Code
  BY DEF Upsert, ATypes, Drawn, Asking
<1>2. new \in Row /\ new # None /\ new.code = q.code /\ new.created = q.at
  BY <1>1, RowsAre DEF ATypes
<1>3. done \in Asking /\ done.phase = "stored" /\ done.code = q.code /\ done.email = q.email /\ done.at = q.at
  BY <1>1 DEF Asking
<1>4. done # None
  <2> HIDE DEF done
  <2> QED BY <1>3, NoneAssumption
<1>5. UNCHANGED <<newest, redeemed, slow>> /\ withheld' \in {withheld, withheld \ {q.email}}
  BY DEF Upsert
<1>6. CASE row # None /\ ~MayReissue(row, q.at)
  <2>1. request' = [request EXCEPT ![r] = None] /\ login' = login /\ withheld' = withheld
    BY <1>6 DEF Upsert
  <2> QED BY <1>1, <1>5, <2>1 DEF ATypes
<1>7. CASE ~(row # None /\ ~MayReissue(row, q.at))
  <2>1. login' = [login EXCEPT ![q.email] = new] /\ request' = [request EXCEPT ![r] = done]
    BY <1>7 DEF Upsert
  <2> HIDE DEF new, done
  <2> QED BY <1>1, <1>2, <1>3, <1>4, <1>5, <1>7, <2>1 DEF ATypes
<1> QED BY <1>6, <1>7

\* A mail or its refusal: whether it makes the newest mail, a slow one or a withheld code.
LEMMA SendIs ==
  ASSUME ATypes, NEW r \in Request, NEW sent \in BOOLEAN, Send(r, sent)
  PROVE  LET q == request[r] IN
         /\ q \in Asking /\ q # None /\ q.phase = "stored" /\ q.email \in Email /\ q.code \in Code
         /\ UNCHANGED <<login, redeemed>>
         /\ request'[r] = None /\ \A s \in Request \ {r} : request'[s] = request[s]
         /\ request' \in [Request -> Asking \cup {None}] /\ newest' \in [Email -> Code \cup {None}]
         /\ \A e \in Email \ {q.email} : /\ newest'[e] = newest[e] /\ (e \in withheld' <=> e \in withheld)
                                       /\ (e \in slow' <=> e \in slow)
         /\ sent => newest'[q.email] = q.code /\ (q.at > Throttle => q.email \in slow')
         /\ ~sent => /\ newest' = newest /\ slow' = slow
                    /\ IF login[q.email] # None /\ login[q.email].code = q.code
                       THEN q.email \in withheld' ELSE withheld' = withheld
<1> DEFINE q == request[r]
<1>1. q \in Asking /\ q # None /\ q.phase = "stored" /\ q.email \in Email /\ q.code \in Code
  BY DEF Send, ATypes, Drawn, Asking
<1>2. /\ newest' = IF sent THEN [newest EXCEPT ![q.email] = q.code] ELSE newest
      /\ slow' = IF ~sent THEN slow ELSE IF q.at > Throttle THEN slow \cup {q.email} ELSE slow \ {q.email}
      /\ withheld' = IF ~sent /\ login[q.email] # None /\ login[q.email].code = q.code
                     THEN withheld \cup {q.email} ELSE withheld
      /\ request' = [request EXCEPT ![r] = None] /\ UNCHANGED <<login, redeemed>>
  BY DEF Send
<1> HIDE DEF q
<1>3. CASE sent
  BY <1>1, <1>2, <1>3 DEF ATypes, q
<1>4. CASE ~sent
  BY <1>1, <1>2, <1>4 DEF ATypes, q
<1> QED BY <1>3, <1>4 DEF q

\* A drawn code is nowhere else.
LEMMA DrawIs ==
  ASSUME ATypes, NEW r \in Request, ResolveMX(r, TRUE)
  PROVE  LET q == request'[r] IN
         /\ q \in Asking /\ q # None /\ q.phase = "ready" /\ q.code \in Code
         /\ UNCHANGED <<login, newest, withheld, slow>>
         /\ redeemed' = redeemed \ {q.code}
         /\ \A s \in Request \ {r} : request'[s] = request[s] /\ (request[s] # None => request[s].code # q.code)
         /\ request' \in [Request -> Asking \cup {None}]
         /\ \A e \in Email : login[e] # None => login[e].code # q.code
         /\ request[r] # None /\ q.at = request[r].at /\ q.email = request[r].email
         /\ request[r].phase = "checked"
<1>1. request[r] \in Asking /\ request[r] # None /\ request[r].phase = "checked"
  BY DEF ResolveMX, ATypes
<1> DEFINE c == FreshCode
<1>2. /\ c \in Code \ Around
      /\ request' = [request EXCEPT ![r] = [request[r] EXCEPT !.phase = "ready", !.code = c]]
      /\ redeemed' = redeemed \ {c}
  BY DEF ResolveMX, FreshCode
<1> HIDE DEF c
<1> DEFINE q == [request[r] EXCEPT !.phase = "ready", !.code = c]
<1>3. q \in Asking /\ q.phase = "ready" /\ q.code = c /\ q.at = request[r].at /\ q.email = request[r].email
  BY <1>1, <1>2 DEF Asking
<1> HIDE DEF q
<1>4. q # None /\ request'[r] = q /\ request' \in [Request -> Asking \cup {None}]
      /\ \A s \in Request \ {r} : request'[s] = request[s]
  BY <1>2, <1>3, NoneAssumption DEF ATypes, q
<1>5. /\ \A s \in Request : request[s] # None => request[s].code # c
      /\ \A e \in Email : login[e] # None => login[e].code # c
  BY <1>2 DEF Around
<1> QED BY <1>1, <1>2, <1>3, <1>4, <1>5 DEF ResolveMX

-----------------------------------------------------------------------------
(* Codes are redeemed once.                                                 *)

LEMMA IssueKeepsCodes ==
  ASSUME CodesInv, NEW r \in Request, Issue(r)
  PROVE  CodesInv'
<1>1. ATypes /\ CodesApart /\ SingleUse
  BY DEF CodesInv
<1>2. ASSUME CheckSuppression(r) \/ ResolveMX(r, FALSE) PROVE CodesInv'
  <2>1. /\ UNCHANGED <<login, newest, redeemed>>
        /\ request[r] \in Asking /\ request[r].phase \notin {"ready", "stored"}
        /\ \A s \in Request \ {r} : request'[s] = request[s]
        /\ request' \in [Request -> Asking \cup {None}]
        /\ request'[r] # None => request'[r].phase \notin {"ready", "stored"}
    <3>1. request[r] \in Asking /\ request[r].phase \in {"looked", "checked"} /\ UNCHANGED <<login, newest, redeemed>>
      BY <1>1, <1>2 DEF ATypes, CheckSuppression, ResolveMX
    <3>2. request' = [request EXCEPT ![r] = None] \/ request' = [request EXCEPT ![r] = [request[r] EXCEPT !.phase = "checked"]]
      BY <1>2 DEF CheckSuppression, ResolveMX
    <3>3. [request[r] EXCEPT !.phase = "checked"] \in Asking /\ [request[r] EXCEPT !.phase = "checked"].phase = "checked"
      BY <3>1 DEF Asking
    <3> QED BY <1>1, <3>1, <3>2, <3>3 DEF ATypes
  <2>2. \A s \in Request : Drawn(s)' => Drawn(s) /\ request'[s] = request[s]
    BY <2>1 DEF Drawn
  <2> QED BY <1>1, <2>1, <2>2 DEF CodesInv, ATypes, CodesApart, SingleUse
<1>3. ASSUME ResolveMX(r, TRUE) PROVE CodesInv'
  <2>1. LET q == request'[r] IN
        /\ q \in Asking /\ q # None /\ q.phase = "ready" /\ q.code \in Code
        /\ UNCHANGED <<login, newest>>
        /\ redeemed' = redeemed \ {q.code}
        /\ \A s \in Request \ {r} : request'[s] = request[s] /\ (request[s] # None => request[s].code # q.code)
        /\ request' \in [Request -> Asking \cup {None}]
        /\ \A e \in Email : login[e] # None => login[e].code # q.code
    BY <1>1, <1>3, DrawIs
  <2>2. \A s \in Request \ {r} : Drawn(s)' => Drawn(s) /\ request'[s] = request[s] /\ request[s] # None
    BY <2>1 DEF Drawn
  <2>3. ATypes'
    BY <1>1, <2>1, <2>2 DEF ATypes
  <2>4. CodesApart'
    BY <1>1, <2>1, <2>2 DEF CodesApart
  <2> QED BY <1>1, <2>1, <2>3, <2>4 DEF CodesInv, SingleUse
<1>4. CASE Upsert(r)
  <2> DEFINE q == request[r]
  <2>1. /\ q \in Asking /\ q # None /\ q.phase = "ready" /\ q.code \in Code
        /\ UNCHANGED <<newest, redeemed>>
        /\ \A s \in Request \ {r} : request'[s] = request[s]
        /\ \A e \in Email \ {q.email} : login'[e] = login[e]
        /\ \/ login' = login /\ request'[r] = None
           \/ /\ login'[q.email] # None /\ login'[q.email].code = q.code
              /\ request'[r] # None /\ request'[r].phase = "stored" /\ request'[r].code = q.code
        /\ login' \in [Email -> Row \cup {None}] /\ request' \in [Request -> Asking \cup {None}]
    BY <1>1, <1>4, UpsertIs
  <2>2. Drawn(r) /\ q.code \notin redeemed /\ \A e \in Email : login[e] # None => login[e].code # q.code
    BY <1>1, <2>1 DEF Drawn, CodesApart
  <2>3. \A s \in Request : Drawn(s)' => Drawn(s) /\ request'[s].code = request[s].code
    BY <2>1 DEF Drawn
  <2>4. \A s \in Request : Drawn(s)' /\ request'[s].phase = "ready" => s # r /\ request[s].phase = "ready"
    BY <2>1 DEF Drawn
  <2>5. \A e \in Email : login'[e] # None => login'[e] = login[e] \/ (login'[e].code = q.code /\ e = q.email)
    BY <2>1
  <2> HIDE DEF q
  <2>6. ATypes'
    BY <1>1, <2>1, <2>3 DEF ATypes
  <2>7. CodesApart'
    <3>1. \A s \in Request : Drawn(s)' /\ request'[s].phase = "ready" =>
            /\ request'[s].code \notin redeemed'
            /\ \A e \in Email : login'[e] # None => login'[e].code # request'[s].code
      BY <1>1, <2>1, <2>2, <2>3, <2>4, <2>5 DEF CodesApart, q
    <3>2. \A d, e \in Email : login'[d] # None /\ login'[e] # None /\ d # e => login'[d].code # login'[e].code
      BY <1>1, <2>2, <2>5 DEF CodesApart
    <3> QED BY <1>1, <2>1, <2>3, <3>1, <3>2 DEF CodesApart
  <2> QED BY <1>1, <2>1, <2>2, <2>5, <2>6, <2>7 DEF CodesInv, SingleUse
<1>5. ASSUME NEW sent \in BOOLEAN, Send(r, sent) PROVE CodesInv'
  <2> DEFINE q == request[r]
  <2>1. /\ q # None /\ q.phase = "stored" /\ q.email \in Email /\ UNCHANGED <<login, redeemed>>
        /\ request'[r] = None /\ \A s \in Request \ {r} : request'[s] = request[s]
        /\ request' \in [Request -> Asking \cup {None}] /\ newest' \in [Email -> Code \cup {None}]
    BY <1>1, <1>5, SendIs
  <2>2. Drawn(r) /\ \A s \in Request : Drawn(s)' => s # r /\ Drawn(s) /\ request'[s] = request[s]
    BY <2>1 DEF Drawn
  <2> HIDE DEF q
  <2>3. CodesApart'
    BY <1>1, <2>1, <2>2 DEF CodesApart
  <2> QED BY <1>1, <2>1, <2>2, <2>3 DEF CodesInv, ATypes, SingleUse
<1> QED BY <1>2, <1>3, <1>4, <1>5 DEF Issue
LEMMA VerifyWrongIs ==
  ASSUME ATypes, NEW e \in Email, VerifyWrong(e)
  PROVE  /\ login' \in [Email -> Row \cup {None}] /\ UNCHANGED <<request, newest, redeemed, withheld, slow>>
         /\ \A d \in Email : /\ login'[d] # None <=> login[d] # None
                             /\ login[d] # None => login'[d].code = login[d].code
                                                   /\ login'[d].created = login[d].created
<1>1. login[e] \in Row /\ login[e] # None /\ UNCHANGED <<request, newest, redeemed, withheld, slow>>
      /\ login' = [login EXCEPT ![e].attempts = login[e].attempts + 1]
  BY DEF VerifyWrong, Redeemable, ATypes
<1> DEFINE row == [login[e] EXCEPT !.attempts = login[e].attempts + 1]
<1>2. row \in Row /\ row.code = login[e].code /\ row.created = login[e].created
  BY <1>1 DEF Row
<1>3. login' = [login EXCEPT ![e] = row]
  BY <1>1
<1> HIDE DEF row
<1> QED BY <1>1, <1>2, <1>3, NoneAssumption DEF ATypes

LEMMA TickIs ==
  ASSUME ATypes, Tick
  PROVE  /\ login' \in [Email -> Row \cup {None}] /\ request' \in [Request -> Asking \cup {None}]
         /\ UNCHANGED <<newest, redeemed, withheld, slow>>
         /\ \A d \in Email : /\ login'[d] # None <=> login[d] # None
                             /\ login[d] # None => login'[d].code = login[d].code
                                                   /\ login'[d].created = Older(login[d].created)
         /\ \A r \in Request : /\ request'[r] # None <=> request[r] # None
                               /\ request[r] # None =>
                                    /\ request'[r].code = request[r].code /\ request'[r].phase = request[r].phase
                                    /\ request'[r].email = request[r].email
                                    /\ request[r].phase = "ready" => request[r].at < MaxStale
                                    /\ request'[r].at = IF Drawn(r) THEN Later(request[r].at) ELSE request[r].at
<1>1. \A d \in Email : login[d] # None =>
         LET row == [login[d] EXCEPT !.since = Older(@), !.created = Older(@)]
         IN row \in Row /\ row.code = login[d].code /\ row.created = Older(login[d].created)
  BY OlderIs DEF ATypes, Row
<1>2. \A d \in Email : login[d] # None => [login[d] EXCEPT !.since = Older(@), !.created = Older(@)] # None
  BY <1>1, NoneAssumption
<1>3. \A r \in Request : request[r] # None =>
         LET q == [request[r] EXCEPT !.at = Later(@)]
         IN q \in Asking /\ q.code = request[r].code /\ q.phase = request[r].phase
            /\ q.email = request[r].email /\ q.at = Later(request[r].at)
  BY OlderIs DEF ATypes, Asking
<1>4. \A r \in Request : request[r] # None => [request[r] EXCEPT !.at = Later(@)] # None
  BY <1>3, NoneAssumption
<1>5. /\ login' = [e \in Email |-> IF login[e] = None THEN None
                                   ELSE [login[e] EXCEPT !.since = Older(@), !.created = Older(@)]]
      /\ request' = [r \in Request |-> IF request[r] = None \/ request[r].phase \notin {"ready", "stored"}
                                       THEN request[r] ELSE [request[r] EXCEPT !.at = Later(@)]]
      /\ \A r \in Request : request[r] # None /\ request[r].phase = "ready" => request[r].at < MaxStale
      /\ UNCHANGED <<newest, redeemed, withheld, slow>>
  BY DEF Tick
<1>6. \A d \in Email : /\ login'[d] \in Row \cup {None} /\ (login'[d] # None <=> login[d] # None)
                       /\ login[d] # None => login'[d].code = login[d].code
                                             /\ login'[d].created = Older(login[d].created)
  BY <1>1, <1>2, <1>5
<1>7. \A r \in Request : /\ request'[r] \in Asking \cup {None} /\ (request'[r] # None <=> request[r] # None)
                         /\ request[r] # None =>
                              /\ request'[r].code = request[r].code /\ request'[r].phase = request[r].phase
                              /\ request'[r].email = request[r].email
                              /\ request'[r].at = IF Drawn(r) THEN Later(request[r].at) ELSE request[r].at
  BY <1>3, <1>4, <1>5 DEF ATypes, Drawn
<1> QED BY <1>5, <1>6, <1>7

LEMMA VerifyRightIs ==
  ASSUME ATypes, NEW e \in Email, VerifyRight(e)
  PROVE  /\ login[e] # None /\ Mailed(e) /\ redeemed' = redeemed \cup {login[e].code}
         /\ login'[e] = None /\ \A d \in Email \ {e} : login'[d] = login[d]
         /\ login' \in [Email -> Row \cup {None}] /\ UNCHANGED <<request, newest, withheld, slow>>
BY DEF VerifyRight, Redeemable, ATypes

\* A new request has no code.
LEMMA LookIs ==
  ASSUME ATypes, NEW r \in Request, NEW e \in Email, Look(r, e)
  PROVE  /\ request' \in [Request -> Asking \cup {None}] /\ UNCHANGED <<login, newest, redeemed, withheld, slow>>
         /\ request[r] = None /\ request'[r] # None /\ request'[r].phase = "looked" /\ request'[r].at = 0
         /\ \A s \in Request \ {r} : request'[s] = request[s]
<1> DEFINE q == [email |-> e, phase |-> "looked", known |-> e \in account, at |-> 0, code |-> None]
<1>1. q \in Asking /\ q.phase = "looked" /\ q.at = 0
  BY DEF Asking
<1>2. request' = [request EXCEPT ![r] = q] /\ UNCHANGED <<login, newest, redeemed, withheld, slow>>
      /\ request[r] = None
  BY DEF Look
<1> HIDE DEF q
<1> QED BY <1>1, <1>2, NoneAssumption DEF ATypes

LEMMA NextKeepsCodes == CodesInv /\ [ANext]_auth => CodesInv'
<1> SUFFICES ASSUME CodesInv, [ANext]_auth PROVE CodesInv'
  OBVIOUS
<1>1. ATypes /\ CodesApart /\ SingleUse
  BY DEF CodesInv
<1>2. ASSUME UNCHANGED <<login, newest, redeemed>>, request' \in [Request -> Asking \cup {None}],
             \A s \in Request : Drawn(s)' => Drawn(s) /\ request'[s] = request[s]
      PROVE  CodesInv'
  BY <1>1, <1>2 DEF CodesInv, ATypes, CodesApart, SingleUse
<1>3. CASE UNCHANGED auth
  BY <1>1, <1>2, <1>3 DEF auth, Drawn, ATypes
<1>4. ASSUME NEW r \in Request, NEW e \in Email, Look(r, e) PROVE CodesInv'
  <2>1. /\ request' \in [Request -> Asking \cup {None}] /\ UNCHANGED <<login, newest, redeemed, withheld, slow>>
        /\ request'[r].phase = "looked" /\ \A s \in Request \ {r} : request'[s] = request[s]
    BY <1>1, <1>4, LookIs
  <2> QED BY <1>2, <2>1 DEF Drawn
<1>5. ASSUME NEW e \in Email, VerifyWrong(e) PROVE CodesInv'
  <2>1. /\ login' \in [Email -> Row \cup {None}] /\ UNCHANGED <<request, newest, redeemed, withheld, slow>>
        /\ \A d \in Email : /\ login'[d] # None <=> login[d] # None
                            /\ login[d] # None => login'[d].code = login[d].code
    BY <1>1, <1>5, VerifyWrongIs
  <2> QED BY <1>1, <2>1 DEF CodesInv, ATypes, CodesApart, SingleUse, Drawn
<1>6. ASSUME NEW e \in Email, VerifyRight(e) PROVE CodesInv'
  <2>1. /\ login[e] # None /\ redeemed' = redeemed \cup {login[e].code}
        /\ login'[e] = None /\ \A d \in Email \ {e} : login'[d] = login[d]
        /\ login' \in [Email -> Row \cup {None}] /\ UNCHANGED <<request, newest, withheld, slow>>
    BY <1>1, <1>6, VerifyRightIs
  <2>2. \A s \in Request : Drawn(s)' <=> Drawn(s)
    BY <2>1 DEF Drawn
  <2>3. CodesApart'
    BY <1>1, <2>1, <2>2 DEF CodesApart
  <2>4. SingleUse'
    BY <1>1, <2>1 DEF CodesApart, SingleUse
  <2> QED BY <1>1, <2>1, <2>2, <2>3, <2>4 DEF CodesInv, ATypes
<1>7. ASSUME NEW e \in Email, Suppress(e) PROVE CodesInv'
  BY <1>1, <1>2, <1>7 DEF Suppress, Drawn, ATypes
<1>8. CASE Tick
  <2>1. /\ login' \in [Email -> Row \cup {None}] /\ request' \in [Request -> Asking \cup {None}]
        /\ UNCHANGED <<newest, redeemed, withheld, slow>>
        /\ \A d \in Email : /\ login'[d] # None <=> login[d] # None
                            /\ login[d] # None => login'[d].code = login[d].code
        /\ \A r \in Request : /\ request'[r] # None <=> request[r] # None
                              /\ request[r] # None =>
                                    request'[r].code = request[r].code /\ request'[r].phase = request[r].phase
    BY <1>1, <1>8, TickIs
  <2>2. \A s \in Request : /\ Drawn(s)' <=> Drawn(s)
                           /\ Drawn(s) => request'[s].code = request[s].code /\ request'[s].phase = request[s].phase
    BY <2>1 DEF Drawn
  <2>3. CodesApart'
    BY <1>1, <2>1, <2>2 DEF CodesApart
  <2> QED BY <1>1, <2>1, <2>2, <2>3 DEF CodesInv, ATypes, SingleUse
<1> QED BY <1>3, <1>4, <1>5, <1>6, <1>7, <1>8, IssueKeepsCodes DEF ANext

LEMMA CodesInvariant == ASpec => []CodesInv
<1>1. AInit => CodesInv
  BY DEF AInit, CodesInv, ATypes, CodesApart, SingleUse, Drawn
<1>2. CodesInv /\ [ANext]_auth => CodesInv'
  BY NextKeepsCodes
<1> QED BY <1>1, <1>2, PTL DEF ASpec

\* A redeemed code is in no row, whatever requests were on their way meanwhile.
THEOREM CodesAreUsedOnce == ASpec => []SingleUse
<1>1. CodesInv => SingleUse
  BY DEF CodesInv
<1> QED BY <1>1, CodesInvariant, PTL

-----------------------------------------------------------------------------
(* The newest mail.                                                         *)

\* While a request that stored its code is younger than the throttle, the row is as it left it.
InTime ==
  \A r \in Request :
    request[r] # None /\ request[r].phase = "stored" /\ request[r].at <= Throttle =>
      LET row == login[request[r].email]
      IN row # None /\ row.code = request[r].code /\ row.created = request[r].at

\* A request still carries the stored code of an address to its mail.
Carried(e) ==
  \E r \in Request : /\ request[r] # None /\ request[r].phase = "stored" /\ request[r].email = e
                     /\ request[r].code = login[e].code

\* A stored code that is on no request's way was in the newest mail, or withheld, or the
\* newest mail is a late one.
NewestHolds ==
  \A e \in Email \ (withheld \cup slow) :
    login[e] # None /\ ~Carried(e) => newest[e] = login[e].code

NewestInv == InTime /\ NewestHolds

\* The codes and ages that matter, and the mails, are as before.
LEMMA SameKeepsNewest ==
  ASSUME ATypes, NewestInv, UNCHANGED <<newest, withheld, slow>>,
         \A e \in Email : /\ login'[e] # None <=> login[e] # None
                          /\ login[e] # None => /\ login'[e].code = login[e].code
                                                /\ login'[e].created = login[e].created,
         \A r \in Request : request'[r] # None /\ request'[r].phase = "stored" => request'[r] = request[r],
         \A r \in Request : request[r] # None /\ request[r].phase = "stored" => request'[r] = request[r]
  PROVE  NewestInv'
<1>1. \A r \in Request : request[r] # None => request[r].email \in Email
  BY DEF ATypes, Asking
<1>2. \A e \in Email : login[e] # None => (Carried(e)' <=> Carried(e))
  BY DEF Carried
<1>3. InTime'
  BY <1>1 DEF NewestInv, InTime
<1>4. NewestHolds'
  BY <1>2 DEF NewestInv, NewestHolds
<1> QED BY <1>3, <1>4 DEF NewestInv

LEMMA UpsertKeepsNewest ==
  ASSUME ATypes, NewestInv, NEW r \in Request, Upsert(r)
  PROVE  NewestInv'
<1> DEFINE q == request[r]
<1>1. /\ q \in Asking /\ q # None /\ q.phase = "ready" /\ q.code \in Code
      /\ UNCHANGED <<newest, redeemed, slow>>
      /\ \A s \in Request \ {r} : request'[s] = request[s]
      /\ \A e \in Email \ {q.email} : login'[e] = login[e]
      /\ withheld' \in {withheld, withheld \ {q.email}}
      /\ \/ login' = login /\ request'[r] = None /\ withheld' = withheld
         \/ /\ login'[q.email] # None
            /\ login'[q.email].code = q.code /\ login'[q.email].created = q.at
            /\ request'[r] # None /\ request'[r].phase = "stored"
            /\ request'[r].code = q.code /\ request'[r].email = q.email /\ request'[r].at = q.at
            /\ login[q.email] # None => MayReissue(login[q.email], q.at)
  BY UpsertIs
<1>2. q.at \in Nat /\ q.email \in Email /\ Throttle \in Nat
  BY <1>1, AuthAssumption DEF Asking
<1>3. \A s \in Request : request[s] # None => request[s] \in Asking /\ request[s].email \in Email /\ request[s].at \in Nat
  BY DEF ATypes, Asking
<1>4. \A s \in Request : request[s] # None /\ request[s].phase = "stored" => s # r
  BY <1>1
<1> HIDE DEF q
<1>5. CASE login' = login /\ request'[r] = None /\ withheld' = withheld
  <2>1. \A s \in Request : request[s] # None /\ request[s].phase = "stored" => request'[s] = request[s]
    BY <1>1, <1>4
  <2>2. \A s \in Request : request'[s] # None /\ request'[s].phase = "stored" => request'[s] = request[s]
    BY <1>1, <1>5
  <2> QED BY <1>1, <1>5, <2>1, <2>2, SameKeepsNewest
<1>6. CASE ~(login' = login /\ request'[r] = None /\ withheld' = withheld)
  <2>1. ASSUME NEW s \in Request \ {r}, request[s] # None, request[s].phase = "stored", request[s].at <= Throttle
        PROVE  request[s].email # q.email
    <3> SUFFICES ASSUME request[s].email = q.email PROVE FALSE
      OBVIOUS
    <3>1. login[q.email] # None /\ login[q.email].created = request[s].at
      BY <2>1 DEF NewestInv, InTime
    <3>2. login[q.email].created > q.at + Throttle
      BY <1>1, <1>6, <3>1 DEF MayReissue
    <3> QED BY <1>2, <1>3, <2>1, <3>1, <3>2
  <2>2. InTime'
    <3> SUFFICES ASSUME NEW s \in Request, request'[s] # None, request'[s].phase = "stored", request'[s].at <= Throttle
                 PROVE  /\ login'[request'[s].email] # None
                        /\ login'[request'[s].email].code = request'[s].code
                        /\ login'[request'[s].email].created = request'[s].at
      BY DEF InTime
    <3>1. CASE s = r
      BY <1>1, <1>6, <3>1
    <3>2. CASE s # r
      <4>1. request'[s] = request[s]
        BY <1>1, <3>2
      <4>2. request[s].email \in Email /\ request[s].email # q.email
        BY <1>3, <2>1, <3>2, <4>1
      <4> QED BY <1>1, <4>1, <4>2 DEF NewestInv, InTime
    <3> QED BY <3>1, <3>2
  <2>3. PICK a \in Email : a = q.email
    BY <1>2
  <2>4. Carried(a)'
    BY <1>1, <1>6, <2>3 DEF Carried
  <2>5. ASSUME NEW e \in Email \ {q.email}
        PROVE  Carried(e)' <=> Carried(e)
    BY <1>1, <1>4, <1>6 DEF Carried
  <2>6. NewestHolds'
    <3> SUFFICES ASSUME NEW e \in Email \ (withheld' \cup slow'), login'[e] # None, ~Carried(e)'
                 PROVE  newest'[e] = login'[e].code
      BY DEF NewestHolds
    <3>1. e # q.email
      BY <2>3, <2>4
    <3>2. login'[e] = login[e] /\ ~Carried(e) /\ e \in Email \ (withheld \cup slow)
      BY <1>1, <2>5, <3>1
    <3> QED BY <1>1, <3>2 DEF NewestInv, NewestHolds
  <2> QED BY <2>2, <2>6 DEF NewestInv
<1> QED BY <1>5, <1>6

LEMMA SendKeepsNewest ==
  ASSUME ATypes, NewestInv, NEW r \in Request, NEW sent \in BOOLEAN, Send(r, sent)
  PROVE  NewestInv'
<1> DEFINE q == request[r]
<1>1. /\ q \in Asking /\ q # None /\ q.phase = "stored" /\ q.email \in Email /\ q.code \in Code
      /\ UNCHANGED <<login, redeemed>>
      /\ request'[r] = None /\ \A s \in Request \ {r} : request'[s] = request[s]
      /\ \A e \in Email \ {q.email} : /\ newest'[e] = newest[e] /\ (e \in withheld' <=> e \in withheld)
                                      /\ (e \in slow' <=> e \in slow)
      /\ sent => newest'[q.email] = q.code /\ (q.at > Throttle => q.email \in slow')
      /\ ~sent => /\ newest' = newest /\ slow' = slow
                  /\ IF login[q.email] # None /\ login[q.email].code = q.code
                     THEN q.email \in withheld' ELSE withheld' = withheld
  BY SendIs
<1>2. q.at \in Nat /\ Throttle \in Nat
  BY <1>1, AuthAssumption DEF Asking
<1>3. InTime'
  BY <1>1 DEF NewestInv, InTime
<1>4. q.at <= Throttle => login[q.email] # None /\ login[q.email].code = q.code
  BY <1>1 DEF NewestInv, InTime
<1>5. ASSUME NEW e \in Email, e # q.email \/ login[e].code # q.code
      PROVE  Carried(e)' <=> Carried(e)
  BY <1>1, <1>5 DEF Carried
<1> HIDE DEF q
<1>6. NewestHolds'
  <2> SUFFICES ASSUME NEW e \in Email, e \notin withheld', e \notin slow', login'[e] # None, ~Carried(e)'
               PROVE  newest'[e] = login'[e].code
    BY DEF NewestHolds
  <2>1. CASE e # q.email
    BY <1>1, <1>5, <2>1 DEF NewestInv, NewestHolds
  <2>2. CASE e = q.email /\ sent
    BY <1>1, <1>2, <1>4, <2>2
  <2>3. CASE e = q.email /\ ~sent
    <3>1. login[e].code # q.code /\ newest' = newest /\ slow' = slow /\ withheld' = withheld
      BY <1>1, <2>3
    <3>2. ~Carried(e)
      BY <1>5, <3>1
    <3> QED BY <1>1, <3>1, <3>2 DEF NewestInv, NewestHolds
  <2> QED BY <2>1, <2>2, <2>3
<1> QED BY <1>3, <1>6 DEF NewestInv

LEMMA NextKeepsNewest == ATypes /\ NewestInv /\ [ANext]_auth => NewestInv'
<1> SUFFICES ASSUME ATypes, NewestInv, [ANext]_auth PROVE NewestInv'
  OBVIOUS
<1>1. InTime /\ NewestHolds
  BY DEF NewestInv
<1>2. ASSUME UNCHANGED <<login, newest, withheld, slow>>, NEW r \in Request,
             request[r] # None => request[r].phase # "stored",
             \A s \in Request \ {r} : request'[s] = request[s],
             request'[r] # None => request'[r].phase # "stored"
      PROVE  NewestInv'
  <2>1. \A s \in Request : request[s] # None /\ request[s].phase = "stored" => request'[s] = request[s]
    BY <1>2
  <2>2. \A s \in Request : request'[s] # None /\ request'[s].phase = "stored" => request'[s] = request[s]
    BY <1>2
  <2> QED BY <1>2, <2>1, <2>2, SameKeepsNewest
<1>3. CASE UNCHANGED auth
  BY <1>3, SameKeepsNewest DEF auth
<1>4. ASSUME NEW r \in Request, NEW e \in Email, Look(r, e) PROVE NewestInv'
  <2>1. /\ UNCHANGED <<login, newest, redeemed, withheld, slow>>
        /\ request[r] = None /\ request'[r].phase = "looked"
        /\ \A s \in Request \ {r} : request'[s] = request[s]
    BY <1>4, LookIs
  <2> QED BY <1>2, <2>1
<1>5. ASSUME NEW r \in Request, CheckSuppression(r) \/ ResolveMX(r, FALSE) PROVE NewestInv'
  <2>1. /\ request[r] \in Asking /\ request[r] # None /\ request[r].phase \in {"looked", "checked"}
        /\ UNCHANGED <<login, newest, withheld, slow>>
    BY <1>5 DEF ATypes, CheckSuppression, ResolveMX
  <2>2. request' = [request EXCEPT ![r] = None] \/ request' = [request EXCEPT ![r] = [request[r] EXCEPT !.phase = "checked"]]
    BY <1>5 DEF CheckSuppression, ResolveMX
  <2>3. [request[r] EXCEPT !.phase = "checked"].phase = "checked"
    BY <2>1 DEF Asking
  <2>4. /\ \A s \in Request \ {r} : request'[s] = request[s]
        /\ request'[r] # None => request'[r].phase = "checked"
    BY <2>2, <2>3 DEF ATypes
  <2> QED BY <1>2, <2>1, <2>4
<1>6. ASSUME NEW r \in Request, ResolveMX(r, TRUE) PROVE NewestInv'
  <2>1. /\ request'[r] # None /\ request'[r].phase = "ready" /\ UNCHANGED <<login, newest, withheld, slow>>
        /\ \A s \in Request \ {r} : request'[s] = request[s]
        /\ request[r] # None /\ request[r].phase = "checked"
    BY <1>6, DrawIs
  <2> QED BY <1>2, <2>1
<1>7. ASSUME NEW e \in Email, VerifyWrong(e) PROVE NewestInv'
  BY <1>7, VerifyWrongIs, SameKeepsNewest
<1>8. ASSUME NEW e \in Email, VerifyRight(e) PROVE NewestInv'
  <2>1. /\ login[e] # None /\ Mailed(e)
        /\ login'[e] = None /\ \A d \in Email \ {e} : login'[d] = login[d]
        /\ UNCHANGED <<request, newest, withheld, slow>>
    BY <1>8, VerifyRightIs
  <2>2. InTime'
    <3> SUFFICES ASSUME NEW r \in Request, request[r] # None, request[r].phase = "stored", request[r].at <= Throttle
                 PROVE  /\ login'[request[r].email] # None
                        /\ login'[request[r].email].code = request[r].code
                        /\ login'[request[r].email].created = request[r].at
      BY <2>1 DEF InTime
    <3>1. /\ login[request[r].email] # None
          /\ login[request[r].email].code = request[r].code
          /\ login[request[r].email].created = request[r].at
      BY <1>1 DEF InTime
    <3>2. request[r].email \in Email
      BY DEF ATypes, Asking
    <3>3. request[r].email # e
      BY <2>1, <3>1 DEF Mailed
    <3> QED BY <2>1, <3>1, <3>2, <3>3
  <2>3. \A d \in Email \ {e} : Carried(d)' <=> Carried(d)
    BY <2>1 DEF Carried
  <2>4. NewestHolds'
    BY <1>1, <2>1, <2>3 DEF NewestHolds
  <2> QED BY <2>2, <2>4 DEF NewestInv
<1>9. ASSUME NEW e \in Email, Suppress(e) PROVE NewestInv'
  BY <1>9, SameKeepsNewest DEF Suppress
<1>10. CASE Tick
  <2>1. /\ UNCHANGED <<newest, redeemed, withheld, slow>>
        /\ \A d \in Email : /\ login'[d] # None <=> login[d] # None
                            /\ login[d] # None => login'[d].code = login[d].code
                                                  /\ login'[d].created = Older(login[d].created)
        /\ \A r \in Request : /\ request'[r] # None <=> request[r] # None
                              /\ request[r] # None =>
                                   /\ request'[r].code = request[r].code /\ request'[r].phase = request[r].phase
                                   /\ request'[r].email = request[r].email
                                   /\ request'[r].at = IF Drawn(r) THEN Later(request[r].at) ELSE request[r].at
    BY <1>10, TickIs
  <2>2. ASSUME NEW n \in Nat, Later(n) <= Throttle PROVE n <= Throttle /\ Older(n) = Later(n)
    BY <2>2, AuthAssumption DEF Later, Older, Horizon
  <2>3. \A r \in Request : request[r] # None => request[r].email \in Email /\ request[r].at \in Nat
    BY DEF ATypes, Asking
  <2>4. InTime'
    <3> SUFFICES ASSUME NEW r \in Request, request'[r] # None, request'[r].phase = "stored", request'[r].at <= Throttle
                 PROVE  /\ login'[request'[r].email] # None
                        /\ login'[request'[r].email].code = request'[r].code
                        /\ login'[request'[r].email].created = request'[r].at
      BY DEF InTime
    <3>1. /\ request[r] # None /\ request[r].phase = "stored" /\ request'[r].at = Later(request[r].at)
          /\ request'[r].email = request[r].email /\ request'[r].code = request[r].code
      BY <2>1 DEF Drawn
    <3>2. request[r].at \in Nat /\ request[r].at <= Throttle /\ Older(request[r].at) = Later(request[r].at)
      BY <2>2, <2>3, <3>1
    <3>3. /\ login[request[r].email] # None
          /\ login[request[r].email].code = request[r].code
          /\ login[request[r].email].created = request[r].at
      BY <1>1, <3>1, <3>2 DEF InTime
    <3> QED BY <2>1, <2>3, <3>1, <3>2, <3>3
  <2>5. \A d \in Email : login[d] # None => (Carried(d)' <=> Carried(d))
    BY <2>1 DEF Carried
  <2>6. NewestHolds'
    BY <1>1, <2>1, <2>5 DEF NewestHolds
  <2> QED BY <2>4, <2>6 DEF NewestInv
<1> QED BY <1>3, <1>4, <1>5, <1>6, <1>7, <1>8, <1>9, <1>10, UpsertKeepsNewest, SendKeepsNewest
           DEF ANext, Issue

\* However long mails take: the code VerifyCode accepts for an address nothing is being
\* issued for is the one in its most recent mail, unless it was withheld or that mail took
\* longer than the throttle (RequestCode, SendCode; login.go:97).
THEOREM NewestMailHoldsTheCode == ASpec => []NewestMailMatches
<1>1. AInit => NewestInv
  BY DEF AInit, NewestInv, InTime, NewestHolds
<1>2. NewestInv => NewestMailMatches
  <2> SUFFICES ASSUME NewestInv, NEW e \in Email \ (withheld \cup slow), Settled(e), Redeemable(e)
               PROVE  newest[e] = login[e].code
    BY DEF NewestMailMatches
  <2>1. login[e] # None /\ ~Carried(e)
    BY DEF Redeemable, Settled, Carried
  <2> QED BY <2>1 DEF NewestInv, NewestHolds
<1>3. CodesInv => ATypes
  BY DEF CodesInv
<1> QED BY <1>1, <1>2, <1>3, CodesInvariant, NextKeepsNewest, PTL DEF ASpec

-----------------------------------------------------------------------------
(* The guesses of a recovery window.                                        *)

\* A row and the wrong guesses of its address: those of the last Recovery ticks count
\* against this budget or the one before it, and against this one alone once it is older
\* than that.
Within(row, w) ==
  /\ w \in [0 .. Budgeted -> Nat]
  /\ row = None => \A n \in 0 .. Budgeted : w[n] = 0
  /\ row # None =>
       /\ row.attempts \in 0 .. MaxAttempts
       /\ \A n \in 0 .. Budgeted :
            /\ w[n] <= row.attempts + MaxAttempts
            /\ n + MaxStale < row.since => w[n] <= row.attempts

GuessesWithin ==
  /\ wrong \in [Email -> [0 .. Budgeted -> Nat]]
  /\ \A e \in Email : Within(login[e], wrong[e])

\* No request's time is older than the bound until it has stored its code.
Punctual ==
  \A r \in Request :
    request[r] # None /\ request[r].phase # "stored" => request[r].at \in 0 .. MaxStale

BudgetInv == Punctual /\ GuessesWithin

LEMMA Bounds ==
  /\ MaxAttempts \in Nat /\ MaxStale \in Nat /\ Recovery \in Nat
  /\ Budgeted \in Int /\ Budgeted + MaxStale = Recovery
  /\ \A n \in 0 .. Budgeted : n \in Nat
BY AuthAssumption DEF Budgeted

LEMMA FirstRowWithin ==
  ASSUME NEW w, Within(None, w), NEW row \in Row, row # None, row.attempts = 0
  PROVE  Within(row, w)
BY Bounds DEF Within, Row

LEMMA CarriedWithin ==
  ASSUME NEW w, NEW row \in Row, row # None, Within(row, w), NEW new \in Row, new # None,
         new.attempts = row.attempts, new.since = row.since
  PROVE  Within(new, w)
BY DEF Within

\* What a decay leaves of the old budget is past the window of the new one.
LEMMA DecayedWithin ==
  ASSUME NEW w, NEW row \in Row, row # None, Within(row, w), NEW at \in 0 .. MaxStale, Decayed(row, at),
         NEW new \in Row, new # None, new.attempts = 0, new.since = at
  PROVE  Within(new, w)
<1>1. row.since \in Nat /\ row.since > at + Recovery /\ row.attempts \in Nat /\ at \in Nat /\ at <= MaxStale
  BY Bounds DEF Decayed, Row
<1>2. ASSUME NEW n \in 0 .. Budgeted
      PROVE  /\ w[n] <= new.attempts + MaxAttempts
             /\ n + MaxStale < new.since => w[n] <= new.attempts
  <2>1. n \in Nat /\ n + MaxStale <= Recovery
    BY Bounds
  <2>2. n + MaxStale < row.since
    BY <1>1, <2>1, Bounds
  <2>3. w[n] \in Nat /\ w[n] <= row.attempts /\ row.attempts <= MaxAttempts
    BY <2>2 DEF Within
  <2>4. ~(n + MaxStale < new.since)
    BY <1>1, <2>1, Bounds
  <2> QED BY <1>1, <2>3, <2>4, Bounds
<1> QED BY <1>2, Bounds DEF Within

LEMMA GuessedWithin ==
  ASSUME NEW w, NEW row \in Row, row # None, Within(row, w), row.attempts < MaxAttempts,
         NEW new \in Row, new # None, new.attempts = row.attempts + 1, new.since = row.since
  PROVE  Within(new, OneMore(w, 0))
<1>1. w \in [0 .. Budgeted -> Nat] /\ row.attempts \in Nat /\ row.since \in Nat
  BY DEF Within, Row
<1> DEFINE v == OneMore(w, 0)
<1>2. v = [n \in 0 .. Budgeted |-> w[n] + 1]
  BY <1>1, Bounds DEF OneMore
<1> HIDE DEF v
<1>3. v \in [0 .. Budgeted -> Nat]
  BY <1>1, <1>2
<1>4. new.attempts <= MaxAttempts
  BY <1>1, Bounds
<1>5. ASSUME NEW n \in 0 .. Budgeted
      PROVE  v[n] <= new.attempts + MaxAttempts /\ (n + MaxStale < new.since => v[n] <= new.attempts)
  <2>1. /\ w[n] \in Nat /\ w[n] <= row.attempts + MaxAttempts
        /\ n + MaxStale < row.since => w[n] <= row.attempts
    BY <1>1 DEF Within
  <2>2. v[n] = w[n] + 1
    BY <1>2
  <2> QED BY <1>1, <2>1, <2>2, Bounds
<1>6. Within(new, v)
  BY <1>3, <1>4, <1>5 DEF Within
<1> QED BY <1>6 DEF v

LEMMA TickWithin ==
  ASSUME NEW w, NEW row \in Row \cup {None}, Within(row, w),
         NEW new \in Row \cup {None}, new = None <=> row = None,
         row # None => new.attempts = row.attempts /\ new.since = Older(row.since)
  PROVE  Within(new, TickLater(w))
<1>1. w \in [0 .. Budgeted -> Nat]
  BY DEF Within
<1> DEFINE v == TickLater(w)
<1>2. v = [n \in 0 .. Budgeted |-> IF n = 0 THEN 0 ELSE w[n - 1]]
  BY <1>1 DEF TickLater
<1> HIDE DEF v
<1>3. \A n \in 0 .. Budgeted : n # 0 => n - 1 \in 0 .. Budgeted
  BY Bounds
<1>4. v \in [0 .. Budgeted -> Nat]
  BY <1>1, <1>2, <1>3
<1>5. CASE row = None
  <2>1. \A n \in 0 .. Budgeted : w[n] = 0
    BY <1>5 DEF Within
  <2>2. \A n \in 0 .. Budgeted : v[n] = 0
    BY <1>2, <1>3, <2>1
  <2>3. new = None
    BY <1>5
  <2> QED BY <1>4, <2>2, <2>3 DEF Within, v
<1>6. CASE row # None
  <2>1. /\ row.attempts \in Nat /\ row.since \in Nat /\ new # None /\ row.attempts <= MaxAttempts
        /\ new.attempts = row.attempts /\ new.since \in Nat /\ new.since <= row.since + 1
    BY <1>6 DEF Within, Row, Older
  <2>2. ASSUME NEW n \in 0 .. Budgeted
        PROVE  v[n] <= new.attempts + MaxAttempts /\ (n + MaxStale < new.since => v[n] <= new.attempts)
    <3>1. CASE n = 0
      BY <1>2, <2>1, <3>1, Bounds
    <3>2. CASE n # 0
      <4>1. n - 1 \in 0 .. Budgeted /\ v[n] = w[n - 1]
        BY <1>2, <1>3, <3>2
      <4>2. /\ w[n - 1] <= row.attempts + MaxAttempts
            /\ (n - 1) + MaxStale < row.since => w[n - 1] <= row.attempts
        BY <1>6, <4>1 DEF Within
      <4>3. n + MaxStale < new.since => (n - 1) + MaxStale < row.since
        BY <2>1, Bounds
      <4> QED BY <2>1, <4>1, <4>2, <4>3
    <3> QED BY <3>1, <3>2
  <2>3. Within(new, v)
    BY <1>4, <2>1, <2>2 DEF Within
  <2> QED BY <2>3 DEF v
<1> QED BY <1>5, <1>6

LEMMA UpsertKeepsBudget ==
  ASSUME ATypes, BudgetInv, NEW r \in Request, Upsert(r)
  PROVE  BudgetInv'
<1> DEFINE q   == request[r]
           row == login[q.email]
           new == IF row = None THEN Issued(q) ELSE Reissued(row, q)
<1>1. /\ q \in Asking /\ q # None /\ q.email \in Email /\ q.code \in Code /\ wrong' = wrong
      /\ q.at \in 0 .. MaxStale
      /\ \A s \in Request \ {r} : request'[s] = request[s]
      /\ request'[r] # None => request'[r].phase = "stored"
  BY UpsertIs DEF Asking, BudgetInv, Punctual, Upsert
<1>2. Punctual'
  BY <1>1 DEF BudgetInv, Punctual
<1>3. \A e \in Email : Within(login[e], wrong[e])
  BY DEF BudgetInv, GuessesWithin
<1>4. CASE login' = login
  BY <1>1, <1>2, <1>3, <1>4 DEF BudgetInv, GuessesWithin
<1>5. CASE login' # login
  <2>1. login' = [login EXCEPT ![q.email] = new]
    BY <1>5 DEF Upsert
  <2>2. new \in Row /\ new # None /\ row \in Row \cup {None}
    BY <1>1, RowsAre DEF ATypes
  <2>3. Within(new, wrong[q.email])
    <3>1. CASE row = None
      <4>1. new.attempts = 0
        BY <3>1 DEF Issued
      <4> QED BY <1>1, <1>3, <2>2, <3>1, <4>1, FirstRowWithin
    <3>2. CASE row # None /\ Decayed(row, q.at)
      <4>1. new.attempts = 0 /\ new.since = q.at
        BY <3>2 DEF Reissued
      <4> HIDE DEF new
      <4> QED BY <1>1, <1>3, <2>2, <3>2, <4>1, DecayedWithin
    <3>3. CASE row # None /\ ~Decayed(row, q.at)
      <4>1. new.attempts = row.attempts /\ new.since = row.since
        BY <3>3 DEF Reissued
      <4> HIDE DEF new
      <4> QED BY <1>1, <1>3, <2>2, <3>3, <4>1, CarriedWithin
    <3> QED BY <3>1, <3>2, <3>3
  <2> HIDE DEF new
  <2>4. \A e \in Email : Within(login'[e], wrong'[e])
    BY <1>1, <1>3, <2>1, <2>3 DEF ATypes
  <2>5. wrong' \in [Email -> [0 .. Budgeted -> Nat]]
    BY <1>1 DEF BudgetInv, GuessesWithin
  <2> QED BY <1>2, <2>4, <2>5 DEF BudgetInv, GuessesWithin, Within
<1> QED BY <1>4, <1>5

LEMMA NextKeepsBudget == ATypes /\ BudgetInv /\ [ANext]_auth => BudgetInv'
<1> SUFFICES ASSUME ATypes, BudgetInv, [ANext]_auth PROVE BudgetInv'
  OBVIOUS
<1>1. /\ Punctual /\ \A e \in Email : Within(login[e], wrong[e])
      /\ wrong \in [Email -> [0 .. Budgeted -> Nat]]
  BY DEF BudgetInv, GuessesWithin
<1>2. ASSUME UNCHANGED <<login, wrong>>, Punctual' PROVE BudgetInv'
  BY <1>1, <1>2 DEF BudgetInv, GuessesWithin, Within
<1>3. ASSUME UNCHANGED request, NEW e \in Email, Within(login'[e], wrong'[e]),
             NEW w, wrong' = [wrong EXCEPT ![e] = w],
             \A d \in Email \ {e} : login'[d] = login[d]
      PROVE  BudgetInv'
  <2>1. \A d \in Email : Within(login'[d], wrong'[d])
    BY <1>1, <1>3
  <2>2. Punctual'
    BY <1>1, <1>3 DEF Punctual
  <2>3. w \in [0 .. Budgeted -> Nat]
    BY <1>1, <1>3 DEF Within
  <2>4. wrong' \in [Email -> [0 .. Budgeted -> Nat]]
    BY <1>1, <1>3, <2>3
  <2> QED BY <2>1, <2>2, <2>4 DEF BudgetInv, GuessesWithin, Within
<1>4. CASE UNCHANGED auth
  BY <1>1, <1>2, <1>4 DEF auth, Punctual
<1>5. ASSUME NEW r \in Request, NEW e \in Email, Look(r, e) PROVE BudgetInv'
  <2>1. request'[r].at = 0 /\ \A s \in Request \ {r} : request'[s] = request[s]
    BY <1>5, LookIs
  <2>2. Punctual'
    BY <1>1, <2>1, Bounds DEF Punctual
  <2> QED BY <1>2, <1>5, <2>2 DEF Look
<1>6. ASSUME NEW r \in Request, Issue(r) PROVE BudgetInv'
  <2>1. CASE Upsert(r)
    BY <2>1, UpsertKeepsBudget
  <2>2. CASE ~Upsert(r)
    <3>1. UNCHANGED <<login, wrong>>
      BY <1>6, <2>2 DEF Issue, CheckSuppression, ResolveMX, Send
    <3>2. /\ \A s \in Request \ {r} : request'[s] = request[s]
          /\ request[r] # None
          /\ request'[r] # None => request'[r].at = request[r].at /\ request[r].phase # "stored"
      <4>1. CASE CheckSuppression(r) \/ ResolveMX(r, FALSE)
        <5>1. request[r] \in Asking /\ request[r] # None /\ request[r].phase # "stored"
          BY <4>1 DEF CheckSuppression, ResolveMX, ATypes
        <5>2. request' = [request EXCEPT ![r] = None] \/ request' = [request EXCEPT ![r] = [request[r] EXCEPT !.phase = "checked"]]
          BY <4>1 DEF CheckSuppression, ResolveMX
        <5>3. [request[r] EXCEPT !.phase = "checked"].at = request[r].at
          BY <5>1 DEF Asking
        <5> QED BY <5>1, <5>2, <5>3 DEF ATypes
      <4>2. CASE ResolveMX(r, TRUE)
        BY <4>2, DrawIs
      <4>3. CASE Send(r, TRUE) \/ Send(r, FALSE)
        BY <4>3, SendIs
      <4> QED BY <1>6, <2>2, <4>1, <4>2, <4>3 DEF Issue
    <3>3. Punctual'
      BY <1>1, <3>2 DEF Punctual
    <3> QED BY <1>2, <3>1, <3>3
  <2> QED BY <2>1, <2>2
<1>7. ASSUME NEW e \in Email, VerifyWrong(e) PROVE BudgetInv'
  <2> DEFINE new == [login[e] EXCEPT !.attempts = login[e].attempts + 1]
  <2>1. /\ login[e] \in Row /\ login[e] # None /\ login[e].attempts < MaxAttempts
        /\ login' = [login EXCEPT ![e] = new] /\ UNCHANGED request
        /\ wrong' = [wrong EXCEPT ![e] = OneMore(wrong[e], 0)]
    BY <1>7 DEF VerifyWrong, Redeemable, ATypes
  <2>2. new \in Row /\ new.attempts = login[e].attempts + 1 /\ new.since = login[e].since
    BY <2>1 DEF Row
  <2> HIDE DEF new
  <2>3. new # None
    BY <2>2, NoneAssumption
  <2>4. Within(new, OneMore(wrong[e], 0))
    BY <1>1, <2>1, <2>2, <2>3, GuessedWithin
  <2>5. /\ wrong'[e] = OneMore(wrong[e], 0) /\ login'[e] = new
        /\ \A d \in Email \ {e} : login'[d] = login[d]
    BY <1>1, <2>1 DEF ATypes
  <2>6. Within(login'[e], wrong'[e])
    BY <2>4, <2>5
  <2> QED BY <1>3, <2>1, <2>5, <2>6
<1>8. ASSUME NEW e \in Email, VerifyRight(e) PROVE BudgetInv'
  <2>1. /\ login' = [login EXCEPT ![e] = None] /\ wrong' = [wrong EXCEPT ![e] = NoneUpTo(Budgeted)]
        /\ UNCHANGED request
    BY <1>8 DEF VerifyRight
  <2>2. Within(None, NoneUpTo(Budgeted))
    BY DEF Within, NoneUpTo
  <2>3. /\ wrong'[e] = NoneUpTo(Budgeted) /\ login'[e] = None
        /\ \A d \in Email \ {e} : login'[d] = login[d]
    BY <1>1, <2>1 DEF ATypes
  <2>4. Within(login'[e], wrong'[e])
    BY <2>2, <2>3
  <2> QED BY <1>3, <2>1, <2>3, <2>4
<1>9. ASSUME NEW e \in Email, Suppress(e) PROVE BudgetInv'
  BY <1>1, <1>2, <1>9 DEF Suppress, Punctual
<1>10. CASE Tick
  <2>1. /\ \A r \in Request : request[r] # None /\ request[r].phase = "ready" => request[r].at < MaxStale
        /\ \A r \in Request : /\ request'[r] # None <=> request[r] # None
                              /\ request[r] # None =>
                                   /\ request'[r].phase = request[r].phase
                                   /\ request'[r].at = IF Drawn(r) THEN Later(request[r].at) ELSE request[r].at
        /\ login' \in [Email -> Row \cup {None}]
        /\ \A d \in Email : login'[d] # None <=> login[d] # None
    BY <1>10, TickIs
  <2>2. Punctual'
    <3>1. \A n \in 0 .. MaxStale : n < MaxStale => Later(n) \in 0 .. MaxStale
      BY Bounds DEF Later
    <3> QED BY <1>1, <2>1, <3>1 DEF Punctual, Drawn
  <2>3. ASSUME NEW e \in Email
        PROVE  Within(login'[e], wrong'[e])
    <3>1. /\ login[e] \in Row \cup {None} /\ login'[e] \in Row \cup {None}
          /\ wrong'[e] = TickLater(wrong[e]) /\ (login'[e] = None <=> login[e] = None)
      BY <1>10, <2>1 DEF ATypes, Tick
    <3>2. login[e] # None => login'[e].attempts = login[e].attempts /\ login'[e].since = Older(login[e].since)
      BY <1>10, <3>1 DEF Tick, Row
    <3> QED BY <1>1, <3>1, <3>2, TickWithin
  <2>4. wrong' = [e \in Email |-> TickLater(wrong[e])] /\ \A e \in Email : wrong'[e] \in [0 .. Budgeted -> Nat]
    BY <1>10, <2>3 DEF Tick, Within
  <2>5. wrong' \in [Email -> [0 .. Budgeted -> Nat]]
    BY <2>4
  <2> QED BY <2>2, <2>3, <2>5 DEF BudgetInv, GuessesWithin, Within
<1> QED BY <1>4, <1>5, <1>6, <1>7, <1>8, <1>9, <1>10 DEF ANext

\* A row counts every wrong guess younger than its budget, up to how late an upsert may come;
\* over any recovery window, less how late an upsert may come, an address gets at most two
\* budgets of wrong guesses, however often its code is issued anew (ADR 0001; attempts
\* and attempts_since of login_code).
THEOREM GuessesAreBounded == ASpec => []WindowBudget
<1>1. AInit => BudgetInv
  <2> SUFFICES ASSUME AInit PROVE BudgetInv
    OBVIOUS
  <2>1. Within(None, NoneUpTo(Budgeted))
    BY DEF Within, NoneUpTo
  <2>2. \A e \in Email : login[e] = None /\ wrong[e] = NoneUpTo(Budgeted)
    BY DEF AInit
  <2>3. wrong \in [Email -> [0 .. Budgeted -> Nat]]
    BY DEF AInit, NoneUpTo
  <2> QED BY <2>1, <2>2, <2>3 DEF AInit, BudgetInv, Punctual, GuessesWithin
<1>2. BudgetInv => WindowBudget
  <2> SUFFICES ASSUME BudgetInv, NEW e \in Email, NEW n \in 0 .. Budgeted
               PROVE  /\ wrong[e][n] <= 2 * MaxAttempts
                      /\ login[e] # None /\ n + MaxStale < login[e].since => wrong[e][n] <= login[e].attempts
    BY DEF WindowBudget
  <2>1. Within(login[e], wrong[e])
    BY DEF BudgetInv, GuessesWithin
  <2>2. CASE login[e] = None
    BY <2>1, <2>2, Bounds DEF Within
  <2>3. CASE login[e] # None
    <3>1. /\ wrong[e] \in [0 .. Budgeted -> Nat] /\ login[e].attempts \in 0 .. MaxAttempts
          /\ wrong[e][n] <= login[e].attempts + MaxAttempts
          /\ n + MaxStale < login[e].since => wrong[e][n] <= login[e].attempts
      BY <2>1, <2>3 DEF Within
    <3>2. wrong[e][n] \in Nat /\ wrong[e][n] <= 2 * MaxAttempts
      BY <3>1, Bounds
    <3> QED BY <3>1, <3>2
  <2> QED BY <2>2, <2>3
<1>3. CodesInv => ATypes
  BY DEF CodesInv
<1> QED BY <1>1, <1>2, <1>3, CodesInvariant, NextKeepsBudget, PTL DEF ASpec
=============================================================================
