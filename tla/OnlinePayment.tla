--------------------------- MODULE OnlinePayment ---------------------------
(***************************************************************************)
(* Paying an order through a gateway: startOnlinePayment, registerCallback *)
(* and verify of payments.service.ts, with the callback and verify routes  *)
(* of payments.controller.ts and the gateway as zarinpal.provider.ts and   *)
(* mock.provider.ts use it.                                                *)
(*                                                                         *)
(* An attempt is identified by its idempotency key, a gateway session by   *)
(* its authority.  The payer, the gateway's callback and the result page   *)
(* act on their own, in any order and as often as they like.               *)
(***************************************************************************)
EXTENDS OrderPayment

CONSTANT Authority

ASSUME OnlinePaymentAssumption == None \notin Authority

VARIABLES
    authority,   \* PaymentAttempt.authority
    overdue,     \* attempts whose expiresAt has passed
    session,     \* at the gateway: what became of an authority
    issued       \* the authority a handler got from the gateway

onlineVars == <<authority, overdue, session, issued>>
vars == <<paymentVars, onlineVars>>

TypeOK ==
    /\ PaymentTypeOK
    /\ authority \in [Attempt -> Authority \union {None}]
    /\ overdue \subseteq Attempt
    /\ session \in [Authority -> {"none", "issued", "open", "captured", "refused"}]
    /\ issued \in [Handler -> Authority \union {None}]
    /\ pc \in [Handler -> {"idle", "placed", "cancel", "edit", "edited",
                           "create", "poll", "again", "request", "redirect", "store", "unrequested",
                           "callback", "callbackAgain", "recheck",
                           "verify", "expire", "mark", "ask", "refuse",
                           "settle", "reserved", "consume", "book", "record", "publish", "finalized"}]

Init ==
    /\ PaymentInit
    /\ authority = [a \in Attempt |-> None]
    /\ overdue = {}
    /\ session = [x \in Authority |-> "none"]
    /\ issued = [h \in Handler |-> None]

-----------------------------------------------------------------------------
(* startOnlinePayment. *)

Redirectable(a) == attState[a] = "REDIRECTED" /\ authority[a] # None

\* The attempt of this key, if any, is continued; a paid order is refused.
\* Nothing looks at the order's status.
Start(h, o, a) ==
    /\ status[o] # "NONE" /\ attOrder[a] \in {None, o}
    /\ Redirectable(a) \/ payStatus[o] # "PAID"
    /\ Begin(h, IF Redirectable(a) THEN "again" ELSE "create", o, a)
    /\ UNCHANGED <<orderVars, attOrder, attState, effectVars, onlineVars>>

\* The unique key lets one of two clicks create the attempt.
Create(h) ==
    LET a == work[h] IN
    /\ pc[h] = "create"
    /\ IF attState[a] = "NONE"
       THEN /\ SetState(a, "CREATED")
            /\ attOrder' = [attOrder EXCEPT ![a] = ord[h]]
            /\ Goto(h, "request")
       ELSE Goto(h, "poll") /\ UNCHANGED <<attState, attOrder>>
    /\ UNCHANGED <<orderVars, effectVars, onlineVars>>

\* The loser waits a while for the winner's redirect.
Poll(h) ==
    /\ pc[h] = "poll"
    /\ IF Redirectable(work[h]) THEN Goto(h, "again") ELSE Return(h)
    /\ UNCHANGED <<orderVars, attOrder, attState, effectVars, onlineVars>>

\* Continuing asks the gateway for another session; the redirect with its
\* authority goes to the client and nowhere else.
RequestAgain(h) ==
    /\ pc[h] = "again"
    /\ \/ \E x \in Authority :
            /\ session[x] = "none"
            /\ session' = [session EXCEPT ![x] = "open"]
       \/ UNCHANGED session
    /\ Return(h)
    /\ UNCHANGED <<orderVars, attOrder, attState, effectVars, authority, overdue, issued>>

Request(h) ==
    /\ pc[h] = "request"
    /\ \/ /\ \E x \in Authority :
               /\ session[x] = "none"
               /\ session' = [session EXCEPT ![x] = "issued"]
               /\ issued' = [issued EXCEPT ![h] = x]
          /\ Goto(h, "redirect")
       \/ Goto(h, "unrequested") /\ UNCHANGED <<session, issued>>
    /\ UNCHANGED <<orderVars, attOrder, attState, effectVars, authority, overdue>>

Unrequested(h) ==
    /\ pc[h] = "unrequested"
    /\ SetState(work[h], "FAILED")
    /\ Return(h)
    /\ issued' = [issued EXCEPT ![h] = None]
    /\ UNCHANGED <<orderVars, attOrder, effectVars, authority, overdue, session>>

Redirect(h) ==
    /\ pc[h] = "redirect"
    /\ SetState(work[h], "REDIRECTED")
    /\ Goto(h, "store")
    /\ UNCHANGED <<orderVars, attOrder, effectVars, onlineVars>>

\* Fault: stored on every attempt of the order.
StoreAuthorityByOrder(h) ==
    /\ pc[h] = "store"
    /\ authority' = [a \in Attempt |-> IF attOrder[a] = ord[h] THEN issued[h] ELSE authority[a]]
    /\ session' = [session EXCEPT ![issued[h]] = "open"]
    /\ issued' = [issued EXCEPT ![h] = None]
    /\ Return(h)
    /\ UNCHANGED <<orderVars, attOrder, attState, effectVars, overdue>>

\* The authority is stored by a second update; then the client may pay.
StoreAuthority(h) ==
    /\ pc[h] = "store"
    /\ authority' = [authority EXCEPT ![work[h]] = issued[h]]
    /\ session' = [session EXCEPT ![issued[h]] = "open"]
    /\ issued' = [issued EXCEPT ![h] = None]
    /\ Return(h)
    /\ UNCHANGED <<orderVars, attOrder, attState, effectVars, overdue>>

\* Either of the two writes fails and is caught.
StoreFails(h) ==
    /\ pc[h] \in {"redirect", "store"}
    /\ Goto(h, "unrequested")
    /\ UNCHANGED <<orderVars, attOrder, attState, effectVars, onlineVars>>

-----------------------------------------------------------------------------
(* The gateway and the clock. *)

Pay(x) ==
    /\ session[x] = "open"
    /\ \E outcome \in {"captured", "refused"} : session' = [session EXCEPT ![x] = outcome]
    /\ UNCHANGED <<paymentVars, authority, overdue, issued>>

\* expiresAt of an attempt passes.
Overdue(a) ==
    /\ attState[a] # "NONE" /\ a \notin overdue
    /\ overdue' = overdue \union {a}
    /\ UNCHANGED <<paymentVars, authority, session, issued>>

-----------------------------------------------------------------------------
(* The callback route: registerCallback, then verify. *)

Callback(h, a) ==
    /\ authority[a] # None
    /\ Begin(h, IF CanTransition(attState[a], "CALLBACK_RECEIVED") THEN "callback" ELSE "recheck", None, a)
    /\ UNCHANGED <<orderVars, attOrder, attState, effectVars, onlineVars>>

\* The state is written by the update, and once more by recordTransition.
WriteCallback(h) ==
    /\ pc[h] \in {"callback", "callbackAgain"}
    /\ SetState(work[h], "CALLBACK_RECEIVED")
    /\ Goto(h, IF pc[h] = "callback" THEN "callbackAgain" ELSE "recheck")
    /\ UNCHANGED <<orderVars, attOrder, effectVars, onlineVars>>

Recheck(h) ==
    /\ pc[h] = "recheck"
    /\ IF attState[work[h]] = "CALLBACK_RECEIVED" THEN Goto(h, "verify") ELSE Return(h)
    /\ UNCHANGED <<orderVars, attOrder, attState, effectVars, onlineVars>>

-----------------------------------------------------------------------------
(* The verify route and verify. *)

Verify(h, a) ==
    /\ authority[a] # None
    /\ Begin(h, "verify", None, a)
    /\ UNCHANGED <<orderVars, attOrder, attState, effectVars, onlineVars>>

\* Fault: an interrupted verification is refused.
ReadAttemptOnce(h) ==
    LET a == work[h] IN
    /\ pc[h] = "verify"
    /\ \/ attState[a] # "PAID" /\ a \in overdue /\ Goto(h, "expire")
       \/ a \notin overdue /\ CanTransition(attState[a], "VERIFYING") /\ Goto(h, "mark")
       \/ ~CanTransition(attState[a], "VERIFYING") /\ Return(h)
    /\ UNCHANGED <<orderVars, attOrder, attState, effectVars, onlineVars>>

\* The row is read once; everything up to the gateway's answer goes by it.
\* VERIFYING is the trace of an interrupted verification and is taken up.
ReadAttempt(h) ==
    LET a == work[h] IN
    /\ pc[h] = "verify"
    /\ \/ attState[a] = "PAID" /\ Return(h)
       \/ attState[a] # "PAID" /\ a \in overdue /\ Goto(h, "expire")
       \/ attState[a] # "PAID" /\ a \notin overdue /\ attState[a] = "VERIFYING" /\ Goto(h, "ask")
       \/ a \notin overdue /\ CanTransition(attState[a], "VERIFYING") /\ Goto(h, "mark")
       \/ /\ attState[a] \notin {"PAID", "VERIFYING"} /\ a \notin overdue
          /\ ~CanTransition(attState[a], "VERIFYING")
          /\ Return(h)
    /\ UNCHANGED <<orderVars, attOrder, attState, effectVars, onlineVars>>

\* Fault: the wrong one of the closing states.
ExpireAsCancelled(h) ==
    /\ pc[h] = "expire"
    /\ SetState(work[h], "CANCELLED")
    /\ Return(h)
    /\ UNCHANGED <<orderVars, attOrder, effectVars, onlineVars>>

Expire(h) ==
    /\ pc[h] = "expire"
    /\ SetState(work[h], "EXPIRED")
    /\ Return(h)
    /\ UNCHANGED <<orderVars, attOrder, effectVars, onlineVars>>

MarkVerifying(h) ==
    /\ pc[h] = "mark"
    /\ SetState(work[h], "VERIFYING")
    /\ Goto(h, "ask")
    /\ UNCHANGED <<orderVars, attOrder, effectVars, onlineVars>>

\* Fault: the callback is proof enough.
AskNobody(h) ==
    /\ pc[h] = "ask"
    /\ Goto(h, "settle") \/ Goto(h, "refuse")
    /\ UNCHANGED <<orderVars, attOrder, attState, effectVars, onlineVars>>

\* The gateway confirms a captured session, every time it is asked; three
\* network failures in a row count as a refusal (zarinpal.provider.ts).
AskGateway(h) ==
    /\ pc[h] = "ask"
    /\ \/ session[authority[work[h]]] = "captured" /\ Goto(h, "settle")
       \/ Goto(h, "refuse")
    /\ UNCHANGED <<orderVars, attOrder, attState, effectVars, onlineVars>>

Refuse(h) ==
    /\ pc[h] = "refuse"
    /\ SetState(work[h], "FAILED")
    /\ Return(h)
    /\ UNCHANGED <<orderVars, attOrder, effectVars, onlineVars>>

\* postSaleJournal throws GL_MISSING, not caught by anyone, for a gateway that
\* settles later while the account of such claims is not defined.
NoReceivable(h) ==
    /\ pc[h] = "book"
    /\ Return(h)
    /\ UNCHANGED <<orderVars, attOrder, attState, effectVars, onlineVars>>

Answer(h) ==
    /\ pc[h] = "finalized"
    /\ Return(h)
    /\ UNCHANGED <<orderVars, attOrder, attState, effectVars, onlineVars>>

-----------------------------------------------------------------------------
Step(h) ==
    \/ OrderStep(h) /\ UNCHANGED onlineVars
    \/ Create(h) \/ Poll(h) \/ RequestAgain(h) \/ Request(h) \/ Unrequested(h)
    \/ Redirect(h) \/ StoreAuthority(h) \/ StoreFails(h)
    \/ WriteCallback(h) \/ Recheck(h)
    \/ ReadAttempt(h) \/ Expire(h) \/ MarkVerifying(h) \/ AskGateway(h) \/ Refuse(h)
    \/ NoReceivable(h) \/ Answer(h)

Die(h) == Crash(h) /\ issued' = [issued EXCEPT ![h] = None] /\ UNCHANGED <<authority, overdue, session>>

Next ==
    \/ \E h \in Handler :
         \/ OrderRequest(h) /\ UNCHANGED onlineVars
         \/ \E o \in Order, a \in Attempt : Start(h, o, a)
         \/ \E a \in Attempt : Callback(h, a) \/ Verify(h, a)
         \/ Step(h) \/ Die(h)
    \/ \E x \in Authority : Pay(x)
    \/ \E a \in Attempt : Overdue(a)

Spec == Init /\ [][Next]_vars

\* Node runs every handler it has; the payer whose verification was cut short
\* comes back to the result page, which verifies again.
Fairness ==
    /\ \A h \in Handler : WF_vars(Step(h))
    /\ \A a \in Attempt : SF_vars(\E h \in Handler : attState[a] = "VERIFYING" /\ Verify(h, a))
FairSpec == Spec /\ Fairness

-----------------------------------------------------------------------------
(* Properties. *)

Captured(a) == authority[a] # None /\ session[authority[a]] = "captured"

\* Whatever is done in the name of an attempt (its state PAID, the credit of
\* the bank, the sale entry, the event) is backed by a capture of its own
\* session, not of another attempt's of the same order: clicks, late callbacks
\* and two verifications do not mix attempts up (verify 262-304, finalizePaid).
EffectsAreCaptured ==
    \A a \in Attempt :
        \/ attState[a] = "PAID" \/ a \in bank \/ a \in journal \/ <<"OrderPaid", a>> \in outbox
        => Captured(a)

\* Paying through a gateway keeps the shop's promise: the order is paid after
\* a capture and sold after it is paid, whatever the order of clicks,
\* callbacks, cancellations and deaths (startOnlinePayment to finalizePaid).
Promise == INSTANCE Purchase
               WITH goods <- [o \in Order |-> GoodsOf(o)],
                    paid <- {o \in Order : payStatus[o] = "PAID"},
                    confirmed <- {o \in Order : \E a \in Attempt : attOrder[a] = o /\ Captured(a)}
KeepsPromise == Promise!Spec

\* Two clicks, retries and crashes never give two attempts the same authority,
\* by which callbacks find them (startOnlinePayment 172-238).
AuthorityUnique ==
    \A a, b \in Attempt : authority[a] = authority[b] /\ authority[a] # None => a = b

\* A verification that was interrupted does not stay VERIFYING: it is taken up
\* again and comes to an answer (verify 275-281).
VerificationEnds == \A a \in Attempt : attState[a] = "VERIFYING" ~> attState[a] # "VERIFYING"
=============================================================================
