----------------------------- MODULE CardToCard -----------------------------
(***************************************************************************)
(* Paying an order by a transfer between cards: c2c.service.ts submit,     *)
(* expireIfNeeded and decide.  A customer submits the particulars of the   *)
(* transfer; an admin approves it, which runs finalizePaid, rejects it, or *)
(* asks for a correction.                                                  *)
(*                                                                         *)
(* Submissions are numbered in order of creation.  Customers, admins and   *)
(* the pages that look at a submission act concurrently.                   *)
(***************************************************************************)
EXTENDS OrderPayment, FiniteSetsExt

CONSTANT MaxSubmissions   \* bound on the rows created

ASSUME CardToCardAssumption == MaxSubmissions \in Nat

Submission == 1..MaxSubmissions

VARIABLES
    subState, subAttempt,   \* CardToCardSubmission.state, .attemptId
    late,                   \* orders older than C2C_EXPIRY_HOURS
    overdue,                \* attempts whose expiresAt has passed
    sub, seen,              \* the submission a handler works on, its state as read
    choice,                 \* what a handler is asked for, or whether its key was known
    back                    \* where expireIfNeeded returns to

rowVars == <<subState, subAttempt, late, overdue>>
localVars == <<sub, seen, choice, back>>
cardVars == <<rowVars, localVars>>
vars == <<paymentVars, cardVars>>

Pending == {"PENDING_VERIFICATION"}     \* UNDER_REVIEW is never written
Decidable == Pending \union {"CORRECTION_REQUIRED"}
Final == {"APPROVED", "REJECTED", "EXPIRED"}
Decision == {"APPROVED", "REJECTED", "CORRECTION_REQUIRED"}

TypeOK ==
    /\ PaymentTypeOK
    /\ subState \in [Submission -> Decidable \union Final \union {"NONE"}]
    /\ subAttempt \in [Submission -> Attempt \union {None}]
    /\ late \subseteq Order /\ overdue \subseteq Attempt
    /\ sub \in [Handler -> Submission \union {None}]
    /\ seen \in [Handler -> Decidable \union Final \union {None}]
    /\ choice \in [Handler -> Decision \union {"NEW", "KNOWN", None}]
    /\ back \in [Handler -> {"keyed", "still", "fresh", "answer"}]
    /\ pc \in [Handler -> {"idle", "placed", "cancel", "edit", "edited",
                           "look", "expire", "expireAttempt", "expireGoods",
                           "keyed", "order", "pending", "still", "correct", "attempt",
                           "create", "update", "review",
                           "fresh", "approve", "reject", "rejectGoods", "decided",
                           "settle", "reserved", "consume", "book", "record", "publish", "finalized"}]

Init ==
    /\ PaymentInit
    /\ subState = [s \in Submission |-> "NONE"]
    /\ subAttempt = [s \in Submission |-> None]
    /\ late = {} /\ overdue = {}
    /\ sub = [h \in Handler |-> None] /\ seen = [h \in Handler |-> None]
    /\ choice = [h \in Handler |-> None] /\ back = [h \in Handler |-> "answer"]

OrderOf(s) == attOrder[subAttempt[s]]
OfOrder(o, states) == {s \in Submission : subState[s] \in states /\ OrderOf(s) = o}

-----------------------------------------------------------------------------
(* Answering, and expireIfNeeded, which every reader of a submission calls. *)

Forget(h) ==
    /\ sub' = [sub EXCEPT ![h] = None] /\ seen' = [seen EXCEPT ![h] = None]
    /\ choice' = [choice EXCEPT ![h] = None] /\ back' = [back EXCEPT ![h] = "answer"]

\* On to the next statement, or out with an answer or an error.
Go(h, label) ==
    IF label = "answer" THEN Return(h) /\ Forget(h)
    ELSE Goto(h, label) /\ UNCHANGED localVars

\* h has read submission s, has it examined, and goes on at label.
Examine(h, s, label) ==
    /\ sub' = [sub EXCEPT ![h] = s]
    /\ seen' = [seen EXCEPT ![h] = subState[s]]
    /\ back' = [back EXCEPT ![h] = label]

\* The examination is over; only StillPending compares with what was seen.
Resume(h) ==
    IF back[h] = "answer" THEN Return(h) /\ Forget(h)
    ELSE /\ Goto(h, back[h])
         /\ seen' = [seen EXCEPT ![h] = IF back[h] = "still" THEN @ ELSE None]
         /\ back' = [back EXCEPT ![h] = "answer"]
         /\ UNCHANGED <<sub, choice>>

\* Fault: what awaits a correction does not expire.
LookPendingOnly(h) ==
    /\ pc[h] = "look"
    /\ IF subAttempt[sub[h]] \in overdue /\ seen[h] \in Pending THEN Go(h, "expire") ELSE Resume(h)
    /\ UNCHANGED <<orderVars, attOrder, attState, effectVars, rowVars>>

\* The attempt's expiresAt is read now, the state is the one the caller read.
Look(h) ==
    /\ pc[h] = "look"
    /\ IF subAttempt[sub[h]] \in overdue /\ seen[h] \notin Final THEN Go(h, "expire") ELSE Resume(h)
    /\ UNCHANGED <<orderVars, attOrder, attState, effectVars, rowVars>>

ExpireSubmission(h) ==
    /\ pc[h] = "expire"
    /\ subState' = [subState EXCEPT ![sub[h]] = "EXPIRED"]
    /\ Go(h, "expireAttempt")
    /\ UNCHANGED <<orderVars, attOrder, attState, effectVars, subAttempt, late, overdue>>

ExpireAttempt(h) ==
    /\ pc[h] = "expireAttempt"
    /\ SetState(subAttempt[sub[h]], "FAILED")
    /\ Go(h, "expireGoods")
    /\ UNCHANGED <<orderVars, attOrder, effectVars, rowVars>>

ExpireGoods(h) ==
    /\ pc[h] = "expireGoods"
    /\ Release(OrderOf(sub[h]))
    /\ Resume(h)
    /\ UNCHANGED <<status, payStatus, attOrder, attState, effectVars, rowVars>>

\* The customer's page (latestForOrder) or the admin's list reads s.
Show(h, s) ==
    /\ subAttempt[s] # None
    /\ Begin(h, "look", None, None)
    /\ Examine(h, s, "answer")
    /\ UNCHANGED <<orderVars, attOrder, attState, effectVars, rowVars, choice>>

-----------------------------------------------------------------------------
(* submit, with idempotency key a. *)

\* A key that already has a submission answers with it, once it is examined.
Submit(h, o, a) ==
    LET mine == {s \in Submission : subAttempt[s] = a}
    IN /\ status[o] # "NONE" /\ attOrder[a] \in {None, o}
       /\ choice' = [choice EXCEPT ![h] = IF attState[a] = "NONE" THEN "NEW" ELSE "KNOWN"]
       /\ \/ mine = {} /\ Begin(h, "order", o, a) /\ UNCHANGED <<sub, seen, back>>
          \/ \E s \in mine : Begin(h, "look", o, a) /\ Examine(h, s, "keyed")
       /\ UNCHANGED <<orderVars, attOrder, attState, effectVars, rowVars>>

Keyed(h) ==
    /\ pc[h] = "keyed"
    /\ Go(h, IF subState[sub[h]] = "EXPIRED" THEN "order" ELSE "answer")
    /\ UNCHANGED <<orderVars, attOrder, attState, effectVars, rowVars>>

\* A paid order, or one too old, is refused; a cancelled one is not.
CheckOrder(h) ==
    /\ pc[h] = "order"
    /\ Go(h, IF payStatus[ord[h]] = "PAID" \/ ord[h] \in late THEN "answer" ELSE "pending")
    /\ UNCHANGED <<orderVars, attOrder, attState, effectVars, rowVars>>

\* The latest submission still under review, if any, is examined.
FindPending(h) ==
    LET open == OfOrder(ord[h], Pending)
    IN /\ pc[h] = "pending"
       /\ \/ open = {} /\ Goto(h, "correct") /\ UNCHANGED localVars
          \/ open # {} /\ Goto(h, "look") /\ Examine(h, Max(open), "still") /\ UNCHANGED choice
       /\ UNCHANGED <<orderVars, attOrder, attState, effectVars, rowVars>>

StillPending(h) ==
    /\ pc[h] = "still"
    /\ Go(h, IF subState[sub[h]] = seen[h] THEN "answer" ELSE "correct")
    /\ UNCHANGED <<orderVars, attOrder, attState, effectVars, rowVars>>

\* A submission to be corrected is reused with its attempt; else the key's own
\* attempt, if it was known; else a new attempt.
FindCorrectable(h) ==
    LET fix == OfOrder(ord[h], {"CORRECTION_REQUIRED"})
    IN /\ pc[h] = "correct"
       /\ \/ /\ fix # {}
             /\ sub' = [sub EXCEPT ![h] = Max(fix)]
             /\ work' = [work EXCEPT ![h] = subAttempt[Max(fix)]]
             /\ pc' = [pc EXCEPT ![h] = "update"]
          \/ /\ fix = {}
             /\ pc' = [pc EXCEPT ![h] = IF choice[h] = "KNOWN" THEN "create" ELSE "attempt"]
             /\ sub' = [sub EXCEPT ![h] = None] /\ UNCHANGED work
       /\ choice' = [choice EXCEPT ![h] = None] /\ seen' = [seen EXCEPT ![h] = None]
       /\ UNCHANGED <<orderVars, attOrder, attState, effectVars, rowVars, ord, rows, crashes, back>>

\* The unique key refuses a second attempt.
CreateAttempt(h) ==
    LET a == work[h]
    IN /\ pc[h] = "attempt"
       /\ IF attState[a] = "NONE"
          THEN /\ SetState(a, "PENDING")
               /\ attOrder' = [attOrder EXCEPT ![a] = ord[h]]
               /\ Go(h, "create")
          ELSE Go(h, "answer") /\ UNCHANGED <<attOrder, attState>>
       /\ UNCHANGED <<orderVars, effectVars, rowVars>>

NextRow == Cardinality({s \in Submission : subAttempt[s] # None}) + 1

\* The row is created, or refused for a reference number that is there already.
CreateSubmission(h) ==
    /\ pc[h] = "create"
    /\ \/ /\ NextRow \in Submission
          /\ subState' = [subState EXCEPT ![NextRow] = "PENDING_VERIFICATION"]
          /\ subAttempt' = [subAttempt EXCEPT ![NextRow] = work[h]]
          /\ Go(h, "review")
       \/ Go(h, "answer") /\ UNCHANGED <<subState, subAttempt>>
    /\ UNCHANGED <<orderVars, attOrder, attState, effectVars, late, overdue>>

\* The correction is written whatever became of the submission meanwhile.
UpdateSubmission(h) ==
    /\ pc[h] = "update"
    /\ \/ subState' = [subState EXCEPT ![sub[h]] = "PENDING_VERIFICATION"] /\ Go(h, "review")
       \/ Go(h, "answer") /\ UNCHANGED subState
    /\ UNCHANGED <<orderVars, attOrder, attState, effectVars, subAttempt, late, overdue>>

Review(h) ==
    /\ pc[h] = "review"
    /\ SetState(work[h], "REQUIRES_REVIEW")
    /\ Go(h, "answer")
    /\ UNCHANGED <<orderVars, attOrder, effectVars, rowVars>>

-----------------------------------------------------------------------------
(* decide. *)

Decide(h, s, decision) ==
    /\ subAttempt[s] # None
    /\ Begin(h, "look", None, subAttempt[s])
    /\ Examine(h, s, "fresh")
    /\ choice' = [choice EXCEPT ![h] = decision]
    /\ UNCHANGED <<orderVars, attOrder, attState, effectVars, rowVars>>

\* Fault: what is not rejected is approved.
FreshFallsThrough(h) ==
    LET next == IF choice[h] = "REJECTED" THEN "reject" ELSE "approve"
    IN /\ pc[h] = "fresh"
       /\ Go(h, IF subState[sub[h]] \in Decidable THEN next ELSE "answer")
       /\ UNCHANGED <<orderVars, attOrder, attState, effectVars, rowVars>>

\* The submission is read again: this is the only look at its state.
Fresh(h) ==
    LET next == CASE choice[h] = "APPROVED" -> "approve"
                  [] choice[h] = "REJECTED" -> "reject"
                  [] OTHER                  -> "decided"
    IN /\ pc[h] = "fresh"
       /\ Go(h, IF subState[sub[h]] \in Decidable THEN next ELSE "answer")
       /\ UNCHANGED <<orderVars, attOrder, attState, effectVars, rowVars>>

\* Fault: the submission is approved before the payment is finalized.
ApproveFirst(h) ==
    /\ pc[h] = "approve"
    /\ subState' = [subState EXCEPT ![sub[h]] = "APPROVED"]
    /\ Go(h, IF payStatus[attOrder[work[h]]] = "PAID" THEN "decided" ELSE "settle")
    /\ UNCHANGED <<orderVars, attOrder, attState, effectVars, subAttempt, late, overdue>>

\* finalizePaid, unless the order is paid.
Approve(h) ==
    /\ pc[h] = "approve"
    /\ Go(h, IF payStatus[attOrder[work[h]]] = "PAID" THEN "decided" ELSE "settle")
    /\ UNCHANGED <<orderVars, attOrder, attState, effectVars, rowVars>>

\* Fault: the attempt is given a state of the submission's.
RejectAttempt(h) ==
    /\ pc[h] = "reject"
    /\ SetState(work[h], "REJECTED")
    /\ Go(h, "rejectGoods")
    /\ UNCHANGED <<orderVars, attOrder, effectVars, rowVars>>

Reject(h) ==
    /\ pc[h] = "reject"
    /\ SetState(work[h], "FAILED")
    /\ Go(h, "rejectGoods")
    /\ UNCHANGED <<orderVars, attOrder, effectVars, rowVars>>

\* Fault: a rejected transfer keeps its goods for another try.
RejectKeeping(h) ==
    /\ pc[h] = "rejectGoods"
    /\ Go(h, "decided")
    /\ UNCHANGED <<orderVars, attOrder, attState, effectVars, rowVars>>

RejectGoods(h) ==
    /\ pc[h] = "rejectGoods"
    /\ Release(attOrder[work[h]])
    /\ Go(h, "decided")
    /\ UNCHANGED <<status, payStatus, attOrder, attState, effectVars, rowVars>>

WriteDecision(h) ==
    /\ pc[h] \in {"decided", "finalized"}
    /\ subState' = [subState EXCEPT ![sub[h]] = choice[h]]
    /\ Go(h, "answer")
    /\ UNCHANGED <<orderVars, attOrder, attState, effectVars, subAttempt, late, overdue>>

-----------------------------------------------------------------------------
(* Time. *)

\* An attempt is younger than its order, so its deadline is the later one.
Age(o) ==
    /\ status[o] # "NONE" /\ o \notin late
    /\ late' = late \union {o}
    /\ UNCHANGED <<paymentVars, subState, subAttempt, overdue, localVars>>

Overdue(a) ==
    /\ attState[a] # "NONE" /\ a \notin overdue /\ attOrder[a] \in late
    /\ overdue' = overdue \union {a}
    /\ UNCHANGED <<paymentVars, subState, subAttempt, late, localVars>>

-----------------------------------------------------------------------------
\* A statement of finalizePaid that ends the handler forgets what it worked on.
Shared(h) ==
    /\ OrderStep(h)
    /\ IF pc'[h] = "idle" THEN Forget(h) ELSE UNCHANGED localVars
    /\ UNCHANGED rowVars

Step(h) ==
    \/ Shared(h)
    \/ Look(h) \/ ExpireSubmission(h) \/ ExpireAttempt(h) \/ ExpireGoods(h)
    \/ Keyed(h) \/ CheckOrder(h) \/ FindPending(h) \/ StillPending(h) \/ FindCorrectable(h)
    \/ CreateAttempt(h) \/ CreateSubmission(h) \/ UpdateSubmission(h) \/ Review(h)
    \/ Fresh(h) \/ Approve(h) \/ Reject(h) \/ RejectGoods(h) \/ WriteDecision(h)

Die(h) == Crash(h) /\ Forget(h) /\ UNCHANGED rowVars

Request(h) ==
    \/ OrderRequest(h) /\ UNCHANGED cardVars
    \/ \E o \in Order, a \in Attempt : Submit(h, o, a)
    \/ \E s \in Submission : Show(h, s) \/ \E d \in Decision : Decide(h, s, d)

Next ==
    \/ \E h \in Handler : Request(h) \/ Step(h) \/ Die(h)
    \/ \E o \in Order : Age(o)
    \/ \E a \in Attempt : Overdue(a)

Spec == Init /\ [][Next]_vars

\* Node runs every handler it has, and somebody looks at a submission again
\* and again while it is open.
Fairness ==
    /\ \A h \in Handler : WF_vars(Step(h))
    /\ \A s \in Submission : SF_vars(\E h \in Handler : subState[s] \notin Final /\ Show(h, s))
FairSpec == Spec /\ Fairness

-----------------------------------------------------------------------------
(* Properties. *)

\* A submission is shown as approved only when its order is paid, at the end
\* of finalizePaid (decide 484-511).
ApprovedIsPaid ==
    \A s \in Submission : subState[s] = "APPROVED" => payStatus[OrderOf(s)] = "PAID"

\* A rejected transfer holds no goods: they are released, or they were sold
\* by another payment; only an edit may have reserved others since
\* (decide 498-511).
RejectedHoldsNothing ==
    \A s \in Submission : subState[s] = "REJECTED" => 0 \notin In(OrderOf(s), "ACTIVE")

\* A payment by transfer keeps the shop's promise as well: the order is paid
\* only when a submission vouches for the money, and sold after it is paid,
\* whatever customers submit, admins decide and readers let expire meanwhile
\* (submit, decide, expireIfNeeded, finalizePaid).
OnFile(o) == \E s \in Submission : subAttempt[s] # None /\ OrderOf(s) = o
Promise == INSTANCE Purchase
               WITH goods <- [o \in Order |-> GoodsOf(o)],
                    paid <- {o \in Order : payStatus[o] = "PAID"},
                    confirmed <- {o \in Order : OnFile(o)}
KeepsPromise == Promise!Spec

\* An order becomes paid only in a step of an admin's decision that approves a
\* submission of that order: no customer who submits or corrects, no rejection,
\* request for correction or expiry makes it paid, although the submission may
\* be corrected, decided again or expire between the admin's look at it and
\* the payment (decide 472-496, finalizePaid).
PaidByApproval ==
    \A o \in Order :
        payStatus[o] # "PAID" /\ payStatus'[o] = "PAID" =>
            \E h \in Handler : /\ pc[h] = "settle" /\ pc'[h] # "settle"
                              /\ choice[h] = "APPROVED" /\ sub[h] \in Submission
                              /\ OrderOf(sub[h]) = o
OnlyApprovalPays == [][PaidByApproval]_vars

\* Expiry is lazy, done by whoever reads the submission; while it is read an
\* overdue submission does not stay open (expireIfNeeded 168-184).
OverdueCloses ==
    \A s \in Submission :
        subState[s] \in Decidable /\ subAttempt[s] \in overdue ~> subState[s] \in Final
=============================================================================
