---------------------------- MODULE OrderPayment ----------------------------
(***************************************************************************)
(* What all ways of paying an order share: the order and its reservation   *)
(* (orders.service.ts), the payment attempts, and the chain of statements  *)
(* by which payments.service.ts finalizePaid turns a confirmed payment     *)
(* into a sale.  OnlinePayment and CardToCard extend this module with what *)
(* leads to a confirmation.                                                *)
(*                                                                         *)
(* Request handlers run concurrently in Node: every await is a point where *)
(* another handler, or a crash, may come between, so each statement or     *)
(* database transaction is an action and a handler's place in its code is  *)
(* pc[h].  What a transaction does to the ledger is StockLedger's subject: *)
(* the rows an order reserved at once, when it was placed or by an edit,   *)
(* are a batch and have one state here.                                    *)
(***************************************************************************)
EXTENDS Integers, FiniteSets

CONSTANTS
    Order, Attempt, None,
    Handler,        \* requests being served at the same time
    MaxEdits,       \* bound on the edits of an order
    MaxCrashes      \* bound on the handlers that die

ASSUME OrderPaymentAssumption ==
    None \notin Order \union Attempt /\ MaxEdits \in Nat /\ MaxCrashes \in Nat

Batch == 0..MaxEdits    \* of reservation rows: 0 by createGuestOrder, then one per edit

VARIABLES
    status, payStatus,  \* Order.status, Order.paymentStatus
    goods,              \* StockReservation rows of the order, per batch
    attOrder, attState, \* PaymentAttempt.orderId, .state
    bank,               \* attempts whose amount was credited, once or more often
    journal,            \* attempts with a sale entry, one or more
    outbox,             \* DomainEventOutbox rows, unique by (name, payload)
    pc, ord, work,      \* where a handler is, and the order or attempt it serves
    rows,               \* the batches a handler has found ACTIVE
    crashes

orderVars == <<status, payStatus, goods>>
effectVars == <<bank, journal, outbox>>
handlerVars == <<pc, ord, work, rows, crashes>>
paymentVars == <<orderVars, attOrder, attState, effectVars, handlerVars>>

\* payments.service.ts TRANSITIONS, without the refund states.
Transitions(state) ==
    CASE state = "NONE"              -> {"CREATED", "PENDING"}
      [] state = "CREATED"           -> {"PENDING", "REDIRECTED", "FAILED", "EXPIRED", "REQUIRES_REVIEW"}
      [] state = "PENDING"           -> {"REDIRECTED", "VERIFYING", "FAILED", "EXPIRED", "REQUIRES_REVIEW"}
      [] state = "REDIRECTED"        -> {"CALLBACK_RECEIVED", "VERIFYING", "FAILED", "EXPIRED", "REQUIRES_REVIEW"}
      [] state = "CALLBACK_RECEIVED" -> {"VERIFYING", "FAILED", "REQUIRES_REVIEW"}
      [] state = "VERIFYING"         -> {"PAID", "FAILED", "REQUIRES_REVIEW"}
      [] state = "REQUIRES_REVIEW"   -> {"PAID", "FAILED"}
      [] OTHER                       -> {}
CanTransition(from, to) == to \in Transitions(from)

AttemptState == {"NONE", "CREATED", "PENDING", "REDIRECTED", "CALLBACK_RECEIVED", "VERIFYING",
                 "REQUIRES_REVIEW", "PAID", "FAILED", "EXPIRED"}
Goods == {"NONE", "ACTIVE", "RELEASED", "CONSUMED"}
Event == ({"OrderCreated", "OrderEdited"} \X Order) \union ({"OrderPaid"} \X Attempt)

PaymentTypeOK ==
    /\ status \in [Order -> {"NONE", "PENDING", "PAID", "CANCELLED"}]
    /\ payStatus \in [Order -> {"PENDING", "PAID"}]
    /\ goods \in [Order -> [Batch -> Goods]]
    /\ attOrder \in [Attempt -> Order \union {None}]
    /\ attState \in [Attempt -> AttemptState]
    /\ bank \subseteq Attempt /\ journal \subseteq Attempt
    /\ outbox \subseteq Event
    /\ ord \in [Handler -> Order \union {None}]
    /\ work \in [Handler -> Attempt \union {None}]
    /\ rows \in [Handler -> SUBSET Batch]
    /\ crashes \in 0..MaxCrashes

PaymentInit ==
    /\ status = [o \in Order |-> "NONE"]
    /\ payStatus = [o \in Order |-> "PENDING"]
    /\ goods = [o \in Order |-> [b \in Batch |-> "NONE"]]
    /\ attOrder = [a \in Attempt |-> None]
    /\ attState = [a \in Attempt |-> "NONE"]
    /\ bank = {} /\ journal = {}
    /\ outbox = {}
    /\ pc = [h \in Handler |-> "idle"]
    /\ ord = [h \in Handler |-> None] /\ work = [h \in Handler |-> None]
    /\ rows = [h \in Handler |-> {}]
    /\ crashes = 0

-----------------------------------------------------------------------------
(* Handlers. *)

\* h goes on to the next statement, or answers its client.
Goto(h, label) == pc' = [pc EXCEPT ![h] = label] /\ UNCHANGED <<ord, work, rows, crashes>>
Return(h) ==
    /\ pc' = [pc EXCEPT ![h] = "idle"]
    /\ ord' = [ord EXCEPT ![h] = None] /\ work' = [work EXCEPT ![h] = None]
    /\ rows' = [rows EXCEPT ![h] = {}]
    /\ UNCHANGED crashes

Begin(h, label, o, a) ==
    /\ pc[h] = "idle"
    /\ pc' = [pc EXCEPT ![h] = label]
    /\ ord' = [ord EXCEPT ![h] = o] /\ work' = [work EXCEPT ![h] = a]
    /\ UNCHANGED <<rows, crashes>>

\* The process dies, or the statement fails for good: nothing more is done.
Crash(h) ==
    /\ pc[h] # "idle" /\ crashes < MaxCrashes
    /\ pc' = [pc EXCEPT ![h] = "idle"]
    /\ ord' = [ord EXCEPT ![h] = None] /\ work' = [work EXCEPT ![h] = None]
    /\ rows' = [rows EXCEPT ![h] = {}]
    /\ crashes' = crashes + 1
    /\ UNCHANGED <<orderVars, attOrder, attState, effectVars>>

SetState(a, state) == attState' = [attState EXCEPT ![a] = state]

\* creditBankForOnlineInTx: for an amount that is no number, or without an
\* active bank account, it returns and nobody is told.
CreditBank(a) == bank' = bank \union {a} \/ UNCHANGED bank

-----------------------------------------------------------------------------
(* Orders. *)

\* createGuestOrder: one transaction writes the order and its reservation.
\* The idempotency key is the order itself: a repetition finds the row.
Place(h, o) ==
    /\ status[o] = "NONE"
    /\ Begin(h, "placed", o, None)
    /\ status' = [status EXCEPT ![o] = "PENDING"]
    /\ goods' = [goods EXCEPT ![o][0] = "ACTIVE"]
    /\ UNCHANGED <<payStatus, attOrder, attState, effectVars>>

\* The event is written after the transaction, its failure ignored.
PublishCreated(h) ==
    /\ pc[h] = "placed"
    /\ outbox' = outbox \union {<<"OrderCreated", ord[h]>>}
    /\ Return(h)
    /\ UNCHANGED <<orderVars, attOrder, attState, bank, journal>>

\* cancelUnpaid: the order is read and judged before the transaction.
CancelCheck(h, o) ==
    /\ status[o] # "NONE" /\ payStatus[o] # "PAID"
    /\ Begin(h, "cancel", o, None)
    /\ UNCHANGED <<orderVars, attOrder, attState, effectVars>>

In(o, state) == {b \in Batch : goods[o][b] = state}
Turn(o, batches, state) ==
    goods' = [goods EXCEPT ![o] = [b \in Batch |-> IF b \in batches THEN state ELSE @[b]]]

Release(o) == Turn(o, In(o, "ACTIVE"), "RELEASED")

CancelWrite(h) ==
    /\ pc[h] = "cancel"
    /\ Release(ord[h])
    /\ status' = [status EXCEPT ![ord[h]] = "CANCELLED"]
    /\ Return(h)
    /\ UNCHANGED <<payStatus, attOrder, attState, effectVars>>

\* editOrder: here too the order is judged before the transaction.
EditCheck(h, o) ==
    /\ status[o] # "NONE" /\ payStatus[o] # "PAID" /\ status[o] # "CANCELLED"
    /\ Begin(h, "edit", o, None)
    /\ UNCHANGED <<orderVars, attOrder, attState, effectVars>>

\* The transaction: what the order holds is released and the new lines are
\* reserved, whatever became of the order; or they are not available.
EditWrite(h) ==
    LET o == ord[h] IN
    /\ pc[h] = "edit"
    /\ \/ \E b \in Batch :
            /\ goods[o][b] = "NONE" /\ \A c \in 0..b-1 : goods[o][c] # "NONE"
            /\ goods' = [goods EXCEPT ![o] =
                 [c \in Batch |-> IF c = b THEN "ACTIVE"
                                  ELSE IF @[c] = "ACTIVE" THEN "RELEASED" ELSE @[c]]]
            /\ Goto(h, "edited")
       \/ UNCHANGED goods /\ Return(h)
    /\ UNCHANGED <<status, payStatus, attOrder, attState, effectVars>>

\* The event is written after the transaction, its failure ignored.
PublishEdited(h) ==
    /\ pc[h] = "edited"
    /\ outbox' = outbox \union {<<"OrderEdited", ord[h]>>}
    /\ Return(h)
    /\ UNCHANGED <<orderVars, attOrder, attState, bank, journal>>

-----------------------------------------------------------------------------
(* finalizePaid, for the attempt work[h]. *)

\* Fault: the order's own row is forgotten.
MarkAttemptPaid(h) ==
    /\ pc[h] = "settle"
    /\ SetState(work[h], "PAID")
    /\ CreditBank(work[h])
    /\ Goto(h, "reserved")
    /\ UNCHANGED <<orderVars, attOrder, journal, outbox>>

\* Fault: the attempts of the order are updated, not the one that was verified.
MarkAllPaid(h) ==
    LET o == attOrder[work[h]]
    IN /\ pc[h] = "settle"
       /\ payStatus' = [payStatus EXCEPT ![o] = "PAID"]
       /\ status' = [status EXCEPT ![o] = IF payStatus[o] = "PAID" THEN @ ELSE "PAID"]
       /\ attState' = [a \in Attempt |-> IF attOrder[a] = o THEN "PAID" ELSE attState[a]]
       /\ CreditBank(work[h])
       /\ Goto(h, "reserved")
       /\ UNCHANGED <<goods, attOrder, journal, outbox>>

\* The transaction: the order becomes PAID unless it is, whatever its status;
\* the attempt becomes PAID and the bank is credited if there is one, whatever
\* their state.
MarkPaid(h) ==
    LET a == work[h]
        o == attOrder[a]
    IN /\ pc[h] = "settle"
       /\ payStatus' = [payStatus EXCEPT ![o] = "PAID"]
       /\ status' = [status EXCEPT ![o] = IF payStatus[o] = "PAID" THEN @ ELSE "PAID"]
       /\ SetState(a, "PAID")
       /\ CreditBank(a)
       /\ Goto(h, "reserved")
       /\ UNCHANGED <<goods, attOrder, journal, outbox>>

\* consumeReservation reads the ACTIVE rows; with none there is nothing to do.
ReadReservation(h) ==
    LET active == In(attOrder[work[h]], "ACTIVE") IN
    /\ pc[h] = "reserved"
    /\ pc' = [pc EXCEPT ![h] = IF active # {} THEN "consume" ELSE "book"]
    /\ rows' = [rows EXCEPT ![h] = active]
    /\ UNCHANGED <<orderVars, attOrder, attState, effectVars, ord, work, crashes>>

ConsumeRows(h) ==
    /\ Turn(attOrder[work[h]], rows[h], "CONSUMED")
    /\ pc' = [pc EXCEPT ![h] = "book"]
    /\ rows' = [rows EXCEPT ![h] = {}]
    /\ UNCHANGED <<ord, work, crashes>>

\* Fault: INSUFFICIENT_STOCK is swallowed.
ConsumeIfPossible(h) ==
    /\ pc[h] = "consume"
    /\ \/ ConsumeRows(h)
       \/ UNCHANGED goods /\ Goto(h, "book")
    /\ UNCHANGED <<status, payStatus, attOrder, attState, effectVars>>

\* The rest of its transaction: the rows read become CONSUMED with their SALE
\* rows, or INSUFFICIENT_STOCK is thrown and ends the handler.
Consume(h) ==
    /\ pc[h] = "consume"
    /\ \/ ConsumeRows(h)
       \/ UNCHANGED goods /\ Return(h)
    /\ UNCHANGED <<status, payStatus, attOrder, attState, effectVars>>

\* postSaleJournal, which nothing makes idempotent; a failure to post is
\* reported and swallowed (postOrNotify).  What it throws itself is
\* OnlinePayment's NoReceivable.
PostSaleJournal(h) ==
    /\ pc[h] = "book"
    /\ \/ journal' = journal \union {work[h]}
       \/ UNCHANGED journal
    /\ Goto(h, "record")
    /\ UNCHANGED <<orderVars, attOrder, attState, bank, outbox>>

RecordPaid(h) ==
    /\ pc[h] = "record"
    /\ SetState(work[h], "PAID")
    /\ Goto(h, "publish")
    /\ UNCHANGED <<orderVars, attOrder, effectVars>>

\* The OrderPaid row; the unique index throws when it is there already.
PublishPaid(h) ==
    /\ pc[h] = "publish"
    /\ outbox' = outbox \union {<<"OrderPaid", work[h]>>}
    /\ IF <<"OrderPaid", work[h]>> \in outbox THEN Return(h) ELSE Goto(h, "finalized")
    /\ UNCHANGED <<orderVars, attOrder, attState, bank, journal>>

\* The statements a handler runs on its way to an answer.
OrderStep(h) ==
    \/ PublishCreated(h) \/ CancelWrite(h) \/ EditWrite(h) \/ PublishEdited(h)
    \/ MarkPaid(h) \/ ReadReservation(h) \/ Consume(h)
    \/ PostSaleJournal(h) \/ RecordPaid(h) \/ PublishPaid(h)
OrderRequest(h) == \E o \in Order : Place(h, o) \/ CancelCheck(h, o) \/ EditCheck(h, o)

-----------------------------------------------------------------------------
(* Properties. *)

\* What became of an order's goods, over all its batches.
GoodsOf(o) ==
    CASE In(o, "CONSUMED") # {} -> "CONSUMED"
      [] In(o, "CONSUMED") = {} /\ In(o, "ACTIVE") # {} -> "ACTIVE"
      [] In(o, "CONSUMED") = {} /\ In(o, "ACTIVE") = {} /\ In(o, "RELEASED") # {} -> "RELEASED"
      [] OTHER -> "NONE"

\* Goods leave only for an order that is paid, also when an edit replaces what
\* the order holds while it is being paid (finalizePaid 323-353, editOrder).
SoldOnlyIfPaid == \A o \in Order : In(o, "CONSUMED") # {} => payStatus[o] = "PAID"

\* OrderPaid tells the customer: by then the order is paid and what it reserved
\* is no longer pending, except by an edit that judged it before it was paid
\* and wrote after (finalizePaid 356-372, editOrder 534-602).
PaidEventTruthful ==
    \A a \in Attempt : <<"OrderPaid", a>> \in outbox =>
        /\ payStatus[attOrder[a]] = "PAID"
        /\ 0 \notin In(attOrder[a], "ACTIVE")

\* An order that is paid stays paid, and goods once sold are not handed back
\* to the stock by a late cancellation, rejection or edit.
PaidStaysPaid ==
    [][\A o \in Order : /\ payStatus[o] = "PAID" => payStatus'[o] = "PAID"
                        /\ In(o, "CONSUMED") \subseteq In(o, "CONSUMED")']_orderVars

\* payments.service.ts 316: PAID and the consumed reservation are one atomic
\* step; at the least, the second follows the first.
PaidIsSold == \A o \in Order : payStatus[o] = "PAID" ~> In(o, "CONSUMED") # {}
=============================================================================
