------------------------------ MODULE Refunds ------------------------------
(***************************************************************************)
(* Goods that come back and money that is paid back                        *)
(* (returns/returns.service.ts): return requests of one order line, counter*)
(* refunds of one line of a POS invoice, and the Refund row both end in.   *)
(*                                                                         *)
(* A handler reads a row, judges its state and writes later: the Read...   *)
(* actions are the first half, pc[h] the write that is due and doc[h] its  *)
(* subject.  Return requests are written whatever they have become         *)
(* meanwhile; Refund rows are claimed by an UPDATE that looks again.       *)
(*                                                                         *)
(* A refund is identified by its idempotency key, which for a return is    *)
(* made of the return and for the counter comes with the request.  The key *)
(* of a finalisation only decides how a repetition is answered, and is     *)
(* left out, as are amounts: they are proportional to quantities.          *)
(***************************************************************************)
EXTENDS Integers, FiniteSets, Functions

CONSTANTS
    Return,     \* return requests of one order line
    Counter,    \* idempotency keys of counter refunds of one invoice line
    Handler,
    Qty,        \* quantity that comes back with a return or counter refund
    Ordered,    \* quantity of the order line
    Sold,       \* quantity of the invoice line
    Sellable,   \* returns in SELLABLE condition
    Method,     \* of a refund: CASH, BANK, ORIGINAL_METHOD or STORE_CREDIT
    Seeded,     \* which of the accounts CASH and BANK exist
    Opening,    \* stock on hand at the start
    None

Refund == Return \union Counter

ASSUME ConstantsAssumption ==
    /\ IsFiniteSet(Refund)
    /\ Return \intersect Counter = {} /\ None \notin Refund
    /\ Qty \in [Refund -> Nat \ {0}]
    /\ Ordered \in Nat /\ Sold \in Nat /\ Opening \in Nat
    /\ Sellable \subseteq Return
    /\ Method \in [Refund -> {"CASH", "BANK", "ORIGINAL_METHOD", "STORE_CREDIT"}]
    /\ \A r \in Return : Method[r] = "ORIGINAL_METHOD"
    /\ Seeded \subseteq {"CASH", "BANK"}

VARIABLES
    status,     \* of a ReturnRequest; NONE before it exists
    refund,     \* state of a Refund
    back,       \* quantity of the SALE_RETURN row of a return or counter refund
    onHand,     \* stock on hand
    paid,       \* how often the money of a refund left its account
    costBack,   \* quantity whose cost was booked back into inventory
    announced,  \* RefundCompleted events in the outbox
    corrected,  \* a newer revision of the invoice exists
    pc, doc

stockVars == <<back, onHand>>
moneyVars == <<paid, costBack, announced>>
vars == <<status, refund, stockVars, moneyVars, corrected, pc, doc>>

ReturnDue == {"approve", "reject", "receive", "settle", "link"}
RefundDue == {"finalize", "cancel"}

TypeOK ==
    /\ status \in [Return -> {"NONE", "REQUESTED", "APPROVED", "REJECTED",
                              "RECEIVED", "SETTLED", "REFUNDED"}]
    /\ refund \in [Refund -> {"NONE", "PENDING", "COMPLETED", "CANCELLED"}]
    /\ back \in [Refund -> Nat]
    /\ onHand \in Nat
    /\ paid \in [Refund -> Nat]
    /\ costBack \in [Refund -> Nat]
    /\ announced \in [Refund -> Nat]
    /\ corrected \in BOOLEAN
    /\ pc \in [Handler -> ReturnDue \union RefundDue \union {"open", "idle"}]
    /\ doc \in [Handler -> Refund \union {None}]
    /\ \A h \in Handler :
         /\ pc[h] \in ReturnDue => doc[h] \in Return
         /\ pc[h] \in RefundDue => doc[h] \in Refund
         /\ pc[h] = "open" => doc[h] \in Counter

Init ==
    /\ status = [r \in Return |-> "NONE"]
    /\ refund = [f \in Refund |-> "NONE"]
    /\ back = [f \in Refund |-> 0]
    /\ onHand = Opening
    /\ paid = [f \in Refund |-> 0]
    /\ costBack = [f \in Refund |-> 0]
    /\ announced = [f \in Refund |-> 0]
    /\ corrected = FALSE
    /\ pc = [h \in Handler |-> "idle"]
    /\ doc = [h \in Handler |-> None]

-----------------------------------------------------------------------------
(* Parts of handlers *)

Begin(h, write, d) ==
    /\ pc[h] = "idle"
    /\ pc' = [pc EXCEPT ![h] = write]
    /\ doc' = [doc EXCEPT ![h] = d]
    /\ UNCHANGED <<status, refund, stockVars, moneyVars, corrected>>

End(h) ==
    /\ pc' = [pc EXCEPT ![h] = "idle"]
    /\ doc' = [doc EXCEPT ![h] = None]

SetStatus(r, s) == status' = [status EXCEPT ![r] = s]
SetRefund(f, s) == refund' = [refund EXCEPT ![f] = s]

\* Fault: the key of the movement is not looked up.
MoveInAgain(f) ==
    /\ back' = [back EXCEPT ![f] = @ + Qty[f]]
    /\ onHand' = onHand + Qty[f]

\* moveInTx of a SALE_RETURN under the key of its document.
MoveIn(f) ==
    IF back[f] # 0
    THEN UNCHANGED stockVars
    ELSE /\ back' = [back EXCEPT ![f] = Qty[f]]
         /\ onHand' = onHand + Qty[f]

\* The handler dies, or its transaction is rolled back: a key that exists, a
\* row that is no longer in the state to be claimed, an entry refused.
Fail(h) ==
    /\ pc[h] # "idle"
    /\ End(h)
    /\ UNCHANGED <<status, refund, stockVars, moneyVars, corrected>>

-----------------------------------------------------------------------------
(* Return requests *)

\* Each request is held against the ordered quantity, not against the other
\* requests for the same line.
RequestReturn(r) ==
    /\ status[r] = "NONE" /\ Qty[r] <= Ordered
    /\ SetStatus(r, "REQUESTED")
    /\ UNCHANGED <<refund, stockVars, moneyVars, corrected, pc, doc>>

\* assertTransition, by FLOW.
ReadReturn(h, r) ==
    \/ status[r] = "REQUESTED" /\ Begin(h, "approve", r)
    \/ status[r] \in {"REQUESTED", "APPROVED"} /\ Begin(h, "reject", r)
    \/ status[r] = "APPROVED" /\ Begin(h, "receive", r)
    \/ status[r] = "RECEIVED" /\ Begin(h, "settle", r)

Approve(h) ==
    /\ pc[h] = "approve"
    /\ SetStatus(doc[h], "APPROVED")
    /\ End(h)
    /\ UNCHANGED <<refund, stockVars, moneyVars, corrected>>

Reject(h) ==
    /\ pc[h] = "reject"
    /\ SetStatus(doc[h], "REJECTED")
    /\ End(h)
    /\ UNCHANGED <<refund, stockVars, moneyVars, corrected>>

Receive(h) ==
    LET r == doc[h] IN
    /\ pc[h] = "receive"
    /\ IF r \in Sellable THEN MoveIn(r) ELSE UNCHANGED stockVars
    /\ SetStatus(r, "RECEIVED")
    /\ End(h)
    /\ UNCHANGED <<refund, moneyVars, corrected>>

\* settle creates the refund, whose key is unique, ...
Settle(h) ==
    LET r == doc[h] IN
    /\ pc[h] = "settle"
    /\ refund[r] = "NONE"
    /\ SetRefund(r, "PENDING")
    /\ pc' = [pc EXCEPT ![h] = "link"]
    /\ UNCHANGED <<status, stockVars, moneyVars, corrected, doc>>

\* Fault: the state of the refund is written to the return.
LinkAsCompleted(h) ==
    /\ pc[h] = "link"
    /\ SetStatus(doc[h], "COMPLETED")
    /\ End(h)
    /\ UNCHANGED <<refund, stockVars, moneyVars, corrected>>

\* ... and then, in no transaction with it, moves the return on.
Link(h) ==
    /\ pc[h] = "link"
    /\ SetStatus(doc[h], "SETTLED")
    /\ End(h)
    /\ UNCHANGED <<refund, stockVars, moneyVars, corrected>>

-----------------------------------------------------------------------------
(* Counter refunds *)

RefundedQty ==
    SumFunction([k \in {c \in Counter : refund[c] \notin {"NONE", "CANCELLED"}} |-> Qty[k]])

\* A known key is answered with its refund; a corrected invoice is no source.
ReadInvoice(h, k) ==
    /\ ~corrected
    /\ refund[k] = "NONE"
    /\ RefundedQty + Qty[k] <= Sold
    /\ Begin(h, "open", k)

\* The goods come in with the refund.
OpenRefund(h) ==
    LET k == doc[h] IN
    /\ pc[h] = "open"
    /\ refund[k] = "NONE"
    /\ MoveIn(k)
    /\ SetRefund(k, "PENDING")
    /\ End(h)
    /\ UNCHANGED <<status, moneyVars, corrected>>

\* A correction of the invoice elsewhere (PosService.correctInvoice).
CorrectInvoice ==
    /\ ~corrected
    /\ corrected' = TRUE
    /\ UNCHANGED <<status, refund, stockVars, moneyVars, pc, doc>>

-----------------------------------------------------------------------------
(* The refund itself *)

ReadRefund(h, f) ==
    \/ refund[f] = "PENDING" /\ Begin(h, "finalize", f)
    \/ refund[f] = "PENDING" /\ Begin(h, "cancel", f)

\* STORE_CREDIT moves no money, and without an account nothing is booked.
AccountOf(f) == IF Method[f] = "CASH" THEN "CASH" ELSE "BANK"
Pays(f) == Method[f] # "STORE_CREDIT" /\ AccountOf(f) \in Seeded

\* The cost that goes back into inventory is that of the SALE_RETURN rows of
\* the source that carry a unit cost.  moveInTx gives an incoming row none
\* unless its caller does, and neither receive nor posInvoiceRefund does.
UnitCostOf(f) == None
CostedRows(f) ==
    {g \in IF f \in Return THEN {f} ELSE Counter : back[g] # 0 /\ UnitCostOf(g) # None}
CostReturned(f) ==
    SumFunction([g \in CostedRows(f) |-> IF Qty[f] < back[g] THEN Qty[f] ELSE back[g]])

Pay(f) ==
    /\ paid' = IF Pays(f) THEN [paid EXCEPT ![f] = @ + 1] ELSE paid
    /\ costBack' = IF Pays(f) THEN [costBack EXCEPT ![f] = @ + CostReturned(f)] ELSE costBack
    /\ announced' = [announced EXCEPT ![f] = @ + 1]

\* Fault: the state read earlier is trusted.
FinalizeUnclaimed(h) ==
    LET f == doc[h] IN
    /\ pc[h] = "finalize"
    /\ SetRefund(f, "COMPLETED")
    /\ Pay(f)
    /\ status' = IF f \in Return THEN [status EXCEPT ![f] = "REFUNDED"] ELSE status
    /\ End(h)
    /\ UNCHANGED <<stockVars, corrected>>

\* Fault: the return is moved on whatever it is.
FinalizeUnlinked(h) ==
    LET f == doc[h] IN
    /\ pc[h] = "finalize"
    /\ refund[f] = "PENDING"
    /\ SetRefund(f, "COMPLETED")
    /\ Pay(f)
    /\ status' = IF f \in Return THEN [status EXCEPT ![f] = "REFUNDED"] ELSE status
    /\ End(h)
    /\ UNCHANGED <<stockVars, corrected>>

\* One transaction: claim the refund, pay, and move the return on.
Finalize(h) ==
    LET f == doc[h] IN
    /\ pc[h] = "finalize"
    /\ refund[f] = "PENDING"
    /\ f \in Return => status[f] = "SETTLED"
    /\ SetRefund(f, "COMPLETED")
    /\ Pay(f)
    /\ status' = IF f \in Return THEN [status EXCEPT ![f] = "REFUNDED"] ELSE status
    /\ End(h)
    /\ UNCHANGED <<stockVars, corrected>>

\* Goods that came in with a counter refund stay in.
Cancel(h) ==
    /\ pc[h] = "cancel"
    /\ refund[doc[h]] = "PENDING"
    /\ SetRefund(doc[h], "CANCELLED")
    /\ End(h)
    /\ UNCHANGED <<status, stockVars, moneyVars, corrected>>

-----------------------------------------------------------------------------
Next ==
    \/ \E r \in Return : RequestReturn(r)
    \/ CorrectInvoice
    \/ \E h \in Handler :
         \/ \E r \in Return : ReadReturn(h, r)
         \/ \E k \in Counter : ReadInvoice(h, k)
         \/ \E f \in Refund : ReadRefund(h, f)
         \/ Approve(h) \/ Reject(h) \/ Receive(h) \/ Settle(h) \/ Link(h)
         \/ OpenRefund(h) \/ Finalize(h) \/ Cancel(h) \/ Fail(h)

Spec == Init /\ [][Next]_vars

-----------------------------------------------------------------------------
\* The money of a refund leaves once and is announced once if the refund is
\* COMPLETED, and else never, however many requests finalize and cancel it
\* at the same time.  (finalizeRefund, cancelRefund: the claims)
PaidOnce ==
    \A f \in Refund :
        /\ paid[f] = IF refund[f] = "COMPLETED" /\ Pays(f) THEN 1 ELSE 0
        /\ announced[f] = IF refund[f] = "COMPLETED" THEN 1 ELSE 0

\* No refund exists for goods that have not come back, once each, though the
\* state of the return is overwritten by handlers that judged an older one.
\* (receive before settle; the goods of a counter refund in its transaction)
GoodsFirst ==
    /\ \A f \in Refund :
         refund[f] # "NONE" /\ f \in Counter \union Sellable => back[f] = Qty[f]
    /\ onHand = Opening + SumFunction(back)

\* A return that says SETTLED waits for a refund that was not paid, and one
\* that says REFUNDED was paid, although settle and finalizeRefund write the
\* two rows in different transactions.  (settle, finalizeRefund)
StatusTellsMoney ==
    \A r \in Return :
        /\ status[r] = "SETTLED" => refund[r] \in {"PENDING", "CANCELLED"}
        /\ status[r] = "REFUNDED" => refund[r] = "COMPLETED"

\* With the money the cost of the goods goes back into inventory.
\* (finalizeRefund: the cost of goods from the SALE_RETURN rows)
CostComesBack ==
    \A f \in Refund : refund[f] = "COMPLETED" /\ Pays(f) => costBack[f] = back[f]
=============================================================================
