----------------------------- MODULE Purchasing -----------------------------
(***************************************************************************)
(* Buying goods (inventory/purchasing.service.ts): a purchase order is     *)
(* sent, goods are received against it, the supplier's invoice for a       *)
(* receipt is posted, and paid out of an account of the shop (by transfer  *)
(* or in cash) or by a cheque (module Checks), which may come back later.  *)
(*                                                                         *)
(* A handler reads its documents and judges them before its transaction;   *)
(* what it writes is decided by what it read, except the amounts it adds.  *)
(* One supplier; a receipt has one line, and its invoice repeats the       *)
(* quantity, so the match of the three documents is an equality of lines.  *)
(***************************************************************************)
EXTENDS Checks

CONSTANTS
    Order,          \* purchase orders
    Receipt,        \* goods receipts
    OrderOf,        \* the order a receipt is made against, or None
    Worth,          \* value of a receipt
    Invoice,        \* purchase invoices
    ReceiptOf,      \* the receipt an invoice is for
    GrandTotal,     \* of an invoice
    Transfer        \* amounts paid by transfer or in cash

ASSUME PurchasingAssumption ==
    /\ IsFiniteSet(Invoice)
    /\ OrderOf \in [Receipt -> Order \union {None}] /\ None \notin Order
    /\ Worth \in [Receipt -> Nat \ {0}]
    /\ ReceiptOf \in [Invoice -> Receipt]
    /\ GrandTotal \in [Invoice -> Nat \ {0}]
    /\ Transfer \subseteq Nat \ {0}

VARIABLES
    order,          \* status of an order, DRAFT from its creation
    wasSent,        \* the orders that have been sent to the supplier
    received,       \* the receipts posted
    invoice,        \* state of an invoice, NONE before it is posted
    apPaid,         \* paidAmount of its payable
    apState,
    transferred,    \* its payments by transfer and in cash, added up
    unbooked,       \* those for which no account was found, so no entry booked
    paidBy          \* the cheques among its payments

orderVars == <<order, wasSent, received>>
payableVars == <<invoice, apPaid, apState>>
paymentVars == <<transferred, unbooked, paidBy>>
vars == <<checkVars, gl, receivableVars, supplierDebt, handlerVars,
          orderVars, payableVars, paymentVars>>

PayRequest == [invoice : Invoice, check : Check \union {None}, amount : Nat,
               transferred : Nat, paidBy : SUBSET Issued, effective : Nat]

HandlerTypeOK(h) ==
    \/ pc[h] = "idle" /\ req[h] = None
    \/ pc[h] = "transition" /\ req[h] \in Transition
    \/ pc[h] \in {"send", "cancel"} /\ req[h] \in Order
    \/ pc[h] = "receive" /\ req[h] \in Receipt
    \/ pc[h] \in {"judge", "pay"} /\ req[h] \in PayRequest

TypeOK ==
    /\ ChecksTypeOK
    /\ order \in [Order -> {"DRAFT", "SENT", "RECEIVED", "CANCELLED"}]
    /\ wasSent \subseteq Order
    /\ received \subseteq Receipt
    /\ invoice \in [Invoice -> {"NONE", "POSTED", "PARTIALLY_PAID", "PAID"}]
    /\ apPaid \in [Invoice -> Nat]
    /\ apState \in [Invoice -> {"OPEN", "PARTIAL", "SETTLED"}]
    /\ transferred \in [Invoice -> Nat] /\ unbooked \in [Invoice -> Nat]
    /\ paidBy \in [Invoice -> SUBSET Issued]
    /\ DOMAIN pc = Handler /\ DOMAIN req = Handler
    /\ \A h \in Handler : HandlerTypeOK(h)

Init ==
    /\ ChecksInit
    /\ order = [o \in Order |-> "DRAFT"]
    /\ wasSent = {} /\ received = {}
    /\ invoice = [i \in Invoice |-> "NONE"]
    /\ apPaid = [i \in Invoice |-> 0]
    /\ apState = [i \in Invoice |-> "OPEN"]
    /\ transferred = [i \in Invoice |-> 0]
    /\ unbooked = [i \in Invoice |-> 0]
    /\ paidBy = [i \in Invoice |-> {}]

Live(S) == {c \in S : status[c] \notin Dead}

-----------------------------------------------------------------------------
(* Orders and receipts *)

HasReceipt(o) == \E g \in received : OrderOf[g] = o

ReadOrder(h, o) ==
    /\ ~HasReceipt(o)
    /\ \/ order[o] = "DRAFT" /\ Begin(h, "send", o)
       \/ Begin(h, "cancel", o)
    /\ UNCHANGED <<checkVars, gl, receivableVars, supplierDebt, orderVars, payableVars, paymentVars>>

SendPO(h) ==
    /\ pc[h] = "send"
    /\ order' = [order EXCEPT ![req[h]] = "SENT"]
    /\ wasSent' = wasSent \union {req[h]}
    /\ End(h)
    /\ UNCHANGED <<checkVars, gl, receivableVars, supplierDebt, received, payableVars, paymentVars>>

CancelPO(h) ==
    /\ pc[h] = "cancel"
    /\ order' = [order EXCEPT ![req[h]] = "CANCELLED"]
    /\ End(h)
    /\ UNCHANGED <<checkVars, gl, receivableVars, supplierDebt, wasSent, received, payableVars, paymentVars>>

\* Fault: any order is good enough to receive goods.
ReadReceiptAnyOrder(h, g) ==
    /\ g \notin received
    /\ Begin(h, "receive", g)
    /\ UNCHANGED <<checkVars, gl, receivableVars, supplierDebt, orderVars, payableVars, paymentVars>>

\* Goods are received against an order that was sent, more than once too, or
\* against none.
ReadReceipt(h, g) ==
    /\ g \notin received
    /\ OrderOf[g] # None => order[OrderOf[g]] \in {"SENT", "RECEIVED"}
    /\ Begin(h, "receive", g)
    /\ UNCHANGED <<checkVars, gl, receivableVars, supplierDebt, orderVars, payableVars, paymentVars>>

\* The goods come in (module StockLedger) with the receipt and its entry.
CreateGRN(h) ==
    LET g == req[h] IN
    /\ pc[h] = "receive" /\ g \notin received
    /\ received' = received \union {g}
    /\ order' = IF OrderOf[g] = None THEN order ELSE [order EXCEPT ![OrderOf[g]] = "RECEIVED"]
    /\ Book(Entry("INVENTORY", "GRNI", Worth[g]))
    /\ End(h)
    /\ UNCHANGED <<checkVars, receivableVars, supplierDebt, wasSent, payableVars, paymentVars>>

-----------------------------------------------------------------------------
(* Invoices and their payment *)

\* One transaction; the receipt it is matched with does not change.  What the
\* invoice adds to the receipt, or takes off it, goes to inventory.
CreateInvoice(i) ==
    LET g == ReceiptOf[i] IN
    /\ invoice[i] = "NONE" /\ g \in received
    /\ invoice' = [invoice EXCEPT ![i] = "POSTED"]
    /\ supplierDebt' = supplierDebt + GrandTotal[i]
    /\ Book([a \in Account |-> Entry("GRNI", "PAYABLE", GrandTotal[i])[a]
                             + Entry("GRNI", "INVENTORY", Worth[g] - GrandTotal[i])[a]])
    /\ UNCHANGED <<checkVars, receivableVars, handlerVars, orderVars, apPaid, apState, paymentVars>>

\* payInvoice reads the invoice with its payments, ...
ReadInvoice(h, i, c, n) ==
    /\ invoice[i] \in {"POSTED", "PARTIALLY_PAID"}
    /\ Begin(h, "judge", [invoice |-> i, check |-> c, amount |-> n, effective |-> 0,
                          transferred |-> transferred[i], paidBy |-> paidBy[i]])
    /\ UNCHANGED <<checkVars, gl, receivableVars, supplierDebt, orderVars, payableVars, paymentVars>>

\* ... then which of their cheques have come back; what is left is compared
\* with the total.
JudgePayment(h) ==
    LET r == req[h]
        paid == r.transferred + Total(Live(r.paidBy)) + r.amount IN
    /\ pc[h] = "judge"
    /\ paid <= GrandTotal[r.invoice]
    /\ pc' = [pc EXCEPT ![h] = "pay"]
    /\ req' = [req EXCEPT ![h].effective = paid]
    /\ UNCHANGED <<checkVars, gl, receivableVars, supplierDebt, orderVars, payableVars, paymentVars>>

ApStateOf(i, paid) ==
    IF paid >= GrandTotal[i] THEN "SETTLED" ELSE IF paid > 0 THEN "PARTIAL" ELSE "OPEN"

\* What a handler reads of the payable.  A payment with an entry holds the
\* number of the entry until it commits, and the payable is read after that;
\* one for which no account was found waits for nobody, so once there is one
\* the payable can be read before another payment of it is written.
PaidSeen(i, withEntry) ==
    IF withEntry /\ unbooked[i] = 0
    THEN {apPaid[i]}
    ELSE 0..(transferred[i] + Total(paidBy[i]))

PayByCheck(i, c) ==
    /\ CreateIssuedInTx(c)
    /\ paidBy' = [paidBy EXCEPT ![i] = @ \union {c}]
    /\ UNCHANGED <<transferred, unbooked>>

\* Without an account the payment counts but nothing is booked
\* (debitForPurchaseInTx).
PayFromAccount(i, n, found) ==
    /\ IF found
       THEN Book(Entry("PAYABLE", "BANK", n)) /\ UNCHANGED unbooked
       ELSE unbooked' = [unbooked EXCEPT ![i] = @ + n] /\ UNCHANGED gl
    /\ transferred' = [transferred EXCEPT ![i] = @ + n]
    /\ UNCHANGED <<checkVars, receivableVars, paidBy>>

PayMeans(r, found) ==
    IF r.check # None
    THEN found /\ PayByCheck(r.invoice, r.check)
    ELSE PayFromAccount(r.invoice, r.amount, found)

\* The payable, the supplier's account and the invoice follow.
Settle(r, paid) ==
    LET i == r.invoice IN
    /\ apPaid' = [apPaid EXCEPT ![i] = paid]
    /\ apState' = [apState EXCEPT ![i] = IF paid >= GrandTotal[i] THEN "SETTLED" ELSE "PARTIAL"]
    /\ supplierDebt' = supplierDebt - r.amount
    /\ invoice' = [invoice EXCEPT ![i] = IF r.effective >= GrandTotal[i] THEN "PAID" ELSE "PARTIALLY_PAID"]

\* Fault: the payable is set to what was counted before the transaction.
PayStale(h) ==
    LET r == req[h] IN
    /\ pc[h] = "pay"
    /\ \E found \in BOOLEAN : PayMeans(r, found)
    /\ Settle(r, r.effective)
    /\ End(h)
    /\ UNCHANGED orderVars

Pay(h) ==
    LET r == req[h] IN
    /\ pc[h] = "pay"
    /\ \E found \in BOOLEAN :
         /\ PayMeans(r, found)
         /\ \E seen \in PaidSeen(r.invoice, found) : Settle(r, seen + r.amount)
    /\ End(h)
    /\ UNCHANGED orderVars

-----------------------------------------------------------------------------
(* Transitions of cheques *)

\* reinstateSupplierDebtInTx.  The invoice the cheque was paid for keeps its
\* state.
ReinstateSupplierDebt(c) ==
    LET Left(seen) == IF seen > Amount[c] THEN seen - Amount[c] ELSE 0 IN
    /\ supplierDebt' = supplierDebt + Amount[c]
    /\ IF \E i \in Invoice : c \in paidBy[i]
       THEN \E i \in {j \in Invoice : c \in paidBy[j]} : \E seen \in PaidSeen(i, TRUE) :
              /\ apPaid' = [apPaid EXCEPT ![i] = Left(seen)]
              /\ apState' = [apState EXCEPT ![i] = ApStateOf(i, Left(seen))]
       ELSE UNCHANGED <<apPaid, apState>>
    /\ UNCHANGED invoice

TransitionOf(h) ==
    LET r == req[h] IN
    /\ Claim(h)
    /\ Effects(r.check, r.from, r.to)
    /\ IF r.check \in Issued /\ r.to \in Dead
       THEN ReinstateSupplierDebt(r.check)
       ELSE UNCHANGED <<supplierDebt, payableVars>>
    /\ End(h)
    /\ UNCHANGED <<orderVars, paymentVars>>

-----------------------------------------------------------------------------
Next ==
    \/ \E c \in Check :
         /\ Create(c) \/ SellByCheck(c)
         /\ UNCHANGED <<orderVars, payableVars, paymentVars>>
    \/ \E i \in Invoice : CreateInvoice(i)
    \/ \E h \in Handler :
         \/ \E c \in Check, to \in Status \ {"NONE"}, k \in Key :
              ReadCheck(h, c, to, k) /\ UNCHANGED <<orderVars, payableVars, paymentVars>>
         \/ TransitionOf(h)
         \/ \E o \in Order : ReadOrder(h, o)
         \/ \E g \in Receipt : ReadReceipt(h, g)
         \/ SendPO(h) \/ CancelPO(h) \/ CreateGRN(h)
         \/ \E i \in Invoice :
              \/ \E n \in Transfer : ReadInvoice(h, i, None, n)
              \/ \E c \in Check :
                   Source[c] = "purchase_payment" /\ status[c] = "NONE" /\ ReadInvoice(h, i, c, Amount[c])
         \/ JudgePayment(h) \/ Pay(h)
         \/ Fail(h) /\ UNCHANGED <<orderVars, payableVars, paymentVars>>

Spec == Init /\ [][Next]_vars

-----------------------------------------------------------------------------
InHand(c) == status[c] \in {"RECEIVED", "DEPOSITED", "ISSUED", "PRESENTED"}

\* What was booked when a cheque came into being less what was booked when it
\* left: a cheque entered by hand is booked out only.
OnAccount(S) ==
    Total({c \in S : Source[c] # "manual" /\ InHand(c)})
      - Total({c \in S : Source[c] = "manual" /\ status[c] # "NONE" /\ ~InHand(c)})

\* The general ledger says what the cheques say: those in hand, those
\* outstanding, those that came back, and of money what was cleared and what was
\* paid out of an account that was found, however requests about one cheque
\* overlap and whichever way it went.
\* (transition, applyEffectsInTx, payInvoice, debitForPurchaseInTx)
BooksMatchChecks ==
    /\ gl["CHECKS_IN"] = OnAccount(Received)
    /\ gl["CHECKS_OUT"] = -OnAccount(Issued)
    /\ gl["TRADE"] = Total({c \in Received : status[c] \in Dead})
    /\ gl["BANK"] = Total({c \in Received : status[c] = "CLEARED"})
                      - Total({c \in Issued : status[c] = "CLEARED"})
                      - SumFunction(transferred) + SumFunction(unbooked)

\* A customer owes the cheques that have not been cleared or came back, once
\* each, and the open receivables add up to it.
\* (ensureArCheckRowInTx, settleArCheckInTx, reinstateArTradeInTx)
CustomerOwes ==
    /\ customerDebt = Total({c \in Received : status[c] \notin {"NONE", "CLEARED"}})
    /\ customerDebt = Total({c \in Received : arRow[c] \in {"OPEN", "TRADE"}})
                        + SumFunction([c \in Received |-> arAgain[c] * Amount[c]])

\* The account of the supplier counts, of every invoice, the transfers and the
\* cheques that have not come back, however payments and transitions overlap.
\* The general account of payables differs from it by the payments for which no
\* account was found, and by nothing else; the payable of an invoice, which is
\* read and written, agrees with its payments as long as there is none of those.
\* (payInvoice, debitForPurchaseInTx, reinstateSupplierDebtInTx)
PayablesMatch ==
    /\ \A i \in Invoice :
         /\ unbooked[i] = 0 => apPaid[i] = transferred[i] + Total(Live(paidBy[i]))
         /\ apState[i] = ApStateOf(i, apPaid[i])
    /\ supplierDebt =
         SumFunction([i \in {j \in Invoice : invoice[j] # "NONE"} |->
                        GrandTotal[i] - transferred[i] - Total(Live(paidBy[i]))])
           + Total({c \in Issued : Source[c] = "manual" /\ status[c] \in Dead})
    /\ gl["PAYABLE"] = -supplierDebt - SumFunction(unbooked)

\* Goods are received only against an order that was sent, whatever its state
\* has been overwritten with.  (createGRN, sendPO, cancelPO)
ReceivedWasSent ==
    \A g \in received : OrderOf[g] # None => OrderOf[g] \in wasSent
=============================================================================
