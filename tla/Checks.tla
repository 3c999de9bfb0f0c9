------------------------------- MODULE Checks -------------------------------
(***************************************************************************)
(* Cheques received from customers and issued to suppliers                 *)
(* (checks/checks.service.ts).  A transition of a cheque books an entry    *)
(* and changes what customers owe and suppliers are owed, in one           *)
(* transaction.                                                            *)
(*                                                                         *)
(* Requests run concurrently.  A transition reads the cheque, judges it by *)
(* the table of its direction, and claims it by an UPDATE that asks for    *)
(* the version it has read (a compare-and-swap); only then its effects     *)
(* follow, so claim and effects are one action here.  Every entry takes a  *)
(* number under a row lock that is held to the end of the transaction:     *)
(* what a transaction reads after its entry is not changed under it.       *)
(*                                                                         *)
(* Of money only the general ledger is followed, one account standing for  *)
(* cash, banks and their sub-accounts.  The balance kept with a bank       *)
(* account is not: a cheque that clears is posted to the ledger whether or *)
(* not an account is found whose balance it moves (clearingBankInTx).      *)
(***************************************************************************)
EXTENDS Integers, FiniteSets, Functions

CONSTANTS
    Check,
    Direction,  \* of a cheque: RECEIVED or ISSUED
    Source,     \* manual, pos_invoice or purchase_payment
    Amount,
    Key,        \* idempotency keys of transitions
    Handler,
    None

Received == {c \in Check : Direction[c] = "RECEIVED"}
Issued == Check \ Received

ASSUME ChecksAssumption ==
    /\ IsFiniteSet(Check)
    /\ Direction \in [Check -> {"RECEIVED", "ISSUED"}]
    /\ Source \in [Check -> {"manual", "pos_invoice", "purchase_payment"}]
    /\ Amount \in [Check -> Nat \ {0}]
    /\ \A c \in Check :
         /\ Source[c] = "pos_invoice" => c \in Received
         /\ Source[c] = "purchase_payment" => c \in Issued
    /\ None \notin Check \union Key

\* Money (1000, 1100 and 1100-XX), 1220, 1210, 2100, 2110, 4000, 1200 and 2150
\* of the chart of accounts.
Account == {"BANK", "CHECKS_IN", "TRADE", "PAYABLE", "CHECKS_OUT", "SALES", "INVENTORY", "GRNI"}

VARIABLES
    status,         \* of a cheque, NONE before it exists
    version,        \* its lifecycleVersion
    used,           \* idempotency keys of the transitions made
    gl,             \* debits less credits of an account since the start
    arRow,          \* the receivable opened with a received cheque
    arAgain,        \* receivables opened when it came back after clearing
    customerDebt,   \* outstanding of the customer's account
    supplierDebt,   \* outstanding of the supplier's account
    pc, req         \* the write a handler has yet to make, and what it read

checkVars == <<status, version, used>>
receivableVars == <<arRow, arAgain, customerDebt>>
handlerVars == <<pc, req>>

Transitions(c) ==
    IF c \in Received
    THEN [RECEIVED |-> {"DEPOSITED", "CLEARED", "BOUNCED", "RETURNED"},
          DEPOSITED |-> {"CLEARED", "BOUNCED", "RETURNED"},
          CLEARED |-> {"BOUNCED"}, BOUNCED |-> {}, RETURNED |-> {}]
    ELSE [ISSUED |-> {"PRESENTED", "CLEARED", "BOUNCED", "CANCELLED"},
          PRESENTED |-> {"CLEARED", "BOUNCED"},
          CLEARED |-> {"BOUNCED"}, BOUNCED |-> {}, CANCELLED |-> {}]

Status == {"NONE", "RECEIVED", "DEPOSITED", "RETURNED", "ISSUED", "PRESENTED", "CANCELLED",
           "CLEARED", "BOUNCED"}
Dead == {"BOUNCED", "CANCELLED", "RETURNED"}

Transition == [check : Check, to : Status, key : Key, from : Status, version : Nat]

ChecksTypeOK ==
    /\ status \in [Check -> Status]
    /\ \A c \in Check : status[c] \in DOMAIN Transitions(c) \union {"NONE"}
    /\ version \in [Check -> Nat]
    /\ used \subseteq Key
    /\ gl \in [Account -> Int]
    /\ arRow \in [Check -> {"NONE", "OPEN", "SETTLED", "TRADE"}]
    /\ arAgain \in [Check -> Nat]
    /\ customerDebt \in Int /\ supplierDebt \in Int

ChecksInit ==
    /\ status = [c \in Check |-> "NONE"]
    /\ version = [c \in Check |-> 0]
    /\ used = {}
    /\ gl = [a \in Account |-> 0]
    /\ arRow = [c \in Check |-> "NONE"]
    /\ arAgain = [c \in Check |-> 0]
    /\ customerDebt = 0 /\ supplierDebt = 0
    /\ pc = [h \in Handler |-> "idle"]
    /\ req = [h \in Handler |-> None]

Total(S) == SumFunctionOnSet(Amount, S)

-----------------------------------------------------------------------------
(* Parts of handlers *)

Begin(h, write, r) ==
    /\ pc[h] = "idle"
    /\ pc' = [pc EXCEPT ![h] = write]
    /\ req' = [req EXCEPT ![h] = r]

End(h) ==
    /\ pc' = [pc EXCEPT ![h] = "idle"]
    /\ req' = [req EXCEPT ![h] = None]

Entry(debit, credit, n) ==
    [a \in Account |-> (IF a = debit THEN n ELSE 0) - (IF a = credit THEN n ELSE 0)]
Book(entry) == gl' = [a \in Account |-> gl[a] + entry[a]]

\* ensureArCheckRowInTx
OpenReceivable(c) ==
    /\ arRow' = [arRow EXCEPT ![c] = "OPEN"]
    /\ customerDebt' = customerDebt + Amount[c]
    /\ UNCHANGED arAgain

-----------------------------------------------------------------------------
(* Creation *)

\* Fault: every cheque starts as one received.
CreateAsReceived(c) ==
    /\ status[c] = "NONE" /\ Source[c] = "manual"
    /\ status' = [status EXCEPT ![c] = "RECEIVED"]
    /\ IF c \in Received THEN OpenReceivable(c) ELSE UNCHANGED receivableVars
    /\ UNCHANGED <<version, used, gl, supplierDebt, handlerVars>>

\* A cheque entered by hand books nothing; a received one opens a receivable.
Create(c) ==
    /\ status[c] = "NONE" /\ Source[c] = "manual"
    /\ status' = [status EXCEPT ![c] = Direction[c]]
    /\ IF c \in Received THEN OpenReceivable(c) ELSE UNCHANGED receivableVars
    /\ UNCHANGED <<version, used, gl, supplierDebt, handlerVars>>

\* A cheque a customer pays with; it books nothing itself.
CreateReceivedInTx(c) ==
    /\ status[c] = "NONE" /\ Source[c] = "pos_invoice"
    /\ status' = [status EXCEPT ![c] = "RECEIVED"]
    /\ OpenReceivable(c)

\* A counter sale paid by cheque takes the cheque and books it against revenue,
\* in one transaction (its goods are not followed here).
SellByCheck(c) ==
    /\ CreateReceivedInTx(c)
    /\ Book(Entry("CHECKS_IN", "SALES", Amount[c]))
    /\ UNCHANGED <<version, used, supplierDebt, handlerVars>>

\* Issued by a payment of a purchase invoice, within its transaction.
CreateIssuedInTx(c) ==
    /\ status[c] = "NONE" /\ Source[c] = "purchase_payment"
    /\ status' = [status EXCEPT ![c] = "ISSUED"]
    /\ Book(Entry("PAYABLE", "CHECKS_OUT", Amount[c]))
    /\ UNCHANGED <<version, used, receivableVars>>

-----------------------------------------------------------------------------
(* Effects of a transition (applyEffectsInTx) *)

NoEffect == UNCHANGED <<gl, receivableVars>>

\* settleArCheckInTx
ClearReceived(c) ==
    /\ Book(Entry("BANK", "CHECKS_IN", Amount[c]))
    /\ arRow' = IF arRow[c] = "OPEN" THEN [arRow EXCEPT ![c] = "SETTLED"] ELSE arRow
    /\ customerDebt' = IF arRow[c] \in {"OPEN", "SETTLED"} THEN customerDebt - Amount[c] ELSE customerDebt
    /\ UNCHANGED arAgain

\* Fault: the receivable of a cheque that comes back is opened a second time,
\* as after clearing.
ReturnReceivedReopened(c) ==
    /\ UNCHANGED arRow
    /\ Book(Entry("TRADE", "CHECKS_IN", Amount[c]))
    /\ arAgain' = [arAgain EXCEPT ![c] = @ + 1]
    /\ customerDebt' = customerDebt + Amount[c]

\* Back before it was cleared: its receivable becomes a trade receivable
\* (convertArCheckToTradeInTx).
ReturnReceived(c) ==
    /\ UNCHANGED <<arAgain, customerDebt>>
    /\ Book(Entry("TRADE", "CHECKS_IN", Amount[c]))
    /\ arRow' = [arRow EXCEPT ![c] = IF @ \in {"OPEN", "SETTLED"} THEN "TRADE" ELSE @]

\* Back after it was cleared: a new trade receivable (reinstateArTradeInTx).
ChargeBack(c) ==
    /\ Book(Entry("TRADE", "BANK", Amount[c]))
    /\ arAgain' = [arAgain EXCEPT ![c] = @ + 1]
    /\ customerDebt' = customerDebt + Amount[c]
    /\ UNCHANGED arRow

ReceivedEffects(c, from, to) ==
    CASE to = "CLEARED" -> ClearReceived(c)
      [] to \in Dead /\ from = "CLEARED" -> ChargeBack(c)
      [] to \in Dead /\ from # "CLEARED" -> ReturnReceived(c)
      [] OTHER -> NoEffect

IssuedEffects(c, from, to) ==
    /\ CASE to = "CLEARED" -> Book(Entry("CHECKS_OUT", "BANK", Amount[c]))
         [] to \in Dead /\ from = "CLEARED" -> Book(Entry("BANK", "PAYABLE", Amount[c]))
         [] to \in Dead /\ from # "CLEARED" -> Book(Entry("CHECKS_OUT", "PAYABLE", Amount[c]))
         [] OTHER -> UNCHANGED gl
    /\ UNCHANGED receivableVars

Effects(c, from, to) ==
    IF c \in Received THEN ReceivedEffects(c, from, to) ELSE IssuedEffects(c, from, to)

-----------------------------------------------------------------------------
(* Transitions *)

\* A key that was used is answered with the transition it made.
ReadCheck(h, c, to, k) ==
    /\ status[c] # "NONE"
    /\ k \notin used
    /\ to \in Transitions(c)[status[c]]
    /\ Begin(h, "transition", [check |-> c, to |-> to, key |-> k,
                               from |-> status[c], version |-> version[c]])
    /\ UNCHANGED <<checkVars, gl, receivableVars, supplierDebt>>

\* Fault: the version is not asked for.
ClaimAnyVersion(h) ==
    LET r == req[h] IN
    /\ pc[h] = "transition"
    /\ r.key \notin used
    /\ status' = [status EXCEPT ![r.check] = r.to]
    /\ version' = [version EXCEPT ![r.check] = r.version + 1]
    /\ used' = used \union {r.key}

\* The compare-and-swap and the unique key of the transition's row.
Claim(h) ==
    LET r == req[h] IN
    /\ pc[h] = "transition"
    /\ version[r.check] = r.version /\ r.key \notin used
    /\ status' = [status EXCEPT ![r.check] = r.to]
    /\ version' = [version EXCEPT ![r.check] = r.version + 1]
    /\ used' = used \union {r.key}

\* The handler dies, loses the race, or its transaction is rolled back.
Fail(h) ==
    /\ pc[h] # "idle"
    /\ End(h)
    /\ UNCHANGED <<checkVars, gl, receivableVars, supplierDebt>>
=============================================================================
