-------------------------- MODULE PurchasingProofs --------------------------
(***************************************************************************)
(* Proofs, for every set of orders, receipts, invoices, cheques and        *)
(* concurrent handlers, that the accounts, what customers owe and what the *)
(* supplier is owed say what the cheques and the payments say.             *)
(*                                                                         *)
(* What is in an account on behalf of a cheque depends on the state of the *)
(* cheque alone: a table gives its value for each state, and an account is *)
(* the sum of these values (Value).  A transition moves one cheque, so it  *)
(* changes a sum by the difference of two values of one table, which the   *)
(* entry it books must be (ValueMoves).                                    *)
(*                                                                         *)
(* A transition is booked for the states its handler has read.  That they  *)
(* are still the states of the cheque is what the version tells (Knows).   *)
(***************************************************************************)
EXTENDS Purchasing, Sums, TLAPS

OutOfHand == Status \ {"NONE", "RECEIVED", "DEPOSITED", "ISSUED", "PRESENTED"}

\* What a cheque in a state puts on account: one entered by hand is booked
\* out only.
OnAccountOf(S) ==
    [c \in Check |-> [s \in Status |->
        CASE c \in S /\ Source[c] # "manual" /\ s \in Status \ (OutOfHand \union {"NONE"}) -> Amount[c]
          [] c \in S /\ Source[c] = "manual" /\ s \in OutOfHand -> -Amount[c]
          [] OTHER -> 0]]

\* The amounts of the cheques of S that are in a state of F.
AmountIf(S, F) == [c \in Check |-> [s \in Status |-> IF c \in S /\ s \in F THEN Amount[c] ELSE 0]]

InBank ==
    [c \in Check |-> [s \in Status |->
        IF s # "CLEARED" THEN 0 ELSE IF c \in Received THEN Amount[c] ELSE -Amount[c]]]

Owing == Status \ {"NONE", "CLEARED"}
Alive == Status \ Dead
ByHand == {c \in Issued : Source[c] = "manual"}

Table == [Check -> [Status -> Int]]

\* What the cheques add up to by a table, their states being st.
Value(table, st) == Sum([c \in Check |-> table[c][st[c]]], Check)

-----------------------------------------------------------------------------
(* The invariant *)

\* A handler that has read a cheque knows its state for as long as its version
\* is the one it read.
KnowsCheck(r) ==
    /\ r.version <= version[r.check]
    /\ version[r.check] = r.version => status[r.check] = r.from
    /\ r.from \in DOMAIN Transitions(r.check) /\ r.to \in Transitions(r.check)[r.from]

\* A payment is by a cheque of its amount, or a transfer.
KnowsInvoice(r) ==
    /\ invoice[r.invoice] # "NONE"
    /\ r.amount > 0
    /\ r.check # None => Source[r.check] = "purchase_payment" /\ r.amount = Amount[r.check]

KnowsOrder(g) == OrderOf[g] # None => OrderOf[g] \in wasSent

Knows(h) ==
    /\ pc[h] = "transition" => KnowsCheck(req[h])
    /\ pc[h] \in {"judge", "pay"} => KnowsInvoice(req[h])
    /\ pc[h] = "receive" => KnowsOrder(req[h])

Sent ==
    /\ \A o \in Order : order[o] \in {"SENT", "RECEIVED"} => o \in wasSent
    /\ ReceivedWasSent

\* The receivables of a received cheque follow its state.
Follows(row, again, s) ==
    CASE s = "NONE" -> row = "NONE" /\ again = 0
      [] s \in {"RECEIVED", "DEPOSITED"} -> row = "OPEN" /\ again = 0
      [] s = "CLEARED" -> row = "SETTLED" /\ again = 0
      [] OTHER -> \/ row = "TRADE" /\ again = 0
                  \/ row = "SETTLED" /\ again = 1

Receivables == \A c \in Received : Follows(arRow[c], arAgain[c], status[c])

\* A cheque issued for an invoice is a payment of one invoice.
Payments ==
    /\ \A i \in Invoice, c \in Check :
         c \in paidBy[i] => Source[c] = "purchase_payment" /\ status[c] # "NONE"
    /\ \A i, j \in Invoice, c \in Check : c \in paidBy[i] /\ c \in paidBy[j] => i = j
    /\ \A c \in Check : Source[c] = "purchase_payment" /\ status[c] # "NONE" =>
         \E i \in Invoice : c \in paidBy[i]

\* The payments of an invoice that have not come back.
Effective == [i \in Invoice |-> transferred[i] + Value(AmountIf(paidBy[i], Alive), status)]

Payables ==
    \A i \in Invoice :
        /\ invoice[i] = "NONE" => Effective[i] = 0 /\ paidBy[i] = {}
        /\ unbooked[i] = 0 => apPaid[i] = Effective[i]
        /\ apState[i] = ApStateOf(i, apPaid[i])

Unpaid == [i \in Invoice |-> IF invoice[i] = "NONE" THEN 0 ELSE GrandTotal[i] - Effective[i]]

Books ==
    /\ gl["CHECKS_IN"] = Value(OnAccountOf(Received), status)
    /\ gl["CHECKS_OUT"] = -Value(OnAccountOf(Issued), status)
    /\ gl["TRADE"] = Value(AmountIf(Received, Dead), status)
    /\ gl["BANK"] = Value(InBank, status) - Sum(transferred, Invoice) + Sum(unbooked, Invoice)
    /\ gl["PAYABLE"] = -supplierDebt - Sum(unbooked, Invoice)
    /\ customerDebt = Value(AmountIf(Received, Owing), status)
    /\ supplierDebt = Sum(Unpaid, Invoice) + Value(AmountIf(ByHand, Dead), status)

\* The rows alone, without the handlers.
Types ==
    /\ ChecksTypeOK
    /\ order \in [Order -> {"DRAFT", "SENT", "RECEIVED", "CANCELLED"}]
    /\ wasSent \subseteq Order
    /\ received \subseteq Receipt
    /\ invoice \in [Invoice -> {"NONE", "POSTED", "PARTIALLY_PAID", "PAID"}]
    /\ apPaid \in [Invoice -> Nat]
    /\ apState \in [Invoice -> {"OPEN", "PARTIAL", "SETTLED"}]
    /\ transferred \in [Invoice -> Nat] /\ unbooked \in [Invoice -> Nat]
    /\ paidBy \in [Invoice -> SUBSET Issued]

Data == Types /\ Sent /\ Receivables /\ Payments /\ Payables /\ Books

Handlers ==
    /\ DOMAIN pc = Handler /\ DOMAIN req = Handler
    /\ \A h \in Handler : HandlerTypeOK(h) /\ Knows(h)

Inv == Data /\ Handlers

\* What no step takes back: a cheque that exists does not change under its
\* version, an invoice is not deleted, and an order that was sent was sent.
Grows ==
    /\ \A c \in Check :
         /\ version'[c] \in Int /\ version'[c] >= version[c]
         /\ version'[c] = version[c] => status'[c] = status[c] \/ status[c] = "NONE"
    /\ \A i \in Invoice : invoice[i] # "NONE" => invoice'[i] # "NONE"
    /\ wasSent \subseteq wasSent'

\* Only h moves, from what it knows to what it knows.
Moves(h) ==
    /\ DOMAIN pc' = Handler /\ DOMAIN req' = Handler
    /\ \A g \in Handler : g # h => pc'[g] = pc[g] /\ req'[g] = req[g]
    /\ HandlerTypeOK(h)' /\ Knows(h)'

-----------------------------------------------------------------------------
(* Tables and their values *)

LEMMA Directions ==
  /\ Received \subseteq Check /\ Issued \subseteq Check /\ ByHand \subseteq Issued
  /\ \A c \in Check : c \in Issued <=> c \notin Received
  /\ \A c \in Check : /\ Amount[c] \in Nat /\ Amount[c] > 0
                      /\ Source[c] = "pos_invoice" => c \in Received
                      /\ Source[c] = "purchase_payment" => c \in Issued /\ c \notin ByHand
                      /\ c \in ByHand <=> c \in Issued /\ Source[c] = "manual"
                      /\ Direction[c] = IF c \in Received THEN "RECEIVED" ELSE "ISSUED"
  /\ IsFiniteSet(Check) /\ IsFiniteSet(Invoice)
  BY ChecksAssumption, PurchasingAssumption DEF Received, Issued, ByHand

LEMMA AmountIfIs ==
  ASSUME NEW S, NEW F, NEW c \in Check, NEW s \in Status
  PROVE  AmountIf(S, F)[c][s] = IF c \in S /\ s \in F THEN Amount[c] ELSE 0
  BY DEF AmountIf

LEMMA OnAccountIs ==
  ASSUME NEW S, NEW c \in Check, NEW s \in Status
  PROVE  OnAccountOf(S)[c][s] =
           IF c \notin S \/ s = "NONE" THEN 0
           ELSE IF Source[c] = "manual" THEN (IF s \in OutOfHand THEN -Amount[c] ELSE 0)
           ELSE (IF s \in OutOfHand THEN 0 ELSE Amount[c])
  <1>1. "NONE" \notin OutOfHand
    BY DEF OutOfHand
  <1>. QED  BY <1>1 DEF OnAccountOf

LEMMA InBankIs ==
  ASSUME NEW c \in Check, NEW s \in Status
  PROVE  InBank[c][s] =
           IF s # "CLEARED" THEN 0 ELSE IF c \in Received THEN Amount[c] ELSE -Amount[c]
  BY DEF InBank

LEMMA Tables ==
  /\ InBank \in Table
  /\ \A S : OnAccountOf(S) \in Table
  /\ \A S, F : AmountIf(S, F) \in Table
  <1>1. InBank \in Table
    BY Directions DEF Table, InBank
  <1>2. ASSUME NEW S  PROVE OnAccountOf(S) \in Table
    BY Directions DEF Table, OnAccountOf
  <1>3. ASSUME NEW S, NEW F  PROVE AmountIf(S, F) \in Table
    BY Directions DEF Table, AmountIf
  <1>. QED  BY <1>1, <1>2, <1>3

LEMMA ValueInt ==
  ASSUME NEW t \in Table, NEW st \in [Check -> Status]
  PROVE  Value(t, st) \in Int
  <1>. DEFINE f == [c \in Check |-> t[c][st[c]]]
  <1>1. \A c \in Check : f[c] \in Int
    BY DEF Table
  <1>. HIDE DEF f
  <1>2. Sum(f, Check) \in Int
    BY <1>1, Directions, SumInt
  <1>. QED  BY <1>2 DEF Value, f

\* Amounts are not negative.
LEMMA AmountsNat ==
  ASSUME NEW S, NEW F, NEW st \in [Check -> Status]
  PROVE  Value(AmountIf(S, F), st) \in Nat
  <1>. DEFINE f == [c \in Check |-> AmountIf(S, F)[c][st[c]]]
  <1>1. \A c \in Check : f[c] \in Nat
    BY AmountIfIs, Directions
  <1>. HIDE DEF f
  <1>2. Sum(f, Check) \in Nat
    BY <1>1, Directions, SumNat
  <1>. QED  BY <1>2 DEF Value, f

\* Of one cheque the state, or what the table says of it, changes.
LEMMA ValueChange ==
  ASSUME NEW t \in Table, NEW u \in Table, NEW st \in [Check -> Status], NEW su \in [Check -> Status],
         NEW c \in Check, \A d \in Check : d # c => u[d][su[d]] = t[d][st[d]]
  PROVE  Value(u, su) = Value(t, st) + u[c][su[c]] - t[c][st[c]]
  <1>. DEFINE f == [d \in Check |-> t[d][st[d]]]
              g == [d \in Check |-> u[d][su[d]]]
  <1>1. /\ \A d \in Check : f[d] \in Int /\ g[d] \in Int
        /\ \A d \in Check : d # c => g[d] = f[d]
        /\ f[c] = t[c][st[c]] /\ g[c] = u[c][su[c]]
    BY DEF Table
  <1>. HIDE DEF f, g
  <1>2. Sum(g, Check) = Sum(f, Check) + g[c] - f[c]
    BY <1>1, Directions, SumChange
  <1>. QED  BY <1>1, <1>2 DEF Value, f, g

LEMMA ValueMoves ==
  ASSUME NEW t \in Table, NEW st \in [Check -> Status], NEW su \in [Check -> Status],
         NEW c \in Check, \A d \in Check : d # c => su[d] = st[d]
  PROVE  Value(t, su) = Value(t, st) + t[c][su[c]] - t[c][st[c]]
  <1>1. \A d \in Check : d # c => t[d][su[d]] = t[d][st[d]]
    OBVIOUS
  <1>. QED  BY ONLY <1>1, ValueChange, t \in Table, st \in [Check -> Status],
               su \in [Check -> Status], c \in Check

\* The totals of the properties are values.
LEMMA TotalIsValue ==
  ASSUME NEW S \in SUBSET Check, NEW F, NEW st \in [Check -> Status],
         NEW T, T = {c \in S : st[c] \in F}
  PROVE  Total(T) = Value(AmountIf(S, F), st)
  <1>. DEFINE g == [c \in Check |-> AmountIf(S, F)[c][st[c]]]
  <1>1. T \in SUBSET Check /\ \A c \in Check : g[c] = IF c \in T THEN Amount[c] ELSE 0
    BY AmountIfIs
  <1>. HIDE DEF g
  <1>2. Sum(g, Check) = Sum(Amount, T)
    BY <1>1, Directions, SumFilter
  <1>. QED  BY <1>2 DEF Total, Sum, Value, g

-----------------------------------------------------------------------------
(* Handlers *)

LEMMA TypesAre == TypeOK <=> Types /\ DOMAIN pc = Handler /\ DOMAIN req = Handler
                                   /\ \A h \in Handler : HandlerTypeOK(h)
  BY DEF TypeOK, Types

\* States a cheque of either direction can be in, and what follows them.
LEMMA TransitionFacts ==
  ASSUME NEW c \in Check
  PROVE  /\ "NONE" \notin DOMAIN Transitions(c)
         /\ \A from \in DOMAIN Transitions(c) : \A to \in Transitions(c)[from] :
              /\ from \in Status /\ to \in DOMAIN Transitions(c)
              /\ c \in Received =>
                   \/ from = "RECEIVED" /\ to = "DEPOSITED"
                   \/ from \in {"RECEIVED", "DEPOSITED"} /\ to = "CLEARED"
                   \/ from \in {"RECEIVED", "DEPOSITED"} /\ to \in {"BOUNCED", "RETURNED"}
                   \/ from = "CLEARED" /\ to = "BOUNCED"
              /\ c \in Issued =>
                   \/ from = "ISSUED" /\ to = "PRESENTED"
                   \/ from \in {"ISSUED", "PRESENTED"} /\ to = "CLEARED"
                   \/ from \in {"ISSUED", "PRESENTED"} /\ to \in {"BOUNCED", "CANCELLED"}
                   \/ from = "CLEARED" /\ to = "BOUNCED"
  <1>1. CASE c \in Received
    BY <1>1, Directions DEF Transitions, Status
  <1>2. CASE c \notin Received
    BY <1>2, Directions DEF Transitions, Status
  <1>. QED  BY <1>1, <1>2

LEMMA States == \A c \in Check : DOMAIN Transitions(c) \subseteq Status
  BY DEF Transitions, Status

LEMMA OthersKnow ==
  ASSUME Inv, Grows, NEW g \in Handler, pc'[g] = pc[g], req'[g] = req[g]
  PROVE  HandlerTypeOK(g)' /\ Knows(g)'
  <1>1. HandlerTypeOK(g) /\ Knows(g)
    BY DEF Inv, Handlers
  <1>2. HandlerTypeOK(g)'
    BY <1>1 DEF HandlerTypeOK
  <1>3. CASE pc[g] = "transition"
    <2>1. PICK r \in Transition : r = req[g]
      BY <1>1, <1>3 DEF HandlerTypeOK
    <2>2. PICK c \in Check : c = r.check
      BY DEF Transition
    <2>3. KnowsCheck(r) /\ r.version \in Int
      BY <1>1, <1>3, <2>1 DEF Knows, Transition
    <2>4. version[c] \in Int /\ r.from # "NONE"
      BY <2>2, <2>3, TransitionFacts DEF KnowsCheck, Inv, Data, Types, ChecksTypeOK
    <2>5. version'[c] \in Int /\ version'[c] >= version[c]
      BY DEF Grows
    <2>6. KnowsCheck(r)'
      BY <2>2, <2>3, <2>4, <2>5 DEF KnowsCheck, Grows
    <2>. QED  BY <1>2, <1>3, <2>1, <2>6 DEF Knows
  <1>4. CASE pc[g] \in {"judge", "pay"}
    <2>1. PICK r \in PayRequest : r = req[g]
      BY <1>1, <1>4 DEF HandlerTypeOK
    <2>2. r.invoice \in Invoice /\ KnowsInvoice(r)
      BY <1>1, <1>4, <2>1 DEF PayRequest, Knows
    <2>3. KnowsInvoice(r)'
      BY <2>2 DEF KnowsInvoice, Grows
    <2>. QED  BY <1>2, <1>4, <2>1, <2>3 DEF Knows
  <1>5. CASE pc[g] \notin {"transition", "judge", "pay"}
    <2>1. KnowsOrder(req[g]) => KnowsOrder(req[g])'
      BY DEF KnowsOrder, Grows
    <2>. QED  BY <1>2, <1>1, <1>5, <2>1 DEF Knows
  <1>. QED  BY <1>3, <1>4, <1>5

LEMMA HandlersMove ==
  ASSUME Inv, Grows, NEW h \in Handler, Moves(h)
  PROVE  Handlers'
  <1>1. ASSUME NEW g \in Handler  PROVE HandlerTypeOK(g)' /\ Knows(g)'
    BY OthersKnow DEF Moves
  <1>. QED  BY <1>1 DEF Handlers, Moves

LEMMA HandlersRest ==
  ASSUME Inv, Grows, UNCHANGED handlerVars
  PROVE  Handlers'
  <1>1. ASSUME NEW g \in Handler  PROVE HandlerTypeOK(g)' /\ Knows(g)'
    BY OthersKnow DEF handlerVars
  <1>. QED  BY <1>1 DEF Handlers, Inv, handlerVars

LEMMA EndMoves ==
  ASSUME Inv, NEW h \in Handler, End(h)
  PROVE  Moves(h)
  <1>1. pc'[h] = "idle" /\ req'[h] = None
    BY DEF End, Inv, Handlers
  <1>2. HandlerTypeOK(h)' /\ Knows(h)'
    BY <1>1 DEF HandlerTypeOK, Knows
  <1>. QED  BY <1>2 DEF End, Moves, Inv, Handlers

LEMMA BeginMoves ==
  ASSUME Inv, NEW h \in Handler, NEW w, NEW r, Begin(h, w, r)
  PROVE  /\ pc'[h] = w /\ req'[h] = r
         /\ HandlerTypeOK(h)' /\ Knows(h)' => Moves(h)
  <1>1. pc'[h] = w /\ req'[h] = r
    BY DEF Begin, Inv, Handlers
  <1>. QED  BY <1>1 DEF Begin, Moves, Inv, Handlers

\* The rows stay as they are.
LEMMA RowsStay ==
  ASSUME Inv, UNCHANGED <<checkVars, gl, receivableVars, supplierDebt,
                          orderVars, payableVars, paymentVars>>
  PROVE  Data' /\ Grows
  <1>1. UNCHANGED <<status, version, used, gl, arRow, arAgain, customerDebt, supplierDebt,
                    order, wasSent, received, invoice, apPaid, apState, transferred, unbooked, paidBy>>
    BY DEF checkVars, receivableVars, orderVars, payableVars, paymentVars
  <1>2. Types'
    BY <1>1 DEF Inv, Data, Types, ChecksTypeOK
  <1>3. Sent' /\ Receivables' /\ Payments'
    BY <1>1 DEF Inv, Data, Sent, ReceivedWasSent, Receivables, Payments
  <1>4. Payables'
    BY <1>1 DEF Inv, Data, Payables, Effective, ApStateOf
  <1>5. Books'
    BY <1>1 DEF Inv, Data, Books, Unpaid, Effective
  <1>6. Grows
    BY <1>1 DEF Grows, Inv, Data, Types, ChecksTypeOK
  <1>. QED  BY <1>2, <1>3, <1>4, <1>5, <1>6 DEF Data

LEMMA ReadCheckInv ==
  ASSUME Inv, NEW h \in Handler, NEW c \in Check, NEW to \in Status, NEW k \in Key,
         ReadCheck(h, c, to, k), UNCHANGED <<orderVars, payableVars, paymentVars>>
  PROVE  Inv'
  <1>1. Data' /\ Grows
    BY RowsStay DEF ReadCheck
  <1>2. PICK r : r = [check |-> c, to |-> to, key |-> k, from |-> status[c], version |-> version[c]]
    OBVIOUS
  <1>3. Begin(h, "transition", r)
    BY <1>2 DEF ReadCheck
  <1>4. pc'[h] = "transition" /\ req'[h] = r
    BY <1>3, BeginMoves
  <1>5. status[c] \in Status /\ status[c] \in DOMAIN Transitions(c) /\ version[c] \in Nat
        /\ to \in Transitions(c)[status[c]]
    BY DEF Inv, Data, Types, ChecksTypeOK, ReadCheck
  <1>6. HandlerTypeOK(h)'
    BY <1>2, <1>4, <1>5 DEF HandlerTypeOK, Transition
  <1>7. Knows(h)'
    <2>1. UNCHANGED <<status, version>>
      BY DEF ReadCheck, checkVars
    <2>. QED  BY <1>2, <1>4, <1>5, <2>1 DEF Knows, KnowsCheck
  <1>. QED  BY <1>1, <1>3, <1>6, <1>7, BeginMoves, HandlersMove DEF Inv

LEMMA FailInv ==
  ASSUME Inv, NEW h \in Handler, Fail(h), UNCHANGED <<orderVars, payableVars, paymentVars>>
  PROVE  Inv'
  <1>1. Data' /\ Grows
    BY RowsStay DEF Fail
  <1>. QED  BY <1>1, EndMoves, HandlersMove DEF Fail, Inv

-----------------------------------------------------------------------------
(* Orders and receipts *)

LEMMA ReadOrderInv ==
  ASSUME Inv, NEW h \in Handler, NEW o \in Order, ReadOrder(h, o)
  PROVE  Inv'
  <1>1. Data' /\ Grows
    BY RowsStay DEF ReadOrder
  <1>2. PICK w \in {"send", "cancel"} : Begin(h, w, o)
    BY DEF ReadOrder
  <1>3. pc'[h] = w /\ req'[h] = o
    BY <1>2, BeginMoves
  <1>4. HandlerTypeOK(h)' /\ Knows(h)'
    BY <1>3 DEF HandlerTypeOK, Knows
  <1>. QED  BY <1>1, <1>2, <1>4, BeginMoves, HandlersMove DEF Inv

LEMMA ReadReceiptInv ==
  ASSUME Inv, NEW h \in Handler, NEW g \in Receipt, ReadReceipt(h, g)
  PROVE  Inv'
  <1>1. Data' /\ Grows
    BY RowsStay DEF ReadReceipt
  <1>2. Begin(h, "receive", g)
    BY DEF ReadReceipt
  <1>3. pc'[h] = "receive" /\ req'[h] = g
    BY <1>2, BeginMoves
  <1>4. KnowsOrder(g)'
    <2>1. OrderOf[g] # None => OrderOf[g] \in wasSent
      BY PurchasingAssumption DEF ReadReceipt, Inv, Data, Sent
    <2>. QED  BY <2>1 DEF KnowsOrder, ReadReceipt, orderVars
  <1>5. HandlerTypeOK(h)' /\ Knows(h)'
    BY <1>3, <1>4 DEF HandlerTypeOK, Knows
  <1>. QED  BY <1>1, <1>2, <1>5, BeginMoves, HandlersMove DEF Inv

\* Cheques and payables stay as they are.
LEMMA MoneyStays ==
  ASSUME Inv, UNCHANGED <<checkVars, receivableVars, supplierDebt, payableVars, paymentVars>>,
         \A a \in Account \ {"INVENTORY", "GRNI"} : gl'[a] = gl[a]
  PROVE  Receivables' /\ Payments' /\ Payables' /\ Books'
  <1>1. /\ UNCHANGED <<status, version, used, arRow, arAgain, customerDebt, supplierDebt,
                       invoice, apPaid, apState, transferred, unbooked, paidBy>>
        /\ \A a \in {"CHECKS_IN", "CHECKS_OUT", "TRADE", "BANK", "PAYABLE"} : gl'[a] = gl[a]
    BY DEF checkVars, receivableVars, payableVars, paymentVars, Account
  <1>2. Receivables' /\ Payments'
    BY <1>1 DEF Inv, Data, Receivables, Payments
  <1>3. Payables'
    BY <1>1 DEF Inv, Data, Payables, Effective, ApStateOf
  <1>4. Books'
    BY <1>1 DEF Inv, Data, Books, Unpaid, Effective
  <1>. QED  BY <1>2, <1>3, <1>4

\* The books take an entry.
LEMMA EntryBooks ==
  ASSUME Types, NEW d \in Account, NEW k \in Account, NEW n \in Int, Book(Entry(d, k, n))
  PROVE  /\ gl' \in [Account -> Int]
         /\ \A a \in Account : gl'[a] = gl[a] + (IF a = d THEN n ELSE 0) - (IF a = k THEN n ELSE 0)
  BY DEF Types, ChecksTypeOK, Book, Entry

\* Only the state of orders, and which of them were sent, changes.
LEMMA OrdersInv ==
  ASSUME Inv, NEW h \in Handler, End(h),
         order' \in [Order -> {"DRAFT", "SENT", "RECEIVED", "CANCELLED"}],
         wasSent \subseteq wasSent', wasSent' \subseteq Order, received' \subseteq Receipt, Sent',
         gl' \in [Account -> Int], \A a \in Account \ {"INVENTORY", "GRNI"} : gl'[a] = gl[a],
         UNCHANGED <<checkVars, receivableVars, supplierDebt, payableVars, paymentVars>>
  PROVE  Inv'
  <1>1. Receivables' /\ Payments' /\ Payables' /\ Books'
    BY MoneyStays
  <1>2. UNCHANGED <<status, version, used, arRow, arAgain, customerDebt, supplierDebt,
                    invoice, apPaid, apState, transferred, unbooked, paidBy>>
    BY DEF checkVars, receivableVars, payableVars, paymentVars
  <1>3. Types'
    BY <1>2 DEF Inv, Data, Types, ChecksTypeOK
  <1>4. Grows
    BY <1>2 DEF Grows, Inv, Data, Types, ChecksTypeOK
  <1>. QED  BY <1>1, <1>3, <1>4, EndMoves, HandlersMove DEF Inv, Data

LEMMA SendPOInv ==
  ASSUME Inv, NEW h \in Handler, SendPO(h)
  PROVE  Inv'
  <1>1. PICK o \in Order : o = req[h]
    BY DEF SendPO, Inv, Handlers, HandlerTypeOK
  <1>2. /\ order' = [order EXCEPT ![o] = "SENT"] /\ wasSent' = wasSent \union {o}
        /\ End(h)
        /\ UNCHANGED <<checkVars, gl, receivableVars,
                       supplierDebt, received, payableVars, paymentVars>>
    BY <1>1 DEF SendPO
  <1>3. Sent'
    BY <1>2 DEF Inv, Data, Types, Sent, ReceivedWasSent
  <1>. QED  BY <1>2, <1>3, OrdersInv DEF Inv, Data, Types, ChecksTypeOK

LEMMA CancelPOInv ==
  ASSUME Inv, NEW h \in Handler, CancelPO(h)
  PROVE  Inv'
  <1>1. PICK o \in Order : o = req[h]
    BY DEF CancelPO, Inv, Handlers, HandlerTypeOK
  <1>2. /\ order' = [order EXCEPT ![o] = "CANCELLED"]
        /\ End(h)
        /\ UNCHANGED <<checkVars, gl, receivableVars,
                       supplierDebt, wasSent, received, payableVars, paymentVars>>
    BY <1>1 DEF CancelPO
  <1>3. Sent'
    BY <1>2 DEF Inv, Data, Types, Sent, ReceivedWasSent
  <1>. QED  BY <1>2, <1>3, OrdersInv DEF Inv, Data, Types, ChecksTypeOK

LEMMA CreateGRNInv ==
  ASSUME Inv, NEW h \in Handler, CreateGRN(h)
  PROVE  Inv'
  <1>1. PICK g \in Receipt : g = req[h] /\ KnowsOrder(g)
    BY DEF CreateGRN, Inv, Handlers, HandlerTypeOK, Knows
  <1>2. /\ received' = received \union {g}
        /\ order' = IF OrderOf[g] = None THEN order ELSE [order EXCEPT ![OrderOf[g]] = "RECEIVED"]
        /\ Book(Entry("INVENTORY", "GRNI", Worth[g]))
        /\ End(h)
        /\ UNCHANGED <<checkVars, receivableVars, supplierDebt, wasSent, payableVars, paymentVars>>
    BY <1>1 DEF CreateGRN
  <1>3. OrderOf[g] # None => OrderOf[g] \in wasSent /\ OrderOf[g] \in Order
    BY <1>1, PurchasingAssumption DEF KnowsOrder
  <1>4. Sent'
    BY <1>2, <1>3 DEF Inv, Data, Types, Sent, ReceivedWasSent
  <1>5. gl' \in [Account -> Int] /\ \A a \in Account \ {"INVENTORY", "GRNI"} : gl'[a] = gl[a]
    <2>1. Worth[g] \in Int /\ {"INVENTORY", "GRNI"} \subseteq Account /\ gl \in [Account -> Int]
      BY PurchasingAssumption DEF Account, Inv, Data, Types, ChecksTypeOK
    <2>2. \A a \in Account : gl'[a] = gl[a] + (IF a = "INVENTORY" THEN Worth[g] ELSE 0)
                                            - (IF a = "GRNI" THEN Worth[g] ELSE 0)
      BY <1>2, <2>1, EntryBooks DEF Inv, Data
    <2>3. gl' \in [Account -> Int]
      BY <1>2, <2>1, EntryBooks DEF Inv, Data
    <2>. QED  BY <2>1, <2>2, <2>3
  <1>. QED  BY <1>2, <1>3, <1>4, <1>5, OrdersInv DEF Inv, Data, Types, ChecksTypeOK

-----------------------------------------------------------------------------
(* Invoices *)

\* What was paid of an invoice is an integer, and so is what is left.
PaidInt == \A i \in Invoice : Effective[i] \in Int /\ Unpaid[i] \in Int

LEMMA EffectiveInt == Types => PaidInt
  <1>. SUFFICES ASSUME Types  PROVE PaidInt
    OBVIOUS
  <1>1. ASSUME NEW i \in Invoice  PROVE Value(AmountIf(paidBy[i], Alive), status) \in Int
    <2>1. PICK st \in [Check -> Status] : st = status
      BY DEF Types, ChecksTypeOK
    <2>. QED  BY <2>1, Tables, ValueInt
  <1>. QED  BY <1>1, PurchasingAssumption DEF PaidInt, Effective, Unpaid, Types

LEMMA EffectiveIntNext == Types' => PaidInt'
  BY EffectiveInt, PTL

\* Of one invoice what is left changes.
LEMMA UnpaidChange ==
  ASSUME Types, Types', NEW i \in Invoice, \A j \in Invoice : j # i => Unpaid'[j] = Unpaid[j]
  PROVE  /\ Sum(Unpaid, Invoice) \in Int
         /\ Unpaid[i] \in Int /\ Unpaid'[i] \in Int
         /\ Sum(Unpaid, Invoice)' = Sum(Unpaid, Invoice) + Unpaid'[i] - Unpaid[i]
  <1>1. PICK old, new : old = Unpaid /\ new = Unpaid'
    OBVIOUS
  <1>2. \A j \in Invoice : old[j] \in Int /\ new[j] \in Int
    <2>1. \A j \in Invoice : Unpaid[j] \in Int
      BY EffectiveInt DEF PaidInt
    <2>2. \A j \in Invoice : Unpaid'[j] \in Int
      BY EffectiveIntNext DEF PaidInt
    <2>. QED  BY <1>1, <2>1, <2>2
  <1>3. Sum(new, Invoice) = Sum(old, Invoice) + new[i] - old[i] /\ Sum(old, Invoice) \in Int
    BY <1>1, <1>2, Directions, SumChange, SumInt
  <1>. QED  BY <1>1, <1>2, <1>3

LEMMA CreateInvoiceInv ==
  ASSUME Inv, NEW i \in Invoice, CreateInvoice(i)
  PROVE  Inv'
  <1>1. /\ invoice[i] = "NONE" /\ invoice' = [invoice EXCEPT ![i] = "POSTED"]
        /\ supplierDebt' = supplierDebt + GrandTotal[i]
        /\ UNCHANGED <<status, version, used, arRow, arAgain, customerDebt,
                       order, wasSent, received, apPaid, apState, transferred, unbooked, paidBy, handlerVars>>
    BY DEF CreateInvoice, checkVars, receivableVars, orderVars, paymentVars
  <1>2. GrandTotal[i] \in Int /\ Worth[ReceiptOf[i]] \in Int
    BY PurchasingAssumption
  <1>3. PICK n \in Int : n = Worth[ReceiptOf[i]] - GrandTotal[i]
    BY <1>2
  <1>4. /\ gl' \in [Account -> Int]
        /\ \A a \in Account \ {"GRNI", "INVENTORY", "PAYABLE"} : gl'[a] = gl[a]
        /\ gl'["PAYABLE"] = gl["PAYABLE"] - GrandTotal[i]
    <2>1. gl' = [a \in Account |-> gl[a] + (Entry("GRNI", "PAYABLE", GrandTotal[i])[a]
                                            + Entry("GRNI", "INVENTORY", n)[a])]
      BY <1>3 DEF CreateInvoice, Book
    <2>2. \A a \in Account :
            /\ Entry("GRNI", "PAYABLE", GrandTotal[i])[a] =
                 (IF a = "GRNI" THEN GrandTotal[i] ELSE 0) - (IF a = "PAYABLE" THEN GrandTotal[i] ELSE 0)
            /\ Entry("GRNI", "INVENTORY", n)[a] =
                 (IF a = "GRNI" THEN n ELSE 0) - (IF a = "INVENTORY" THEN n ELSE 0)
      BY DEF Entry
    <2>3. gl \in [Account -> Int] /\ "PAYABLE" \in Account
      BY DEF Inv, Data, Types, ChecksTypeOK, Account
    <2>. QED  BY <1>2, <2>1, <2>2, <2>3
  <1>5. Types'
    BY <1>1, <1>2, <1>4 DEF Inv, Data, Types, ChecksTypeOK
  <1>6. Sent' /\ Receivables' /\ Payments'
    BY <1>1 DEF Inv, Data, Sent, ReceivedWasSent, Receivables, Payments
  <1>7. Payables'
    BY <1>1 DEF Inv, Data, Types, Payables, Effective, ApStateOf
  <1>8. Books'
    <2>1. /\ Unpaid[i] = 0 /\ Unpaid'[i] = GrandTotal[i]
          /\ \A j \in Invoice : j # i => Unpaid'[j] = Unpaid[j]
      <3>1. Effective' = Effective /\ Effective[i] = 0
        BY <1>1 DEF Effective, Inv, Data, Payables
      <3>. QED  BY <1>1, <1>2, <3>1 DEF Unpaid, Inv, Data, Types
    <2>2. /\ Sum(Unpaid, Invoice) \in Int
          /\ Sum(Unpaid, Invoice)' = Sum(Unpaid, Invoice) + GrandTotal[i]
      BY <1>2, <1>5, <2>1, UnpaidChange DEF Inv, Data
    <2>3. Value(AmountIf(ByHand, Dead), status) \in Int
      BY Tables, ValueInt DEF Inv, Data, Types, ChecksTypeOK
    <2>4. supplierDebt' = Sum(Unpaid, Invoice)' + Value(AmountIf(ByHand, Dead), status)
      BY <1>1, <1>2, <2>2, <2>3 DEF Inv, Data, Books
    <2>5. /\ \A a \in {"CHECKS_IN", "CHECKS_OUT", "TRADE", "BANK"} : gl'[a] = gl[a]
          /\ gl'["PAYABLE"] = -supplierDebt' - Sum(unbooked, Invoice)
      <3>1. Sum(unbooked, Invoice) \in Int /\ supplierDebt \in Int
        BY Directions, SumInt DEF Inv, Data, Types, ChecksTypeOK
      <3>. QED  BY <1>1, <1>2, <1>4, <3>1 DEF Inv, Data, Books, Account, Types, ChecksTypeOK
    <2>. QED  BY <1>1, <2>4, <2>5 DEF Inv, Data, Books
  <1>9. Grows
    BY <1>1 DEF Grows, Inv, Data, Types, ChecksTypeOK
  <1>. QED  BY <1>1, <1>5, <1>6, <1>7, <1>8, <1>9, HandlersRest DEF Inv, Data

LEMMA ReadInvoiceInv ==
  ASSUME Inv, NEW h \in Handler, NEW i \in Invoice, NEW c \in Check \union {None}, NEW n \in Nat,
         n > 0, c # None => Source[c] = "purchase_payment" /\ n = Amount[c],
         ReadInvoice(h, i, c, n)
  PROVE  Inv'
  <1>1. Data' /\ Grows
    BY RowsStay DEF ReadInvoice
  <1>2. PICK r : r = [invoice |-> i, check |-> c, amount |-> n, effective |-> 0,
                      transferred |-> transferred[i], paidBy |-> paidBy[i]]
    OBVIOUS
  <1>3. Begin(h, "judge", r) /\ invoice[i] # "NONE" /\ UNCHANGED invoice
    BY <1>2 DEF ReadInvoice, payableVars
  <1>4. pc'[h] = "judge" /\ req'[h] = r
    BY <1>3, BeginMoves
  <1>5. r \in PayRequest
    BY <1>2 DEF PayRequest, Inv, Data, Types
  <1>6. KnowsInvoice(r)'
    BY <1>2, <1>3 DEF KnowsInvoice
  <1>7. HandlerTypeOK(h)' /\ Knows(h)'
    BY <1>4, <1>5, <1>6 DEF HandlerTypeOK, Knows
  <1>. QED  BY <1>1, <1>3, <1>7, BeginMoves, HandlersMove DEF Inv

LEMMA JudgePaymentInv ==
  ASSUME Inv, NEW h \in Handler, JudgePayment(h)
  PROVE  Inv'
  <1>1. Data' /\ Grows
    BY RowsStay DEF JudgePayment
  <1>2. PICK r \in PayRequest : r = req[h] /\ KnowsInvoice(r)
    BY DEF JudgePayment, Inv, Handlers, HandlerTypeOK, Knows
  <1>3. PICK paid : paid = r.transferred + Total(Live(r.paidBy)) + r.amount
    OBVIOUS
  <1>4. paid \in Nat
    <2>1. r.paidBy \in SUBSET Check /\ r.transferred \in Nat /\ r.amount \in Nat
      BY <1>2, Directions DEF PayRequest
    <2>2. Live(r.paidBy) = {c \in r.paidBy : status[c] \in Alive}
      BY <2>1 DEF Live, Alive, Inv, Data, Types, ChecksTypeOK
    <2>3. PICK S \in SUBSET Check : S = r.paidBy
      BY <2>1
    <2>4. PICK st \in [Check -> Status] : st = status
      BY DEF Inv, Data, Types, ChecksTypeOK
    <2>5. PICK T : T = Live(S) /\ T = {c \in S : st[c] \in Alive}
      BY <2>2, <2>3, <2>4
    <2>6. Total(T) = Value(AmountIf(S, Alive), st) /\ Value(AmountIf(S, Alive), st) \in Nat
      BY <2>5, TotalIsValue, AmountsNat
    <2>7. Total(Live(r.paidBy)) \in Nat
      BY <2>3, <2>5, <2>6
    <2>. QED  BY <1>3, <2>1, <2>7
  <1>5. /\ pc' = [pc EXCEPT ![h] = "pay"] /\ req' = [req EXCEPT ![h].effective = paid]
        /\ UNCHANGED invoice
    BY <1>2, <1>3 DEF JudgePayment, payableVars
  <1>6. PICK q \in PayRequest : q = [r EXCEPT !.effective = paid]
    BY <1>2, <1>4 DEF PayRequest
  <1>7. pc'[h] = "pay" /\ req'[h] = q
    BY <1>2, <1>5, <1>6 DEF Inv, Handlers
  <1>8. KnowsInvoice(q)'
    BY <1>2, <1>5, <1>6 DEF KnowsInvoice, PayRequest
  <1>9. HandlerTypeOK(h)' /\ Knows(h)'
    BY <1>6, <1>7, <1>8 DEF HandlerTypeOK, Knows
  <1>10. Moves(h)
    BY <1>5, <1>9 DEF Moves, Inv, Handlers
  <1>. QED  BY <1>1, <1>10, HandlersMove DEF Inv

-----------------------------------------------------------------------------
(* Cheques *)

\* What a table says of c changes by when its state becomes to.
By(table, c, to) == table[c][to] - table[c][status[c]]

\* The state of one cheque changes, and the books follow it by the tables.
LEMMA BooksMove ==
  ASSUME Types, Types', Books, NEW c \in Check, NEW to \in Status,
         status' = [status EXCEPT ![c] = to], UNCHANGED <<transferred, unbooked>>,
         gl'["CHECKS_IN"] = gl["CHECKS_IN"] + By(OnAccountOf(Received), c, to),
         gl'["CHECKS_OUT"] = gl["CHECKS_OUT"] - By(OnAccountOf(Issued), c, to),
         gl'["TRADE"] = gl["TRADE"] + By(AmountIf(Received, Dead), c, to),
         gl'["BANK"] = gl["BANK"] + By(InBank, c, to),
         gl'["PAYABLE"] = gl["PAYABLE"] + supplierDebt - supplierDebt',
         customerDebt' = customerDebt + By(AmountIf(Received, Owing), c, to),
         supplierDebt' = supplierDebt + By(AmountIf(ByHand, Dead), c, to)
                           + Sum(Unpaid, Invoice)' - Sum(Unpaid, Invoice)
  PROVE  Books'
  <1>1. ASSUME NEW t \in Table
        PROVE  /\ Value(t, status') = Value(t, status) + By(t, c, to)
               /\ Value(t, status) \in Int /\ By(t, c, to) \in Int
    <2>1. PICK st \in [Check -> Status] : st = status
      BY DEF Types, ChecksTypeOK
    <2>2. PICK su \in [Check -> Status] : su = status'
      BY DEF Types, ChecksTypeOK
    <2>4. su[c] = to /\ \A d \in Check : d # c => su[d] = st[d]
      BY <2>1, <2>2
    <2>5. Value(t, su) = Value(t, st) + t[c][su[c]] - t[c][st[c]] /\ Value(t, st) \in Int
      BY <2>4, ValueMoves, ValueInt
    <2>3. t[c][to] \in Int /\ t[c][st[c]] \in Int
      BY DEF Table
    <2>. QED  BY <2>1, <2>2, <2>3, <2>4, <2>5 DEF By
  <1>2. /\ Sum(Unpaid, Invoice) \in Int /\ Sum(Unpaid, Invoice)' \in Int
        /\ Sum(transferred, Invoice) \in Int /\ Sum(unbooked, Invoice) \in Int
    <2>1. \A i \in Invoice : Unpaid[i] \in Int /\ transferred[i] \in Int /\ unbooked[i] \in Int
      BY EffectiveInt DEF PaidInt, Types
    <2>2. \A i \in Invoice : Unpaid'[i] \in Int
      BY EffectiveIntNext DEF PaidInt
    <2>3. PICK old, new : old = Unpaid /\ new = Unpaid'
      OBVIOUS
    <2>4. Sum(old, Invoice) \in Int /\ Sum(new, Invoice) \in Int
      BY <2>1, <2>2, <2>3, Directions, SumInt
    <2>5. Sum(transferred, Invoice) \in Int /\ Sum(unbooked, Invoice) \in Int
      BY <2>1, Directions, SumInt
    <2>. QED  BY <2>3, <2>4, <2>5
  <1>3. gl'["CHECKS_IN"] = Value(OnAccountOf(Received), status')
    BY <1>1, Tables DEF Books
  <1>4. gl'["CHECKS_OUT"] = -Value(OnAccountOf(Issued), status')
    <2>1. /\ Value(OnAccountOf(Issued), status') =
                 Value(OnAccountOf(Issued), status) + By(OnAccountOf(Issued), c, to)
          /\ Value(OnAccountOf(Issued), status) \in Int /\ By(OnAccountOf(Issued), c, to) \in Int
      BY <1>1, Tables
    <2>. QED  BY <2>1 DEF Books
  <1>5. /\ gl'["TRADE"] = Value(AmountIf(Received, Dead), status')
        /\ customerDebt' = Value(AmountIf(Received, Owing), status')
    <2>1. gl'["TRADE"] = Value(AmountIf(Received, Dead), status')
      BY <1>1, Tables DEF Books
    <2>2. customerDebt' = Value(AmountIf(Received, Owing), status')
      BY <1>1, Tables DEF Books
    <2>. QED  BY <2>1, <2>2
  <1>6. gl'["BANK"] = Value(InBank, status') - Sum(transferred, Invoice) + Sum(unbooked, Invoice)
    <2>1. /\ Value(InBank, status') = Value(InBank, status) + By(InBank, c, to)
          /\ Value(InBank, status) \in Int /\ By(InBank, c, to) \in Int
      BY <1>1, Tables
    <2>. QED  BY <1>2, <2>1 DEF Books
  <1>7. supplierDebt' = Sum(Unpaid, Invoice)' + Value(AmountIf(ByHand, Dead), status')
    <2>1. /\ Value(AmountIf(ByHand, Dead), status') =
               Value(AmountIf(ByHand, Dead), status) + By(AmountIf(ByHand, Dead), c, to)
          /\ Value(AmountIf(ByHand, Dead), status) \in Int /\ By(AmountIf(ByHand, Dead), c, to) \in Int
      BY <1>1, Tables
    <2>. QED  BY <1>2, <2>1 DEF Books
  <1>8. gl'["PAYABLE"] = -supplierDebt' - Sum(unbooked, Invoice)
    BY <1>2 DEF Books, Types, ChecksTypeOK
  <1>9. Sum(transferred, Invoice)' = Sum(transferred, Invoice) /\ Sum(unbooked, Invoice)' = Sum(unbooked, Invoice)
    OBVIOUS
  <1>. QED  BY <1>3, <1>4, <1>5, <1>6, <1>7, <1>8, <1>9 DEF Books

\* What the tables say when a cheque comes into being.
LEMMA ByCreation ==
  ASSUME Types, NEW c \in Check, NEW to \in {"RECEIVED", "ISSUED"},
         status[c] = "NONE", c \in Received <=> to = "RECEIVED"
  PROVE  LET new == IF Source[c] = "manual" THEN 0 ELSE Amount[c] IN
         /\ By(OnAccountOf(Received), c, to) = IF c \in Received THEN new ELSE 0
         /\ By(OnAccountOf(Issued), c, to) = IF c \in Issued THEN new ELSE 0
         /\ By(AmountIf(Received, Dead), c, to) = 0
         /\ By(InBank, c, to) = 0
         /\ By(AmountIf(Received, Owing), c, to) = IF c \in Received THEN Amount[c] ELSE 0
         /\ By(AmountIf(ByHand, Dead), c, to) = 0
  <1>1. /\ "NONE" \in Status /\ to \in Status /\ "NONE" \notin OutOfHand /\ to \notin OutOfHand
        /\ "NONE" \notin Dead /\ to \notin Dead /\ "NONE" \notin Owing /\ to \in Owing
        /\ to # "NONE" /\ to # "CLEARED" /\ Amount[c] \in Int
    BY Directions DEF Status, OutOfHand, Dead, Owing
  <1>2. /\ By(AmountIf(Received, Dead), c, to) = 0
        /\ By(InBank, c, to) = 0
        /\ By(AmountIf(ByHand, Dead), c, to) = 0
        /\ By(AmountIf(Received, Owing), c, to) = IF c \in Received THEN Amount[c] ELSE 0
    BY <1>1, AmountIfIs, InBankIs DEF By
  <1>3. \A S : By(OnAccountOf(S), c, to) =
                 IF c \in S THEN (IF Source[c] = "manual" THEN 0 ELSE Amount[c]) ELSE 0
    BY <1>1, OnAccountIs DEF By
  <1>. QED  BY <1>2, <1>3

\* What was paid of an invoice follows the cheques that live.
LEMMA EffectiveMoves ==
  ASSUME Types, Types', NEW c \in Check, NEW to \in Status,
         status' = [status EXCEPT ![c] = to], UNCHANGED <<transferred, paidBy>>, NEW i \in Invoice
  PROVE  /\ Effective[i] \in Int
         /\ Effective'[i] = Effective[i]
              + (IF c \in paidBy[i] /\ to \in Alive THEN Amount[c] ELSE 0)
              - (IF c \in paidBy[i] /\ status[c] \in Alive THEN Amount[c] ELSE 0)
         /\ Effective'[i] >= transferred[i]
  <1>1. PICK st \in [Check -> Status] : st = status
    BY DEF Types, ChecksTypeOK
  <1>2. PICK su \in [Check -> Status] : su = status'
    BY DEF Types, ChecksTypeOK
  <1>3. su[c] = to /\ \A d \in Check : d # c => su[d] = st[d]
    BY <1>1, <1>2
  <1>4. PICK t \in Table : t = AmountIf(paidBy[i], Alive)
    BY Tables
  <1>5. Value(t, su) = Value(t, st) + t[c][su[c]] - t[c][st[c]]
    BY ONLY <1>3, ValueMoves, t \in Table, st \in [Check -> Status], su \in [Check -> Status], c \in Check
  <1>6. /\ t[c][su[c]] = IF c \in paidBy[i] /\ to \in Alive THEN Amount[c] ELSE 0
        /\ t[c][st[c]] = IF c \in paidBy[i] /\ st[c] \in Alive THEN Amount[c] ELSE 0
        /\ Amount[c] \in Int
    BY <1>3, <1>4, AmountIfIs, Directions
  <1>7. Value(t, st) \in Nat /\ Value(t, su) \in Nat
    BY <1>4, AmountsNat
  <1>8. Effective[i] = transferred[i] + Value(t, st) /\ Effective'[i] = transferred[i] + Value(t, su)
    BY <1>1, <1>2, <1>4 DEF Effective
  <1>9. transferred[i] \in Int
    BY DEF Types
  <1>. QED  BY <1>1, <1>5, <1>6, <1>7, <1>8, <1>9

\* A payable counts the cheques that are alive, and c is as alive as it was.
LEMMA PayablesStay ==
  ASSUME Types, Types', Payables, NEW c \in Check, NEW to \in Status,
         status' = [status EXCEPT ![c] = to], UNCHANGED <<payableVars, paymentVars>>,
         \A i \in Invoice : c \in paidBy[i] => (to \in Alive <=> status[c] \in Alive)
  PROVE  Payables' /\ Unpaid' = Unpaid
  <1>1. UNCHANGED <<invoice, apPaid, apState, transferred, unbooked, paidBy>>
    BY DEF payableVars, paymentVars
  <1>2. ASSUME NEW i \in Invoice  PROVE Effective'[i] = Effective[i]
    <2>1. /\ Effective[i] \in Int
          /\ Effective'[i] = Effective[i]
               + (IF c \in paidBy[i] /\ to \in Alive THEN Amount[c] ELSE 0)
               - (IF c \in paidBy[i] /\ status[c] \in Alive THEN Amount[c] ELSE 0)
      BY <1>1, EffectiveMoves
    <2>2. Amount[c] \in Int
      BY Directions
    <2>3. CASE c \in paidBy[i]
      BY <2>1, <2>2, <2>3
    <2>4. CASE c \notin paidBy[i]
      BY <2>1, <2>4
    <2>. QED  BY <2>3, <2>4
  <1>3. Payables'
    BY <1>1, <1>2 DEF Payables, ApStateOf
  <1>4. Unpaid' = Unpaid
    BY <1>1, <1>2 DEF Unpaid
  <1>. QED  BY <1>3, <1>4

\* A cheque that is not issued for an invoice comes into being.
LEMMA CreationInv ==
  ASSUME Inv, NEW c \in Check, NEW to \in {"RECEIVED", "ISSUED"},
         status[c] = "NONE", c \in Received <=> to = "RECEIVED", Source[c] # "purchase_payment",
         status' = [status EXCEPT ![c] = to],
         IF c \in Received THEN OpenReceivable(c) ELSE UNCHANGED receivableVars,
         IF Source[c] = "manual" THEN UNCHANGED gl ELSE Book(Entry("CHECKS_IN", "SALES", Amount[c])),
         UNCHANGED <<version, used, supplierDebt, handlerVars, orderVars, payableVars, paymentVars>>
  PROVE  Inv'
  <1>1. UNCHANGED <<version, used, supplierDebt, order, wasSent, received,
                    invoice, apPaid, apState, transferred, unbooked, paidBy>>
    BY DEF orderVars, payableVars, paymentVars
  <1>2. /\ Types /\ Amount[c] \in Nat /\ to \in Status
        /\ to \in DOMAIN Transitions(c)
    BY Directions DEF Inv, Data, Status, Transitions
  <1>3. /\ arRow' = IF c \in Received THEN [arRow EXCEPT ![c] = "OPEN"] ELSE arRow
        /\ customerDebt' = IF c \in Received THEN customerDebt + Amount[c] ELSE customerDebt
        /\ UNCHANGED arAgain
    BY DEF OpenReceivable, receivableVars
  <1>4. PICK new : new = IF Source[c] = "manual" THEN 0 ELSE Amount[c]
    OBVIOUS
  <1>5. /\ gl' \in [Account -> Int]
        /\ \A a \in {"CHECKS_OUT", "TRADE", "BANK", "PAYABLE"} : gl'[a] = gl[a]
        /\ gl'["CHECKS_IN"] = gl["CHECKS_IN"] + new
    <2>1. {"CHECKS_IN", "CHECKS_OUT", "TRADE", "BANK", "PAYABLE", "SALES"} \subseteq Account
          /\ gl \in [Account -> Int]
      BY <1>2 DEF Account, Types, ChecksTypeOK
    <2>2. CASE Source[c] = "manual"
      BY <1>4, <2>1, <2>2
    <2>3. CASE Source[c] # "manual"
      <3>1. \A a \in Account : gl'[a] = gl[a] + (IF a = "CHECKS_IN" THEN Amount[c] ELSE 0)
                                              - (IF a = "SALES" THEN Amount[c] ELSE 0)
        BY <1>2, <2>1, <2>3, EntryBooks
      <3>2. gl' \in [Account -> Int]
        BY <1>2, <2>1, <2>3, EntryBooks
      <3>. QED  BY <1>2, <1>4, <2>1, <2>3, <3>1, <3>2
    <2>. QED  BY <2>2, <2>3
  <1>6. Types'
    <2>1. status' \in [Check -> Status] /\ \A d \in Check : status'[d] \in DOMAIN Transitions(d) \union {"NONE"}
      BY <1>2 DEF Types, ChecksTypeOK
    <2>2. arRow' \in [Check -> {"NONE", "OPEN", "SETTLED", "TRADE"}] /\ customerDebt' \in Int
      BY <1>2, <1>3 DEF Types, ChecksTypeOK
    <2>. QED  BY <1>1, <1>2, <1>3, <1>5, <2>1, <2>2 DEF Types, ChecksTypeOK
  <1>7. \A i \in Invoice : c \notin paidBy[i]
    BY DEF Inv, Data, Payments
  <1>8. Sent' /\ Payments'
    <2>1. Sent'
      BY <1>1 DEF Inv, Data, Sent, ReceivedWasSent
    <2>2. Payments'
      BY <1>1, <1>2, <1>7 DEF Inv, Data, Payments, Types, ChecksTypeOK
    <2>. QED  BY <2>1, <2>2
  <1>9. Receivables'
    <2>1. ASSUME NEW d \in Received  PROVE Follows(arRow'[d], arAgain'[d], status'[d])
      <3>1. d \in Check
        BY Directions
      <3>2. CASE d = c
        BY <1>2, <1>3, <3>1, <3>2 DEF Inv, Data, Receivables, Follows, Types, ChecksTypeOK
      <3>3. CASE d # c
        <4>1. status'[d] = status[d] /\ arRow'[d] = arRow[d] /\ arAgain'[d] = arAgain[d]
          BY <1>2, <1>3, <3>1, <3>3 DEF Types, ChecksTypeOK
        <4>. QED  BY <4>1 DEF Inv, Data, Receivables
      <3>. QED  BY <3>2, <3>3
    <2>. QED  BY <2>1 DEF Receivables
  <1>10. Payables' /\ Unpaid' = Unpaid
    BY <1>2, <1>6, <1>7, PayablesStay DEF Inv, Data
  <1>11. Books'
    <2>1. /\ By(OnAccountOf(Received), c, to) = IF c \in Received THEN new ELSE 0
          /\ By(OnAccountOf(Issued), c, to) = IF c \in Issued THEN new ELSE 0
          /\ By(AmountIf(Received, Dead), c, to) = 0 /\ By(InBank, c, to) = 0
          /\ By(AmountIf(Received, Owing), c, to) = IF c \in Received THEN Amount[c] ELSE 0
          /\ By(AmountIf(ByHand, Dead), c, to) = 0
      BY <1>2, <1>4, ByCreation
    <2>2. (c \notin Received => new = 0) /\ (c \in Received => c \notin Issued)
      BY <1>4, Directions, ChecksAssumption
    <2>3. /\ \A a \in Account : gl[a] \in Int
          /\ {"CHECKS_OUT", "TRADE", "BANK", "PAYABLE"} \subseteq Account
          /\ supplierDebt \in Int /\ customerDebt \in Int
      BY <1>2 DEF Types, ChecksTypeOK, Account
    <2>4. Sum(Unpaid, Invoice) \in Int /\ Sum(Unpaid, Invoice)' = Sum(Unpaid, Invoice)
      <3>1. \A i \in Invoice : Unpaid[i] \in Int
        BY <1>2, EffectiveInt DEF PaidInt
      <3>. QED  BY <1>10, <3>1, Directions, SumInt
    <2>5. /\ gl'["CHECKS_IN"] = gl["CHECKS_IN"] + By(OnAccountOf(Received), c, to)
          /\ gl'["CHECKS_OUT"] = gl["CHECKS_OUT"] - By(OnAccountOf(Issued), c, to)
          /\ gl'["TRADE"] = gl["TRADE"] + By(AmountIf(Received, Dead), c, to)
          /\ gl'["BANK"] = gl["BANK"] + By(InBank, c, to)
          /\ gl'["PAYABLE"] = gl["PAYABLE"] + supplierDebt - supplierDebt'
      BY <1>1, <1>5, <2>1, <2>2, <2>3, Directions
    <2>6. /\ customerDebt' = customerDebt + By(AmountIf(Received, Owing), c, to)
          /\ supplierDebt' = supplierDebt + By(AmountIf(ByHand, Dead), c, to)
                               + Sum(Unpaid, Invoice)' - Sum(Unpaid, Invoice)
      BY <1>1, <1>3, <2>1, <2>3, <2>4
    <2>. QED  BY <1>1, <1>2, <1>6, <2>5, <2>6, BooksMove DEF Inv, Data
  <1>12. Grows
    BY <1>1, <1>2 DEF Grows, Types, ChecksTypeOK
  <1>. QED  BY <1>6, <1>8, <1>9, <1>10, <1>11, <1>12, HandlersRest DEF Inv, Data

LEMMA CreateInv ==
  ASSUME Inv, NEW c \in Check, Create(c) \/ SellByCheck(c),
         UNCHANGED <<orderVars, payableVars, paymentVars>>
  PROVE  Inv'
  <1>1. CASE Create(c)
    <2>1. PICK to \in {"RECEIVED", "ISSUED"} : to = Direction[c]
      BY Directions
    <2>2. /\ status[c] = "NONE" /\ Source[c] = "manual"
          /\ status' = [status EXCEPT ![c] = to]
          /\ IF c \in Received THEN OpenReceivable(c) ELSE UNCHANGED receivableVars
          /\ UNCHANGED <<version, used, gl, supplierDebt, handlerVars>>
      BY <1>1, <2>1 DEF Create
    <2>3. c \in Received <=> to = "RECEIVED"
      BY <2>1, Directions
    <2>. QED  BY <2>2, <2>3, CreationInv
  <1>2. CASE SellByCheck(c)
    <2>1. PICK to \in {"RECEIVED", "ISSUED"} : to = "RECEIVED"
      OBVIOUS
    <2>2. /\ status[c] = "NONE" /\ Source[c] = "pos_invoice" /\ c \in Received
          /\ status' = [status EXCEPT ![c] = to]
          /\ OpenReceivable(c)
          /\ Book(Entry("CHECKS_IN", "SALES", Amount[c]))
          /\ UNCHANGED <<version, used, supplierDebt, handlerVars>>
      BY <1>2, <2>1, Directions DEF SellByCheck, CreateReceivedInTx
    <2>. QED  BY <2>1, <2>2, CreationInv
  <1>. QED  BY <1>1, <1>2

-----------------------------------------------------------------------------
(* Payments *)

\* What every payment writes about its invoice.
LEMMA PayWrites ==
  ASSUME Inv, NEW h \in Handler, Pay(h)
  PROVE  \E i \in Invoice, n \in Nat, seen \in Nat, found \in BOOLEAN :
           /\ n > 0 /\ invoice[i] # "NONE" /\ i = req[h].invoice /\ n = req[h].amount
           /\ invoice' \in [Invoice -> {"NONE", "POSTED", "PARTIALLY_PAID", "PAID"}]
           /\ invoice'[i] # "NONE" /\ \A j \in Invoice : j # i => invoice'[j] = invoice[j]
           /\ PayMeans(req[h], found)
           /\ found /\ unbooked[i] = 0 => seen = apPaid[i]
           /\ apPaid' = [apPaid EXCEPT ![i] = seen + n]
           /\ apState' = [apState EXCEPT ![i] = ApStateOf(i, seen + n)]
           /\ supplierDebt' = supplierDebt - n
           /\ UNCHANGED <<order, wasSent, received>> /\ End(h)
  <1>1. PICK r \in PayRequest : r = req[h] /\ KnowsInvoice(r)
    BY DEF Pay, Inv, Handlers, HandlerTypeOK, Knows
  <1>2. PICK i \in Invoice, n \in Nat : i = r.invoice /\ n = r.amount /\ n > 0 /\ invoice[i] # "NONE"
    BY <1>1 DEF PayRequest, KnowsInvoice
  <1>3. PICK found \in BOOLEAN :
          PayMeans(r, found) /\ \E seen \in PaidSeen(i, found) : Settle(r, seen + n)
    BY <1>1, <1>2 DEF Pay
  <1>4. PICK seen \in PaidSeen(i, found) : Settle(r, seen + n)
    BY <1>3
  <1>5. seen \in Nat /\ (found /\ unbooked[i] = 0 => seen = apPaid[i])
    <2>1. apPaid[i] \in Nat
      BY DEF Inv, Data, Types
    <2>2. CASE found /\ unbooked[i] = 0
      BY <2>1, <2>2 DEF PaidSeen
    <2>3. CASE ~(found /\ unbooked[i] = 0)
      <3>1. seen \in 0..(transferred[i] + Total(paidBy[i]))
        BY <2>3 DEF PaidSeen
      <3>. QED  BY <2>3, <3>1
    <2>. QED  BY <2>2, <2>3
  <1>6. /\ apPaid' = [apPaid EXCEPT ![i] = seen + n]
        /\ apState' = [apState EXCEPT ![i] = IF seen + n >= GrandTotal[i] THEN "SETTLED" ELSE "PARTIAL"]
        /\ supplierDebt' = supplierDebt - n
        /\ invoice' = [invoice EXCEPT ![i] = IF r.effective >= GrandTotal[i] THEN "PAID" ELSE "PARTIALLY_PAID"]
        /\ UNCHANGED <<order, wasSent, received>> /\ End(h)
    BY <1>1, <1>2, <1>4 DEF Pay, Settle, orderVars
  <1>7. ApStateOf(i, seen + n) = IF seen + n >= GrandTotal[i] THEN "SETTLED" ELSE "PARTIAL"
    BY <1>2, <1>5 DEF ApStateOf
  <1>8. /\ invoice' \in [Invoice -> {"NONE", "POSTED", "PARTIALLY_PAID", "PAID"}]
        /\ invoice'[i] # "NONE" /\ \A j \in Invoice : j # i => invoice'[j] = invoice[j]
    BY <1>6 DEF Inv, Data, Types
  <1>9. /\ apState' = [apState EXCEPT ![i] = ApStateOf(i, seen + n)]
        /\ i = req[h].invoice /\ n = req[h].amount /\ PayMeans(req[h], found)
    BY <1>1, <1>2, <1>3, <1>6, <1>7
  <1>. QED  BY <1>2, <1>5, <1>6, <1>8, <1>9

LEMMA ApStateType ==
  ASSUME NEW i \in Invoice, NEW n \in Nat
  PROVE  ApStateOf(i, n) \in {"OPEN", "PARTIAL", "SETTLED"}
  BY DEF ApStateOf

\* Of a payment out of an account n is paid and b of it, all or nothing, is not
\* booked.
LEMMA PayTransferInv ==
  ASSUME Inv, NEW h \in Handler, Pay(h), req[h].check = None
  PROVE  Inv'
  <1>1. PICK i \in Invoice, n \in Nat, seen \in Nat, found \in BOOLEAN :
           /\ n > 0 /\ invoice[i] # "NONE" /\ i = req[h].invoice /\ n = req[h].amount
           /\ invoice' \in [Invoice -> {"NONE", "POSTED", "PARTIALLY_PAID", "PAID"}]
           /\ invoice'[i] # "NONE" /\ \A j \in Invoice : j # i => invoice'[j] = invoice[j]
           /\ PayMeans(req[h], found)
           /\ found /\ unbooked[i] = 0 => seen = apPaid[i]
           /\ apPaid' = [apPaid EXCEPT ![i] = seen + n]
           /\ apState' = [apState EXCEPT ![i] = ApStateOf(i, seen + n)]
           /\ supplierDebt' = supplierDebt - n
           /\ UNCHANGED <<order, wasSent, received>> /\ End(h)
    BY PayWrites
  <1>2. PICK b \in Nat : b = IF found THEN 0 ELSE n
    OBVIOUS
  <1>3. Types
    BY DEF Inv, Data
  <1>4. /\ UNCHANGED <<status, version, used, arRow, arAgain, customerDebt, paidBy>>
        /\ transferred' = [transferred EXCEPT ![i] = @ + n]
        /\ IF found
           THEN Book(Entry("PAYABLE", "BANK", n)) /\ UNCHANGED unbooked
           ELSE unbooked' = [unbooked EXCEPT ![i] = @ + n] /\ UNCHANGED gl
    BY <1>1 DEF PayMeans, PayFromAccount, checkVars, receivableVars
  <1>5. /\ gl' \in [Account -> Int]
        /\ \A a \in {"CHECKS_IN", "CHECKS_OUT", "TRADE"} : gl'[a] = gl[a]
        /\ gl'["BANK"] = gl["BANK"] - n + b /\ gl'["PAYABLE"] = gl["PAYABLE"] + n - b
    <2>1. {"CHECKS_IN", "CHECKS_OUT", "TRADE", "BANK", "PAYABLE"} \subseteq Account
          /\ gl \in [Account -> Int]
      BY <1>3 DEF Account, Types, ChecksTypeOK
    <2>2. CASE found
      <3>1. gl' \in [Account -> Int]
        BY <1>3, <1>4, <2>1, <2>2, EntryBooks
      <3>2. \A a \in Account : gl'[a] = gl[a] + (IF a = "PAYABLE" THEN n ELSE 0)
                                              - (IF a = "BANK" THEN n ELSE 0)
        BY <1>3, <1>4, <2>1, <2>2, EntryBooks
      <3>. QED  BY <1>2, <2>1, <2>2, <3>1, <3>2
    <2>3. CASE ~found
      BY <1>2, <1>4, <2>1, <2>3
    <2>. QED  BY <2>2, <2>3
  <1>6. /\ apPaid' \in [Invoice -> Nat] /\ apPaid'[i] = seen + n
        /\ \A j \in Invoice : j # i => apPaid'[j] = apPaid[j]
        /\ transferred' \in [Invoice -> Nat] /\ transferred'[i] = transferred[i] + n
        /\ \A j \in Invoice : j # i => transferred'[j] = transferred[j]
        /\ unbooked' \in [Invoice -> Nat] /\ unbooked'[i] = unbooked[i] + b
        /\ \A j \in Invoice : j # i => unbooked'[j] = unbooked[j]
        /\ apState' \in [Invoice -> {"OPEN", "PARTIAL", "SETTLED"}]
        /\ apState'[i] = ApStateOf(i, apPaid'[i])
        /\ \A j \in Invoice : j # i => apState'[j] = apState[j]
    <2>1. apPaid' \in [Invoice -> Nat] /\ apPaid'[i] = seen + n
          /\ \A j \in Invoice : j # i => apPaid'[j] = apPaid[j]
      BY <1>1, <1>3 DEF Types
    <2>2. transferred' \in [Invoice -> Nat] /\ transferred'[i] = transferred[i] + n
          /\ \A j \in Invoice : j # i => transferred'[j] = transferred[j]
      BY <1>3, <1>4 DEF Types
    <2>3. unbooked' \in [Invoice -> Nat] /\ unbooked'[i] = unbooked[i] + b
          /\ \A j \in Invoice : j # i => unbooked'[j] = unbooked[j]
      BY <1>2, <1>3, <1>4 DEF Types
    <2>4. ApStateOf(i, seen + n) \in {"OPEN", "PARTIAL", "SETTLED"}
      <3>1. seen + n \in Nat
        OBVIOUS
      <3>. QED  BY <3>1, ApStateType
    <2>5. /\ apState' \in [Invoice -> {"OPEN", "PARTIAL", "SETTLED"}]
          /\ apState'[i] = ApStateOf(i, seen + n)
          /\ \A j \in Invoice : j # i => apState'[j] = apState[j]
      BY <1>1, <1>3, <2>4 DEF Types
    <2>. QED  BY <2>1, <2>2, <2>3, <2>5
  <1>7. Types'
    BY <1>1, <1>3, <1>4, <1>5, <1>6 DEF Types, ChecksTypeOK
  <1>8. Sent' /\ Receivables' /\ Payments'
    BY <1>1, <1>4 DEF Inv, Data, Sent, ReceivedWasSent, Receivables, Payments
  <1>9. ASSUME NEW j \in Invoice
        PROVE  Effective[j] \in Int /\ Effective'[j] = Effective[j] + (IF j = i THEN n ELSE 0)
    <2>1. Value(AmountIf(paidBy[j], Alive), status) \in Int
      BY <1>3, Tables, ValueInt DEF Types, ChecksTypeOK
    <2>2. PICK v \in Int : v = Value(AmountIf(paidBy[j], Alive), status)
      BY <2>1
    <2>3. Effective[j] = transferred[j] + v /\ Effective'[j] = transferred'[j] + v
      BY <1>4, <2>2 DEF Effective
    <2>4. transferred[j] \in Int
      BY <1>3 DEF Types
    <2>. QED  BY <1>6, <2>3, <2>4
  <1>10. Payables'
    <2>1. ASSUME NEW j \in Invoice
          PROVE  /\ invoice'[j] = "NONE" => Effective'[j] = 0 /\ paidBy'[j] = {}
                 /\ unbooked'[j] = 0 => apPaid'[j] = Effective'[j]
                 /\ apState'[j] = ApStateOf(j, apPaid'[j])
      <3>1. CASE j = i
        <4>1. unbooked[i] \in Nat /\ (unbooked[i] = 0 => apPaid[i] = Effective[i])
          BY <1>3 DEF Inv, Data, Payables, Types
        <4>2. unbooked'[i] = 0 => seen = Effective[i]
          BY <1>1, <1>2, <1>6, <4>1
        <4>. QED  BY <1>1, <1>6, <1>9, <3>1, <4>2
      <3>2. CASE j # i
        BY <1>1, <1>4, <1>6, <1>9, <3>2 DEF Inv, Data, Payables
      <3>. QED  BY <3>1, <3>2
    <2>. QED  BY <2>1 DEF Payables, ApStateOf
  <1>11. Books'
    <2>1. /\ Sum(Unpaid, Invoice) \in Int /\ Sum(Unpaid, Invoice)' = Sum(Unpaid, Invoice) - n
      <3>1. Unpaid'[i] = Unpaid[i] - n /\ \A j \in Invoice : j # i => Unpaid'[j] = Unpaid[j]
        BY <1>1, <1>9, PurchasingAssumption DEF Unpaid
      <3>. QED  BY <1>3, <1>7, <3>1, UnpaidChange
    <2>2. ASSUME NEW f \in [Invoice -> Nat], NEW g \in [Invoice -> Nat], NEW k \in Nat,
                 g[i] = f[i] + k, \A j \in Invoice : j # i => g[j] = f[j]
          PROVE  Sum(f, Invoice) \in Int /\ Sum(g, Invoice) = Sum(f, Invoice) + k
      <3>1. \A j \in Invoice : f[j] \in Int /\ g[j] \in Int
        OBVIOUS
      <3>2. Sum(g, Invoice) = Sum(f, Invoice) + g[i] - f[i] /\ Sum(f, Invoice) \in Int
        BY <2>2, <3>1, Directions, SumChange, SumInt
      <3>. QED  BY <2>2, <3>1, <3>2
    <2>3. /\ Sum(transferred, Invoice) \in Int
          /\ Sum(transferred, Invoice)' = Sum(transferred, Invoice) + n
      <3>1. Sum(transferred', Invoice) = Sum(transferred, Invoice) + n /\ Sum(transferred, Invoice) \in Int
        BY <1>3, <1>6, <2>2 DEF Types
      <3>. QED  BY <3>1
    <2>4. /\ Sum(unbooked, Invoice) \in Int
          /\ Sum(unbooked, Invoice)' = Sum(unbooked, Invoice) + b
      <3>1. Sum(unbooked', Invoice) = Sum(unbooked, Invoice) + b /\ Sum(unbooked, Invoice) \in Int
        BY <1>3, <1>6, <2>2 DEF Types
      <3>. QED  BY <3>1
    <2>5. Value(InBank, status) \in Int /\ Value(AmountIf(ByHand, Dead), status) \in Int
      BY <1>3, Tables, ValueInt DEF Types, ChecksTypeOK
    <2>6. gl'["BANK"] = Value(InBank, status) - Sum(transferred, Invoice)' + Sum(unbooked, Invoice)'
      BY <1>5, <2>3, <2>4, <2>5 DEF Inv, Data, Books
    <2>7. supplierDebt' = Sum(Unpaid, Invoice)' + Value(AmountIf(ByHand, Dead), status)
      BY <1>1, <2>1, <2>5 DEF Inv, Data, Books
    <2>8. gl'["PAYABLE"] = -supplierDebt' - Sum(unbooked, Invoice)'
      <3>1. supplierDebt \in Int
        BY <1>3 DEF Types, ChecksTypeOK
      <3>. QED  BY <1>1, <1>5, <2>4, <3>1 DEF Inv, Data, Books
    <2>. QED  BY <1>4, <1>5, <2>6, <2>7, <2>8 DEF Inv, Data, Books
  <1>12. Grows
    BY <1>1, <1>3, <1>4 DEF Grows, Types, ChecksTypeOK
  <1>. QED  BY <1>1, <1>7, <1>8, <1>10, <1>11, <1>12, EndMoves, HandlersMove DEF Inv, Data

LEMMA PayCheckInv ==
  ASSUME Inv, NEW h \in Handler, Pay(h), req[h].check # None
  PROVE  Inv'
  <1>1. PICK i \in Invoice, n \in Nat, seen \in Nat, found \in BOOLEAN :
           /\ n > 0 /\ invoice[i] # "NONE" /\ i = req[h].invoice /\ n = req[h].amount
           /\ invoice' \in [Invoice -> {"NONE", "POSTED", "PARTIALLY_PAID", "PAID"}]
           /\ invoice'[i] # "NONE" /\ \A j \in Invoice : j # i => invoice'[j] = invoice[j]
           /\ PayMeans(req[h], found)
           /\ found /\ unbooked[i] = 0 => seen = apPaid[i]
           /\ apPaid' = [apPaid EXCEPT ![i] = seen + n]
           /\ apState' = [apState EXCEPT ![i] = ApStateOf(i, seen + n)]
           /\ supplierDebt' = supplierDebt - n
           /\ UNCHANGED <<order, wasSent, received>> /\ End(h)
    BY PayWrites
  <1>2. PICK c \in Check : c = req[h].check /\ Source[c] = "purchase_payment" /\ n = Amount[c]
    <2>1. req[h] \in PayRequest /\ KnowsInvoice(req[h])
      BY DEF Pay, Inv, Handlers, HandlerTypeOK, Knows
    <2>. QED  BY <1>1, <2>1 DEF PayRequest, KnowsInvoice
  <1>3. /\ status[c] = "NONE" /\ status' = [status EXCEPT ![c] = "ISSUED"]
        /\ Book(Entry("PAYABLE", "CHECKS_OUT", n))
        /\ UNCHANGED <<version, used, arRow, arAgain, customerDebt, transferred, unbooked>>
        /\ paidBy' = [paidBy EXCEPT ![i] = @ \union {c}] /\ found
    BY <1>1, <1>2, ChecksAssumption DEF PayMeans, PayByCheck, CreateIssuedInTx, receivableVars
  <1>4. /\ Types /\ c \in Issued /\ c \notin Received /\ c \notin ByHand
        /\ "ISSUED" \in Status /\ "ISSUED" \in DOMAIN Transitions(c)
    BY <1>2, Directions DEF Inv, Data, Status, Transitions
  <1>5. /\ gl' \in [Account -> Int]
        /\ \A a \in {"CHECKS_IN", "BANK", "TRADE"} : gl'[a] = gl[a]
        /\ gl'["CHECKS_OUT"] = gl["CHECKS_OUT"] - n /\ gl'["PAYABLE"] = gl["PAYABLE"] + n
    <2>1. {"CHECKS_IN", "CHECKS_OUT", "TRADE", "BANK", "PAYABLE"} \subseteq Account
          /\ gl \in [Account -> Int]
      BY <1>4 DEF Account, Types, ChecksTypeOK
    <2>2. gl' \in [Account -> Int]
      BY <1>3, <1>4, <2>1, EntryBooks
    <2>3. \A a \in Account : gl'[a] = gl[a] + (IF a = "PAYABLE" THEN n ELSE 0)
                                            - (IF a = "CHECKS_OUT" THEN n ELSE 0)
      BY <1>3, <1>4, <2>1, EntryBooks
    <2>. QED  BY <2>1, <2>2, <2>3
  <1>6. /\ apPaid' \in [Invoice -> Nat] /\ apPaid'[i] = seen + n
        /\ \A j \in Invoice : j # i => apPaid'[j] = apPaid[j]
        /\ apState' \in [Invoice -> {"OPEN", "PARTIAL", "SETTLED"}]
        /\ apState'[i] = ApStateOf(i, apPaid'[i])
        /\ \A j \in Invoice : j # i => apState'[j] = apState[j]
        /\ paidBy' \in [Invoice -> SUBSET Issued] /\ paidBy'[i] = paidBy[i] \union {c}
        /\ \A j \in Invoice : j # i => paidBy'[j] = paidBy[j]
    <2>1. apPaid' \in [Invoice -> Nat] /\ apPaid'[i] = seen + n
          /\ \A j \in Invoice : j # i => apPaid'[j] = apPaid[j]
      BY <1>1, <1>4 DEF Types
    <2>2. paidBy' \in [Invoice -> SUBSET Issued] /\ paidBy'[i] = paidBy[i] \union {c}
          /\ \A j \in Invoice : j # i => paidBy'[j] = paidBy[j]
      BY <1>3, <1>4 DEF Types
    <2>3. ApStateOf(i, seen + n) \in {"OPEN", "PARTIAL", "SETTLED"}
      <3>1. seen + n \in Nat
        OBVIOUS
      <3>. QED  BY <3>1, ApStateType
    <2>4. /\ apState' \in [Invoice -> {"OPEN", "PARTIAL", "SETTLED"}]
          /\ apState'[i] = ApStateOf(i, seen + n)
          /\ \A j \in Invoice : j # i => apState'[j] = apState[j]
      BY <1>1, <1>4, <2>3 DEF Types
    <2>. QED  BY <2>1, <2>2, <2>4
  <1>7. /\ status' \in [Check -> Status] /\ status'[c] = "ISSUED"
        /\ \A d \in Check : d # c => status'[d] = status[d]
    BY <1>3, <1>4 DEF Types, ChecksTypeOK
  <1>8. Types'
    BY <1>1, <1>3, <1>4, <1>5, <1>6, <1>7 DEF Types, ChecksTypeOK
  <1>9. \A j \in Invoice : c \notin paidBy[j]
    BY <1>3 DEF Inv, Data, Payments
  <1>10. Sent' /\ Receivables'
    <2>1. Sent'
      BY <1>1 DEF Inv, Data, Sent, ReceivedWasSent
    <2>2. \A d \in Received : status'[d] = status[d]
      BY <1>4, <1>7, Directions
    <2>. QED  BY <1>3, <2>1, <2>2 DEF Inv, Data, Receivables
  <1>11. Payments'
    <2>1. \A j \in Invoice, d \in Check : d \in paidBy'[j] <=> d \in paidBy[j] \/ (j = i /\ d = c)
      BY <1>6
    <2>. QED  BY <1>2, <1>7, <1>9, <2>1 DEF Inv, Data, Payments
  <1>12. ASSUME NEW j \in Invoice
         PROVE  Effective[j] \in Int /\ Effective'[j] = Effective[j] + (IF j = i THEN n ELSE 0)
    <2>1. PICK st \in [Check -> Status] : st = status
      BY <1>4 DEF Types, ChecksTypeOK
    <2>2. PICK su \in [Check -> Status] : su = status'
      BY <1>7
    <2>3. "ISSUED" \in Alive /\ Amount[c] \in Nat
      BY Directions DEF Alive, Status, Dead
    <2>4. /\ Value(AmountIf(paidBy'[j], Alive), su) =
               Value(AmountIf(paidBy[j], Alive), st) + (IF j = i THEN n ELSE 0)
          /\ Value(AmountIf(paidBy[j], Alive), st) \in Int
      <3>1. PICK t \in Table : t = AmountIf(paidBy[j], Alive)
        BY Tables
      <3>2. PICK u \in Table : u = AmountIf(paidBy'[j], Alive)
        BY Tables
      <3>3. \A d \in Check : d # c => u[d][su[d]] = t[d][st[d]]
        BY <1>6, <1>7, <2>1, <2>2, <3>1, <3>2, AmountIfIs
      <3>4. t[c][st[c]] = 0 /\ u[c][su[c]] = IF j = i THEN n ELSE 0
        BY <1>2, <1>6, <1>7, <1>9, <2>1, <2>2, <2>3, <3>1, <3>2, AmountIfIs
      <3>5. Value(u, su) = Value(t, st) + u[c][su[c]] - t[c][st[c]]
        BY ONLY <3>3, ValueChange, t \in Table, u \in Table, st \in [Check -> Status],
           su \in [Check -> Status], c \in Check
      <3>6. Value(t, st) \in Int
        BY ValueInt
      <3>. QED  BY <3>1, <3>2, <3>4, <3>5, <3>6
    <2>5. transferred[j] \in Int
      BY <1>4 DEF Types
    <2>6. /\ Effective[j] = transferred[j] + Value(AmountIf(paidBy[j], Alive), st)
          /\ Effective'[j] = transferred[j] + Value(AmountIf(paidBy'[j], Alive), su)
      BY <1>3, <2>1, <2>2 DEF Effective
    <2>. QED  BY <2>4, <2>5, <2>6
  <1>13. Payables'
    <2>1. ASSUME NEW j \in Invoice
          PROVE  /\ invoice'[j] = "NONE" => Effective'[j] = 0 /\ paidBy'[j] = {}
                 /\ unbooked'[j] = 0 => apPaid'[j] = Effective'[j]
                 /\ apState'[j] = ApStateOf(j, apPaid'[j])
      <3>1. CASE j = i
        <4>1. unbooked'[i] = 0 => seen = Effective[i]
          BY <1>1, <1>3 DEF Inv, Data, Payables
        <4>. QED  BY <1>1, <1>6, <1>12, <3>1, <4>1
      <3>2. CASE j # i
        BY <1>1, <1>3, <1>6, <1>12, <3>2 DEF Inv, Data, Payables
      <3>. QED  BY <3>1, <3>2
    <2>. QED  BY <2>1 DEF Payables, ApStateOf
  <1>14. Books'
    <2>1. /\ Sum(Unpaid, Invoice) \in Int /\ Sum(Unpaid, Invoice)' = Sum(Unpaid, Invoice) - n
      <3>1. Unpaid'[i] = Unpaid[i] - n /\ \A j \in Invoice : j # i => Unpaid'[j] = Unpaid[j]
        BY <1>1, <1>12, PurchasingAssumption DEF Unpaid
      <3>. QED  BY <1>4, <1>8, <3>1, UnpaidChange
    <2>2. PICK to \in {"RECEIVED", "ISSUED"} : to = "ISSUED"
      OBVIOUS
    <2>3. /\ By(OnAccountOf(Received), c, to) = 0
          /\ By(OnAccountOf(Issued), c, to) = n
          /\ By(AmountIf(Received, Dead), c, to) = 0 /\ By(InBank, c, to) = 0
          /\ By(AmountIf(Received, Owing), c, to) = 0
          /\ By(AmountIf(ByHand, Dead), c, to) = 0
      BY <1>2, <1>3, <1>4, <2>2, ByCreation
    <2>4. /\ \A a \in Account : gl[a] \in Int
          /\ {"CHECKS_IN", "TRADE", "BANK", "PAYABLE", "CHECKS_OUT"} \subseteq Account
          /\ supplierDebt \in Int /\ customerDebt \in Int
      BY <1>4 DEF Types, ChecksTypeOK, Account
    <2>5. /\ gl'["CHECKS_IN"] = gl["CHECKS_IN"] + By(OnAccountOf(Received), c, to)
          /\ gl'["CHECKS_OUT"] = gl["CHECKS_OUT"] - By(OnAccountOf(Issued), c, to)
          /\ gl'["TRADE"] = gl["TRADE"] + By(AmountIf(Received, Dead), c, to)
          /\ gl'["BANK"] = gl["BANK"] + By(InBank, c, to)
          /\ gl'["PAYABLE"] = gl["PAYABLE"] + supplierDebt - supplierDebt'
      BY <1>1, <1>3, <1>5, <2>3, <2>4
    <2>6. /\ customerDebt' = customerDebt + By(AmountIf(Received, Owing), c, to)
          /\ supplierDebt' = supplierDebt + By(AmountIf(ByHand, Dead), c, to)
                               + Sum(Unpaid, Invoice)' - Sum(Unpaid, Invoice)
      BY <1>1, <1>3, <2>1, <2>3, <2>4
    <2>. QED  BY <1>3, <1>4, <1>8, <2>2, <2>5, <2>6, BooksMove DEF Inv, Data
  <1>15. Grows
    BY <1>1, <1>3, <1>4, <1>7 DEF Grows, Types, ChecksTypeOK
  <1>. QED  BY <1>1, <1>8, <1>10, <1>11, <1>13, <1>14, <1>15, EndMoves, HandlersMove DEF Inv, Data

-----------------------------------------------------------------------------
(* Transitions *)

\* A cheque is booked when it leaves the hands of the shop, whichever way it
\* came into them.
LEMMA ByOnAccount ==
  ASSUME NEW S, NEW c \in Check, c \in S, NEW from \in Status, from = status[c], NEW to \in Status,
         from # "NONE", to # "NONE", from \in OutOfHand => to \in OutOfHand
  PROVE  By(OnAccountOf(S), c, to) =
           IF from \notin OutOfHand /\ to \in OutOfHand THEN -Amount[c] ELSE 0
  <1>1. Amount[c] \in Int
    BY Directions
  <1>2. /\ OnAccountOf(S)[c][from] =
              IF Source[c] = "manual" THEN (IF from \in OutOfHand THEN -Amount[c] ELSE 0)
              ELSE (IF from \in OutOfHand THEN 0 ELSE Amount[c])
        /\ OnAccountOf(S)[c][to] =
              IF Source[c] = "manual" THEN (IF to \in OutOfHand THEN -Amount[c] ELSE 0)
              ELSE (IF to \in OutOfHand THEN 0 ELSE Amount[c])
    BY OnAccountIs
  <1>3. By(OnAccountOf(S), c, to) = OnAccountOf(S)[c][to] - OnAccountOf(S)[c][from]
    BY DEF By
  <1>. QED  BY <1>1, <1>2, <1>3

\* What the tables say when a received cheque moves.
LEMMA ByReceived ==
  ASSUME Types, NEW c \in Received, NEW to \in Transitions(c)[status[c]], status[c] # "NONE"
  PROVE  LET n == Amount[c]
             from == status[c]
             by(in, trade, banked, owed) ==
               /\ By(OnAccountOf(Received), c, to) = in
               /\ By(AmountIf(Received, Dead), c, to) = trade
               /\ By(InBank, c, to) = banked
               /\ By(AmountIf(Received, Owing), c, to) = owed
         IN  /\ By(OnAccountOf(Issued), c, to) = 0 /\ By(AmountIf(ByHand, Dead), c, to) = 0
             /\ to = "DEPOSITED" => by(0, 0, 0, 0)
             /\ to = "CLEARED" => by(-n, 0, n, -n)
             /\ to \in Dead /\ from # "CLEARED" => by(-n, n, 0, 0)
             /\ to \in Dead /\ from = "CLEARED" => by(0, n, -n, n)
  <1>1. PICK from \in Status : from = status[c] /\ from \in DOMAIN Transitions(c)
    BY Directions DEF Types, ChecksTypeOK
  <1>2. /\ c \in Check /\ c \notin Issued /\ c \notin ByHand /\ Amount[c] \in Int /\ to \in Status
        /\ \/ from = "RECEIVED" /\ to = "DEPOSITED"
           \/ from \in {"RECEIVED", "DEPOSITED"} /\ to = "CLEARED"
           \/ from \in {"RECEIVED", "DEPOSITED"} /\ to \in {"BOUNCED", "RETURNED"}
           \/ from = "CLEARED" /\ to = "BOUNCED"
    <2>1. c \in Check
      BY Directions
    <2>2. to \in DOMAIN Transitions(c) /\ \A s \in DOMAIN Transitions(c) : s \in Status
      <3>1. to \in Transitions(c)[from]
        BY <1>1
      <3>. QED  BY <1>1, <2>1, <3>1, TransitionFacts, States
    <2>. QED  BY <1>1, <2>1, <2>2, Directions, TransitionFacts
  <1>3. /\ By(OnAccountOf(Issued), c, to) = 0 /\ By(AmountIf(ByHand, Dead), c, to) = 0
    BY <1>1, <1>2, OnAccountIs, AmountIfIs DEF By
  <1>4. /\ By(OnAccountOf(Received), c, to) =
             (IF from \notin OutOfHand /\ to \in OutOfHand THEN -Amount[c] ELSE 0)
    <2>1. from # "NONE" /\ to # "NONE" /\ (from \in OutOfHand => to \in OutOfHand)
      BY <1>1, <1>2 DEF OutOfHand, Status
    <2>. QED  BY <1>1, <1>2, <2>1, ByOnAccount
  <1>5. /\ By(AmountIf(Received, Dead), c, to) = (IF to \in Dead THEN Amount[c] ELSE 0)
        /\ By(AmountIf(Received, Owing), c, to) =
             (IF to = "CLEARED" THEN -Amount[c] ELSE IF from = "CLEARED" THEN Amount[c] ELSE 0)
    BY <1>1, <1>2, AmountIfIs DEF By, Dead, Owing, Status
  <1>6. By(InBank, c, to) = (IF to = "CLEARED" THEN Amount[c] ELSE IF from = "CLEARED" THEN -Amount[c] ELSE 0)
    BY <1>1, <1>2, InBankIs DEF By
  <1>. QED  BY <1>1, <1>2, <1>3, <1>4, <1>5, <1>6 DEF Dead, OutOfHand, Status

\* What the tables say when an issued cheque moves.
LEMMA ByIssued ==
  ASSUME Types, NEW c \in Issued, NEW to \in Transitions(c)[status[c]], status[c] # "NONE"
  PROVE  LET n == Amount[c]
             from == status[c]
             by(out, banked) ==
               By(OnAccountOf(Issued), c, to) = out /\ By(InBank, c, to) = banked
         IN  /\ By(OnAccountOf(Received), c, to) = 0
             /\ By(AmountIf(Received, Dead), c, to) = 0
             /\ By(AmountIf(Received, Owing), c, to) = 0
             /\ By(AmountIf(ByHand, Dead), c, to) = IF c \in ByHand /\ to \in Dead THEN n ELSE 0
             /\ to = "PRESENTED" => by(0, 0)
             /\ to = "CLEARED" => by(-n, -n)
             /\ to \in Dead /\ from # "CLEARED" => by(-n, 0)
             /\ to \in Dead /\ from = "CLEARED" => by(0, n)
  <1>1. PICK from \in Status : from = status[c] /\ from \in DOMAIN Transitions(c)
    BY Directions DEF Types, ChecksTypeOK
  <1>2. /\ c \in Check /\ c \notin Received /\ Amount[c] \in Int /\ to \in Status
        /\ \/ from = "ISSUED" /\ to = "PRESENTED"
           \/ from \in {"ISSUED", "PRESENTED"} /\ to = "CLEARED"
           \/ from \in {"ISSUED", "PRESENTED"} /\ to \in {"BOUNCED", "CANCELLED"}
           \/ from = "CLEARED" /\ to = "BOUNCED"
    <2>1. c \in Check
      BY Directions
    <2>2. to \in DOMAIN Transitions(c) /\ \A s \in DOMAIN Transitions(c) : s \in Status
      <3>1. to \in Transitions(c)[from]
        BY <1>1
      <3>. QED  BY <1>1, <2>1, <3>1, TransitionFacts, States
    <2>. QED  BY <1>1, <2>1, <2>2, Directions, TransitionFacts
  <1>3. /\ By(OnAccountOf(Received), c, to) = 0
        /\ By(AmountIf(Received, Dead), c, to) = 0 /\ By(AmountIf(Received, Owing), c, to) = 0
    BY <1>1, <1>2, OnAccountIs, AmountIfIs DEF By
  <1>4. By(OnAccountOf(Issued), c, to) =
          (IF from \notin OutOfHand /\ to \in OutOfHand THEN -Amount[c] ELSE 0)
    <2>1. from # "NONE" /\ to # "NONE" /\ (from \in OutOfHand => to \in OutOfHand)
      BY <1>1, <1>2 DEF OutOfHand, Status
    <2>. QED  BY <1>1, <1>2, <2>1, ByOnAccount
  <1>5. By(AmountIf(ByHand, Dead), c, to) = (IF c \in ByHand /\ to \in Dead THEN Amount[c] ELSE 0)
    BY <1>1, <1>2, AmountIfIs DEF By, Dead
  <1>6. By(InBank, c, to) = (IF to = "CLEARED" THEN -Amount[c] ELSE IF from = "CLEARED" THEN Amount[c] ELSE 0)
    BY <1>1, <1>2, InBankIs DEF By
  <1>. QED  BY <1>1, <1>2, <1>3, <1>4, <1>5, <1>6 DEF Dead, OutOfHand, Status

\* A claim that succeeds finds the cheque as its handler has read it.
LEMMA Claims ==
  ASSUME Inv, NEW h \in Handler, TransitionOf(h)
  PROVE  \E c \in Check : \E to \in Transitions(c)[status[c]] :
           /\ status[c] \in DOMAIN Transitions(c) /\ to \in Status
           /\ status' = [status EXCEPT ![c] = to]
           /\ version' = [version EXCEPT ![c] = @ + 1] /\ used' \subseteq Key
           /\ Effects(c, status[c], to)
           /\ IF c \in Issued /\ to \in Dead
              THEN ReinstateSupplierDebt(c)
              ELSE UNCHANGED <<supplierDebt, payableVars>>
           /\ UNCHANGED <<order, wasSent, received, transferred, unbooked, paidBy>> /\ End(h)
  <1>1. PICK r \in Transition : r = req[h] /\ KnowsCheck(r)
    BY DEF TransitionOf, Claim, Inv, Handlers, HandlerTypeOK, Knows
  <1>2. PICK c \in Check : c = r.check
    BY DEF Transition
  <1>3. version[c] = r.version /\ status[c] = r.from
    BY <1>1, <1>2 DEF TransitionOf, Claim, KnowsCheck
  <1>4. PICK to \in Status : to = r.to /\ to \in Transitions(c)[status[c]]
    BY <1>1, <1>2, <1>3 DEF KnowsCheck, Transition
  <1>5. /\ status' = [status EXCEPT ![c] = to]
        /\ version' = [version EXCEPT ![c] = @ + 1] /\ used' \subseteq Key
    <2>1. version' = [version EXCEPT ![c] = r.version + 1]
      BY <1>1, <1>2 DEF TransitionOf, Claim
    <2>2. used \subseteq Key /\ r.key \in Key
      BY DEF Inv, Data, Types, ChecksTypeOK, Transition
    <2>. QED  BY <1>1, <1>2, <1>3, <1>4, <2>1, <2>2 DEF TransitionOf, Claim
  <1>6. status[c] \in DOMAIN Transitions(c)
    BY <1>1, <1>2, <1>3 DEF KnowsCheck
  <1>7. /\ Effects(c, status[c], to)
        /\ IF c \in Issued /\ to \in Dead
           THEN ReinstateSupplierDebt(c)
           ELSE UNCHANGED <<supplierDebt, payableVars>>
        /\ UNCHANGED <<order, wasSent, received, transferred, unbooked, paidBy>> /\ End(h)
    BY <1>1, <1>2, <1>3, <1>4 DEF TransitionOf, orderVars, paymentVars
  <1>. QED  BY <1>4, <1>5, <1>6, <1>7

\* What becomes of the books and of the receivables when a received cheque
\* moves: the tables say the same.
LEMMA ReceivedBooks ==
  ASSUME Types, Receivables, NEW c \in Received, NEW to \in Transitions(c)[status[c]],
         status[c] # "NONE", ReceivedEffects(c, status[c], to)
  PROVE  /\ gl' \in [Account -> Int]
         /\ gl'["CHECKS_IN"] = gl["CHECKS_IN"] + By(OnAccountOf(Received), c, to)
         /\ gl'["TRADE"] = gl["TRADE"] + By(AmountIf(Received, Dead), c, to)
         /\ gl'["BANK"] = gl["BANK"] + By(InBank, c, to)
         /\ gl'["CHECKS_OUT"] = gl["CHECKS_OUT"] /\ gl'["PAYABLE"] = gl["PAYABLE"]
         /\ customerDebt' = customerDebt + By(AmountIf(Received, Owing), c, to)
         /\ arRow' \in [Check -> {"NONE", "OPEN", "SETTLED", "TRADE"}] /\ arAgain' \in [Check -> Nat]
         /\ Follows(arRow'[c], arAgain'[c], to)
         /\ \A d \in Check : d # c => arRow'[d] = arRow[d] /\ arAgain'[d] = arAgain[d]
  <1>1. PICK n \in Int : n = Amount[c] /\ c \in Check
    BY Directions
  <1>2. /\ status[c] \in DOMAIN Transitions(c)
        /\ \/ status[c] = "RECEIVED" /\ to = "DEPOSITED"
           \/ status[c] \in {"RECEIVED", "DEPOSITED"} /\ to = "CLEARED"
           \/ status[c] \in {"RECEIVED", "DEPOSITED"} /\ to \in {"BOUNCED", "RETURNED"}
           \/ status[c] = "CLEARED" /\ to = "BOUNCED"
    BY <1>1, TransitionFacts DEF Types, ChecksTypeOK
  <1>3. /\ Follows(arRow[c], arAgain[c], status[c])
        /\ arRow \in [Check -> {"NONE", "OPEN", "SETTLED", "TRADE"}] /\ arAgain \in [Check -> Nat]
        /\ customerDebt \in Int /\ gl \in [Account -> Int]
        /\ {"CHECKS_IN", "CHECKS_OUT", "TRADE", "BANK", "PAYABLE"} \subseteq Account
    BY DEF Receivables, Types, ChecksTypeOK, Account
  <1>4. ASSUME NEW d \in Account, NEW k \in Account, Book(Entry(d, k, n))
        PROVE  /\ gl' \in [Account -> Int]
               /\ \A a \in Account : gl'[a] = gl[a] + (IF a = d THEN n ELSE 0) - (IF a = k THEN n ELSE 0)
    BY <1>4, EntryBooks
  <1>5. CASE to = "DEPOSITED"
    <2>1. UNCHANGED <<gl, arRow, arAgain, customerDebt>>
      BY <1>5 DEF ReceivedEffects, NoEffect, Dead, receivableVars
    <2>2. /\ By(OnAccountOf(Received), c, to) = 0 /\ By(AmountIf(Received, Dead), c, to) = 0
          /\ By(InBank, c, to) = 0 /\ By(AmountIf(Received, Owing), c, to) = 0
      BY <1>5, ByReceived
    <2>3. Follows(arRow'[c], arAgain'[c], to)
      BY <1>2, <1>3, <1>5, <2>1 DEF Follows
    <2>. QED  BY <1>3, <2>1, <2>2, <2>3
  <1>6. CASE to = "CLEARED"
    <2>1. arRow[c] = "OPEN" /\ arAgain[c] = 0
      BY <1>2, <1>3, <1>6 DEF Follows
    <2>2. /\ Book(Entry("BANK", "CHECKS_IN", n))
          /\ arRow' = [arRow EXCEPT ![c] = "SETTLED"] /\ customerDebt' = customerDebt - n
          /\ UNCHANGED arAgain
      BY <1>1, <1>6, <2>1 DEF ReceivedEffects, ClearReceived, Dead
    <2>3. /\ By(OnAccountOf(Received), c, to) = -n /\ By(AmountIf(Received, Dead), c, to) = 0
          /\ By(InBank, c, to) = n /\ By(AmountIf(Received, Owing), c, to) = -n
      BY <1>1, <1>6, ByReceived
    <2>4. arRow'[c] = "SETTLED" /\ arRow' \in [Check -> {"NONE", "OPEN", "SETTLED", "TRADE"}]
          /\ \A d \in Check : d # c => arRow'[d] = arRow[d]
      BY <1>1, <1>3, <2>2
    <2>5. Follows(arRow'[c], arAgain'[c], to)
      BY <1>6, <2>1, <2>2, <2>4 DEF Follows
    <2>6. /\ gl' \in [Account -> Int]
          /\ \A a \in Account : gl'[a] = gl[a] + (IF a = "BANK" THEN n ELSE 0)
                                               - (IF a = "CHECKS_IN" THEN n ELSE 0)
      BY <1>3, <1>4, <2>2
    <2>. QED  BY <1>1, <1>3, <2>2, <2>3, <2>4, <2>5, <2>6
  <1>7. CASE to \in Dead /\ status[c] # "CLEARED"
    <2>1. arRow[c] = "OPEN" /\ arAgain[c] = 0 /\ to # "CLEARED" /\ to \in {"BOUNCED", "RETURNED"}
      BY <1>2, <1>3, <1>7 DEF Follows, Dead
    <2>2. /\ UNCHANGED <<arAgain, customerDebt>> /\ Book(Entry("TRADE", "CHECKS_IN", n))
          /\ arRow' = [arRow EXCEPT ![c] = "TRADE"]
      BY <1>1, <1>3, <1>7, <2>1 DEF ReceivedEffects, ReturnReceived
    <2>3. /\ By(OnAccountOf(Received), c, to) = -n /\ By(AmountIf(Received, Dead), c, to) = n
          /\ By(InBank, c, to) = 0 /\ By(AmountIf(Received, Owing), c, to) = 0
      BY <1>1, <1>7, ByReceived
    <2>4. arRow'[c] = "TRADE" /\ arRow' \in [Check -> {"NONE", "OPEN", "SETTLED", "TRADE"}]
          /\ \A d \in Check : d # c => arRow'[d] = arRow[d]
      BY <1>1, <1>3, <2>2
    <2>5. Follows(arRow'[c], arAgain'[c], to)
      BY <2>1, <2>2, <2>4 DEF Follows
    <2>6. /\ gl' \in [Account -> Int]
          /\ \A a \in Account : gl'[a] = gl[a] + (IF a = "TRADE" THEN n ELSE 0)
                                               - (IF a = "CHECKS_IN" THEN n ELSE 0)
      BY <1>3, <1>4, <2>2
    <2>. QED  BY <1>1, <1>3, <2>2, <2>3, <2>4, <2>5, <2>6
  <1>8. CASE to \in Dead /\ status[c] = "CLEARED"
    <2>1. arRow[c] = "SETTLED" /\ arAgain[c] = 0 /\ to = "BOUNCED"
      BY <1>2, <1>3, <1>8 DEF Follows, Dead
    <2>2. /\ Book(Entry("TRADE", "BANK", n))
          /\ arAgain' = [arAgain EXCEPT ![c] = 1] /\ customerDebt' = customerDebt + n
          /\ UNCHANGED arRow
      BY <1>1, <1>3, <1>8, <2>1 DEF ReceivedEffects, ChargeBack
    <2>3. /\ By(OnAccountOf(Received), c, to) = 0 /\ By(AmountIf(Received, Dead), c, to) = n
          /\ By(InBank, c, to) = -n /\ By(AmountIf(Received, Owing), c, to) = n
      BY <1>1, <1>8, ByReceived
    <2>4. arAgain'[c] = 1 /\ arAgain' \in [Check -> Nat]
          /\ \A d \in Check : d # c => arAgain'[d] = arAgain[d]
      BY <1>1, <1>3, <2>2
    <2>5. Follows(arRow'[c], arAgain'[c], to)
      BY <2>1, <2>2, <2>4 DEF Follows
    <2>6. /\ gl' \in [Account -> Int]
          /\ \A a \in Account : gl'[a] = gl[a] + (IF a = "TRADE" THEN n ELSE 0)
                                               - (IF a = "BANK" THEN n ELSE 0)
      BY <1>3, <1>4, <2>2
    <2>. QED  BY <1>1, <1>3, <2>2, <2>3, <2>4, <2>5, <2>6
  <1>. QED  BY <1>2, <1>5, <1>6, <1>7, <1>8 DEF Dead

\* The same when an issued cheque moves; the account of payables follows the
\* cheques that come back.
LEMMA IssuedBooks ==
  ASSUME Types, NEW c \in Issued, NEW to \in Transitions(c)[status[c]],
         status[c] # "NONE", IssuedEffects(c, status[c], to)
  PROVE  /\ gl' \in [Account -> Int]
         /\ gl'["CHECKS_IN"] = gl["CHECKS_IN"] /\ gl'["TRADE"] = gl["TRADE"]
         /\ gl'["CHECKS_OUT"] = gl["CHECKS_OUT"] - By(OnAccountOf(Issued), c, to)
         /\ gl'["BANK"] = gl["BANK"] + By(InBank, c, to)
         /\ gl'["PAYABLE"] = gl["PAYABLE"] - (IF to \in Dead THEN Amount[c] ELSE 0)
         /\ UNCHANGED <<arRow, arAgain, customerDebt>>
  <1>1. PICK n \in Int : n = Amount[c] /\ c \in Check
    BY Directions
  <1>2. /\ status[c] \in DOMAIN Transitions(c)
        /\ \/ status[c] = "ISSUED" /\ to = "PRESENTED"
           \/ status[c] \in {"ISSUED", "PRESENTED"} /\ to = "CLEARED"
           \/ status[c] \in {"ISSUED", "PRESENTED"} /\ to \in {"BOUNCED", "CANCELLED"}
           \/ status[c] = "CLEARED" /\ to = "BOUNCED"
    BY <1>1, TransitionFacts DEF Types, ChecksTypeOK
  <1>3. /\ gl \in [Account -> Int]
        /\ {"CHECKS_IN", "CHECKS_OUT", "TRADE", "BANK", "PAYABLE"} \subseteq Account
        /\ UNCHANGED <<arRow, arAgain, customerDebt>>
    BY DEF Types, ChecksTypeOK, Account, IssuedEffects, receivableVars
  <1>4. ASSUME NEW d \in Account, NEW k \in Account, Book(Entry(d, k, n))
        PROVE  /\ gl' \in [Account -> Int]
               /\ \A a \in Account : gl'[a] = gl[a] + (IF a = d THEN n ELSE 0) - (IF a = k THEN n ELSE 0)
    BY <1>4, EntryBooks
  <1>5. CASE to = "PRESENTED"
    <2>1. UNCHANGED gl /\ to \notin Dead
      BY <1>5 DEF IssuedEffects, Dead
    <2>2. By(OnAccountOf(Issued), c, to) = 0 /\ By(InBank, c, to) = 0
      BY <1>5, ByIssued
    <2>. QED  BY <1>3, <2>1, <2>2
  <1>6. CASE to = "CLEARED"
    <2>1. Book(Entry("CHECKS_OUT", "BANK", n)) /\ to \notin Dead
      BY <1>1, <1>6 DEF IssuedEffects, Dead
    <2>2. By(OnAccountOf(Issued), c, to) = -n /\ By(InBank, c, to) = -n
      BY <1>1, <1>6, ByIssued
    <2>3. /\ gl' \in [Account -> Int]
          /\ \A a \in Account : gl'[a] = gl[a] + (IF a = "CHECKS_OUT" THEN n ELSE 0)
                                               - (IF a = "BANK" THEN n ELSE 0)
      BY <1>3, <1>4, <2>1
    <2>. QED  BY <1>1, <1>3, <2>1, <2>2, <2>3
  <1>7. CASE to \in Dead /\ status[c] # "CLEARED"
    <2>1. Book(Entry("CHECKS_OUT", "PAYABLE", n))
      BY <1>1, <1>7 DEF IssuedEffects, Dead
    <2>2. By(OnAccountOf(Issued), c, to) = -n /\ By(InBank, c, to) = 0
      BY <1>1, <1>7, ByIssued
    <2>3. /\ gl' \in [Account -> Int]
          /\ \A a \in Account : gl'[a] = gl[a] + (IF a = "CHECKS_OUT" THEN n ELSE 0)
                                               - (IF a = "PAYABLE" THEN n ELSE 0)
      BY <1>3, <1>4, <2>1
    <2>. QED  BY <1>1, <1>3, <1>7, <2>1, <2>2, <2>3
  <1>8. CASE to \in Dead /\ status[c] = "CLEARED"
    <2>1. Book(Entry("BANK", "PAYABLE", n))
      BY <1>1, <1>8 DEF IssuedEffects, Dead
    <2>2. By(OnAccountOf(Issued), c, to) = 0 /\ By(InBank, c, to) = n
      BY <1>1, <1>8, ByIssued
    <2>3. /\ gl' \in [Account -> Int]
          /\ \A a \in Account : gl'[a] = gl[a] + (IF a = "BANK" THEN n ELSE 0)
                                               - (IF a = "PAYABLE" THEN n ELSE 0)
      BY <1>3, <1>4, <2>1
    <2>. QED  BY <1>1, <1>3, <1>8, <2>1, <2>2, <2>3
  <1>. QED  BY <1>2, <1>5, <1>6, <1>7, <1>8 DEF Dead

\* A cheque that comes back was counted by the payable it paid, so there is as
\* much to take off as it was worth.
LEMMA Reinstated ==
  ASSUME Types, Types', Payments, Payables, NEW c \in Issued, NEW to \in Dead, to \in Status,
         status[c] \in Alive, status' = [status EXCEPT ![c] = to],
         ReinstateSupplierDebt(c), UNCHANGED <<transferred, unbooked, paidBy>>
  PROVE  /\ \A i \in Invoice : Effective'[i] = Effective[i] - (IF c \in paidBy[i] THEN Amount[c] ELSE 0)
         /\ Payables'
  <1>1. PICK n \in Nat : n = Amount[c] /\ c \in Check
    BY Directions
  <1>2. ASSUME NEW i \in Invoice
        PROVE  /\ Effective[i] \in Int /\ Effective'[i] >= 0
               /\ Effective'[i] = Effective[i] - (IF c \in paidBy[i] THEN n ELSE 0)
    <2>1. to \notin Alive /\ transferred[i] \in Nat
      BY DEF Alive, Types
    <2>2. /\ Effective[i] \in Int /\ Effective'[i] >= transferred[i]
          /\ Effective'[i] = Effective[i]
               + (IF c \in paidBy[i] /\ to \in Alive THEN Amount[c] ELSE 0)
               - (IF c \in paidBy[i] /\ status[c] \in Alive THEN Amount[c] ELSE 0)
      BY <1>1, EffectiveMoves
    <2>. QED  BY <1>1, <2>1, <2>2
  <1>3. UNCHANGED invoice /\ \A i \in Invoice : invoice[i] = "NONE" => c \notin paidBy[i]
    BY DEF ReinstateSupplierDebt, Payables
  <1>4. CASE \E i \in Invoice : c \in paidBy[i]
    <2>1. PICK i \in Invoice : c \in paidBy[i] /\ \E seen \in PaidSeen(i, TRUE) :
             /\ apPaid' = [apPaid EXCEPT ![i] = IF seen > n THEN seen - n ELSE 0]
             /\ apState' = [apState EXCEPT ![i] = ApStateOf(i, IF seen > n THEN seen - n ELSE 0)]
      BY <1>1, <1>4 DEF ReinstateSupplierDebt
    <2>2. PICK seen \in PaidSeen(i, TRUE) :
             /\ apPaid' = [apPaid EXCEPT ![i] = IF seen > n THEN seen - n ELSE 0]
             /\ apState' = [apState EXCEPT ![i] = ApStateOf(i, IF seen > n THEN seen - n ELSE 0)]
      BY <2>1
    <2>3. PICK left : left = IF seen > n THEN seen - n ELSE 0
      OBVIOUS
    <2>4. /\ apPaid'[i] = left /\ apState'[i] = ApStateOf(i, left)
          /\ \A j \in Invoice : j # i => apPaid'[j] = apPaid[j] /\ apState'[j] = apState[j]
      BY <2>2, <2>3 DEF Types
    <2>5. unbooked[i] = 0 => left = Effective'[i]
      <3>1. unbooked[i] = 0 => seen = Effective[i]
        BY DEF PaidSeen, Payables
      <3>2. Effective[i] \in Int /\ Effective'[i] >= 0 /\ Effective'[i] = Effective[i] - n
        BY <1>2, <2>1
      <3>. QED  BY <2>3, <3>1, <3>2
    <2>6. \A j \in Invoice : j # i => c \notin paidBy[j]
      BY <1>1, <2>1 DEF Payments
    <2>7. ASSUME NEW j \in Invoice
          PROVE  /\ invoice'[j] = "NONE" => Effective'[j] = 0 /\ paidBy'[j] = {}
                 /\ unbooked'[j] = 0 => apPaid'[j] = Effective'[j]
                 /\ apState'[j] = ApStateOf(j, apPaid'[j])
      <3>1. CASE j = i
        BY <1>3, <2>1, <2>4, <2>5, <3>1
      <3>2. CASE j # i
        <4>1. Effective'[j] = Effective[j]
          BY <1>2, <2>6, <3>2
        <4>. QED  BY <1>3, <2>4, <3>2, <4>1 DEF Payables
      <3>. QED  BY <3>1, <3>2
    <2>. QED  BY <1>1, <1>2, <2>7 DEF Payables, ApStateOf
  <1>5. CASE ~\E i \in Invoice : c \in paidBy[i]
    <2>1. UNCHANGED <<apPaid, apState>>
      BY <1>5 DEF ReinstateSupplierDebt
    <2>2. \A j \in Invoice : Effective'[j] = Effective[j]
      BY <1>2, <1>5
    <2>3. Payables'
      BY <1>3, <2>1, <2>2 DEF Payables, ApStateOf
    <2>. QED  BY <1>1, <1>2, <2>3
  <1>. QED  BY <1>4, <1>5

\* The payable stays one, whatever was read of it.
LEMMA ReinstatedTypes ==
  ASSUME Types, NEW c \in Issued, ReinstateSupplierDebt(c)
  PROVE  /\ apPaid' \in [Invoice -> Nat] /\ apState' \in [Invoice -> {"OPEN", "PARTIAL", "SETTLED"}]
         /\ UNCHANGED invoice /\ supplierDebt' = supplierDebt + Amount[c]
  <1>1. PICK n \in Nat : n = Amount[c]
    BY Directions
  <1>2. CASE \E i \in Invoice : c \in paidBy[i]
    <2>1. PICK i \in Invoice : \E seen \in PaidSeen(i, TRUE) :
             /\ apPaid' = [apPaid EXCEPT ![i] = IF seen > n THEN seen - n ELSE 0]
             /\ apState' = [apState EXCEPT ![i] = ApStateOf(i, IF seen > n THEN seen - n ELSE 0)]
      BY <1>1, <1>2 DEF ReinstateSupplierDebt
    <2>2. PICK seen \in PaidSeen(i, TRUE) :
             /\ apPaid' = [apPaid EXCEPT ![i] = IF seen > n THEN seen - n ELSE 0]
             /\ apState' = [apState EXCEPT ![i] = ApStateOf(i, IF seen > n THEN seen - n ELSE 0)]
      BY <2>1
    <2>3. seen \in Int
      <3>1. apPaid[i] \in Int
        BY DEF Types
      <3>2. PaidSeen(i, TRUE) =
              IF unbooked[i] = 0 THEN {apPaid[i]} ELSE 0..(transferred[i] + Total(paidBy[i]))
        BY DEF PaidSeen
      <3>3. CASE unbooked[i] = 0
        BY <3>1, <3>2, <3>3
      <3>4. CASE unbooked[i] # 0
        <4>1. seen \in 0..(transferred[i] + Total(paidBy[i]))
          BY <3>2, <3>4
        <4>. QED  BY <4>1
      <3>. QED  BY <3>3, <3>4
    <2>4. PICK left \in Nat : left = IF seen > n THEN seen - n ELSE 0
      <3>1. (IF seen > n THEN seen - n ELSE 0) \in Nat
        BY <2>3
      <3>. QED  BY <3>1
    <2>5. apPaid' = [apPaid EXCEPT ![i] = left] /\ apState' = [apState EXCEPT ![i] = ApStateOf(i, left)]
      BY <2>2, <2>4
    <2>6. ApStateOf(i, left) \in {"OPEN", "PARTIAL", "SETTLED"}
      BY ApStateType
    <2>. QED  BY <2>5, <2>6 DEF Types, ReinstateSupplierDebt
  <1>3. CASE ~\E i \in Invoice : c \in paidBy[i]
    BY <1>3 DEF Types, ReinstateSupplierDebt
  <1>. QED  BY <1>2, <1>3

\* What is owed on the invoices grows by a cheque that paid one of them: it
\* paid one only.
LEMMA OwedAgain ==
  ASSUME Types, Types', Payments, Payables, NEW c \in Issued, status[c] # "NONE",
         UNCHANGED <<invoice, paidBy>>,
         \A i \in Invoice : Effective'[i] = Effective[i] - (IF c \in paidBy[i] THEN Amount[c] ELSE 0)
  PROVE  /\ Sum(Unpaid, Invoice) \in Int
         /\ Sum(Unpaid, Invoice)' = Sum(Unpaid, Invoice) + (IF c \in ByHand THEN 0 ELSE Amount[c])
  <1>1. PICK n \in Int : n = Amount[c] /\ c \in Check
    BY Directions
  <1>2. /\ c \in ByHand <=> Source[c] # "purchase_payment"
        /\ c \in ByHand => \A i \in Invoice : c \notin paidBy[i]
        /\ \A i \in Invoice : c \in paidBy[i] => invoice[i] # "NONE"
    <2>1. Source[c] \in {"manual", "pos_invoice", "purchase_payment"}
      BY <1>1, ChecksAssumption
    <2>2. c \in ByHand <=> Source[c] # "purchase_payment"
      BY <1>1, <2>1, Directions
    <2>. QED  BY <1>1, <2>2 DEF Payments, Payables
  <1>3. ASSUME NEW i \in Invoice
        PROVE  Unpaid[i] \in Int /\ Unpaid'[i] = Unpaid[i] + (IF c \in paidBy[i] THEN n ELSE 0)
    <2>1. Effective[i] \in Int /\ Unpaid[i] \in Int /\ GrandTotal[i] \in Int
      BY EffectiveInt, PurchasingAssumption DEF PaidInt
    <2>. QED  BY <1>1, <1>2, <2>1 DEF Unpaid
  <1>4. CASE c \in ByHand
    <2>1. PICK old, new : old = Unpaid /\ new = Unpaid'
      OBVIOUS
    <2>2. \A i \in Invoice : new[i] = old[i] /\ old[i] \in Int
      BY <1>2, <1>3, <1>4, <2>1
    <2>3. DOMAIN old = Invoice /\ DOMAIN new = Invoice
          /\ old = [i \in Invoice |-> old[i]] /\ new = [i \in Invoice |-> new[i]]
      BY <2>1 DEF Unpaid
    <2>4. new = old
      BY <2>2, <2>3
    <2>5. Sum(old, Invoice) \in Int
      BY <2>2, Directions, SumInt
    <2>. QED  BY <1>4, <2>1, <2>4, <2>5
  <1>5. CASE c \notin ByHand
    <2>1. PICK i \in Invoice : c \in paidBy[i]
      BY <1>1, <1>2, <1>5 DEF Payments
    <2>2. \A j \in Invoice : j # i => c \notin paidBy[j]
      BY <1>1, <2>1 DEF Payments
    <2>3. /\ Unpaid'[i] = Unpaid[i] + n /\ Unpaid[i] \in Int
          /\ \A j \in Invoice : j # i => Unpaid'[j] = Unpaid[j]
      BY <1>3, <2>1, <2>2
    <2>4. /\ Sum(Unpaid, Invoice) \in Int
          /\ Sum(Unpaid, Invoice)' = Sum(Unpaid, Invoice) + Unpaid'[i] - Unpaid[i]
      BY <2>3, UnpaidChange
    <2>. QED  BY <1>1, <1>5, <2>3, <2>4
  <1>. QED  BY <1>4, <1>5

\* The invariant after a transition, from its parts that speak of money.
LEMMA TransitionEnds ==
  ASSUME Inv, NEW h \in Handler, End(h), NEW c \in Check, NEW to \in Status,
         to # "NONE", status[c] # "NONE",
         status' = [status EXCEPT ![c] = to], version' = [version EXCEPT ![c] = @ + 1],
         UNCHANGED <<order, wasSent, received, invoice, transferred, unbooked, paidBy>>,
         Types', Receivables', Payables', Books'
  PROVE  Inv'
  <1>1. Types
    BY DEF Inv, Data
  <1>2. \A d \in Check : status'[d] = "NONE" <=> status[d] = "NONE"
    BY <1>1 DEF Types, ChecksTypeOK
  <1>3. Sent' /\ Payments'
    <2>1. Sent'
      BY DEF Inv, Data, Sent, ReceivedWasSent
    <2>2. Payments'
      BY <1>2 DEF Inv, Data, Payments
    <2>. QED  BY <2>1, <2>2
  <1>4. \A d \in Check : /\ version'[d] \in Int /\ version'[d] >= version[d]
                         /\ version'[d] = version[d] => status'[d] = status[d]
    BY <1>1 DEF Types, ChecksTypeOK
  <1>5. Grows
    BY <1>4 DEF Grows
  <1>. QED  BY <1>3, <1>5, EndMoves, HandlersMove DEF Inv, Data

LEMMA ReceivedInv ==
  ASSUME Inv, NEW h \in Handler, End(h), NEW c \in Received, NEW to \in Transitions(c)[status[c]],
         status[c] \in DOMAIN Transitions(c), to \in Status,
         status' = [status EXCEPT ![c] = to], version' = [version EXCEPT ![c] = @ + 1],
         used' \subseteq Key, ReceivedEffects(c, status[c], to),
         UNCHANGED <<order, wasSent, received, invoice, apPaid, apState, transferred, unbooked, paidBy, supplierDebt>>
  PROVE  Inv'
  <1>1. /\ Types /\ c \in Check /\ c \notin Issued /\ status[c] # "NONE"
        /\ to \in DOMAIN Transitions(c) /\ to # "NONE"
    BY Directions, TransitionFacts DEF Inv, Data
  <1>2. /\ gl' \in [Account -> Int]
        /\ gl'["CHECKS_IN"] = gl["CHECKS_IN"] + By(OnAccountOf(Received), c, to)
        /\ gl'["TRADE"] = gl["TRADE"] + By(AmountIf(Received, Dead), c, to)
        /\ gl'["BANK"] = gl["BANK"] + By(InBank, c, to)
        /\ gl'["CHECKS_OUT"] = gl["CHECKS_OUT"] /\ gl'["PAYABLE"] = gl["PAYABLE"]
        /\ customerDebt' = customerDebt + By(AmountIf(Received, Owing), c, to)
        /\ arRow' \in [Check -> {"NONE", "OPEN", "SETTLED", "TRADE"}] /\ arAgain' \in [Check -> Nat]
        /\ Follows(arRow'[c], arAgain'[c], to)
        /\ \A d \in Check : d # c => arRow'[d] = arRow[d] /\ arAgain'[d] = arAgain[d]
    BY <1>1, ReceivedBooks DEF Inv, Data
  <1>3. ASSUME NEW t \in Table  PROVE By(t, c, to) \in Int
    BY <1>1 DEF By, Table, Types, ChecksTypeOK
  <1>4. Types'
    <2>1. customerDebt' \in Int
      BY <1>1, <1>2, <1>3, Tables DEF Types, ChecksTypeOK
    <2>2. /\ status' \in [Check -> Status] /\ version' \in [Check -> Nat]
          /\ \A d \in Check : status'[d] \in DOMAIN Transitions(d) \union {"NONE"}
      BY <1>1 DEF Types, ChecksTypeOK
    <2>. QED  BY <1>1, <1>2, <2>1, <2>2 DEF Types, ChecksTypeOK
  <1>5. Receivables'
    <2>1. ASSUME NEW d \in Received  PROVE Follows(arRow'[d], arAgain'[d], status'[d])
      <3>1. d \in Check /\ status'[c] = to /\ (d # c => status'[d] = status[d])
        BY <1>1, Directions DEF Types, ChecksTypeOK
      <3>2. CASE d = c
        BY <1>2, <3>1, <3>2
      <3>3. CASE d # c
        <4>1. status'[d] = status[d] /\ arRow'[d] = arRow[d] /\ arAgain'[d] = arAgain[d]
          BY <1>2, <3>1, <3>3
        <4>. QED  BY <4>1 DEF Inv, Data, Receivables
      <3>. QED  BY <3>2, <3>3
    <2>. QED  BY <2>1 DEF Receivables
  <1>6. Payables' /\ Unpaid' = Unpaid
    <2>1. \A i \in Invoice : c \notin paidBy[i]
      BY <1>1 DEF Types
    <2>2. UNCHANGED <<payableVars, paymentVars>>
      BY DEF payableVars, paymentVars
    <2>. QED  BY <1>1, <1>4, <2>1, <2>2, PayablesStay DEF Inv, Data
  <1>7. Books'
    <2>1. By(OnAccountOf(Issued), c, to) = 0 /\ By(AmountIf(ByHand, Dead), c, to) = 0
      BY <1>1, ByReceived
    <2>2. Sum(Unpaid, Invoice) \in Int /\ Sum(Unpaid, Invoice)' = Sum(Unpaid, Invoice)
      <3>1. \A i \in Invoice : Unpaid[i] \in Int
        BY <1>1, EffectiveInt DEF PaidInt
      <3>. QED  BY <1>6, <3>1, Directions, SumInt
    <2>3. /\ gl["CHECKS_OUT"] \in Int /\ gl["PAYABLE"] \in Int /\ supplierDebt \in Int
      BY <1>1 DEF Types, ChecksTypeOK, Account
    <2>4. /\ gl'["CHECKS_OUT"] = gl["CHECKS_OUT"] - By(OnAccountOf(Issued), c, to)
          /\ gl'["PAYABLE"] = gl["PAYABLE"] + supplierDebt - supplierDebt'
          /\ supplierDebt' = supplierDebt + By(AmountIf(ByHand, Dead), c, to)
                               + Sum(Unpaid, Invoice)' - Sum(Unpaid, Invoice)
      BY <1>2, <2>1, <2>2, <2>3
    <2>. QED  BY <1>1, <1>2, <1>4, <2>4, BooksMove DEF Inv, Data
  <1>. QED  BY <1>1, <1>4, <1>5, <1>6, <1>7, TransitionEnds

LEMMA IssuedInv ==
  ASSUME Inv, NEW h \in Handler, End(h), NEW c \in Issued, NEW to \in Transitions(c)[status[c]],
         status[c] \in DOMAIN Transitions(c), to \in Status,
         status' = [status EXCEPT ![c] = to], version' = [version EXCEPT ![c] = @ + 1],
         used' \subseteq Key, IssuedEffects(c, status[c], to),
         IF to \in Dead THEN ReinstateSupplierDebt(c)
         ELSE UNCHANGED <<supplierDebt, invoice, apPaid, apState>>,
         UNCHANGED <<order, wasSent, received, transferred, unbooked, paidBy>>
  PROVE  Inv'
  <1>1. /\ Types /\ c \in Check /\ c \notin Received /\ status[c] # "NONE"
        /\ to \in DOMAIN Transitions(c) /\ to # "NONE"
    BY Directions, TransitionFacts DEF Inv, Data
  <1>2. /\ gl' \in [Account -> Int]
        /\ gl'["CHECKS_IN"] = gl["CHECKS_IN"] /\ gl'["TRADE"] = gl["TRADE"]
        /\ gl'["CHECKS_OUT"] = gl["CHECKS_OUT"] - By(OnAccountOf(Issued), c, to)
        /\ gl'["BANK"] = gl["BANK"] + By(InBank, c, to)
        /\ gl'["PAYABLE"] = gl["PAYABLE"] - (IF to \in Dead THEN Amount[c] ELSE 0)
        /\ UNCHANGED <<arRow, arAgain, customerDebt>>
    BY <1>1, IssuedBooks
  <1>3. ASSUME NEW t \in Table  PROVE By(t, c, to) \in Int
    BY <1>1 DEF By, Table, Types, ChecksTypeOK
  <1>4. PICK back \in Nat : back = IF to \in Dead THEN Amount[c] ELSE 0
    BY <1>1, Directions
  <1>5. status[c] \in Alive
    <2>1. status[c] \in {"ISSUED", "PRESENTED", "CLEARED"}
      BY <1>1, TransitionFacts
    <2>. QED  BY <2>1 DEF Alive, Status, Dead
  <1>6. /\ supplierDebt' = supplierDebt + back /\ UNCHANGED invoice
        /\ apPaid' \in [Invoice -> Nat] /\ apState' \in [Invoice -> {"OPEN", "PARTIAL", "SETTLED"}]
    <2>1. CASE to \in Dead
      BY <1>1, <1>4, <2>1, ReinstatedTypes
    <2>2. CASE to \notin Dead
      BY <1>1, <1>4, <2>2 DEF Types, ChecksTypeOK
    <2>. QED  BY <2>1, <2>2
  <1>7. to \notin Dead => UNCHANGED <<apPaid, apState>>
    OBVIOUS
  <1>8. Types'
    <2>1. supplierDebt' \in Int
      BY <1>1, <1>2, <1>3, <1>4, <1>6, Tables DEF Types, ChecksTypeOK
    <2>2. /\ status' \in [Check -> Status] /\ version' \in [Check -> Nat]
          /\ \A d \in Check : status'[d] \in DOMAIN Transitions(d) \union {"NONE"}
      BY <1>1 DEF Types, ChecksTypeOK
    <2>. QED  BY <1>1, <1>2, <1>6, <1>7, <2>1, <2>2 DEF Types, ChecksTypeOK
  <1>9. Receivables'
    <2>1. \A d \in Received : status'[d] = status[d]
      BY <1>1, Directions DEF Types, ChecksTypeOK
    <2>. QED  BY <1>2, <2>1 DEF Inv, Data, Receivables
  <1>10. /\ Payables' /\ Sum(Unpaid, Invoice) \in Int
         /\ Sum(Unpaid, Invoice)' = Sum(Unpaid, Invoice) + (IF c \in ByHand THEN 0 ELSE back)
    <2>1. CASE to \in Dead
      <3>1. /\ Payables'
            /\ \A i \in Invoice : Effective'[i] = Effective[i] - (IF c \in paidBy[i] THEN Amount[c] ELSE 0)
        BY <1>1, <1>5, <1>8, <2>1, Reinstated DEF Inv, Data
      <3>. QED  BY <1>1, <1>4, <1>6, <1>8, <2>1, <3>1, OwedAgain DEF Inv, Data
    <2>2. CASE to \notin Dead
      <3>1. to \in Alive /\ UNCHANGED <<payableVars, paymentVars>>
        BY <1>6, <1>7, <2>2 DEF Alive, payableVars, paymentVars
      <3>2. Payables' /\ Unpaid' = Unpaid
        BY <1>1, <1>5, <1>8, <3>1, PayablesStay DEF Inv, Data
      <3>3. \A i \in Invoice : Unpaid[i] \in Int
        BY <1>1, EffectiveInt DEF PaidInt
      <3>4. Sum(Unpaid, Invoice) \in Int
        BY <3>3, Directions, SumInt
      <3>. QED  BY <1>4, <2>2, <3>2, <3>4
    <2>. QED  BY <2>1, <2>2
  <1>11. Books'
    <2>1. /\ By(OnAccountOf(Received), c, to) = 0
          /\ By(AmountIf(Received, Dead), c, to) = 0
          /\ By(AmountIf(Received, Owing), c, to) = 0
          /\ By(AmountIf(ByHand, Dead), c, to) = IF c \in ByHand THEN back ELSE 0
      BY <1>1, <1>4, ByIssued
    <2>2. /\ \A a \in Account : gl[a] \in Int
          /\ {"CHECKS_IN", "TRADE", "BANK", "PAYABLE", "CHECKS_OUT"} \subseteq Account
          /\ supplierDebt \in Int /\ customerDebt \in Int
      BY <1>1 DEF Types, ChecksTypeOK, Account
    <2>3. /\ gl'["CHECKS_IN"] = gl["CHECKS_IN"] + By(OnAccountOf(Received), c, to)
          /\ gl'["TRADE"] = gl["TRADE"] + By(AmountIf(Received, Dead), c, to)
          /\ customerDebt' = customerDebt + By(AmountIf(Received, Owing), c, to)
          /\ gl'["PAYABLE"] = gl["PAYABLE"] + supplierDebt - supplierDebt'
      BY <1>2, <1>4, <1>6, <2>1, <2>2
    <2>4. supplierDebt' = supplierDebt + By(AmountIf(ByHand, Dead), c, to)
                            + Sum(Unpaid, Invoice)' - Sum(Unpaid, Invoice)
      BY <1>6, <1>10, <2>1, <2>2
    <2>. QED  BY <1>1, <1>2, <1>8, <2>3, <2>4, BooksMove DEF Inv, Data
  <1>. QED  BY <1>1, <1>6, <1>8, <1>9, <1>10, <1>11, TransitionEnds

LEMMA TransitionInv ==
  ASSUME Inv, NEW h \in Handler, TransitionOf(h)
  PROVE  Inv'
  <1>1. PICK c \in Check : \E to \in Transitions(c)[status[c]] :
           /\ status[c] \in DOMAIN Transitions(c) /\ to \in Status
           /\ status' = [status EXCEPT ![c] = to]
           /\ version' = [version EXCEPT ![c] = @ + 1] /\ used' \subseteq Key
           /\ Effects(c, status[c], to)
           /\ IF c \in Issued /\ to \in Dead
              THEN ReinstateSupplierDebt(c)
              ELSE UNCHANGED <<supplierDebt, payableVars>>
           /\ UNCHANGED <<order, wasSent, received, transferred, unbooked, paidBy>> /\ End(h)
    BY Claims
  <1>2. PICK to \in Transitions(c)[status[c]] :
           /\ status[c] \in DOMAIN Transitions(c) /\ to \in Status
           /\ status' = [status EXCEPT ![c] = to]
           /\ version' = [version EXCEPT ![c] = @ + 1] /\ used' \subseteq Key
           /\ Effects(c, status[c], to)
           /\ IF c \in Issued /\ to \in Dead
              THEN ReinstateSupplierDebt(c)
              ELSE UNCHANGED <<supplierDebt, payableVars>>
           /\ UNCHANGED <<order, wasSent, received, transferred, unbooked, paidBy>> /\ End(h)
    BY <1>1
  <1>3. CASE c \in Received
    <2>1. ReceivedEffects(c, status[c], to) /\ UNCHANGED <<supplierDebt, invoice, apPaid, apState>>
      BY <1>2, <1>3, Directions DEF Effects, payableVars
    <2>. QED  BY <1>2, <1>3, <2>1, ReceivedInv
  <1>4. CASE c \in Issued
    <2>1. IssuedEffects(c, status[c], to)
          /\ (to \notin Dead => UNCHANGED <<supplierDebt, invoice, apPaid, apState>>)
      BY <1>2, <1>4, Directions DEF Effects, payableVars
    <2>. QED  BY <1>2, <1>4, <2>1, IssuedInv
  <1>. QED  BY <1>3, <1>4, Directions

-----------------------------------------------------------------------------
(* The theorems *)

LEMMA InitInv == Init => Inv
  <1>. SUFFICES ASSUME Init  PROVE Inv
    OBVIOUS
  <1>1. "NONE" \in Status /\ "NONE" \notin Dead /\ "NONE" \notin Owing /\ "NONE" \in Alive
    BY DEF Status, Dead, Owing, Alive
  <1>2. Types
    BY <1>1 DEF Init, ChecksInit, Types, ChecksTypeOK
  <1>3. Sent /\ Receivables /\ Payments
    BY Directions DEF Init, ChecksInit, Sent, ReceivedWasSent, Receivables, Follows, Payments
  <1>4. PICK st \in [Check -> Status] : st = status /\ \A c \in Check : st[c] = "NONE"
    BY <1>2 DEF Init, ChecksInit, Types, ChecksTypeOK
  <1>5. ASSUME NEW t \in Table, \A c \in Check : t[c]["NONE"] = 0  PROVE Value(t, st) = 0
    <2>. DEFINE f == [c \in Check |-> t[c][st[c]]]
    <2>1. \A c \in Check : f[c] = 0
      BY <1>4, <1>5
    <2>. HIDE DEF f
    <2>2. Sum(f, Check) = 0
      BY <2>1, Directions, SumZero
    <2>. QED  BY <2>2 DEF Value, f
  <1>6. /\ Value(InBank, st) = 0
        /\ \A S : Value(OnAccountOf(S), st) = 0
        /\ \A S, F : "NONE" \notin F => Value(AmountIf(S, F), st) = 0
    <2>1. Value(InBank, st) = 0
      BY <1>1, <1>5, Tables, InBankIs
    <2>2. ASSUME NEW S  PROVE Value(OnAccountOf(S), st) = 0
      BY <1>1, <1>5, Tables, OnAccountIs
    <2>3. ASSUME NEW S, NEW F, "NONE" \notin F  PROVE Value(AmountIf(S, F), st) = 0
      BY <1>1, <1>5, <2>3, Tables, AmountIfIs
    <2>. QED  BY <2>1, <2>2, <2>3
  <1>7. ASSUME NEW i \in Invoice  PROVE Value(AmountIf(paidBy[i], Alive), st) = 0
    <2>1. PICK t \in Table : t = AmountIf(paidBy[i], Alive)
      BY Tables
    <2>2. \A c \in Check : t[c]["NONE"] = 0
      BY <1>1, <2>1, AmountIfIs DEF Init
    <2>. QED  BY <1>5, <2>1, <2>2
  <1>8. Payables
    <2>1. \A i \in Invoice : Effective[i] = 0
      BY <1>4, <1>7 DEF Init, Effective
    <2>. QED  BY <2>1, PurchasingAssumption DEF Init, Payables, ApStateOf
  <1>9. Books
    <2>1. Sum(transferred, Invoice) = 0 /\ Sum(unbooked, Invoice) = 0 /\ Sum(Unpaid, Invoice) = 0
      <3>1. \A i \in Invoice : transferred[i] = 0 /\ unbooked[i] = 0 /\ Unpaid[i] = 0
        BY DEF Init, Unpaid
      <3>. QED  BY <3>1, Directions, SumZero
    <2>2. /\ Value(OnAccountOf(Received), status) = 0 /\ Value(OnAccountOf(Issued), status) = 0
          /\ Value(AmountIf(Received, Dead), status) = 0 /\ Value(InBank, status) = 0
          /\ Value(AmountIf(Received, Owing), status) = 0
          /\ Value(AmountIf(ByHand, Dead), status) = 0
      BY <1>1, <1>4, <1>6
    <2>3. /\ \A a \in {"CHECKS_IN", "CHECKS_OUT", "TRADE", "BANK", "PAYABLE"} : gl[a] = 0
          /\ customerDebt = 0 /\ supplierDebt = 0
      BY DEF Init, ChecksInit, Account
    <2>. QED  BY <2>1, <2>2, <2>3 DEF Books
  <1>10. Handlers
    BY DEF Init, ChecksInit, Handlers, HandlerTypeOK, Knows
  <1>. QED  BY <1>2, <1>3, <1>8, <1>9, <1>10 DEF Inv, Data

LEMMA NextInv == Inv /\ [Next]_vars => Inv'
  <1>. SUFFICES ASSUME Inv, [Next]_vars  PROVE Inv'
    OBVIOUS
  <1>1. CASE \E c \in Check :
               (Create(c) \/ SellByCheck(c)) /\ UNCHANGED <<orderVars, payableVars, paymentVars>>
    BY <1>1, CreateInv
  <1>2. CASE \E i \in Invoice : CreateInvoice(i)
    BY <1>2, CreateInvoiceInv
  <1>3. ASSUME NEW h \in Handler,
               \/ \E c \in Check, to \in Status \ {"NONE"}, k \in Key :
                    ReadCheck(h, c, to, k) /\ UNCHANGED <<orderVars, payableVars, paymentVars>>
               \/ TransitionOf(h)
               \/ Fail(h) /\ UNCHANGED <<orderVars, payableVars, paymentVars>>
        PROVE  Inv'
    BY <1>3, ReadCheckInv, TransitionInv, FailInv
  <1>4. ASSUME NEW h \in Handler,
               \/ \E o \in Order : ReadOrder(h, o)
               \/ \E g \in Receipt : ReadReceipt(h, g)
               \/ SendPO(h) \/ CancelPO(h) \/ CreateGRN(h)
        PROVE  Inv'
    BY <1>4, ReadOrderInv, ReadReceiptInv, SendPOInv, CancelPOInv, CreateGRNInv
  <1>5. ASSUME NEW h \in Handler, NEW i \in Invoice, NEW n \in Transfer, ReadInvoice(h, i, None, n)
        PROVE  Inv'
    <2>1. n \in Nat /\ n > 0
      BY PurchasingAssumption
    <2>. QED  BY <1>5, <2>1, ReadInvoiceInv
  <1>6. ASSUME NEW h \in Handler, NEW i \in Invoice, NEW c \in Check, Source[c] = "purchase_payment",
               ReadInvoice(h, i, c, Amount[c])
        PROVE  Inv'
    <2>1. PICK n \in Nat : n = Amount[c] /\ n > 0
      BY Directions
    <2>. QED  BY <1>6, <2>1, ReadInvoiceInv
  <1>7. ASSUME NEW h \in Handler, JudgePayment(h) \/ Pay(h)  PROVE Inv'
    BY <1>7, JudgePaymentInv, PayTransferInv, PayCheckInv
  <1>8. CASE UNCHANGED vars
    <2>1. UNCHANGED <<checkVars, gl, receivableVars, supplierDebt, handlerVars,
                      orderVars, payableVars, paymentVars>>
      BY <1>8 DEF vars
    <2>. QED  BY <2>1, RowsStay, HandlersRest DEF Inv
  <1>. QED  BY <1>1, <1>2, <1>3, <1>4, <1>5, <1>6, <1>7, <1>8 DEF Next

LEMMA Invariant == Spec => []Inv
  BY InitInv, NextInv, PTL DEF Spec

\* Every step keeps a cheque, a receipt, an invoice and a request what they
\* are: statuses, amounts and the writes handlers have in hand stay in their
\* domains, payables and transfers are never negative.
THEOREM PurchasingTypeCorrect == Spec => []TypeOK
  <1>1. Inv => TypeOK
    BY TypesAre DEF Inv, Data, Handlers
  <1>. QED  BY <1>1, Invariant, PTL

\* Goods are received against an order only if it was sent, although what an
\* order's state says is written over by requests that overlap (createGRN,
\* sendPO, cancelPO).
THEOREM ReceivedAfterSent == Spec => []ReceivedWasSent
  <1>1. Inv => ReceivedWasSent
    BY DEF Inv, Data, Sent
  <1>. QED  BY <1>1, Invariant, PTL

\* What is on account is what came in without being booked out, less what was
\* booked out without having come in.
LEMMA OnAccountIsValue ==
  ASSUME NEW S \in SUBSET Check, status \in [Check -> Status]
  PROVE  OnAccount(S) = Value(OnAccountOf(S), status)
  <1>. DEFINE In == {c \in S : Source[c] # "manual" /\ InHand(c)}
              Out == {c \in S : Source[c] = "manual" /\ status[c] # "NONE" /\ ~InHand(c)}
              Booked == {c \in S : Source[c] # "manual"}
              Manual == {c \in S : Source[c] = "manual"}
              Hand == {"RECEIVED", "DEPOSITED", "ISSUED", "PRESENTED"}
  <1>1. PICK st \in [Check -> Status] : st = status
    OBVIOUS
  <1>2. /\ In = {c \in Booked : st[c] \in Hand} /\ Booked \in SUBSET Check
        /\ Out = {c \in Manual : st[c] \in OutOfHand} /\ Manual \in SUBSET Check
    BY <1>1 DEF InHand, OutOfHand
  <1>3. /\ \A s \in Status : s \in Hand <=> s \notin OutOfHand /\ s # "NONE"
        /\ "NONE" \notin Hand /\ "NONE" \notin OutOfHand
    BY DEF OutOfHand, Status
  <1>4. \A c \in Check : /\ c \in Booked <=> c \in S /\ Source[c] # "manual"
                         /\ c \in Manual <=> c \in S /\ Source[c] = "manual"
    OBVIOUS
  <1>5. OnAccount(S) = Total(In) - Total(Out)
    BY DEF OnAccount
  <1>. HIDE DEF In, Out, Booked, Manual, Hand
  <1>6. Total(In) = Value(AmountIf(Booked, Hand), st) /\ Total(Out) = Value(AmountIf(Manual, OutOfHand), st)
    BY <1>2, TotalIsValue
  <1>. DEFINE f == [c \in Check |-> AmountIf(Booked, Hand)[c][st[c]]]
              g == [c \in Check |-> AmountIf(Manual, OutOfHand)[c][st[c]]]
              k == [c \in Check |-> OnAccountOf(S)[c][st[c]]]
  <1>7. \A c \in Check : f[c] \in Int /\ g[c] \in Int /\ k[c] \in Int /\ f[c] = k[c] + g[c]
    <2>1. ASSUME NEW c \in Check
          PROVE  f[c] \in Int /\ g[c] \in Int /\ k[c] \in Int /\ f[c] = k[c] + g[c]
      <3>1. PICK s \in Status : s = st[c]
        OBVIOUS
      <3>2. /\ f[c] = IF c \in Booked /\ s \in Hand THEN Amount[c] ELSE 0
            /\ g[c] = IF c \in Manual /\ s \in OutOfHand THEN Amount[c] ELSE 0
        BY <3>1, AmountIfIs
      <3>3. k[c] = IF c \notin S \/ s = "NONE" THEN 0
                   ELSE IF Source[c] = "manual" THEN (IF s \in OutOfHand THEN -Amount[c] ELSE 0)
                   ELSE (IF s \in OutOfHand THEN 0 ELSE Amount[c])
        BY <3>1, OnAccountIs
      <3>4. Amount[c] \in Int
        BY Directions
      <3>. HIDE DEF f, g, k
      <3>. QED  BY <1>3, <1>4, <3>2, <3>3, <3>4
    <2>. QED  BY <2>1
  <1>. HIDE DEF f, g, k
  <1>8. /\ Sum(f, Check) = Sum(k, Check) + Sum(g, Check)
        /\ Sum(k, Check) \in Int /\ Sum(g, Check) \in Int
    BY <1>7, Directions, SumPlus, SumInt
  <1>9. /\ Sum(f, Check) = Value(AmountIf(Booked, Hand), st)
        /\ Sum(g, Check) = Value(AmountIf(Manual, OutOfHand), st)
        /\ Sum(k, Check) = Value(OnAccountOf(S), st)
    BY DEF Value, f, g, k
  <1>. QED  BY <1>1, <1>5, <1>6, <1>8, <1>9

\* What was cleared for customers less what was cleared for suppliers.
LEMMA InBankIsValue ==
  ASSUME status \in [Check -> Status]
  PROVE  Total({c \in Received : status[c] = "CLEARED"}) - Total({c \in Issued : status[c] = "CLEARED"})
           = Value(InBank, status)
  <1>. DEFINE In == {c \in Received : status[c] = "CLEARED"}
              Out == {c \in Issued : status[c] = "CLEARED"}
  <1>1. PICK st \in [Check -> Status] : st = status
    OBVIOUS
  <1>2. PICK F : F = {"CLEARED"}
    OBVIOUS
  <1>3. In = {c \in Received : st[c] \in F} /\ Out = {c \in Issued : st[c] \in F}
    BY <1>1, <1>2
  <1>. HIDE DEF In, Out
  <1>4. Total(In) = Value(AmountIf(Received, F), st) /\ Total(Out) = Value(AmountIf(Issued, F), st)
    BY <1>3, Directions, TotalIsValue
  <1>. DEFINE f == [c \in Check |-> AmountIf(Received, F)[c][st[c]]]
              g == [c \in Check |-> AmountIf(Issued, F)[c][st[c]]]
              k == [c \in Check |-> InBank[c][st[c]]]
  <1>5. ASSUME NEW c \in Check
        PROVE  f[c] \in Int /\ g[c] \in Int /\ k[c] \in Int /\ f[c] = k[c] + g[c]
    <2>1. PICK s \in Status : s = st[c]
      OBVIOUS
    <2>2. /\ f[c] = IF c \in Received /\ s = "CLEARED" THEN Amount[c] ELSE 0
          /\ g[c] = IF c \in Issued /\ s = "CLEARED" THEN Amount[c] ELSE 0
      BY <1>2, <2>1, AmountIfIs
    <2>3. k[c] = IF s # "CLEARED" THEN 0 ELSE IF c \in Received THEN Amount[c] ELSE -Amount[c]
      BY <2>1, InBankIs
    <2>4. Amount[c] \in Int /\ (c \in Issued <=> c \notin Received)
      BY Directions
    <2>. HIDE DEF f, g, k
    <2>. QED  BY <2>2, <2>3, <2>4
  <1>. HIDE DEF f, g, k
  <1>6. /\ Sum(f, Check) = Sum(k, Check) + Sum(g, Check)
        /\ Sum(k, Check) \in Int /\ Sum(g, Check) \in Int
    BY <1>5, Directions, SumPlus, SumInt
  <1>7. /\ Sum(f, Check) = Value(AmountIf(Received, F), st)
        /\ Sum(g, Check) = Value(AmountIf(Issued, F), st)
        /\ Sum(k, Check) = Value(InBank, st)
    BY DEF Value, f, g, k
  <1>8. Total(In) - Total(Out) = Value(InBank, st)
    BY <1>4, <1>6, <1>7
  <1>. QED  BY <1>1, <1>8 DEF In, Out

LEMMA FunctionSum == \A f : SumFunction(f) = Sum(f, DOMAIN f)
  BY DEF SumFunction, Sum

\* The general ledger agrees with the cheques and with the payments that found
\* an account, for every number of cheques and of requests about them that
\* overlap (transition, applyEffectsInTx, payInvoice, debitForPurchaseInTx).
THEOREM BooksAgree == Spec => []BooksMatchChecks
  <1>1. ASSUME Inv  PROVE BooksMatchChecks
    <2>1. Books /\ Types /\ status \in [Check -> Status]
      BY <1>1 DEF Inv, Data, Types, ChecksTypeOK
    <2>2. /\ OnAccount(Received) = Value(OnAccountOf(Received), status)
          /\ OnAccount(Issued) = Value(OnAccountOf(Issued), status)
      BY <2>1, Directions, OnAccountIsValue
    <2>3. Total({c \in Received : status[c] \in Dead}) = Value(AmountIf(Received, Dead), status)
      <3>1. PICK st \in [Check -> Status] : st = status
        BY <2>1
      <3>2. PICK T : T = {c \in Received : st[c] \in Dead}
        OBVIOUS
      <3>3. Total(T) = Value(AmountIf(Received, Dead), st)
        BY <3>2, Directions, TotalIsValue
      <3>. QED  BY <3>1, <3>2, <3>3
    <2>4. /\ SumFunction(transferred) = Sum(transferred, Invoice)
          /\ SumFunction(unbooked) = Sum(unbooked, Invoice)
      BY <2>1, FunctionSum DEF Types
    <2>. QED  BY <2>1, <2>2, <2>3, <2>4, InBankIsValue DEF BooksMatchChecks, Books
  <1>. QED  BY <1>1, Invariant, PTL

\* What is owed for a received cheque, by its receivables.
LEMMA OwedIs ==
  ASSUME Inv, NEW c \in Received
  PROVE  /\ (IF arRow[c] \in {"OPEN", "TRADE"} THEN Amount[c] ELSE 0) + arAgain[c] * Amount[c]
              = IF status[c] \in Owing THEN Amount[c] ELSE 0
         /\ arAgain[c] \in {0, 1} /\ Amount[c] \in Int
  <1>1. /\ Follows(arRow[c], arAgain[c], status[c]) /\ status[c] \in Status
        /\ Amount[c] \in Int /\ status[c] \in DOMAIN Transitions(c) \union {"NONE"}
    BY Directions DEF Inv, Data, Receivables, Types, ChecksTypeOK
  <1>2. status[c] \in {"NONE", "RECEIVED", "DEPOSITED", "CLEARED", "BOUNCED", "RETURNED"}
    BY <1>1 DEF Transitions
  <1>3. 0 * Amount[c] = 0 /\ 1 * Amount[c] = Amount[c]
    BY <1>1
  <1>4. CASE status[c] = "NONE"
    BY <1>1, <1>3, <1>4 DEF Follows, Owing
  <1>5. CASE status[c] \in {"RECEIVED", "DEPOSITED"}
    <2>1. arRow[c] = "OPEN" /\ arAgain[c] = 0
      BY <1>1, <1>5 DEF Follows
    <2>. QED  BY <1>1, <1>3, <1>5, <2>1 DEF Owing, Status
  <1>6. CASE status[c] = "CLEARED"
    <2>1. arRow[c] = "SETTLED" /\ arAgain[c] = 0
      BY <1>1, <1>6 DEF Follows
    <2>. QED  BY <1>1, <1>3, <1>6, <2>1 DEF Owing
  <1>7. CASE status[c] \in {"BOUNCED", "RETURNED"}
    <2>1. \/ arRow[c] = "TRADE" /\ arAgain[c] = 0
          \/ arRow[c] = "SETTLED" /\ arAgain[c] = 1
      BY <1>1, <1>7 DEF Follows
    <2>. QED  BY <1>1, <1>3, <1>7, <2>1 DEF Owing, Status
  <1>. QED  BY <1>2, <1>4, <1>5, <1>6, <1>7

\* A customer owes every cheque that exists and is not cleared, those that came
\* back after clearing too, once each; and the open receivables say so (ensureArCheckRowInTx,
\* settleArCheckInTx, convertArCheckToTradeInTx, reinstateArTradeInTx).
THEOREM CustomersOweTruly == Spec => []CustomerOwes
  <1>1. ASSUME Inv  PROVE CustomerOwes
    <2>. DEFINE Open == {c \in Received : arRow[c] \in {"OPEN", "TRADE"}}
                Again == [c \in Received |-> arAgain[c] * Amount[c]]
                f == [c \in Received |-> IF c \in Open THEN Amount[c] ELSE 0]
                k == [c \in Received |-> IF status[c] \in Owing THEN Amount[c] ELSE 0]
    <2>1. PICK st \in [Check -> Status] : st = status
      BY <1>1 DEF Inv, Data, Types, ChecksTypeOK
    <2>2. customerDebt = Value(AmountIf(Received, Owing), st) /\ IsFiniteSet(Received)
      BY <1>1, <2>1, Directions, FiniteParts DEF Inv, Data, Books
    <2>3. PICK T \in SUBSET Received : T = {c \in Received : st[c] \in Owing}
      OBVIOUS
    <2>4. T = {c \in Received : status[c] \notin {"NONE", "CLEARED"}}
      BY <2>1, <2>3, Directions DEF Owing
    <2>5. Total(T) = Value(AmountIf(Received, Owing), st)
      BY <2>3, Directions, TotalIsValue
    <2>6. ASSUME NEW c \in Received
          PROVE  /\ f[c] = IF c \in Open THEN Amount[c] ELSE 0
                 /\ k[c] = IF c \in T THEN Amount[c] ELSE 0
                 /\ f[c] \in Int /\ Again[c] \in Int /\ k[c] = f[c] + Again[c] /\ Amount[c] \in Int
      <3>1. /\ (IF arRow[c] \in {"OPEN", "TRADE"} THEN Amount[c] ELSE 0) + arAgain[c] * Amount[c]
                 = IF status[c] \in Owing THEN Amount[c] ELSE 0
            /\ arAgain[c] \in {0, 1} /\ Amount[c] \in Int
        BY <1>1, OwedIs
      <3>2. /\ f[c] = IF arRow[c] \in {"OPEN", "TRADE"} THEN Amount[c] ELSE 0
            /\ f[c] = IF c \in Open THEN Amount[c] ELSE 0
            /\ Again[c] = arAgain[c] * Amount[c]
            /\ k[c] = IF status[c] \in Owing THEN Amount[c] ELSE 0
        OBVIOUS
      <3>3. status[c] \in Owing <=> c \in T
        BY <2>1, <2>3
      <3>. HIDE DEF f, k, Again, Open
      <3>4. arAgain[c] * Amount[c] \in Int
        BY <3>1
      <3>. QED  BY <3>1, <3>2, <3>3, <3>4
    <2>7. Open \in SUBSET Received /\ DOMAIN Again = Received
      OBVIOUS
    <2>. HIDE DEF f, k, Again, Open
    <2>8. Sum(k, Received) = Sum(f, Received) + Sum(Again, Received)
      BY <2>2, <2>6, SumPlus
    <2>9. Sum(f, Received) = Sum(Amount, Open) /\ Sum(k, Received) = Sum(Amount, T)
      BY <2>2, <2>3, <2>6, <2>7, SumFilter
    <2>10. SumFunction(Again) = Sum(Again, Received)
      BY <2>7, FunctionSum
    <2>11. /\ customerDebt = Total(T)
           /\ customerDebt = Total(Open) + SumFunction(Again)
      BY <2>2, <2>5, <2>8, <2>9, <2>10 DEF Total, Sum
    <2>. QED  BY <2>4, <2>11 DEF CustomerOwes, Open, Again
  <1>. QED  BY <1>1, Invariant, PTL

\* The supplier's account counts the transfers and the cheques that live,
\* however payments and transitions overlap; the general account of payables
\* differs from it by the payments for which no account was found, and the
\* payable of an invoice counts the same as long as it has none of those
\* (payInvoice, debitForPurchaseInTx, reinstateSupplierDebtInTx).
THEOREM PayablesAgree == Spec => []PayablesMatch
  <1>1. ASSUME Inv  PROVE PayablesMatch
    <2>. DEFINE Posted == {j \in Invoice : invoice[j] # "NONE"}
                f == [i \in Posted |-> GrandTotal[i] - transferred[i] - Total(Live(paidBy[i]))]
    <2>1. PICK st \in [Check -> Status] : st = status
      BY <1>1 DEF Inv, Data, Types, ChecksTypeOK
    <2>2. ASSUME NEW i \in Invoice
          PROVE  Total(Live(paidBy[i])) = Value(AmountIf(paidBy[i], Alive), st)
      <3>1. PICK S \in SUBSET Check : S = paidBy[i]
        BY <1>1, Directions DEF Inv, Data, Types
      <3>2. PICK T : T = {c \in S : st[c] \in Alive}
        OBVIOUS
      <3>3. Live(S) = T
        BY <2>1, <3>2 DEF Live, Alive
      <3>4. Total(T) = Value(AmountIf(S, Alive), st)
        BY <3>2, TotalIsValue
      <3>. QED  BY <3>1, <3>3, <3>4
    <2>3. PICK U : U = Unpaid
      OBVIOUS
    <2>4. /\ \A i \in Posted : f[i] \in Int
          /\ \A i \in Invoice : U[i] = IF i \in Posted THEN f[i] ELSE 0
          /\ Posted \in SUBSET Invoice /\ DOMAIN f = Posted
      <3>1. ASSUME NEW i \in Invoice
            PROVE  GrandTotal[i] - Effective[i] = GrandTotal[i] - transferred[i] - Total(Live(paidBy[i]))
                   /\ GrandTotal[i] - Effective[i] \in Int
        <4>1. Effective[i] = transferred[i] + Total(Live(paidBy[i])) /\ transferred[i] \in Int
          BY <1>1, <2>1, <2>2 DEF Effective, Inv, Data, Types
        <4>2. GrandTotal[i] \in Int /\ Value(AmountIf(paidBy[i], Alive), st) \in Int
          BY PurchasingAssumption, AmountsNat
        <4>3. Total(Live(paidBy[i])) \in Int
          BY <2>2, <4>2
        <4>. QED  BY <4>1, <4>2, <4>3
      <3>. QED  BY <2>3, <3>1 DEF Unpaid
    <2>. HIDE DEF Posted, f
    <2>5. Sum(U, Invoice) = Sum(f, Posted)
      BY <2>4, Directions, SumFilter
    <2>6. SumFunction(f) = Sum(f, Posted)
      BY <2>4, FunctionSum
    <2>7. PICK T : T = {c \in ByHand : st[c] \in Dead}
      OBVIOUS
    <2>8. Total(T) = Value(AmountIf(ByHand, Dead), st)
      BY <2>7, Directions, TotalIsValue
    <2>9. T = {c \in Issued : Source[c] = "manual" /\ status[c] \in Dead}
      BY <2>1, <2>7 DEF ByHand
    <2>10. /\ supplierDebt = SumFunction(f) + Total(T)
           /\ gl["PAYABLE"] = -supplierDebt - SumFunction(unbooked)
      <3>1. SumFunction(unbooked) = Sum(unbooked, Invoice)
        BY <1>1, FunctionSum DEF Inv, Data, Types
      <3>. QED  BY <1>1, <2>1, <2>3, <2>5, <2>6, <2>8, <3>1 DEF Inv, Data, Books
    <2>11. \A i \in Invoice : /\ unbooked[i] = 0 => apPaid[i] = transferred[i] + Total(Live(paidBy[i]))
                              /\ apState[i] = ApStateOf(i, apPaid[i])
      BY <1>1, <2>1, <2>2 DEF Inv, Data, Payables, Effective
    <2>. QED  BY <2>9, <2>10, <2>11 DEF PayablesMatch, Posted, f
  <1>. QED  BY <1>1, Invariant, PTL

-----------------------------------------------------------------------------
(* What a step does to a cheque *)

\* A cheque moves along the table of its direction, one row at a time, and is
\* never deleted: requests that overlap do not take it where no one of them
\* could (transition's compare-and-swap on lifecycleVersion).
KeepsTable(c) ==
    status'[c] # status[c] =>
        \/ status[c] = "NONE" /\ status'[c] = Direction[c]
        \/ status[c] # "NONE" /\ status'[c] \in Transitions(c)[status[c]]

LifeCycle == [][\A c \in Check : KeepsTable(c)]_vars

LEMMA StatusMoves ==
  ASSUME Inv, [Next]_vars
  PROVE  \A c \in Check : KeepsTable(c)
  <1>1. Types /\ \A c \in Check : status[c] \in Status
    BY DEF Inv, Data, Types, ChecksTypeOK
  <1>2. ASSUME NEW d \in Check, Create(d) \/ SellByCheck(d)
        PROVE  \A c \in Check : KeepsTable(c)
    BY <1>1, <1>2, Directions DEF Create, SellByCheck, CreateReceivedInTx, KeepsTable, Types, ChecksTypeOK
  <1>3. ASSUME NEW h \in Handler, TransitionOf(h)
        PROVE  \A c \in Check : KeepsTable(c)
    <2>1. PICK d \in Check : \E to \in Transitions(d)[status[d]] :
             status[d] \in DOMAIN Transitions(d) /\ status' = [status EXCEPT ![d] = to]
      BY <1>3, Claims
    <2>. QED  BY <1>1, <2>1, TransitionFacts DEF KeepsTable, Types, ChecksTypeOK
  <1>4. ASSUME NEW h \in Handler, Pay(h)
        PROVE  \A c \in Check : KeepsTable(c)
    <2>1. PICK r \in PayRequest : r = req[h] /\ KnowsInvoice(r)
      BY <1>4 DEF Pay, Inv, Handlers, HandlerTypeOK, Knows
    <2>2. CASE r.check = None
      BY <1>4, <2>1, <2>2 DEF Pay, PayMeans, PayFromAccount, checkVars, KeepsTable
    <2>3. CASE r.check # None
      <3>1. PICK d \in Check : d = r.check /\ Source[d] = "purchase_payment"
        BY <2>1, <2>3 DEF PayRequest, KnowsInvoice
      <3>2. status[d] = "NONE" /\ status' = [status EXCEPT ![d] = "ISSUED"] /\ Direction[d] = "ISSUED"
        BY <1>4, <2>1, <2>3, <3>1, Directions DEF Pay, PayMeans, PayByCheck, CreateIssuedInTx
      <3>. QED  BY <1>1, <3>2 DEF KeepsTable, Types, ChecksTypeOK
    <2>. QED  BY <2>2, <2>3
  <1>5. ASSUME UNCHANGED checkVars  PROVE \A c \in Check : KeepsTable(c)
    BY <1>5 DEF checkVars, KeepsTable
  <1>6. CASE \E c \in Check : Create(c) \/ SellByCheck(c)
    BY <1>2, <1>6
  <1>7. CASE \E i \in Invoice : CreateInvoice(i)
    BY <1>5, <1>7 DEF CreateInvoice
  <1>8. ASSUME NEW h \in Handler,
               \/ \E c \in Check, to \in Status \ {"NONE"}, k \in Key : ReadCheck(h, c, to, k)
               \/ Fail(h)
               \/ \E o \in Order : ReadOrder(h, o)
               \/ \E g \in Receipt : ReadReceipt(h, g)
               \/ SendPO(h) \/ CancelPO(h) \/ CreateGRN(h)
        PROVE  UNCHANGED checkVars
    BY <1>8 DEF ReadCheck, Fail, ReadOrder, ReadReceipt, SendPO, CancelPO, CreateGRN
  <1>9. ASSUME NEW h \in Handler,
               \/ \E i \in Invoice :
                    \/ \E n \in Transfer : ReadInvoice(h, i, None, n)
                    \/ \E c \in Check : ReadInvoice(h, i, c, Amount[c])
               \/ JudgePayment(h)
        PROVE  UNCHANGED checkVars
    BY <1>9 DEF ReadInvoice, JudgePayment
  <1>10. CASE UNCHANGED vars
    BY <1>5, <1>10 DEF vars
  <1>. QED  BY <1>3, <1>4, <1>5, <1>6, <1>7, <1>8, <1>9, <1>10 DEF Next

\* The life cycle of a cheque is the table's, whatever requests overlap.
THEOREM ChecksKeepTheTable == Spec => LifeCycle
  <1>1. Inv /\ [Next]_vars => [\A c \in Check : KeepsTable(c)]_vars
    BY StatusMoves
  <1>. QED  BY <1>1, Invariant, PTL DEF Spec, LifeCycle

\* A received cheque has one receivable, settled when it is cleared, turned
\* into a trade receivable when it comes back before, and joined by one more,
\* never two, when it comes back after (settleArCheckInTx,
\* convertArCheckToTradeInTx, reinstateArTradeInTx).
THEOREM ReceivablesFollowChecks == Spec => []Receivables
  <1>1. Inv => Receivables
    BY DEF Inv, Data
  <1>. QED  BY <1>1, Invariant, PTL

\* A cheque issued for invoices is the payment of exactly one, which is why a
\* cheque that comes back lowers one payable (payInvoice,
\* reinstateSupplierDebtInTx).
THEOREM ChecksPayOneInvoice == Spec => []Payments
  <1>1. Inv => Payments
    BY DEF Inv, Data
  <1>. QED  BY <1>1, Invariant, PTL
=============================================================================
