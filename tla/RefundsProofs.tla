--------------------------- MODULE RefundsProofs ---------------------------
(***************************************************************************)
(* Proofs, for every set of returns, counter refunds and handlers, that the*)
(* money of a refund leaves once and that the state of a return tells      *)
(* whether it has.                                                         *)
(*                                                                         *)
(* A return is written by handlers that judged it earlier, so its state    *)
(* alone carries nothing.  What does is that a refund is created once:     *)
(* the handler that created it is the only one that will link it, and      *)
(* until it has done so the refund cannot be finalized (Linking).          *)
(***************************************************************************)
EXTENDS Refunds, Sums, TLAPS

Linking ==
    /\ \A h \in Handler : pc[h] = "link" =>
         /\ refund[doc[h]] \in {"PENDING", "CANCELLED"}
         /\ status[doc[h]] \notin {"SETTLED", "REFUNDED"}
    /\ \A h, g \in Handler : pc[h] = "link" /\ pc[g] = "link" /\ doc[h] = doc[g] => h = g

\* The goods of a refund are back, and stay back; a due settlement has seen
\* them.
Goods ==
    /\ \A f \in Refund : back[f] \in {0, Qty[f]}
    /\ \A f \in Refund : refund[f] # "NONE" /\ f \in Counter \union Sellable => back[f] = Qty[f]
    /\ \A r \in Sellable : status[r] = "RECEIVED" => back[r] = Qty[r]
    /\ \A h \in Handler : pc[h] = "settle" /\ doc[h] \in Sellable => back[doc[h]] = Qty[doc[h]]

Inv == TypeOK /\ PaidOnce /\ StatusTellsMoney /\ Linking /\ Goods

-----------------------------------------------------------------------------
\* No row of goods carries a cost, so the cost that comes back is 0.
LEMMA NoCost == ASSUME NEW f \in Refund  PROVE CostReturned(f) = 0
  <1> DEFINE cost == [g \in CostedRows(f) |-> IF Qty[f] < back[g] THEN Qty[f] ELSE back[g]]
  <1>1. CostedRows(f) = {} /\ DOMAIN cost = CostedRows(f)
    BY DEF CostedRows, UnitCostOf
  <1>2. CostReturned(f) = Sum(cost, {})
    BY <1>1 DEF CostReturned, Sum, SumFunction
  <1>. QED  BY <1>2, SumEmpty

LEMMA Constants ==
  /\ \A f \in Refund : Qty[f] \in Nat /\ Qty[f] # 0
  /\ \A r \in Return : r \in Refund /\ r \notin Counter
  /\ \A k \in Counter : k \in Refund
  /\ Sellable \subseteq Return /\ None \notin Refund
  BY ConstantsAssumption DEF Refund

-----------------------------------------------------------------------------
(* The steps of a handler *)

LEMMA InitHolds == Init => Inv
  <1>. SUFFICES ASSUME Init PROVE Inv
    OBVIOUS
  <1>1. TypeOK
    BY ConstantsAssumption DEF Init, TypeOK, ReturnDue, RefundDue
  <1>2. PaidOnce /\ StatusTellsMoney /\ Linking
    BY Constants DEF Init, PaidOnce, StatusTellsMoney, Linking
  <1>3. Goods
    BY Constants DEF Init, Goods
  <1>. QED  BY <1>1, <1>2, <1>3 DEF Inv

\* Reading a row and taking up a write that is no link and no settlement.
LEMMA BeginHolds ==
  ASSUME Inv, NEW h \in Handler, NEW w, NEW d \in Refund, Begin(h, w, d),
         \/ w \in {"approve", "reject", "receive"} /\ d \in Return
         \/ w = "settle" /\ d \in Return /\ status[d] = "RECEIVED"
         \/ w \in RefundDue
         \/ w = "open" /\ d \in Counter
  PROVE  Inv'
  <1>1. TypeOK'
    BY DEF Inv, TypeOK, Begin, stockVars, moneyVars, ReturnDue, RefundDue
  <1>2. PaidOnce' /\ StatusTellsMoney'
    BY DEF Inv, PaidOnce, StatusTellsMoney, Begin, moneyVars, Pays
  <1>3. Linking'
    BY DEF Inv, TypeOK, Linking, Begin, RefundDue
  <1>4. Goods'
    BY DEF Inv, TypeOK, Goods, Begin, stockVars, RefundDue
  <1>. QED  BY <1>1, <1>2, <1>3, <1>4 DEF Inv

\* A handler that ends without a write.
LEMMA FailHolds == ASSUME Inv, NEW h \in Handler, Fail(h)  PROVE Inv'
  <1>1. TypeOK'
    BY DEF Inv, TypeOK, Fail, End, stockVars, moneyVars, ReturnDue, RefundDue
  <1>2. PaidOnce' /\ StatusTellsMoney'
    BY DEF Inv, PaidOnce, StatusTellsMoney, Fail, moneyVars, Pays
  <1>3. Linking' /\ Goods'
    BY DEF Inv, TypeOK, Linking, Goods, Fail, End, stockVars
  <1>. QED  BY <1>1, <1>2, <1>3 DEF Inv

\* A return is moved on by a handler that judged an older state of it.
LEMMA MovedOn ==
  ASSUME Inv, NEW h \in Handler, NEW s \in {"APPROVED", "REJECTED"},
         pc[h] \in {"approve", "reject"}, SetStatus(doc[h], s), End(h),
         UNCHANGED <<refund, stockVars, moneyVars, corrected>>
  PROVE  Inv'
  <1>0. doc[h] \in Return
    BY DEF Inv, TypeOK, ReturnDue
  <1>1. TypeOK'
    BY <1>0 DEF Inv, TypeOK, SetStatus, End, stockVars, moneyVars, ReturnDue, RefundDue
  <1>2. PaidOnce' /\ StatusTellsMoney'
    BY <1>0 DEF Inv, TypeOK, PaidOnce, StatusTellsMoney, SetStatus, moneyVars, Pays
  <1>3. Linking'
    BY <1>0 DEF Inv, TypeOK, Linking, SetStatus, End
  <1>4. Goods'
    BY <1>0, Constants DEF Inv, TypeOK, Goods, SetStatus, End, stockVars
  <1>. QED  BY <1>1, <1>2, <1>3, <1>4 DEF Inv

LEMMA RequestHolds == ASSUME Inv, NEW r \in Return, RequestReturn(r)  PROVE Inv'
  <1>1. TypeOK'
    BY DEF Inv, TypeOK, RequestReturn, SetStatus, stockVars, moneyVars
  <1>2. PaidOnce' /\ StatusTellsMoney'
    BY DEF Inv, TypeOK, PaidOnce, StatusTellsMoney, RequestReturn, SetStatus, moneyVars, Pays
  <1>3. Linking'
    BY DEF Inv, TypeOK, Linking, RequestReturn, SetStatus, ReturnDue
  <1>4. Goods'
    BY Constants DEF Inv, TypeOK, Goods, RequestReturn, SetStatus, stockVars
  <1>. QED  BY <1>1, <1>2, <1>3, <1>4 DEF Inv

\* The goods of a refund are in afterwards, and no others have moved.
LEMMA GoodsIn ==
  ASSUME Inv, NEW f \in Refund, MoveIn(f)
  PROVE  /\ back' \in [Refund -> Nat] /\ onHand' \in Nat
         /\ back'[f] = Qty[f]
         /\ \A g \in Refund : g # f => back'[g] = back[g]
  BY Constants DEF Inv, TypeOK, Goods, MoveIn, stockVars

LEMMA ReceiveHolds == ASSUME Inv, NEW h \in Handler, Receive(h)  PROVE Inv'
  <1>0. /\ pc[h] = "receive" /\ doc[h] \in Return /\ doc[h] \in Refund
        /\ SetStatus(doc[h], "RECEIVED") /\ End(h) /\ UNCHANGED <<refund, moneyVars, corrected>>
    BY Constants DEF Inv, TypeOK, Receive, ReturnDue
  <1>1. /\ back' \in [Refund -> Nat] /\ onHand' \in Nat
        /\ doc[h] \in Sellable => back'[doc[h]] = Qty[doc[h]]
        /\ \A g \in Refund : back'[g] = back[g] \/ back'[g] = Qty[g]
    BY <1>0, GoodsIn DEF Inv, TypeOK, Receive, stockVars
  <1>2. TypeOK'
    BY <1>0, <1>1 DEF Inv, TypeOK, SetStatus, End, moneyVars, ReturnDue, RefundDue
  <1>3. PaidOnce' /\ StatusTellsMoney'
    BY <1>0 DEF Inv, TypeOK, PaidOnce, StatusTellsMoney, SetStatus, moneyVars, Pays
  <1>4. Linking'
    BY <1>0 DEF Inv, TypeOK, Linking, SetStatus, End
  <1>5. Goods'
    BY <1>0, <1>1, Constants DEF Inv, TypeOK, Goods, SetStatus, End
  <1>. QED  BY <1>2, <1>3, <1>4, <1>5 DEF Inv

LEMMA SettleHolds == ASSUME Inv, NEW h \in Handler, Settle(h)  PROVE Inv'
  <1>0. /\ pc[h] = "settle" /\ doc[h] \in Return /\ doc[h] \in Refund
        /\ refund[doc[h]] = "NONE" /\ SetRefund(doc[h], "PENDING")
        /\ pc' = [pc EXCEPT ![h] = "link"]
        /\ UNCHANGED <<status, stockVars, moneyVars, corrected, doc>>
    BY Constants DEF Inv, TypeOK, Settle, ReturnDue
  <1>1. TypeOK'
    BY <1>0 DEF Inv, TypeOK, SetRefund, stockVars, moneyVars, ReturnDue, RefundDue
  <1>2. PaidOnce'
    BY <1>0 DEF Inv, TypeOK, PaidOnce, SetRefund, moneyVars, Pays
  <1>3. StatusTellsMoney'
    BY <1>0, Constants DEF Inv, TypeOK, StatusTellsMoney, SetRefund
  <1>4. \A g \in Handler : pc[g] = "link" => doc[g] # doc[h]
    BY <1>0 DEF Inv, Linking
  <1>5. Linking'
    <2>1. status[doc[h]] \notin {"SETTLED", "REFUNDED"}
      BY <1>0 DEF Inv, StatusTellsMoney
    <2>. QED  BY <1>0, <1>4, <2>1 DEF Inv, TypeOK, Linking, SetRefund
  <1>6. Goods'
    BY <1>0, Constants DEF Inv, TypeOK, Goods, SetRefund, stockVars
  <1>. QED  BY <1>1, <1>2, <1>3, <1>5, <1>6 DEF Inv

LEMMA LinkHolds == ASSUME Inv, NEW h \in Handler, Link(h)  PROVE Inv'
  <1>0. /\ pc[h] = "link" /\ doc[h] \in Return /\ SetStatus(doc[h], "SETTLED") /\ End(h)
        /\ UNCHANGED <<refund, stockVars, moneyVars, corrected>>
        /\ refund[doc[h]] \in {"PENDING", "CANCELLED"}
    BY DEF Inv, TypeOK, Link, Linking, ReturnDue
  <1>1. TypeOK'
    BY <1>0 DEF Inv, TypeOK, SetStatus, End, stockVars, moneyVars, ReturnDue, RefundDue
  <1>2. PaidOnce' /\ StatusTellsMoney'
    BY <1>0 DEF Inv, TypeOK, PaidOnce, StatusTellsMoney, SetStatus, moneyVars, Pays
  <1>3. Linking'
    BY <1>0 DEF Inv, TypeOK, Linking, SetStatus, End
  <1>4. Goods'
    BY <1>0, Constants DEF Inv, TypeOK, Goods, SetStatus, End, stockVars
  <1>. QED  BY <1>1, <1>2, <1>3, <1>4 DEF Inv

LEMMA OpenHolds == ASSUME Inv, NEW h \in Handler, OpenRefund(h)  PROVE Inv'
  <1>0. /\ pc[h] = "open" /\ doc[h] \in Counter /\ doc[h] \in Refund /\ doc[h] \notin Return
        /\ refund[doc[h]] = "NONE" /\ MoveIn(doc[h]) /\ SetRefund(doc[h], "PENDING") /\ End(h)
        /\ UNCHANGED <<status, moneyVars, corrected>>
    BY Constants DEF Inv, TypeOK, OpenRefund
  <1>1. /\ back' \in [Refund -> Nat] /\ onHand' \in Nat
        /\ back'[doc[h]] = Qty[doc[h]]
        /\ \A g \in Refund : g # doc[h] => back'[g] = back[g]
    BY <1>0, GoodsIn
  <1>2. TypeOK'
    BY <1>0, <1>1 DEF Inv, TypeOK, SetRefund, End, moneyVars, ReturnDue, RefundDue
  <1>3. PaidOnce'
    BY <1>0 DEF Inv, TypeOK, PaidOnce, SetRefund, moneyVars, Pays
  <1>4. StatusTellsMoney'
    BY <1>0, Constants DEF Inv, TypeOK, StatusTellsMoney, SetRefund
  <1>5. Linking'
    BY <1>0 DEF Inv, TypeOK, Linking, SetRefund, End, ReturnDue
  <1>6. Goods'
    BY <1>0, <1>1, Constants DEF Inv, TypeOK, Goods, SetRefund, End
  <1>. QED  BY <1>2, <1>3, <1>4, <1>5, <1>6 DEF Inv

LEMMA CancelHolds == ASSUME Inv, NEW h \in Handler, Cancel(h)  PROVE Inv'
  <1>0. /\ pc[h] = "cancel" /\ doc[h] \in Refund /\ refund[doc[h]] = "PENDING"
        /\ SetRefund(doc[h], "CANCELLED") /\ End(h)
        /\ UNCHANGED <<status, stockVars, moneyVars, corrected>>
    BY DEF Inv, TypeOK, Cancel, RefundDue
  <1>1. TypeOK'
    BY <1>0 DEF Inv, TypeOK, SetRefund, End, stockVars, moneyVars, ReturnDue, RefundDue
  <1>2. PaidOnce'
    BY <1>0 DEF Inv, TypeOK, PaidOnce, SetRefund, moneyVars, Pays
  <1>3. StatusTellsMoney'
    BY <1>0, Constants DEF Inv, TypeOK, StatusTellsMoney, SetRefund
  <1>4. Linking'
    BY <1>0 DEF Inv, TypeOK, Linking, SetRefund, End
  <1>5. Goods'
    BY <1>0, Constants DEF Inv, TypeOK, Goods, SetRefund, End, stockVars
  <1>. QED  BY <1>1, <1>2, <1>3, <1>4, <1>5 DEF Inv

\* The claim: the refund was PENDING, so nothing was paid for it yet; and it
\* was linked, so no handler is about to say so again.
LEMMA FinalizeHolds == ASSUME Inv, NEW h \in Handler, Finalize(h)  PROVE Inv'
  <1> DEFINE f == doc[h]
  <1>0. /\ pc[h] = "finalize" /\ f \in Refund /\ refund[f] = "PENDING"
        /\ f \in Return => status[f] = "SETTLED"
        /\ SetRefund(f, "COMPLETED") /\ Pay(f) /\ End(h)
        /\ status' = IF f \in Return THEN [status EXCEPT ![f] = "REFUNDED"] ELSE status
        /\ UNCHANGED <<stockVars, corrected>>
    BY DEF Inv, TypeOK, Finalize, RefundDue
  <1>. HIDE DEF f
  <1>1. \A g \in Handler : pc[g] = "link" => doc[g] # f
    BY <1>0 DEF Inv, Linking, TypeOK, ReturnDue
  <1>2. /\ paid' \in [Refund -> Nat] /\ costBack' \in [Refund -> Nat]
        /\ announced' \in [Refund -> Nat]
        /\ paid'[f] = (IF Pays(f) THEN 1 ELSE 0) /\ announced'[f] = 1
        /\ \A g \in Refund : g # f => paid'[g] = paid[g] /\ announced'[g] = announced[g]
    <2>1. paid[f] = 0 /\ announced[f] = 0
      BY <1>0 DEF Inv, PaidOnce
    <2>. QED  BY <1>0, <2>1, NoCost DEF Inv, TypeOK, Pay
  <1>3. TypeOK'
    BY <1>0, <1>2 DEF Inv, TypeOK, SetRefund, End, stockVars, ReturnDue, RefundDue
  <1>4. PaidOnce'
    <2>1. refund'[f] = "COMPLETED" /\ \A g \in Refund : g # f => refund'[g] = refund[g]
      BY <1>0 DEF Inv, TypeOK, SetRefund
    <2>. QED  BY <1>2, <2>1 DEF Inv, PaidOnce, Pays, AccountOf
  <1>5. StatusTellsMoney'
    BY <1>0, Constants DEF Inv, TypeOK, StatusTellsMoney, SetRefund
  <1>6. Linking'
    BY <1>0, <1>1 DEF Inv, TypeOK, Linking, SetRefund, End
  <1>7. Goods'
    BY <1>0, Constants DEF Inv, TypeOK, Goods, SetRefund, End, stockVars
  <1>. QED  BY <1>3, <1>4, <1>5, <1>6, <1>7 DEF Inv

-----------------------------------------------------------------------------
(* The theorems *)

LEMMA Readings ==
  ASSUME Inv, NEW h \in Handler,
         \/ \E r \in Return : ReadReturn(h, r)
         \/ \E k \in Counter : ReadInvoice(h, k)
         \/ \E f \in Refund : ReadRefund(h, f)
  PROVE  Inv'
  <1>1. ASSUME NEW r \in Return, ReadReturn(h, r)  PROVE Inv'
    BY <1>1, BeginHolds, Constants DEF ReadReturn
  <1>2. ASSUME NEW k \in Counter, ReadInvoice(h, k)  PROVE Inv'
    BY <1>2, BeginHolds, Constants DEF ReadInvoice
  <1>3. ASSUME NEW f \in Refund, ReadRefund(h, f)  PROVE Inv'
    BY <1>3, BeginHolds DEF ReadRefund, RefundDue
  <1>. QED  BY <1>1, <1>2, <1>3

LEMMA NextHolds == Inv /\ [Next]_vars => Inv'
  <1>. SUFFICES ASSUME Inv, [Next]_vars PROVE Inv'
    OBVIOUS
  <1>1. ASSUME NEW r \in Return, RequestReturn(r)  PROVE Inv'
    BY <1>1, RequestHolds
  <1>2. CASE CorrectInvoice
    <2>1. TypeOK'
      BY <1>2 DEF Inv, TypeOK, CorrectInvoice, stockVars, moneyVars
    <2>. QED  BY <1>2, <2>1 DEF Inv, PaidOnce, StatusTellsMoney, Linking, Goods,
                              CorrectInvoice, stockVars, moneyVars, Pays
  <1>3. ASSUME NEW h \in Handler,
               \/ \E r \in Return : ReadReturn(h, r)
               \/ \E k \in Counter : ReadInvoice(h, k)
               \/ \E f \in Refund : ReadRefund(h, f)
        PROVE  Inv'
    BY <1>3, Readings
  <1>4. ASSUME NEW h \in Handler, Approve(h) \/ Reject(h)  PROVE Inv'
    BY <1>4, MovedOn DEF Approve, Reject
  <1>5. ASSUME NEW h \in Handler, Receive(h) \/ Settle(h) \/ Link(h)  PROVE Inv'
    BY <1>5, ReceiveHolds, SettleHolds, LinkHolds
  <1>6. ASSUME NEW h \in Handler, OpenRefund(h) \/ Finalize(h) \/ Cancel(h) \/ Fail(h)  PROVE Inv'
    BY <1>6, OpenHolds, FinalizeHolds, CancelHolds, FailHolds
  <1>7. CASE UNCHANGED vars
    <2>1. TypeOK'
      BY <1>7 DEF Inv, TypeOK, vars, stockVars, moneyVars
    <2>. QED  BY <1>7, <2>1 DEF Inv, PaidOnce, StatusTellsMoney, Linking, Goods, Pays,
                              vars, stockVars, moneyVars
  <1>. QED  BY <1>1, <1>2, <1>3, <1>4, <1>5, <1>6, <1>7 DEF Next

THEOREM Invariant == Spec => []Inv
  <1>. QED  BY InitHolds, NextHolds, PTL DEF Spec

\* Every row, count and due write has a value the code could have written, the
\* cost that is booked back included.  (TypeOK of returns.service.ts)
THEOREM RefundsTypeCorrect == Spec => []TypeOK
  <1>1. Inv => TypeOK
    BY DEF Inv
  <1>. QED  BY <1>1, Invariant, PTL

\* The money of a refund leaves exactly once if it is COMPLETED, and never
\* otherwise: the claims of finalizeRefund and cancelRefund.
THEOREM RefundsPaidOnce == Spec => []PaidOnce
  <1>1. Inv => PaidOnce
    BY DEF Inv
  <1>. QED  BY <1>1, Invariant, PTL

\* SETTLED and REFUNDED on a return tell what became of its money, though
\* settle writes the return in no transaction with the refund.
THEOREM StatusTellsTruth == Spec => []StatusTellsMoney
  <1>1. Inv => StatusTellsMoney
    BY DEF Inv
  <1>. QED  BY <1>1, Invariant, PTL

\* A movement adds to the sum of the movements what it adds to the stock.
OnHand == onHand = Opening + Sum(back, Refund)

LEMMA OnHandInit == Init => OnHand
  <1>. SUFFICES ASSUME Init PROVE OnHand
    OBVIOUS
  <1>1. IsFiniteSet(Refund) /\ \A f \in Refund : back[f] = 0
    BY ConstantsAssumption DEF Init
  <1>2. Sum(back, Refund) = 0
    BY <1>1, SumZero
  <1>. QED  BY <1>2, ConstantsAssumption DEF Init, OnHand

LEMMA MovementCounts ==
  ASSUME Inv, OnHand, NEW f \in Refund, MoveIn(f)
  PROVE  OnHand'
  <1>1. CASE back[f] # 0
    BY <1>1 DEF MoveIn, OnHand, stockVars
  <1>2. CASE back[f] = 0
    <2>1. /\ IsFiniteSet(Refund) /\ Qty[f] \in Nat
          /\ \A g \in Refund : back[g] \in Int /\ back'[g] \in Int
          /\ back'[f] = Qty[f] /\ \A g \in Refund : g # f => back'[g] = back[g]
      BY GoodsIn, Constants, ConstantsAssumption DEF Inv, TypeOK
    <2>2. PICK old, new : old = back /\ new = back'
      OBVIOUS
    <2>3. Sum(new, Refund) = Sum(old, Refund) + new[f] - old[f]
      BY <2>1, <2>2, SumChange
    <2>4. Sum(old, Refund) \in Int
      BY <2>1, <2>2, SumInt
    <2>5. onHand' = onHand + Qty[f]
      BY <1>2 DEF MoveIn
    <2>. QED  BY <1>2, <2>1, <2>2, <2>3, <2>4, <2>5, ConstantsAssumption DEF OnHand
  <1>. QED  BY <1>1, <1>2

LEMMA OnHandNext == Inv /\ OnHand /\ [Next]_vars => OnHand'
  <1>. SUFFICES ASSUME Inv, OnHand, [Next]_vars PROVE OnHand'
    OBVIOUS
  <1>1. ASSUME UNCHANGED stockVars  PROVE OnHand'
    BY <1>1 DEF OnHand, stockVars
  <1>2. ASSUME NEW h \in Handler, Receive(h)  PROVE OnHand'
    <2>1. doc[h] \in Refund
      BY <1>2, Constants DEF Receive, Inv, TypeOK, ReturnDue
    <2>. QED  BY <1>1, <1>2, <2>1, MovementCounts DEF Receive
  <1>3. ASSUME NEW h \in Handler, OpenRefund(h)  PROVE OnHand'
    <2>1. doc[h] \in Refund
      BY <1>3, Constants DEF OpenRefund, Inv, TypeOK
    <2>. QED  BY <1>3, <2>1, MovementCounts DEF OpenRefund
  <1>4. \/ UNCHANGED stockVars
        \/ \E h \in Handler : Receive(h) \/ OpenRefund(h)
    BY DEF Next, vars, RequestReturn, CorrectInvoice, ReadReturn, ReadInvoice, ReadRefund, Begin,
           Approve, Reject, Settle, Link, Finalize, Cancel, Fail
  <1>. QED  BY <1>1, <1>2, <1>3, <1>4

\* No refund exists before its goods have come back, once each, and the stock
\* is what came back on top of what there was: createRefund of a SELLABLE
\* return or of the counter, and the keys of moveInTx.
THEOREM GoodsBackFirst == Spec => []GoodsFirst
  <1>1. Inv /\ OnHand => GoodsFirst
    <2>. SUFFICES ASSUME Inv, OnHand  PROVE GoodsFirst
      OBVIOUS
    <2>1. SumFunction(back) = Sum(back, Refund)
      BY DEF Inv, TypeOK, SumFunction, Sum
    <2>. QED  BY <2>1 DEF Inv, Goods, OnHand, GoodsFirst
  <1>. QED  BY <1>1, Invariant, OnHandInit, OnHandNext, PTL DEF Spec

-----------------------------------------------------------------------------
\* A refund is opened once and decided once; its money moves in the step that
\* completes it and in no other; goods that came back stay.
RefundFlow(f) ==
    /\ refund'[f] # refund[f] =>
          <<refund[f], refund'[f]>> \in {<<"NONE", "PENDING">>, <<"PENDING", "COMPLETED">>,
                                         <<"PENDING", "CANCELLED">>}
    /\ paid'[f] # paid[f] \/ announced'[f] # announced[f] =>
          refund[f] = "PENDING" /\ refund'[f] = "COMPLETED"
    /\ back[f] # 0 => back'[f] = back[f]
DecidedForGood == [][\A f \in Refund : RefundFlow(f)]_vars

LEMMA NextFlows == Inv /\ [Next]_vars => \A f \in Refund : RefundFlow(f)
  <1>. SUFFICES ASSUME Inv, [Next]_vars, NEW f \in Refund PROVE RefundFlow(f)
    OBVIOUS
  <1>. USE DEF RefundFlow
  <1>1. CASE UNCHANGED <<refund, paid, announced, back>>
    BY <1>1
  <1>2. ASSUME NEW h \in Handler, Receive(h) PROVE RefundFlow(f)
    BY <1>2 DEF Receive, MoveIn, stockVars, moneyVars, Inv, TypeOK
  <1>3. ASSUME NEW h \in Handler, Settle(h) PROVE RefundFlow(f)
    BY <1>3 DEF Settle, SetRefund, stockVars, moneyVars, Inv, TypeOK
  <1>4. ASSUME NEW h \in Handler, OpenRefund(h) PROVE RefundFlow(f)
    BY <1>4 DEF OpenRefund, SetRefund, MoveIn, stockVars, moneyVars, Inv, TypeOK
  <1>5. ASSUME NEW h \in Handler, Finalize(h) PROVE RefundFlow(f)
    BY <1>5 DEF Finalize, SetRefund, Pay, stockVars, Inv, TypeOK
  <1>6. ASSUME NEW h \in Handler, Cancel(h) PROVE RefundFlow(f)
    BY <1>6 DEF Cancel, SetRefund, stockVars, moneyVars, Inv, TypeOK
  <1>7. \/ UNCHANGED <<refund, paid, announced, back>>
        \/ \E h \in Handler : Receive(h) \/ Settle(h) \/ OpenRefund(h) \/ Finalize(h) \/ Cancel(h)
    BY DEF Next, vars, stockVars, moneyVars, RequestReturn, CorrectInvoice, ReadReturn, ReadInvoice,
           ReadRefund, Begin, Approve, Reject, Link, Fail
  <1>. HIDE DEF RefundFlow
  <1>. QED  BY <1>1, <1>2, <1>3, <1>4, <1>5, <1>6, <1>7

\* Whatever finalisations, cancellations and repeated requests still run, a
\* refund that was completed or cancelled stays so, and no money moves but
\* with its completion: createRefund's unique key, and the claims of
\* finalizeRefund and cancelRefund.
THEOREM RefundsDecidedForGood == Spec => DecidedForGood
  <1>1. Inv /\ [Next]_vars => [\A f \in Refund : RefundFlow(f)]_vars
    BY NextFlows
  <1>. QED  BY <1>1, Invariant, PTL DEF Spec, DecidedForGood
=============================================================================
