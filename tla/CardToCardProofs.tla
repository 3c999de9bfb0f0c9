-------------------------- MODULE CardToCardProofs --------------------------
(***************************************************************************)
(* Proofs, for every set of orders, attempts and concurrent handlers, any  *)
(* number of submissions, edits and deaths, of the safety of a payment by  *)
(* a transfer between cards.                                               *)
(*                                                                         *)
(* As in OnlinePaymentProofs, the invariant says what a handler may still  *)
(* rely on at its place in the code (Knows).  A handler that examines a    *)
(* submission comes back to where it was: it relies on what the place it   *)
(* returns to needs (At).                                                  *)
(***************************************************************************)
EXTENDS CardToCard, OrderPaymentInvariant, FiniteSetTheorems, TLAPS

-----------------------------------------------------------------------------
(* What the shared statements do to the rows.  A statement is safe from    *)
(* what its handler knows at its place in the code (OrderKnows), and that  *)
(* stays true because the rows only grow (OrderGrows): an order is not     *)
(* deleted, a paid one stays paid, what was sold is not handed back, and   *)
(* the first batch is not reserved again.                                  *)

\* What a handler relies on between two shared statements.
OrderKnows(h) ==
    /\ pc[h] \in Ordering => ord[h] \in Order /\ status[ord[h]] # "NONE"
    /\ pc[h] \in Finalizing => work[h] \in Attempt /\ attOrder[work[h]] \in Order
    /\ pc[h] \in Paying => payStatus[attOrder[work[h]]] = "PAID"

\* What no statement takes back.
OrderGrows ==
    \A o \in Order :
        /\ status[o] # "NONE" => status'[o] # "NONE"
        /\ payStatus[o] = "PAID" => payStatus'[o] = "PAID"
        /\ goods[o][0] # "NONE" => goods'[o][0] # "NONE"
        /\ goods[o][0] \notin {"NONE", "ACTIVE"} => goods'[o][0] # "ACTIVE"
        /\ \A b \in Batch : goods[o][b] = "CONSUMED" => goods'[o][b] = "CONSUMED"

\* Only h moves.
OnlyMoves(h) ==
    \A g \in Handler : g # h =>
        pc'[g] = pc[g] /\ ord'[g] = ord[g] /\ work'[g] = work[g] /\ rows'[g] = rows[g]

\* What a shared statement of h leaves behind.
Shares(h) ==
    /\ PaymentTypeOK' /\ Orders' /\ SoldOnlyIfPaid'
    /\ OrderGrows
    /\ OnlyMoves(h)
    /\ OrderKnows(h)'
    /\ UNCHANGED attOrder
    /\ \A a \in Attempt : attState'[a] # attState[a] => attState'[a] = "PAID" /\ attOrder[a] # None

LEMMA BatchFacts == 0 \in Batch /\ Batch \subseteq Int
  BY OrderPaymentAssumption DEF Batch

\* SoldOnlyIfPaid, batch by batch.
SoldByBatch ==
    SoldOnlyIfPaid <=> \A o \in Order : \A b \in Batch : goods[o][b] = "CONSUMED" => payStatus[o] = "PAID"

LEMMA SoldHere == SoldByBatch
  BY DEF SoldByBatch, SoldOnlyIfPaid, In

LEMMA SoldFacts == SoldByBatch /\ SoldByBatch'
  BY SoldHere, PTL

-----------------------------------------------------------------------------
(* Moves of a handler *)

\* The handler's own variables have their types and the others stay.
Moved(h, L) ==
    /\ pc' \in [Handler -> L]
    /\ ord' \in [Handler -> Order \union {None}] /\ work' \in [Handler -> Attempt \union {None}]
    /\ rows' \in [Handler -> SUBSET Batch] /\ crashes' \in 0..MaxCrashes
    /\ OnlyMoves(h)

LEMMA GotoMoves ==
  ASSUME PaymentTypeOK, NEW L, pc \in [Handler -> L], NEW h \in Handler, NEW l \in L, Goto(h, l)
  PROVE  Moved(h, L) /\ pc'[h] = l /\ ord'[h] = ord[h] /\ work'[h] = work[h] /\ rows'[h] = rows[h]
  BY DEF Goto, PaymentTypeOK, Moved, OnlyMoves

LEMMA ReturnMoves ==
  ASSUME PaymentTypeOK, NEW L, pc \in [Handler -> L], "idle" \in L, NEW h \in Handler, Return(h)
  PROVE  Moved(h, L) /\ pc'[h] = "idle"
  BY DEF Return, PaymentTypeOK, Moved, OnlyMoves

LEMMA BeginMoves ==
  ASSUME PaymentTypeOK, NEW L, pc \in [Handler -> L], NEW h \in Handler, NEW l \in L,
         NEW o \in Order \union {None}, NEW a \in Attempt \union {None}, Begin(h, l, o, a)
  PROVE  Moved(h, L) /\ pc[h] = "idle" /\ pc'[h] = l /\ ord'[h] = o /\ work'[h] = a
  BY DEF Begin, PaymentTypeOK, Moved, OnlyMoves

LEMMA IdleKnowsOrder ==
  ASSUME NEW h \in Handler, pc'[h] = "idle"
  PROVE  OrderKnows(h)'
  BY DEF OrderKnows, Ordering, Finalizing, Paying, Booking

\* The rows stay as they are.
LEMMA RowsStay ==
  ASSUME PaymentTypeOK, Orders, SoldOnlyIfPaid, NEW L, NEW h \in Handler, Moved(h, L),
         UNCHANGED <<orderVars, attOrder, attState, effectVars>>
  PROVE  PaymentTypeOK' /\ Orders' /\ SoldOnlyIfPaid' /\ OrderGrows
  <1>1. UNCHANGED <<status, payStatus, goods, attOrder, attState, bank, journal, outbox>>
    BY DEF orderVars, effectVars
  <1>2. PaymentTypeOK'
    BY <1>1 DEF PaymentTypeOK, Moved
  <1>. QED  BY <1>1, <1>2 DEF Orders, SoldOnlyIfPaid, In, OrderGrows

-----------------------------------------------------------------------------
(* The statements about orders *)

LEMMA PlaceShares ==
  ASSUME PaymentTypeOK, Orders, SoldOnlyIfPaid, NEW L, pc \in [Handler -> L], SharedLabel \subseteq L,
         NEW h \in Handler, NEW o \in Order, Place(h, o)
  PROVE  Shares(h) /\ Moved(h, L) /\ pc'[h] = "placed"
  <1>1. Moved(h, L) /\ pc'[h] = "placed" /\ ord'[h] = o
    BY BeginMoves DEF Place, SharedLabel, Ordering
  <1>2. /\ status[o] = "NONE" /\ UNCHANGED <<payStatus, attOrder, attState, bank, journal, outbox>>
        /\ \A b \in Batch : goods[o][b] = "NONE"
    BY DEF Place, Orders, effectVars
  <1>3. /\ status' \in [Order -> {"NONE", "PENDING", "PAID", "CANCELLED"}]
        /\ goods' \in [Order -> [Batch -> Goods]]
        /\ \A p \in Order : IF p = o THEN status'[p] = "PENDING" ELSE status'[p] = status[p]
        /\ \A p \in Order : p # o => goods'[p] = goods[p]
        /\ \A b \in Batch : goods'[o][b] = IF b = 0 THEN "ACTIVE" ELSE "NONE"
    BY <1>2, BatchFacts DEF Place, PaymentTypeOK, Goods
  <1>4. PaymentTypeOK'
    BY <1>1, <1>2, <1>3 DEF PaymentTypeOK, Moved
  <1>5. Orders' /\ SoldOnlyIfPaid' /\ OrderGrows
    <2>1. Orders'
      BY <1>2, <1>3, BatchFacts DEF Orders
    <2>2. SoldOnlyIfPaid'
      BY <1>2, <1>3, SoldFacts DEF SoldByBatch
    <2>3. OrderGrows
      BY <1>2, <1>3, BatchFacts DEF OrderGrows
    <2>. QED  BY <2>1, <2>2, <2>3
  <1>6. OrderKnows(h)'
    BY <1>1, <1>3 DEF OrderKnows, Ordering, Finalizing, Paying, Booking
  <1>. QED  BY <1>1, <1>2, <1>4, <1>5, <1>6 DEF Shares, Moved

LEMMA CheckShares ==
  ASSUME PaymentTypeOK, Orders, SoldOnlyIfPaid, NEW L, pc \in [Handler -> L], SharedLabel \subseteq L,
         NEW h \in Handler, NEW o \in Order, CancelCheck(h, o) \/ EditCheck(h, o)
  PROVE  Shares(h) /\ Moved(h, L) /\ pc'[h] \in Ordering
  <1>1. PICK l \in {"cancel", "edit"} :
           /\ Begin(h, l, o, None) /\ status[o] # "NONE"
           /\ UNCHANGED <<orderVars, attOrder, attState, effectVars>>
    BY DEF CancelCheck, EditCheck
  <1>2. Moved(h, L) /\ pc'[h] = l /\ ord'[h] = o
    BY <1>1, BeginMoves DEF SharedLabel, Ordering
  <1>3. OrderKnows(h)'
    BY <1>1, <1>2 DEF OrderKnows, Ordering, Finalizing, Paying, Booking, orderVars
  <1>. QED  BY <1>1, <1>2, <1>3, RowsStay DEF Shares, Moved, Ordering

\* The events of orders.
LEMMA EventShares ==
  ASSUME PaymentTypeOK, Orders, SoldOnlyIfPaid, NEW L, pc \in [Handler -> L], SharedLabel \subseteq L,
         NEW h \in Handler, OrderKnows(h), PublishCreated(h) \/ PublishEdited(h)
  PROVE  Shares(h) /\ Moved(h, L) /\ pc'[h] = "idle"
  <1>1. Moved(h, L) /\ pc'[h] = "idle" /\ pc[h] \in Ordering
    BY ReturnMoves DEF PublishCreated, PublishEdited, SharedLabel, Ordering
  <1>2. /\ UNCHANGED <<status, payStatus, goods, attOrder, attState, bank, journal>>
        /\ \E n \in {"OrderCreated", "OrderEdited"} : outbox' = outbox \union {<<n, ord[h]>>}
    BY DEF PublishCreated, PublishEdited, orderVars
  <1>3. PaymentTypeOK'
    BY <1>1, <1>2 DEF PaymentTypeOK, Moved, Event, OrderKnows
  <1>4. Orders' /\ SoldOnlyIfPaid' /\ OrderGrows
    BY <1>2 DEF Orders, SoldOnlyIfPaid, In, OrderGrows
  <1>. QED  BY <1>1, <1>2, <1>3, <1>4, IdleKnowsOrder DEF Shares, Moved

\* Batches of one order turn: nothing sold comes back, and what is newly sold
\* belongs to a paid order.
LEMMA GoodsTurn ==
  ASSUME PaymentTypeOK, Orders, SoldOnlyIfPaid, NEW o \in Order, status[o] # "NONE",
         NEW to \in [Batch -> Goods], goods' = [goods EXCEPT ![o] = to],
         UNCHANGED payStatus,
         status' \in [Order -> {"NONE", "PENDING", "PAID", "CANCELLED"}],
         \A p \in Order : status'[p] = "NONE" <=> status[p] = "NONE",
         \A b \in Batch : /\ goods[o][b] = "CONSUMED" => to[b] = "CONSUMED"
                          /\ to[b] = "CONSUMED" /\ goods[o][b] # "CONSUMED" => payStatus[o] = "PAID",
         to[0] # "NONE", goods[o][0] # "ACTIVE" => to[0] # "ACTIVE"
  PROVE  goods' \in [Order -> [Batch -> Goods]] /\ Orders' /\ SoldOnlyIfPaid' /\ OrderGrows
  <1>1. /\ goods' \in [Order -> [Batch -> Goods]]
        /\ goods'[o] = to /\ \A p \in Order : p # o => goods'[p] = goods[p]
    BY DEF PaymentTypeOK
  <1>2. Orders'
    BY <1>1, BatchFacts DEF Orders
  <1>3. SoldOnlyIfPaid'
    BY <1>1, SoldFacts DEF SoldByBatch
  <1>4. OrderGrows
    BY <1>1, BatchFacts DEF OrderGrows
  <1>. QED  BY <1>1, <1>2, <1>3, <1>4

\* Release, of an order that exists.
LEMMA ReleaseTurns ==
  ASSUME PaymentTypeOK, Orders, SoldOnlyIfPaid, NEW o \in Order, status[o] # "NONE", Release(o),
         UNCHANGED payStatus,
         status' \in [Order -> {"NONE", "PENDING", "PAID", "CANCELLED"}],
         \A p \in Order : status'[p] = "NONE" <=> status[p] = "NONE"
  PROVE  /\ goods' \in [Order -> [Batch -> Goods]] /\ Orders' /\ SoldOnlyIfPaid' /\ OrderGrows
         /\ goods'[o][0] \notin {"NONE", "ACTIVE"}
  <1>. DEFINE to == [b \in Batch |-> IF b \in In(o, "ACTIVE") THEN "RELEASED" ELSE goods[o][b]]
  <1>1. goods' = [goods EXCEPT ![o] = to]
    BY DEF Release, Turn, PaymentTypeOK
  <1>2. /\ to \in [Batch -> Goods]
        /\ \A b \in Batch : to[b] = IF goods[o][b] = "ACTIVE" THEN "RELEASED" ELSE goods[o][b]
    BY DEF PaymentTypeOK, Goods, In
  <1>3. goods[o][0] # "NONE" /\ to[0] \notin {"NONE", "ACTIVE"}
    BY <1>2, BatchFacts DEF Orders
  <1>4. goods'[o] = to
    BY <1>1 DEF PaymentTypeOK
  <1>. QED  BY <1>1, <1>2, <1>3, <1>4, GoodsTurn

LEMMA CancelShares ==
  ASSUME PaymentTypeOK, Orders, SoldOnlyIfPaid, NEW L, pc \in [Handler -> L], SharedLabel \subseteq L,
         NEW h \in Handler, OrderKnows(h), CancelWrite(h)
  PROVE  Shares(h) /\ Moved(h, L) /\ pc'[h] = "idle"
  <1>1. Moved(h, L) /\ pc'[h] = "idle"
    BY ReturnMoves DEF CancelWrite, SharedLabel
  <1>2. /\ UNCHANGED <<payStatus, attOrder, attState, bank, journal, outbox>>
        /\ ord[h] \in Order /\ status[ord[h]] # "NONE" /\ Release(ord[h])
        /\ status' = [status EXCEPT ![ord[h]] = "CANCELLED"]
    BY DEF CancelWrite, effectVars, OrderKnows, Ordering
  <1>3. PICK o \in Order : o = ord[h]
    BY <1>2
  <1>4. /\ status' \in [Order -> {"NONE", "PENDING", "PAID", "CANCELLED"}]
        /\ \A p \in Order : status'[p] = "NONE" <=> status[p] = "NONE"
    BY <1>2, <1>3 DEF PaymentTypeOK
  <1>5. goods' \in [Order -> [Batch -> Goods]] /\ Orders' /\ SoldOnlyIfPaid' /\ OrderGrows
    BY <1>2, <1>3, <1>4, ReleaseTurns
  <1>6. PaymentTypeOK'
    BY <1>1, <1>2, <1>4, <1>5 DEF PaymentTypeOK, Moved
  <1>. QED  BY <1>1, <1>2, <1>5, <1>6, IdleKnowsOrder DEF Shares, Moved

LEMMA EditShares ==
  ASSUME PaymentTypeOK, Orders, SoldOnlyIfPaid, NEW L, pc \in [Handler -> L], SharedLabel \subseteq L,
         NEW h \in Handler, OrderKnows(h), EditWrite(h)
  PROVE  Shares(h) /\ Moved(h, L) /\ pc'[h] \in {"idle", "edited"}
  <1>1. UNCHANGED <<status, payStatus, attOrder, attState, bank, journal, outbox>>
    BY DEF EditWrite, effectVars
  <1>2. PICK o \in Order : o = ord[h] /\ status[o] # "NONE"
    BY DEF EditWrite, OrderKnows, Ordering
  <1>3. CASE UNCHANGED goods /\ Return(h)
    <2>1. Moved(h, L) /\ pc'[h] = "idle"
      BY <1>3, ReturnMoves DEF SharedLabel
    <2>2. PaymentTypeOK' /\ Orders' /\ SoldOnlyIfPaid' /\ OrderGrows
      BY <1>1, <1>3, <2>1, RowsStay DEF orderVars, effectVars
    <2>. QED  BY <1>1, <2>1, <2>2, IdleKnowsOrder DEF Shares, Moved
  <1>4. ASSUME NEW b \in Batch, goods[o][b] = "NONE", Goto(h, "edited"),
               goods' = [goods EXCEPT ![o] =
                   [c \in Batch |-> IF c = b THEN "ACTIVE"
                                    ELSE IF @[c] = "ACTIVE" THEN "RELEASED" ELSE @[c]]]
        PROVE  Shares(h) /\ Moved(h, L) /\ pc'[h] = "edited"
    <2>. DEFINE to == [c \in Batch |-> IF c = b THEN "ACTIVE"
                                       ELSE IF goods[o][c] = "ACTIVE" THEN "RELEASED" ELSE goods[o][c]]
    <2>1. goods' = [goods EXCEPT ![o] = to] /\ to \in [Batch -> Goods]
      BY <1>4 DEF PaymentTypeOK, Goods
    <2>2. goods[o][0] # "NONE" /\ b # 0
      BY <1>2, <1>4 DEF Orders
    <2>3. to[0] \notin {"NONE", "ACTIVE"}
      BY <2>2, BatchFacts
    <2>4. \A c \in Batch : goods[o][c] = "CONSUMED" <=> to[c] = "CONSUMED"
      BY <1>4
    <2>5. goods' \in [Order -> [Batch -> Goods]] /\ Orders' /\ SoldOnlyIfPaid' /\ OrderGrows
      <3>1. PICK t \in [Batch -> Goods] : t = to
        BY <2>1
      <3>2. /\ status' \in [Order -> {"NONE", "PENDING", "PAID", "CANCELLED"}]
            /\ \A p \in Order : status'[p] = "NONE" <=> status[p] = "NONE"
        BY <1>1 DEF PaymentTypeOK
      <3>. HIDE DEF to
      <3>3. /\ \A c \in Batch : goods[o][c] = "CONSUMED" <=> t[c] = "CONSUMED"
            /\ goods' = [goods EXCEPT ![o] = t] /\ t[0] \notin {"NONE", "ACTIVE"}
        BY <2>1, <2>3, <2>4, <3>1
      <3>. QED  BY <1>1, <1>2, <3>2, <3>3, GoodsTurn
    <2>6. /\ Moved(h, L) /\ pc'[h] = "edited" /\ ord'[h] = o
      BY <1>2, <1>4, GotoMoves DEF SharedLabel, Ordering
    <2>7. PaymentTypeOK'
      BY <1>1, <2>5, <2>6 DEF PaymentTypeOK, Moved
    <2>8. OrderKnows(h)'
      BY <1>1, <1>2, <2>6 DEF OrderKnows, Ordering, Finalizing, Paying, Booking
    <2>. QED  BY <1>1, <2>5, <2>6, <2>7, <2>8 DEF Shares, Moved
  <1>. QED  BY <1>2, <1>3, <1>4 DEF EditWrite

-----------------------------------------------------------------------------
(* finalizePaid *)

\* Before the transaction of finalizePaid nothing is known of the order but
\* that it exists; after it, that it is paid.
LEMMA MarkPaidShares ==
  ASSUME PaymentTypeOK, Orders, SoldOnlyIfPaid, NEW L, pc \in [Handler -> L], SharedLabel \subseteq L,
         NEW h \in Handler, OrderKnows(h), MarkPaid(h),
         \A a \in Attempt : attOrder[a] # None => status[attOrder[a]] # "NONE"
  PROVE  Shares(h) /\ Moved(h, L) /\ pc'[h] = "reserved"
  <1>1. PICK a \in Attempt : a = work[h] /\ attOrder[a] \in Order
    BY DEF MarkPaid, OrderKnows, Finalizing
  <1>2. PICK o \in Order : o = attOrder[a]
    BY <1>1
  <1>3. /\ UNCHANGED <<goods, attOrder, journal, outbox>> /\ status[o] # "NONE"
        /\ payStatus' = [payStatus EXCEPT ![o] = "PAID"]
        /\ status' = [status EXCEPT ![o] = IF payStatus[o] = "PAID" THEN @ ELSE "PAID"]
        /\ attState' = [attState EXCEPT ![a] = "PAID"]
        /\ CreditBank(a)
        /\ Goto(h, "reserved")
    BY <1>1, <1>2, OrderPaymentAssumption DEF MarkPaid, SetState
  <1>4. /\ Moved(h, L) /\ pc'[h] = "reserved" /\ work'[h] = a
    BY <1>1, <1>3, GotoMoves DEF SharedLabel, Finalizing, Paying
  <1>5. /\ status' \in [Order -> {"NONE", "PENDING", "PAID", "CANCELLED"}]
        /\ payStatus' \in [Order -> {"PENDING", "PAID"}]
        /\ attState' \in [Attempt -> AttemptState]
        /\ bank' \subseteq Attempt
    BY <1>3 DEF PaymentTypeOK, AttemptState, CreditBank
  <1>6. PaymentTypeOK'
    BY <1>3, <1>4, <1>5 DEF PaymentTypeOK, Moved
  <1>7. /\ \A p \in Order : status'[p] = "NONE" <=> status[p] = "NONE"
        /\ \A p \in Order : payStatus[p] = "PAID" => payStatus'[p] = "PAID"
        /\ payStatus'[o] = "PAID"
    BY <1>3 DEF PaymentTypeOK
  <1>8. Orders' /\ SoldOnlyIfPaid' /\ OrderGrows
    BY <1>3, <1>7 DEF Orders, SoldOnlyIfPaid, In, OrderGrows
  <1>9. OrderKnows(h)'
    BY <1>1, <1>2, <1>3, <1>4, <1>7 DEF OrderKnows, Ordering, Finalizing, Paying, Booking
  <1>10. \A b \in Attempt : attState'[b] # attState[b] => attState'[b] = "PAID" /\ attOrder[b] # None
    BY <1>1, <1>3, OrderPaymentAssumption DEF PaymentTypeOK
  <1>. QED  BY <1>3, <1>4, <1>6, <1>8, <1>9, <1>10 DEF Shares, Moved

\* A statement after it that leaves order and reservation alone.
LEMMA PayingShares ==
  ASSUME PaymentTypeOK, Orders, SoldOnlyIfPaid, NEW L, pc \in [Handler -> L], SharedLabel \subseteq L,
         NEW h \in Handler, OrderKnows(h), pc[h] \in Paying,
         ReadReservation(h) \/ PostSaleJournal(h) \/ RecordPaid(h) \/ PublishPaid(h)
  PROVE  Shares(h) /\ Moved(h, L) /\ pc'[h] \in Paying \union {"idle"} /\ pc[h] # "settle"
  <1>1. PICK a \in Attempt : a = work[h] /\ attOrder[a] \in Order /\ payStatus[attOrder[a]] = "PAID"
    BY DEF OrderKnows, Finalizing
  <1>2. /\ UNCHANGED <<status, payStatus, goods, attOrder, bank>>
        /\ journal' = journal \/ journal' = journal \union {a}
        /\ attState' = attState \/ attState' = [attState EXCEPT ![a] = "PAID"]
        /\ outbox' = outbox \/ outbox' = outbox \union {<<"OrderPaid", a>>}
    BY <1>1 DEF ReadReservation, PostSaleJournal, RecordPaid, PublishPaid, SetState, orderVars, effectVars
  <1>3. /\ Moved(h, L) /\ pc'[h] \in Paying \union {"idle"}
        /\ pc'[h] \in Paying => work'[h] = a
    <2>1. CASE Return(h)
      BY <2>1, ReturnMoves DEF SharedLabel, Paying, Booking
    <2>2. CASE \E l \in {"record", "publish", "finalized"} : Goto(h, l)
      BY <1>1, <2>2, GotoMoves DEF SharedLabel, Finalizing, Paying, Booking
    <2>3. CASE ReadReservation(h)
      BY <1>1, <2>3 DEF ReadReservation, PaymentTypeOK, Moved, OnlyMoves, In,
         SharedLabel, Finalizing, Paying, Booking
    <2>. QED  BY <2>1, <2>2, <2>3 DEF PostSaleJournal, RecordPaid, PublishPaid
  <1>4. /\ journal' \subseteq Attempt
        /\ attState' \in [Attempt -> AttemptState]
        /\ outbox' \subseteq Event
    BY <1>2 DEF PaymentTypeOK, AttemptState, Event
  <1>5. PaymentTypeOK'
    BY <1>2, <1>3, <1>4 DEF PaymentTypeOK, Moved
  <1>6. Orders' /\ SoldOnlyIfPaid' /\ OrderGrows
    BY <1>2 DEF Orders, SoldOnlyIfPaid, In, OrderGrows
  <1>7. OrderKnows(h)'
    BY <1>1, <1>2, <1>3 DEF OrderKnows, Ordering, Finalizing, Paying, Booking
  <1>8. \A b \in Attempt : attState'[b] # attState[b] => attState'[b] = "PAID" /\ attOrder[b] # None
    BY <1>1, <1>2, OrderPaymentAssumption DEF PaymentTypeOK
  <1>. QED  BY <1>2, <1>3, <1>5, <1>6, <1>7, <1>8 DEF Shares, Moved, Paying, Booking

\* The rows read become CONSUMED, of an order that is paid.
LEMMA ConsumeShares ==
  ASSUME PaymentTypeOK, Orders, SoldOnlyIfPaid, NEW L, pc \in [Handler -> L], SharedLabel \subseteq L,
         NEW h \in Handler, OrderKnows(h), Consume(h),
         \A a \in Attempt : attOrder[a] # None => status[attOrder[a]] # "NONE"
  PROVE  Shares(h) /\ Moved(h, L) /\ pc'[h] \in Paying \union {"idle"}
  <1>1. PICK a \in Attempt : a = work[h] /\ attOrder[a] \in Order /\ payStatus[attOrder[a]] = "PAID"
    BY DEF OrderKnows, Consume, Finalizing, Paying
  <1>2. PICK o \in Order : o = attOrder[a] /\ status[o] # "NONE"
    BY <1>1, OrderPaymentAssumption
  <1>3. UNCHANGED <<status, payStatus, attOrder, attState, bank, journal, outbox>>
    BY DEF Consume, effectVars
  <1>4. CASE UNCHANGED goods /\ Return(h)
    <2>1. Moved(h, L) /\ pc'[h] = "idle"
      BY <1>4, ReturnMoves DEF SharedLabel
    <2>2. PaymentTypeOK' /\ Orders' /\ SoldOnlyIfPaid' /\ OrderGrows
      BY <1>3, <1>4, <2>1, RowsStay DEF orderVars, effectVars
    <2>. QED  BY <1>3, <2>1, <2>2, IdleKnowsOrder DEF Shares, Moved
  <1>5. CASE ConsumeRows(h)
    <2>1. Moved(h, L) /\ pc'[h] = "book" /\ work'[h] = a
      BY <1>1, <1>5 DEF ConsumeRows, PaymentTypeOK, Moved, OnlyMoves,
         SharedLabel, Finalizing, Paying, Booking
    <2>2. PICK to \in [Batch -> Goods] :
            /\ goods' = [goods EXCEPT ![o] = to]
            /\ \A b \in Batch : to[b] = IF b \in rows[h] THEN "CONSUMED" ELSE goods[o][b]
      <3>. DEFINE t == [b \in Batch |-> IF b \in rows[h] THEN "CONSUMED" ELSE goods[o][b]]
      <3>1. t \in [Batch -> Goods] /\ goods' = [goods EXCEPT ![o] = t]
        BY <1>1, <1>2, <1>5 DEF ConsumeRows, Turn, PaymentTypeOK, Goods
      <3>2. \A b \in Batch : t[b] = IF b \in rows[h] THEN "CONSUMED" ELSE goods[o][b]
        OBVIOUS
      <3>3. PICK to \in [Batch -> Goods] : to = t
        BY <3>1
      <3>. QED  BY <3>1, <3>2, <3>3
    <2>3. to[0] # "NONE" /\ (goods[o][0] # "ACTIVE" => to[0] # "ACTIVE")
      BY <1>2, <2>2, BatchFacts DEF Orders
    <2>4. /\ status' \in [Order -> {"NONE", "PENDING", "PAID", "CANCELLED"}]
          /\ \A p \in Order : status'[p] = "NONE" <=> status[p] = "NONE"
      BY <1>3 DEF PaymentTypeOK
    <2>5. goods' \in [Order -> [Batch -> Goods]] /\ Orders' /\ SoldOnlyIfPaid' /\ OrderGrows
      <3>1. payStatus[o] = "PAID" /\ UNCHANGED payStatus
        BY <1>1, <1>2, <1>3
      <3>2. \A b \in Batch : goods[o][b] = "CONSUMED" => to[b] = "CONSUMED"
        BY <2>2
      <3>. QED  BY <1>2, <2>2, <2>3, <2>4, <3>1, <3>2, GoodsTurn
    <2>6. PaymentTypeOK'
      BY <1>3, <2>1, <2>5 DEF PaymentTypeOK, Moved
    <2>7. OrderKnows(h)'
      BY <1>1, <1>3, <2>1 DEF OrderKnows, Ordering, Finalizing, Paying, Booking
    <2>. QED  BY <1>3, <2>1, <2>5, <2>6, <2>7 DEF Shares, Moved, Paying, Booking
  <1>. QED  BY <1>4, <1>5 DEF Consume

-----------------------------------------------------------------------------
(* Whatever a statement does, what is paid or sold stays so *)

LEMMA GrowsStays == OrderGrows => PaidStays
  BY DEF OrderGrows, PaidStays, In

\* Goods released are not sold, and a statement that leaves both columns
\* alone takes nothing back.
LEMMA ReleaseStays ==
  ASSUME PaymentTypeOK, NEW o, Release(o), UNCHANGED payStatus
  PROVE  PaidStays
  BY DEF PaidStays, Release, Turn, In, PaymentTypeOK

LEMMA SameStays ==
  ASSUME UNCHANGED <<payStatus, goods>>
  PROVE  PaidStays
  BY DEF PaidStays, In
-----------------------------------------------------------------------------
(* The invariant of a payment by transfer *)

Examining == {"look", "expire", "expireAttempt", "expireGoods"}
Submitting == {"keyed", "order", "pending", "still", "correct"}
Writing == {"attempt", "create", "update", "review"}
Deciding == {"fresh", "approve", "reject", "rejectGoods", "decided"}
Label == SharedLabel \union Examining \union Submitting \union Writing \union Deciding

At(h) == IF pc[h] \in Examining THEN back[h] ELSE pc[h]

\* What a handler may rely on at its place in the code.
Knows(h) ==
    /\ OrderKnows(h)
    /\ At(h) \in Submitting \union Writing =>
         ord[h] \in Order /\ status[ord[h]] # "NONE" /\ work[h] \in Attempt
    /\ pc[h] \in Examining \union Deciding \union Finalizing \union {"keyed", "still", "update"} =>
         sub[h] \in Submission /\ subAttempt[sub[h]] # None
    /\ At(h) \in Deciding \union Finalizing \union {"update"} => work[h] = subAttempt[sub[h]]
    /\ At(h) \in Submitting /\ choice[h] = "KNOWN" => attOrder[work[h]] # None
    /\ At(h) \in {"create", "review"} => attOrder[work[h]] # None
    /\ At(h) \in Deciding \union Finalizing => choice[h] \in Decision
    /\ pc[h] \in {"approve"} \union Finalizing => choice[h] = "APPROVED"
    /\ pc[h] \in {"reject", "rejectGoods"} => choice[h] = "REJECTED"
    /\ pc[h] = "decided" /\ choice[h] = "APPROVED" => payStatus[attOrder[work[h]]] = "PAID"
    /\ pc[h] = "decided" /\ choice[h] = "REJECTED" => goods[attOrder[work[h]]][0] # "ACTIVE"

Attempts ==
    \A a \in Attempt : /\ attOrder[a] = None <=> attState[a] = "NONE"
                       /\ attOrder[a] # None => status[attOrder[a]] # "NONE"

Submissions ==
    \A s \in Submission : /\ subAttempt[s] # None <=> subState[s] # "NONE"
                          /\ subAttempt[s] # None => attOrder[subAttempt[s]] # None

\* Rows are numbered as they are created.
Numbered ==
    \E n \in 0..MaxSubmissions : \A s \in Submission : subAttempt[s] # None <=> s <= n

\* The rows alone, without the handlers.
Data ==
    /\ PaymentTypeOK
    /\ subState \in [Submission -> Decidable \union Final \union {"NONE"}]
    /\ subAttempt \in [Submission -> Attempt \union {None}]
    /\ late \subseteq Order /\ overdue \subseteq Attempt
    /\ Orders /\ Attempts /\ Submissions /\ Numbered
    /\ SoldOnlyIfPaid /\ ApprovedIsPaid /\ RejectedHoldsNothing

Inv == TypeOK /\ Data /\ \A h \in Handler : Knows(h)

\* What no step takes back.
Grows ==
    /\ OrderGrows
    /\ \A a \in Attempt : attOrder[a] # None => attOrder'[a] = attOrder[a]
    /\ \A s \in Submission : subAttempt[s] # None => subAttempt'[s] = subAttempt[s]

\* Only h acts, and its variables keep their types.
Acts(h) ==
    /\ Moved(h, Label)
    /\ sub' \in [Handler -> Submission \union {None}]
    /\ seen' \in [Handler -> Decidable \union Final \union {None}]
    /\ choice' \in [Handler -> Decision \union {"NEW", "KNOWN", None}]
    /\ back' \in [Handler -> {"keyed", "still", "fresh", "answer"}]
    /\ \A g \in Handler : g # h => sub'[g] = sub[g] /\ choice'[g] = choice[g] /\ back'[g] = back[g]

-----------------------------------------------------------------------------
(* The frame of a step *)

LEMMA LabelFacts ==
  /\ TypeOK <=> /\ PaymentTypeOK /\ pc \in [Handler -> Label]
                /\ subState \in [Submission -> Decidable \union Final \union {"NONE"}]
                /\ subAttempt \in [Submission -> Attempt \union {None}]
                /\ late \subseteq Order /\ overdue \subseteq Attempt
                /\ sub \in [Handler -> Submission \union {None}]
                /\ seen \in [Handler -> Decidable \union Final \union {None}]
                /\ choice \in [Handler -> Decision \union {"NEW", "KNOWN", None}]
                /\ back \in [Handler -> {"keyed", "still", "fresh", "answer"}]
  /\ SharedLabel \subseteq Label
  <1>1. Label = {"idle", "placed", "cancel", "edit", "edited",
                 "look", "expire", "expireAttempt", "expireGoods",
                 "keyed", "order", "pending", "still", "correct", "attempt",
                 "create", "update", "review",
                 "fresh", "approve", "reject", "rejectGoods", "decided",
                 "settle", "reserved", "consume", "book", "record", "publish", "finalized"}
    BY DEF Label, SharedLabel, Ordering, Finalizing, Paying, Booking,
       Examining, Submitting, Writing, Deciding
  <1>. QED  BY <1>1 DEF TypeOK, Label

LEMMA Labels ==
  SharedLabel \union Examining \union Submitting \union Writing \union Deciding \subseteq Label
  BY DEF Label

\* The order of an attempt, and of a submission, exists.
LEMMA RowFacts ==
  ASSUME Data
  PROVE  /\ \A a \in Attempt : attOrder[a] # None => attOrder[a] \in Order /\ status[attOrder[a]] # "NONE"
         /\ \A s \in Submission : subAttempt[s] # None =>
              /\ subAttempt[s] \in Attempt /\ OrderOf(s) \in Order /\ OrderOf(s) # None
              /\ status[OrderOf(s)] # "NONE" /\ goods[OrderOf(s)][0] # "NONE"
              /\ subState[s] \in Decidable \union Final
  <1>1. \A a \in Attempt : attOrder[a] # None => attOrder[a] \in Order /\ status[attOrder[a]] # "NONE"
    BY DEF Data, PaymentTypeOK, Attempts
  <1>. QED  BY <1>1 DEF Data, Submissions, OrderOf, Orders

\* What a handler knows stays true while another acts.
LEMMA Bystander ==
  ASSUME Inv, Grows, NEW h \in Handler, Acts(h), NEW g \in Handler, g # h
  PROVE  Knows(g)'
  <1>1. /\ pc'[g] = pc[g] /\ ord'[g] = ord[g] /\ work'[g] = work[g] /\ At(g)' = At(g)
        /\ sub'[g] = sub[g] /\ choice'[g] = choice[g]
    BY DEF Acts, Moved, OnlyMoves, At
  <1>2. Knows(g) /\ OrderKnows(g) /\ Data
    BY DEF Inv, Knows
  <1>3. OrderKnows(g)'
    BY <1>1, <1>2, OrderPaymentAssumption DEF OrderKnows, Grows, OrderGrows, Finalizing
  <1>4. At(g) \in Submitting \union Writing => status'[ord[g]] # "NONE"
    BY <1>2 DEF Knows, Grows, OrderGrows
  <1>5. pc[g] \in Examining \union Deciding \union Finalizing \union {"keyed", "still", "update"} =>
          /\ subAttempt'[sub[g]] = subAttempt[sub[g]] /\ subAttempt'[sub[g]] # None
          /\ attOrder'[subAttempt[sub[g]]] = OrderOf(sub[g]) /\ OrderOf(sub[g]) \in Order
          /\ goods[OrderOf(sub[g])][0] # "NONE"
    BY <1>2, RowFacts DEF Knows, Grows, OrderOf
  <1>6. At(g) \in Deciding \union Finalizing \union {"update"} =>
          pc[g] \in Examining \union Deciding \union Finalizing \union {"keyed", "still", "update"}
    BY DEF At
  <1>7. /\ At(g) \in Submitting /\ choice[g] = "KNOWN" => attOrder'[work[g]] # None
        /\ At(g) \in {"create", "review"} => attOrder'[work[g]] # None
    BY <1>2 DEF Knows, Grows, Writing
  <1>8. pc[g] = "decided" => At(g) = "decided" /\ work[g] = subAttempt[sub[g]]
    BY <1>2 DEF Knows, At, Examining, Deciding
  <1>9. pc[g] = "decided" /\ choice[g] = "APPROVED" => payStatus'[attOrder'[work[g]]] = "PAID"
    BY <1>2, <1>5, <1>8 DEF Knows, Grows, OrderGrows, OrderOf, Deciding
  <1>10. pc[g] = "decided" /\ choice[g] = "REJECTED" => goods'[attOrder'[work[g]]][0] # "ACTIVE"
    BY <1>2, <1>5, <1>8 DEF Knows, Grows, OrderGrows, OrderOf, Deciding
  <1>. QED
    BY <1>1, <1>2, <1>3, <1>4, <1>5, <1>6, <1>7, <1>9, <1>10 DEF Knows

LEMMA HandlerStep ==
  ASSUME Inv, NEW h \in Handler, Acts(h), Data', Grows, Knows(h)'
  PROVE  Inv'
  <1>1. ASSUME NEW g \in Handler PROVE Knows(g)'
    <2>1. CASE g = h
      BY <2>1
    <2>2. CASE g # h
      BY <2>2, Bystander
    <2>. QED  BY <2>1, <2>2
  <1>2. TypeOK'
    <2>1. /\ PaymentTypeOK' /\ pc' \in [Handler -> Label]
          /\ subState' \in [Submission -> Decidable \union Final \union {"NONE"}]
          /\ subAttempt' \in [Submission -> Attempt \union {None}]
          /\ late' \subseteq Order /\ overdue' \subseteq Attempt
      BY DEF Data, Acts, Moved
    <2>2. (TypeOK <=> /\ PaymentTypeOK /\ pc \in [Handler -> Label]
                /\ subState \in [Submission -> Decidable \union Final \union {"NONE"}]
                /\ subAttempt \in [Submission -> Attempt \union {None}]
                /\ late \subseteq Order /\ overdue \subseteq Attempt
                /\ sub \in [Handler -> Submission \union {None}]
                /\ seen \in [Handler -> Decidable \union Final \union {None}]
                /\ choice \in [Handler -> Decision \union {"NEW", "KNOWN", None}]
                /\ back \in [Handler -> {"keyed", "still", "fresh", "answer"}])'
      BY LabelFacts, PTL
    <2>. QED  BY <2>1, <2>2 DEF Acts
  <1>. QED  BY <1>1, <1>2 DEF Inv

\* A handler that ends needs to know nothing.
LEMMA IdleKnows ==
  ASSUME NEW h \in Handler, pc'[h] = "idle"
  PROVE  Knows(h)'
  BY IdleKnowsOrder DEF Knows, At, Examining, Submitting, Writing, Deciding, Finalizing, Paying, Booking

-----------------------------------------------------------------------------
(* Moves of a handler *)

Stays(h) ==
    /\ ord'[h] = ord[h] /\ work'[h] = work[h]
    /\ sub'[h] = sub[h] /\ choice'[h] = choice[h]

LEMMA GoFacts ==
  ASSUME TypeOK, NEW h \in Handler, NEW l \in (Label \ {"idle"}) \union {"answer"}, Go(h, l)
  PROVE  /\ Acts(h)
         /\ IF l = "answer" THEN pc'[h] = "idle"
                            ELSE pc'[h] = l /\ Stays(h) /\ back'[h] = back[h]
  <1>1. CASE l = "answer"
    <2>1. Moved(h, Label) /\ pc'[h] = "idle"
      BY <1>1, LabelFacts, ReturnMoves DEF Go, SharedLabel
    <2>. QED  BY <1>1, <2>1, LabelFacts DEF Go, Forget, Acts
  <1>2. CASE l # "answer"
    <2>1. Moved(h, Label) /\ pc'[h] = l /\ ord'[h] = ord[h] /\ work'[h] = work[h]
      BY <1>2, LabelFacts, GotoMoves DEF Go
    <2>. QED  BY <1>2, <2>1, LabelFacts DEF Go, localVars, Acts, Stays
  <1>. QED  BY <1>1, <1>2

LEMMA ResumeFacts ==
  ASSUME TypeOK, NEW h \in Handler, Resume(h)
  PROVE  /\ Acts(h)
         /\ IF back[h] = "answer" THEN pc'[h] = "idle"
                                  ELSE pc'[h] = back[h] /\ Stays(h)
  <1>1. CASE back[h] = "answer"
    <2>1. Moved(h, Label) /\ pc'[h] = "idle"
      BY <1>1, LabelFacts, ReturnMoves DEF Resume, SharedLabel
    <2>. QED  BY <1>1, <2>1, LabelFacts DEF Resume, Forget, Acts
  <1>2. CASE back[h] # "answer"
    <2>1. back[h] \in Label
      BY <1>2, LabelFacts DEF Label, Submitting, Deciding
    <2>2. Moved(h, Label) /\ pc'[h] = back[h] /\ ord'[h] = ord[h] /\ work'[h] = work[h]
      BY <1>2, <2>1, LabelFacts, GotoMoves DEF Resume
    <2>. QED  BY <1>2, <2>2, LabelFacts DEF Resume, Acts, Stays
  <1>. QED  BY <1>1, <1>2

\* Coming back from an examination, a handler knows what it had to know.
LEMMA ResumeKnows ==
  ASSUME Inv, Grows, NEW h \in Handler, Resume(h), pc[h] \in Examining
  PROVE  Acts(h) /\ Knows(h)'
  <1>1. TypeOK /\ Data /\ Knows(h)
    BY DEF Inv
  <1>2. /\ Acts(h)
        /\ IF back[h] = "answer" THEN pc'[h] = "idle" ELSE pc'[h] = back[h] /\ Stays(h)
    BY <1>1, ResumeFacts
  <1>3. CASE back[h] = "answer"
    BY <1>2, <1>3, IdleKnows
  <1>4. CASE back[h] # "answer"
    <2>1. /\ pc'[h] = back[h] /\ back[h] \in {"keyed", "still", "fresh"}
          /\ At(h) = back[h] /\ At(h)' = back[h]
      BY <1>1, <1>2, <1>4, LabelFacts DEF At, Examining
    <2>2. /\ sub[h] \in Submission /\ subAttempt[sub[h]] # None
          /\ subAttempt'[sub[h]] = subAttempt[sub[h]]
      BY <1>1 DEF Knows, Grows
    <2>3. OrderKnows(h)'
      BY <2>1 DEF OrderKnows, Ordering, Finalizing, Paying, Booking
    <2>4. CASE back[h] \in {"keyed", "still"}
      <3>1. /\ ord[h] \in Order /\ status'[ord[h]] # "NONE" /\ work[h] \in Attempt
            /\ choice[h] = "KNOWN" => attOrder'[work[h]] # None
        BY <1>1, <2>1, <2>4 DEF Knows, Grows, OrderGrows, Submitting
      <3>. QED  BY <1>2, <2>1, <2>2, <2>3, <2>4, <3>1
           DEF Knows, Stays, Submitting, Writing, Deciding, Examining, Finalizing, Paying, Booking
    <2>5. CASE back[h] = "fresh"
      <3>1. work[h] = subAttempt[sub[h]] /\ choice[h] \in Decision
        BY <1>1, <2>1, <2>5 DEF Knows, Deciding
      <3>. QED  BY <1>2, <2>1, <2>2, <2>3, <2>5, <3>1
           DEF Knows, Stays, Submitting, Writing, Deciding, Examining, Finalizing, Paying, Booking
    <2>. QED  BY <2>1, <2>4, <2>5
  <1>. QED  BY <1>2, <1>3, <1>4

-----------------------------------------------------------------------------
(* What the statements do to the rows *)

\* Submissions stay as they are while orders and attempts go on.
LEMMA SharedData ==
  ASSUME Data, PaymentTypeOK', Orders', SoldOnlyIfPaid', OrderGrows, UNCHANGED rowVars,
         \A a \in Attempt : attOrder[a] # None => attOrder'[a] = attOrder[a],
         Attempts'
  PROVE  Data' /\ Grows
  <1>1. UNCHANGED <<subState, subAttempt, late, overdue>>
    BY DEF rowVars
  <1>2. \A s \in Submission : subAttempt[s] # None =>
           /\ attOrder'[subAttempt[s]] = OrderOf(s) /\ OrderOf(s) \in Order /\ OrderOf(s) # None
           /\ goods[OrderOf(s)][0] # "NONE"
    BY RowFacts DEF OrderOf, Data, Submissions
  <1>3. Submissions' /\ Numbered'
    BY <1>1, <1>2 DEF Data, Submissions, Numbered
  <1>4. ApprovedIsPaid'
    BY <1>1, <1>2 DEF Data, Submissions, ApprovedIsPaid, OrderOf, OrderGrows
  <1>5. RejectedHoldsNothing'
    <2>1. \A s \in Submission : subState[s] = "REJECTED" => goods[OrderOf(s)][0] # "ACTIVE"
      BY BatchFacts DEF Data, RejectedHoldsNothing, In
    <2>2. \A s \in Submission : subState[s] = "REJECTED" => goods'[attOrder'[subAttempt[s]]][0] # "ACTIVE"
      BY <1>2, <2>1 DEF Data, Submissions, OrderGrows
    <2>. QED  BY <1>1, <2>2 DEF RejectedHoldsNothing, In, OrderOf
  <1>. QED  BY <1>1, <1>3, <1>4, <1>5 DEF Data, Grows

LEMMA SameData ==
  ASSUME Data, NEW h \in Handler, Moved(h, Label),
         UNCHANGED <<orderVars, attOrder, attState, effectVars, rowVars>>
  PROVE  Data' /\ Grows
  <1>1. PaymentTypeOK' /\ Orders' /\ SoldOnlyIfPaid' /\ OrderGrows
    BY RowsStay DEF Data
  <1>2. Attempts'
    BY DEF Data, Attempts, orderVars
  <1>. QED  BY <1>1, <1>2, SharedData

\* An attempt that exists goes into another state.
LEMMA AttemptData ==
  ASSUME Data, NEW h \in Handler, Moved(h, Label),
         NEW a \in Attempt, attOrder[a] # None, NEW v \in AttemptState \ {"NONE"}, SetState(a, v),
         UNCHANGED <<orderVars, attOrder, effectVars, rowVars>>
  PROVE  Data' /\ Grows
  <1>1. UNCHANGED <<status, payStatus, goods, attOrder, bank, journal, outbox>>
    BY DEF orderVars, effectVars
  <1>2. attState' \in [Attempt -> AttemptState] /\ \A b \in Attempt :
           attState'[b] = IF b = a THEN v ELSE attState[b]
    BY DEF Data, PaymentTypeOK, SetState
  <1>3. PaymentTypeOK'
    BY <1>1, <1>2 DEF Data, PaymentTypeOK, Moved
  <1>4. Orders' /\ SoldOnlyIfPaid' /\ OrderGrows
    BY <1>1 DEF Data, Orders, SoldOnlyIfPaid, In, OrderGrows
  <1>5. Attempts'
    BY <1>1, <1>2 DEF Data, Attempts
  <1>. QED  BY <1>1, <1>3, <1>4, <1>5, SharedData

\* The goods of an order that exists are released.
LEMMA ReleaseData ==
  ASSUME Data, NEW h \in Handler, Moved(h, Label), NEW o \in Order, status[o] # "NONE", Release(o),
         UNCHANGED <<status, payStatus, attOrder, attState, effectVars, rowVars>>
  PROVE  Data' /\ Grows /\ goods'[o][0] # "ACTIVE"
  <1>1. UNCHANGED <<status, payStatus, attOrder, attState, bank, journal, outbox>>
    BY DEF effectVars
  <1>2. /\ goods' \in [Order -> [Batch -> Goods]] /\ Orders' /\ SoldOnlyIfPaid' /\ OrderGrows
        /\ goods'[o][0] # "ACTIVE"
    <2>1. /\ status' \in [Order -> {"NONE", "PENDING", "PAID", "CANCELLED"}]
          /\ \A p \in Order : status'[p] = "NONE" <=> status[p] = "NONE"
      BY <1>1 DEF Data, PaymentTypeOK
    <2>. QED  BY <1>1, <2>1, ReleaseTurns DEF Data
  <1>3. PaymentTypeOK'
    BY <1>1, <1>2 DEF Data, PaymentTypeOK, Moved
  <1>4. Attempts'
    BY <1>1 DEF Data, Attempts
  <1>. QED  BY <1>1, <1>2, <1>3, <1>4, SharedData

\* A submission that exists goes into another state, which tells the truth.
LEMMA SubmissionData ==
  ASSUME Data, NEW h \in Handler, Moved(h, Label),
         NEW s \in Submission, subAttempt[s] # None, NEW v \in Decidable \union Final,
         subState' = [subState EXCEPT ![s] = v],
         v = "APPROVED" => payStatus[OrderOf(s)] = "PAID",
         v = "REJECTED" => goods[OrderOf(s)][0] # "ACTIVE",
         UNCHANGED <<orderVars, attOrder, attState, effectVars, subAttempt, late, overdue>>
  PROVE  Data' /\ Grows
  <1>1. UNCHANGED <<status, payStatus, goods, attOrder, attState, subAttempt, late, overdue>>
    BY DEF orderVars
  <1>2. PaymentTypeOK' /\ Orders' /\ SoldOnlyIfPaid' /\ OrderGrows
    BY RowsStay DEF Data
  <1>3. /\ subState' \in [Submission -> Decidable \union Final \union {"NONE"}]
        /\ \A t \in Submission : subState'[t] = IF t = s THEN v ELSE subState[t]
        /\ v # "NONE"
    BY DEF Data, Decidable, Pending, Final
  <1>4. Attempts' /\ Submissions' /\ Numbered'
    BY <1>1, <1>3 DEF Data, Attempts, Submissions, Numbered
  <1>5. ApprovedIsPaid'
    BY <1>1, <1>3 DEF Data, ApprovedIsPaid, OrderOf
  <1>6. RejectedHoldsNothing'
    <2>1. \A t \in Submission : subState[t] = "REJECTED" => goods[OrderOf(t)][0] # "ACTIVE"
      BY BatchFacts DEF Data, RejectedHoldsNothing, In
    <2>. QED  BY <1>1, <1>3, <2>1 DEF RejectedHoldsNothing, In, OrderOf
  <1>. QED  BY <1>1, <1>2, <1>3, <1>4, <1>5, <1>6 DEF Data, Grows

-----------------------------------------------------------------------------
(* Orders, and finalizePaid *)

\* What the shared modules' statements do, this module's handlers bear.
LEMMA SharedSame ==
  ASSUME Inv, NEW h \in Handler, Shares(h), Moved(h, Label), UNCHANGED rowVars
  PROVE  Data' /\ Grows
  <1>1. PaymentTypeOK' /\ Orders' /\ SoldOnlyIfPaid' /\ OrderGrows /\ attOrder' = attOrder
    BY DEF Shares
  <1>2. Attempts'
    BY <1>1, RowFacts DEF Inv, Data, Attempts, Shares, OrderGrows
  <1>. QED  BY <1>1, <1>2, SharedData DEF Inv

LEMMA OrderRequestInv ==
  ASSUME Inv, NEW h \in Handler, OrderRequest(h), UNCHANGED cardVars
  PROVE  Inv'
  <1>1. TypeOK /\ Data /\ UNCHANGED <<rowVars, sub, seen, choice, back>>
    BY DEF Inv, cardVars, localVars
  <1>2. Shares(h) /\ Moved(h, Label) /\ pc'[h] \in Ordering
    BY <1>1, LabelFacts, PlaceShares, CheckShares DEF OrderRequest, Data, Ordering
  <1>3. Acts(h)
    BY <1>1, <1>2, LabelFacts DEF Acts
  <1>4. Data' /\ Grows
    BY <1>1, <1>2, SharedSame
  <1>5. Knows(h)'
    BY <1>2 DEF Shares, Knows, At, Ordering, Examining, Submitting, Writing, Deciding,
       Finalizing, Paying, Booking
  <1>. QED  BY <1>3, <1>4, <1>5, HandlerStep

\* The labels a shared statement runs at and leads to.
LEMMA SharedFacts ==
  ASSUME Inv, NEW h \in Handler, OrderStep(h)
  PROVE  /\ Shares(h) /\ Moved(h, Label)
         /\ \/ pc'[h] \in {"idle", "edited"}
            \/ pc[h] \in Finalizing /\ pc'[h] \in Paying /\ work'[h] = work[h]
  <1>1. /\ Data /\ OrderKnows(h) /\ TypeOK
        /\ PaymentTypeOK /\ Orders /\ SoldOnlyIfPaid /\ pc \in [Handler -> Label] /\ SharedLabel \subseteq Label
        /\ \A a \in Attempt : attOrder[a] # None => status[attOrder[a]] # "NONE"
    BY LabelFacts DEF Inv, Knows, Data, Attempts
  <1>2. CASE PublishCreated(h) \/ PublishEdited(h) \/ CancelWrite(h) \/ EditWrite(h)
    BY <1>1, <1>2, EventShares, CancelShares, EditShares
  <1>3. CASE MarkPaid(h)
    <2>1. work'[h] = work[h] /\ pc[h] = "settle"
      BY <1>3 DEF MarkPaid, Goto
    <2>. QED  BY <1>1, <1>3, <2>1, MarkPaidShares DEF Finalizing, Paying
  <1>4. CASE Consume(h)
    <2>1. pc[h] = "consume" /\ (pc'[h] \in Paying => work'[h] = work[h])
      BY <1>1, <1>4, LabelFacts DEF Consume, ConsumeRows, Return, Paying, Booking
    <2>. QED  BY <1>1, <1>4, <2>1, ConsumeShares DEF Finalizing, Paying
  <1>5. CASE ReadReservation(h) \/ PostSaleJournal(h) \/ RecordPaid(h) \/ PublishPaid(h)
    <2>1. pc[h] \in Paying /\ (pc'[h] \in Paying => work'[h] = work[h])
      BY <1>1, <1>5, LabelFacts
         DEF ReadReservation, PostSaleJournal, RecordPaid, PublishPaid, Goto, Return, Paying, Booking
    <2>. QED  BY <1>1, <1>5, <2>1, PayingShares DEF Finalizing
  <1>. QED  BY <1>2, <1>3, <1>4, <1>5 DEF OrderStep

LEMMA SharedInv ==
  ASSUME Inv, NEW h \in Handler, Shared(h)
  PROVE  Inv'
  <1>1. /\ TypeOK /\ Knows(h) /\ Shares(h) /\ Moved(h, Label) /\ UNCHANGED rowVars
        /\ \/ pc'[h] \in {"idle", "edited"}
           \/ pc[h] \in Finalizing /\ pc'[h] \in Paying /\ work'[h] = work[h]
    BY SharedFacts DEF Shared, Inv
  <1>2. Data' /\ Grows
    BY <1>1, SharedSame
  <1>3. CASE pc'[h] = "idle"
    <2>1. Acts(h)
      BY <1>1, <1>3, LabelFacts DEF Shared, Forget, Acts
    <2>. QED  BY <1>2, <1>3, <2>1, IdleKnows, HandlerStep
  <1>4. CASE pc'[h] # "idle"
    <2>1. UNCHANGED <<sub, seen, choice, back>> /\ Acts(h)
      BY <1>1, <1>4, LabelFacts DEF Shared, localVars, Acts
    <2>2. CASE pc'[h] = "edited"
      BY <1>1, <1>2, <2>1, <2>2, HandlerStep DEF Shares, Knows, At, Examining, Submitting,
         Writing, Deciding, Finalizing, Paying, Booking
    <2>3. CASE pc[h] \in Finalizing /\ pc'[h] \in Paying /\ work'[h] = work[h]
      <3>1. /\ sub[h] \in Submission /\ subAttempt[sub[h]] # None /\ At(h) = pc[h]
            /\ work[h] = subAttempt[sub[h]] /\ choice[h] = "APPROVED"
        BY <1>1, <2>3 DEF Knows, At, Examining, Finalizing, Paying, Booking
      <3>2. subAttempt'[sub[h]] = subAttempt[sub[h]]
        BY <1>1 DEF rowVars
      <3>3. Knows(h)'
        BY <1>1, <2>1, <2>3, <3>1, <3>2 DEF Shares, Knows, At, Examining, Submitting,
           Writing, Deciding, Decision, Finalizing, Paying, Booking
      <3>. QED  BY <1>2, <2>1, <3>3, HandlerStep
    <2>. QED  BY <1>1, <1>4, <2>2, <2>3
  <1>. QED  BY <1>3, <1>4

-----------------------------------------------------------------------------
(* Steps that only read *)

\* A handler that goes on, having read.
LEMMA ReadingStep ==
  ASSUME Inv, NEW h \in Handler, Acts(h), Knows(h)',
         UNCHANGED <<orderVars, attOrder, attState, effectVars, rowVars>>
  PROVE  Inv'
  BY SameData, HandlerStep DEF Inv, Acts

\* Where Go leads to the answer, nothing need be known.
LEMMA AnswerStep ==
  ASSUME Inv, NEW h \in Handler, Go(h, "answer"),
         UNCHANGED <<orderVars, attOrder, attState, effectVars, rowVars>>
  PROVE  Inv'
  <1>1. Acts(h) /\ pc'[h] = "idle"
    BY GoFacts DEF Inv
  <1>. QED  BY <1>1, IdleKnows, ReadingStep

\* What a submission's handler reads when it comes to it.
LEMMA ExamineFacts ==
  ASSUME Inv, NEW h \in Handler, NEW s \in Submission, subAttempt[s] # None,
         NEW l \in {"keyed", "still", "fresh", "answer"}, Examine(h, s, l), Moved(h, Label),
         choice' \in [Handler -> Decision \union {"NEW", "KNOWN", None}],
         \A g \in Handler : g # h => choice'[g] = choice[g]
  PROVE  Acts(h) /\ sub'[h] = s /\ back'[h] = l
  <1>1. subState[s] \in Decidable \union Final
    BY RowFacts DEF Inv
  <1>. QED  BY <1>1, LabelFacts DEF Inv, Examine, Acts

LEMMA ExaminingKnows ==
  ASSUME NEW h \in Handler, pc'[h] \in Examining,
         back'[h] \in {"keyed", "still", "fresh", "answer"},
         sub'[h] \in Submission, subAttempt'[sub'[h]] # None,
         back'[h] \in {"keyed", "still"} =>
           /\ ord'[h] \in Order /\ status'[ord'[h]] # "NONE" /\ work'[h] \in Attempt
           /\ choice'[h] = "KNOWN" => attOrder'[work'[h]] # None,
         back'[h] = "fresh" => work'[h] = subAttempt'[sub'[h]] /\ choice'[h] \in Decision
  PROVE  Knows(h)'
  <1>1. /\ pc'[h] \notin Ordering \union Finalizing \union Deciding \union Submitting \union Writing
        /\ back'[h] \notin Writing \union Finalizing
        /\ back'[h] \in Submitting <=> back'[h] \in {"keyed", "still"}
        /\ back'[h] \in Deciding <=> back'[h] = "fresh"
    BY DEF Ordering, Examining, Submitting, Writing, Deciding, Finalizing, Paying, Booking
  <1>2. OrderKnows(h)'
    BY <1>1 DEF OrderKnows, Finalizing
  <1>3. At(h)' = back'[h]
    BY DEF At
  <1>. QED  BY <1>1, <1>2, <1>3 DEF Knows, Finalizing, Paying, Booking, Deciding, Writing

\* A handler on its way through the reads of submit.
LEMMA SubmittingKnows ==
  ASSUME NEW h \in Handler, pc'[h] \in {"order", "pending", "correct"},
         ord'[h] \in Order, status'[ord'[h]] # "NONE", work'[h] \in Attempt,
         choice'[h] = "KNOWN" => attOrder'[work'[h]] # None
  PROVE  Knows(h)'
  <1>1. /\ pc'[h] \notin Ordering \union Finalizing \union Deciding \union Writing \union Examining
        /\ pc'[h] \notin {"keyed", "still", "update", "decided", "approve", "reject", "rejectGoods"}
    BY DEF Ordering, Examining, Submitting, Writing, Deciding, Finalizing, Paying, Booking
  <1>2. OrderKnows(h)'
    BY <1>1 DEF OrderKnows, Finalizing
  <1>3. At(h)' = pc'[h]
    BY <1>1 DEF At
  <1>. QED  BY <1>1, <1>2, <1>3 DEF Knows, Writing

LEMMA ShowInv ==
  ASSUME Inv, NEW h \in Handler, NEW s \in Submission, Show(h, s)
  PROVE  Inv'
  <1>1. /\ TypeOK /\ subAttempt[s] # None /\ Begin(h, "look", None, None)
        /\ Examine(h, s, "answer") /\ UNCHANGED choice
        /\ UNCHANGED <<orderVars, attOrder, attState, effectVars, rowVars>>
    BY DEF Inv, Show
  <1>2. Moved(h, Label) /\ pc'[h] = "look"
    BY <1>1, LabelFacts, Labels, BeginMoves DEF Examining
  <1>3. Acts(h) /\ sub'[h] = s /\ back'[h] = "answer"
    BY <1>1, <1>2, LabelFacts, ExamineFacts
  <1>4. Knows(h)'
    BY <1>1, <1>2, <1>3, ExaminingKnows DEF rowVars, Examining
  <1>. QED  BY <1>1, <1>3, <1>4, ReadingStep

LEMMA DecideInv ==
  ASSUME Inv, NEW h \in Handler, NEW s \in Submission, NEW d \in Decision, Decide(h, s, d)
  PROVE  Inv'
  <1>1. /\ TypeOK /\ subAttempt[s] # None /\ Begin(h, "look", None, subAttempt[s])
        /\ Examine(h, s, "fresh") /\ choice' = [choice EXCEPT ![h] = d]
        /\ UNCHANGED <<orderVars, attOrder, attState, effectVars, rowVars>>
    BY DEF Inv, Decide
  <1>2. subAttempt[s] \in Attempt
    BY <1>1, LabelFacts
  <1>3. PICK a \in Attempt : a = subAttempt[s]
    BY <1>2
  <1>4. Moved(h, Label) /\ pc'[h] = "look" /\ work'[h] = a
    BY <1>1, <1>3, LabelFacts, Labels, BeginMoves DEF Examining
  <1>5. Acts(h) /\ sub'[h] = s /\ back'[h] = "fresh" /\ choice'[h] = d
    BY <1>1, <1>4, LabelFacts, ExamineFacts
  <1>6. Knows(h)'
    BY <1>1, <1>3, <1>4, <1>5, ExaminingKnows DEF rowVars, Examining
  <1>. QED  BY <1>1, <1>5, <1>6, ReadingStep

LEMMA SubmitInv ==
  ASSUME Inv, NEW h \in Handler, NEW o \in Order, NEW a \in Attempt, Submit(h, o, a)
  PROVE  Inv'
  <1>1. /\ TypeOK /\ Data /\ status[o] # "NONE"
        /\ choice' = [choice EXCEPT ![h] = IF attState[a] = "NONE" THEN "NEW" ELSE "KNOWN"]
        /\ UNCHANGED <<orderVars, attOrder, attState, effectVars, rowVars>>
    BY DEF Inv, Submit
  <1>2. /\ choice' \in [Handler -> Decision \union {"NEW", "KNOWN", None}]
        /\ \A g \in Handler : g # h => choice'[g] = choice[g]
        /\ choice'[h] = "KNOWN" => attOrder[a] # None
    BY <1>1, LabelFacts DEF Data, Attempts
  <1>3. CASE Begin(h, "order", o, a) /\ UNCHANGED <<sub, seen, back>>
    <2>1. Moved(h, Label) /\ pc'[h] = "order" /\ ord'[h] = o /\ work'[h] = a
      <3>1. "order" \in Label /\ PaymentTypeOK /\ pc \in [Handler -> Label]
        BY <1>1, LabelFacts, Labels DEF Submitting
      <3>. QED  BY <1>3, <3>1, BeginMoves
    <2>2. Acts(h)
      BY <1>2, <1>3, <2>1, <1>1, LabelFacts DEF Acts
    <2>3. Knows(h)'
      BY <1>1, <1>2, <2>1, SubmittingKnows DEF orderVars
    <2>. QED  BY <1>1, <2>2, <2>3, ReadingStep
  <1>4. ASSUME NEW s \in Submission, subAttempt[s] = a, Begin(h, "look", o, a), Examine(h, s, "keyed")
        PROVE  Inv'
    <2>1. Moved(h, Label) /\ pc'[h] = "look" /\ ord'[h] = o /\ work'[h] = a
      BY <1>1, <1>4, LabelFacts, Labels, BeginMoves DEF Examining
    <2>2. subAttempt[s] # None
      BY <1>4, OrderPaymentAssumption
    <2>3. Acts(h) /\ sub'[h] = s /\ back'[h] = "keyed"
      BY <1>2, <1>4, <2>1, <2>2, ExamineFacts
    <2>4. Knows(h)'
      BY <1>1, <1>2, <2>1, <2>2, <2>3, ExaminingKnows DEF orderVars, rowVars, Examining
    <2>. QED  BY <1>1, <2>3, <2>4, ReadingStep
  <1>. QED  BY <1>3, <1>4 DEF Submit

LEMMA LookInv ==
  ASSUME Inv, NEW h \in Handler, Look(h)
  PROVE  Inv'
  <1>1. /\ TypeOK /\ Data /\ Knows(h) /\ pc[h] = "look"
        /\ UNCHANGED <<orderVars, attOrder, attState, effectVars, rowVars>>
    BY DEF Inv, Look
  <1>2. CASE Go(h, "expire")
    <2>1. Acts(h) /\ pc'[h] = "expire" /\ Stays(h) /\ back'[h] = back[h]
      BY <1>1, <1>2, GoFacts DEF Label, Examining, SharedLabel, Ordering, Finalizing, Paying, Booking
    <2>2. Knows(h)'
      <3>1. At(h) = back[h] /\ back[h] \in {"keyed", "still", "fresh", "answer"}
        BY <1>1, LabelFacts DEF At, Examining
      <3>. QED  BY <1>1, <2>1, <3>1, ExaminingKnows
                DEF rowVars, orderVars, Stays, Knows, Examining, Submitting, Deciding
    <2>. QED  BY <1>1, <2>1, <2>2, ReadingStep
  <1>3. CASE Resume(h)
    <2>1. Moved(h, Label)
      BY <1>1, <1>3, ResumeFacts DEF Acts
    <2>2. Grows
      BY <1>1, <2>1, SameData
    <2>3. Acts(h) /\ Knows(h)'
      BY <1>1, <1>3, <2>2, ResumeKnows DEF Examining
    <2>. QED  BY <1>1, <2>3, ReadingStep
  <1>. QED  BY <1>2, <1>3 DEF Look

\* A submitting handler goes on to the next place of its chain.
LEMMA SubmittingStep ==
  ASSUME Inv, NEW h \in Handler, pc[h] \in Submitting,
         NEW l \in {"order", "pending", "correct"}, Go(h, l),
         UNCHANGED <<orderVars, attOrder, attState, effectVars, rowVars>>
  PROVE  Inv'
  <1>1. TypeOK /\ Knows(h) /\ At(h) = pc[h]
    BY DEF Inv, At, Submitting, Examining
  <1>2. Acts(h) /\ pc'[h] = l /\ Stays(h)
    BY <1>1, GoFacts DEF Label, Submitting, SharedLabel, Ordering, Finalizing, Paying, Booking
  <1>3. Knows(h)'
    BY <1>1, <1>2, SubmittingKnows DEF orderVars, Stays, Knows
  <1>. QED  BY <1>2, <1>3, ReadingStep

LEMMA SubmittingReads ==
  ASSUME Inv, NEW h \in Handler, Keyed(h) \/ CheckOrder(h) \/ StillPending(h)
  PROVE  Inv'
  <1>1. /\ pc[h] \in Submitting
        /\ UNCHANGED <<orderVars, attOrder, attState, effectVars, rowVars>>
        /\ \E l \in {"order", "pending", "correct", "answer"} : Go(h, l)
    BY DEF Keyed, CheckOrder, StillPending, Submitting
  <1>. QED  BY <1>1, AnswerStep, SubmittingStep

\* The latest of a set of numbered rows is one of them: it is the row with
\* the fewest after it.
LEMMA LatestRow ==
  ASSUME NEW S \in SUBSET Submission, S # {}
  PROVE  Max(S) \in S
  <1>. DEFINE After(s) == {t \in S : t > s}
              Smaller == StrictSubsetOrdering(Submission)
              Afters == {After(s) : s \in S}
  <1>1. IsFiniteSet(Submission) /\ Submission \subseteq Int
    BY CardToCardAssumption, FS_Interval DEF Submission
  <1>2. IsWellFoundedOn(Smaller, SUBSET Submission)
    BY <1>1, FS_StrictSubsetOrderingWellFounded, FS_FiniteSubsetsOfFinite
  <1>3. Afters \subseteq SUBSET Submission /\ Afters # {}
    OBVIOUS
  <1>4. PICK x \in Afters : \A y \in Afters : ~(<<y, x>> \in Smaller)
    <2>. HIDE DEF Smaller, Afters
    <2>. QED  BY <1>2, <1>3, WFMin
  <1>5. PICK s \in S : x = After(s)
    BY <1>4
  <1>6. ASSUME NEW t \in S, t > s PROVE FALSE
    <2>1. /\ After(t) \subseteq x /\ t \in x /\ t \notin After(t)
          /\ After(t) \in SUBSET Submission /\ x \in SUBSET Submission /\ After(t) \in Afters
      <3>1. t \in Int /\ s \in Int /\ \A u \in S : u \in Int
        BY <1>1
      <3>2. \A u \in After(t) : u \in After(s)
        BY <1>6, <3>1
      <3>3. t \in After(s) /\ t \notin After(t)
        BY <1>6, <3>1
      <3>. QED  BY <1>3, <1>5, <3>2, <3>3
    <2>2. ASSUME NEW y, y \in SUBSET Submission, y \subseteq x, y # x
          PROVE  <<y, x>> \in StrictSubsetOrdering(Submission)
      BY <2>1, <2>2 DEF StrictSubsetOrdering
    <2>3. <<After(t), x>> \in Smaller
      BY <2>1, <2>2
    <2>. QED  BY <1>4, <2>1, <2>3
  <1>7. \A t \in S : s >= t
    BY <1>1, <1>6
  <1>. QED  BY <1>7 DEF Max

LEMMA FindPendingInv ==
  ASSUME Inv, NEW h \in Handler, FindPending(h)
  PROVE  Inv'
  <1>. DEFINE open == OfOrder(ord[h], Pending)
  <1>1. /\ TypeOK /\ Data /\ Knows(h) /\ pc[h] = "pending" /\ At(h) = "pending"
        /\ UNCHANGED <<orderVars, attOrder, attState, effectVars, rowVars>>
    BY DEF Inv, FindPending, At, Examining
  <1>2. CASE Goto(h, "correct") /\ UNCHANGED localVars
    <2>1. Go(h, "correct")
      BY <1>2 DEF Go
    <2>. QED  BY <1>1, <2>1, SubmittingStep DEF Submitting
  <1>3. CASE open # {} /\ Goto(h, "look") /\ Examine(h, Max(open), "still") /\ UNCHANGED choice
    <2>1. open \subseteq Submission /\ \A s \in open : subState[s] = "PENDING_VERIFICATION"
      BY DEF OfOrder, Pending
    <2>2. Max(open) \in open
      <3>. HIDE DEF open
      <3>. QED  BY <1>3, <2>1, LatestRow
    <2>3. PICK s \in Submission : s = Max(open) /\ subAttempt[s] # None
      BY <1>1, <2>1, <2>2 DEF Data, Submissions
    <2>4. Moved(h, Label) /\ pc'[h] = "look" /\ ord'[h] = ord[h] /\ work'[h] = work[h]
      <3>1. "look" \in Label /\ PaymentTypeOK /\ pc \in [Handler -> Label]
        BY <1>1, LabelFacts, Labels DEF Examining
      <3>. QED  BY <1>3, <3>1, GotoMoves
    <2>5. Acts(h) /\ sub'[h] = s /\ back'[h] = "still" /\ choice'[h] = choice[h]
      BY <1>1, <1>3, <2>3, <2>4, LabelFacts, ExamineFacts
    <2>6. Knows(h)'
      BY <1>1, <2>3, <2>4, <2>5, ExaminingKnows DEF orderVars, rowVars, Knows, Examining, Submitting
    <2>. QED  BY <1>1, <2>5, <2>6, ReadingStep
  <1>. QED  BY <1>2, <1>3 DEF FindPending

LEMMA FindCorrectableInv ==
  ASSUME Inv, NEW h \in Handler, FindCorrectable(h)
  PROVE  Inv'
  <1>. DEFINE fix == OfOrder(ord[h], {"CORRECTION_REQUIRED"})
  <1>1. /\ TypeOK /\ Data /\ Knows(h) /\ pc[h] = "correct" /\ At(h) = "correct"
        /\ UNCHANGED <<orderVars, attOrder, attState, effectVars, rowVars, ord, rows, crashes, back>>
        /\ choice' = [choice EXCEPT ![h] = None] /\ seen' = [seen EXCEPT ![h] = None]
    BY DEF Inv, FindCorrectable, At, Examining
  <1>2. ord[h] \in Order /\ status[ord[h]] # "NONE" /\ work[h] \in Attempt
    BY <1>1 DEF Knows, Submitting
  <1>3. CASE /\ fix # {}
             /\ sub' = [sub EXCEPT ![h] = Max(fix)]
             /\ work' = [work EXCEPT ![h] = subAttempt[Max(fix)]]
             /\ pc' = [pc EXCEPT ![h] = "update"]
    <2>1. fix \subseteq Submission /\ \A s \in fix : subState[s] = "CORRECTION_REQUIRED"
      BY DEF OfOrder
    <2>2. Max(fix) \in fix
      <3>. HIDE DEF fix
      <3>. QED  BY <1>3, <2>1, LatestRow
    <2>3. PICK s \in Submission : s = Max(fix) /\ subAttempt[s] # None /\ subAttempt[s] \in Attempt
      BY <1>1, <2>1, <2>2 DEF Data, Submissions
    <2>4. /\ Acts(h) /\ pc'[h] = "update" /\ sub'[h] = s /\ work'[h] = subAttempt[s] /\ ord'[h] = ord[h]
      <3>. HIDE DEF fix
      <3>1. "update" \in Label
        BY DEF Label, Writing
      <3>. QED  BY <1>1, <1>3, <2>3, <3>1, LabelFacts DEF PaymentTypeOK, Acts, Moved, OnlyMoves
    <2>5. Knows(h)'
      BY <1>1, <1>2, <2>3, <2>4 DEF orderVars, rowVars, Knows, OrderKnows, At, Ordering, Examining,
         Submitting, Writing, Deciding, Finalizing, Paying, Booking
    <2>. QED  BY <1>1, <2>4, <2>5, ReadingStep
  <1>4. CASE /\ pc' = [pc EXCEPT ![h] = IF choice[h] = "KNOWN" THEN "create" ELSE "attempt"]
             /\ sub' = [sub EXCEPT ![h] = None] /\ UNCHANGED work
    <2>1. /\ Acts(h) /\ ord'[h] = ord[h] /\ work'[h] = work[h]
          /\ pc'[h] = IF choice[h] = "KNOWN" THEN "create" ELSE "attempt"
      <3>1. {"create", "attempt"} \subseteq Label
        BY DEF Label, Writing
      <3>. QED  BY <1>1, <1>4, <3>1, LabelFacts DEF PaymentTypeOK, Acts, Moved, OnlyMoves
    <2>2. Knows(h)'
      BY <1>1, <1>2, <2>1 DEF orderVars, rowVars, Knows, OrderKnows, At, Ordering, Examining,
         Submitting, Writing, Deciding, Finalizing, Paying, Booking
    <2>. QED  BY <1>1, <2>1, <2>2, ReadingStep
  <1>. QED  BY <1>3, <1>4 DEF FindCorrectable

\* Fresh and Approve: what is decided is known, and a paid order stays paid.
LEMMA DecidingReads ==
  ASSUME Inv, NEW h \in Handler, Fresh(h) \/ Approve(h)
  PROVE  Inv'
  <1>1. /\ TypeOK /\ Data /\ Knows(h) /\ pc[h] \in {"fresh", "approve"} /\ At(h) = pc[h]
        /\ UNCHANGED <<orderVars, attOrder, attState, effectVars, rowVars>>
    BY DEF Inv, Fresh, Approve, At, Examining
  <1>2. /\ sub[h] \in Submission /\ subAttempt[sub[h]] # None /\ work[h] = subAttempt[sub[h]]
        /\ choice[h] \in Decision /\ work[h] \in Attempt /\ attOrder[work[h]] \in Order
        /\ pc[h] = "approve" => choice[h] = "APPROVED"
    BY <1>1, RowFacts DEF Knows, Deciding, OrderOf
  <1>3. \/ Go(h, "answer")
        \/ choice[h] = "APPROVED" /\ \E l \in {"approve", "settle"} : Go(h, l)
        \/ choice[h] = "REJECTED" /\ Go(h, "reject")
        \/ choice[h] = "CORRECTION_REQUIRED" /\ Go(h, "decided")
        \/ choice[h] = "APPROVED" /\ payStatus[attOrder[work[h]]] = "PAID" /\ Go(h, "decided")
    BY <1>2 DEF Fresh, Approve, Decision
  <1>4. ASSUME NEW l \in {"approve", "settle", "reject", "decided"}, Go(h, l),
               l \in {"approve", "settle"} => choice[h] = "APPROVED",
               l = "reject" => choice[h] = "REJECTED",
               l = "decided" /\ choice[h] = "APPROVED" => payStatus[attOrder[work[h]]] = "PAID",
               l = "decided" => choice[h] # "REJECTED"
        PROVE  Inv'
    <2>1. Acts(h) /\ pc'[h] = l /\ Stays(h)
      BY <1>1, <1>4, GoFacts DEF Label, Deciding, SharedLabel, Ordering, Finalizing, Paying, Booking
    <2>2. Knows(h)'
      BY <1>1, <1>2, <1>4, <2>1 DEF rowVars, orderVars, Stays, Knows, OrderKnows, At, Ordering, Examining,
         Submitting, Writing, Deciding, Finalizing, Paying, Booking
    <2>. QED  BY <1>1, <2>1, <2>2, ReadingStep
  <1>. QED  BY <1>1, <1>3, <1>4, AnswerStep

-----------------------------------------------------------------------------
(* Steps that write *)

LEMMA ExpireSubmissionInv ==
  ASSUME Inv, NEW h \in Handler, ExpireSubmission(h)
  PROVE  Inv'
  <1>1. /\ TypeOK /\ Data /\ Knows(h) /\ pc[h] = "expire" /\ Go(h, "expireAttempt")
        /\ UNCHANGED <<orderVars, attOrder, attState, effectVars, subAttempt, late, overdue>>
        /\ subState' = [subState EXCEPT ![sub[h]] = "EXPIRED"]
    BY DEF Inv, ExpireSubmission
  <1>2. PICK s \in Submission : s = sub[h] /\ subAttempt[s] # None
    BY <1>1 DEF Knows, Examining
  <1>3. Acts(h) /\ pc'[h] = "expireAttempt" /\ Stays(h) /\ back'[h] = back[h]
    <2>1. "expireAttempt" \in (Label \ {"idle"}) \union {"answer"}
      BY Labels DEF Examining
    <2>. QED  BY <1>1, <2>1, GoFacts
  <1>4. Data' /\ Grows
    BY <1>1, <1>2, <1>3, SubmissionData DEF Acts, Final
  <1>5. Knows(h)'
    <2>1. At(h) = back[h] /\ back[h] \in {"keyed", "still", "fresh", "answer"}
      BY <1>1, LabelFacts DEF At, Examining
    <2>. QED  BY <1>1, <1>2, <1>3, <2>1, ExaminingKnows
              DEF orderVars, Stays, Knows, Examining, Submitting, Deciding
  <1>. QED  BY <1>3, <1>4, <1>5, HandlerStep

LEMMA ExpireAttemptInv ==
  ASSUME Inv, NEW h \in Handler, ExpireAttempt(h)
  PROVE  Inv'
  <1>1. /\ TypeOK /\ Data /\ Knows(h) /\ pc[h] = "expireAttempt" /\ Go(h, "expireGoods")
        /\ UNCHANGED <<orderVars, attOrder, effectVars, rowVars>>
        /\ SetState(subAttempt[sub[h]], "FAILED")
    BY DEF Inv, ExpireAttempt
  <1>2. /\ sub[h] \in Submission /\ subAttempt[sub[h]] # None
        /\ subAttempt[sub[h]] \in Attempt /\ attOrder[subAttempt[sub[h]]] # None
    BY <1>1, RowFacts DEF Knows, Examining, OrderOf
  <1>3. Acts(h) /\ pc'[h] = "expireGoods" /\ Stays(h) /\ back'[h] = back[h]
    <2>1. "expireGoods" \in (Label \ {"idle"}) \union {"answer"}
      BY Labels DEF Examining
    <2>. QED  BY <1>1, <2>1, GoFacts
  <1>4. Data' /\ Grows
    <2>1. PICK a \in Attempt : a = subAttempt[sub[h]]
      BY <1>2
    <2>. QED  BY <1>1, <1>2, <1>3, <2>1, AttemptData DEF Acts, AttemptState
  <1>5. Knows(h)'
    <2>1. At(h) = back[h] /\ back[h] \in {"keyed", "still", "fresh", "answer"}
      BY <1>1, LabelFacts DEF At, Examining
    <2>. QED  BY <1>1, <1>2, <1>3, <2>1, ExaminingKnows
              DEF orderVars, rowVars, Stays, Knows, Examining, Submitting, Deciding
  <1>. QED  BY <1>3, <1>4, <1>5, HandlerStep

LEMMA ExpireGoodsInv ==
  ASSUME Inv, NEW h \in Handler, ExpireGoods(h)
  PROVE  Inv'
  <1>1. /\ TypeOK /\ Data /\ Knows(h) /\ pc[h] = "expireGoods" /\ Resume(h)
        /\ UNCHANGED <<status, payStatus, attOrder, attState, effectVars, rowVars>>
        /\ Release(OrderOf(sub[h]))
    BY DEF Inv, ExpireGoods
  <1>2. PICK o \in Order : o = OrderOf(sub[h]) /\ status[o] # "NONE"
    BY <1>1, RowFacts DEF Knows, Examining
  <1>3. Moved(h, Label)
    BY <1>1, ResumeFacts DEF Acts
  <1>4. Data' /\ Grows
    BY <1>1, <1>2, <1>3, ReleaseData
  <1>5. Acts(h) /\ Knows(h)'
    BY <1>1, <1>4, ResumeKnows DEF Examining
  <1>. QED  BY <1>4, <1>5, HandlerStep

\* A writing handler that goes on to create or review its submission.
LEMMA WritingKnows ==
  ASSUME NEW h \in Handler, pc'[h] \in {"create", "review"},
         ord'[h] \in Order, status'[ord'[h]] # "NONE", work'[h] \in Attempt,
         attOrder'[work'[h]] # None
  PROVE  Knows(h)'
  <1>1. /\ pc'[h] \notin Ordering \union Finalizing \union Deciding \union Submitting \union Examining
        /\ pc'[h] \notin {"keyed", "still", "update", "decided", "approve", "reject", "rejectGoods"}
    BY DEF Ordering, Examining, Submitting, Deciding, Finalizing, Paying, Booking
  <1>2. OrderKnows(h)'
    BY <1>1 DEF OrderKnows, Finalizing
  <1>3. At(h)' = pc'[h]
    BY <1>1 DEF At
  <1>. QED  BY <1>1, <1>2, <1>3 DEF Knows

\* What a handler in the middle of its writes has.
LEMMA WritingFacts ==
  ASSUME Inv, NEW h \in Handler, pc[h] \in Writing
  PROVE  /\ TypeOK /\ Data /\ Knows(h) /\ At(h) = pc[h]
         /\ ord[h] \in Order /\ status[ord[h]] # "NONE" /\ work[h] \in Attempt
         /\ pc[h] # "attempt" => attOrder[work[h]] # None
  <1>1. TypeOK /\ Data /\ Knows(h) /\ At(h) = pc[h]
    BY DEF Inv, At, Writing, Examining
  <1>2. pc[h] = "update" => sub[h] \in Submission /\ subAttempt[sub[h]] # None /\ work[h] = subAttempt[sub[h]]
    BY <1>1 DEF Knows
  <1>3. pc[h] = "update" => attOrder[work[h]] # None
    BY <1>1, <1>2 DEF Data, Submissions
  <1>. QED  BY <1>1, <1>3 DEF Knows, Writing

LEMMA CreateAttemptInv ==
  ASSUME Inv, NEW h \in Handler, CreateAttempt(h)
  PROVE  Inv'
  <1>1. /\ pc[h] = "attempt" /\ TypeOK /\ Data
        /\ ord[h] \in Order /\ status[ord[h]] # "NONE" /\ work[h] \in Attempt
        /\ UNCHANGED <<status, payStatus, goods, bank, journal, outbox, subState, subAttempt, late, overdue>>
    BY WritingFacts DEF CreateAttempt, Writing, orderVars, effectVars, rowVars
  <1>2. CASE attState[work[h]] # "NONE"
    BY <1>2, AnswerStep DEF CreateAttempt, orderVars, effectVars
  <1>3. CASE attState[work[h]] = "NONE"
    <2>1. PICK a \in Attempt : a = work[h] /\ attState[a] = "NONE"
      BY <1>1, <1>3
    <2>2. /\ Go(h, "create") /\ attState' = [attState EXCEPT ![a] = "PENDING"]
          /\ attOrder' = [attOrder EXCEPT ![a] = ord[h]]
      BY <1>3, <2>1 DEF CreateAttempt, SetState
    <2>3. Acts(h) /\ pc'[h] = "create" /\ Stays(h)
      <3>1. "create" \in (Label \ {"idle"}) \union {"answer"}
        BY Labels DEF Writing
      <3>. QED  BY <1>1, <2>2, <3>1, GoFacts
    <2>4. /\ attState' \in [Attempt -> AttemptState] /\ attOrder' \in [Attempt -> Order \union {None}]
          /\ \A b \in Attempt : /\ attState'[b] = IF b = a THEN "PENDING" ELSE attState[b]
                                /\ attOrder'[b] = IF b = a THEN ord[h] ELSE attOrder[b]
      BY <1>1, <2>2 DEF Data, PaymentTypeOK, AttemptState
    <2>5. PaymentTypeOK'
      BY <1>1, <2>3, <2>4 DEF Data, PaymentTypeOK, Acts, Moved
    <2>6. Orders' /\ SoldOnlyIfPaid' /\ OrderGrows
      BY <1>1 DEF Data, Orders, SoldOnlyIfPaid, In, OrderGrows
    <2>7. ord[h] # None /\ attOrder[a] = None
      BY <1>1, <2>1, OrderPaymentAssumption DEF Data, Attempts
    <2>8. Attempts'
      BY <1>1, <2>4, <2>7 DEF Data, Attempts
    <2>9. \A b \in Attempt : attOrder[b] # None => attOrder'[b] = attOrder[b]
      BY <2>4, <2>7
    <2>10. Data' /\ Grows
      BY <1>1, <2>5, <2>6, <2>8, <2>9, SharedData DEF rowVars
    <2>11. Knows(h)'
      BY <1>1, <2>1, <2>3, <2>4, <2>7, WritingKnows DEF Stays
    <2>. QED  BY <2>3, <2>10, <2>11, HandlerStep
  <1>. QED  BY <1>2, <1>3

LEMMA NextRowFacts ==
  ASSUME Data
  PROVE  \E n \in 0..MaxSubmissions :
            NextRow = n + 1 /\ \A s \in Submission : subAttempt[s] # None <=> s <= n
  <1>1. PICK n \in 0..MaxSubmissions : \A s \in Submission : subAttempt[s] # None <=> s <= n
    BY DEF Data, Numbered
  <1>2. {s \in Submission : subAttempt[s] # None} = 1..n
    BY <1>1, CardToCardAssumption DEF Submission
  <1>3. Cardinality(1..n) = n
    BY FS_Interval
  <1>. QED  BY <1>1, <1>2, <1>3 DEF NextRow

LEMMA CreateSubmissionInv ==
  ASSUME Inv, NEW h \in Handler, CreateSubmission(h)
  PROVE  Inv'
  <1>1. /\ pc[h] = "create" /\ TypeOK /\ Data
        /\ ord[h] \in Order /\ status[ord[h]] # "NONE" /\ work[h] \in Attempt /\ attOrder[work[h]] # None
        /\ UNCHANGED <<status, payStatus, goods, attOrder, attState, bank, journal, outbox, late, overdue>>
    BY WritingFacts DEF CreateSubmission, Writing, orderVars, effectVars
  <1>2. CASE Go(h, "answer") /\ UNCHANGED <<subState, subAttempt>>
    BY <1>1, <1>2, AnswerStep DEF orderVars, effectVars, rowVars
  <1>3. CASE /\ NextRow \in Submission
             /\ subState' = [subState EXCEPT ![NextRow] = "PENDING_VERIFICATION"]
             /\ subAttempt' = [subAttempt EXCEPT ![NextRow] = work[h]]
             /\ Go(h, "review")
    <2>1. PICK n \in 0..MaxSubmissions :
            NextRow = n + 1 /\ \A s \in Submission : subAttempt[s] # None <=> s <= n
      BY <1>1, NextRowFacts
    <2>2. PICK r \in Submission : r = NextRow /\ r = n + 1 /\ subAttempt[r] = None
      BY <1>3, <2>1
    <2>3. Acts(h) /\ pc'[h] = "review" /\ Stays(h)
      <3>1. "review" \in (Label \ {"idle"}) \union {"answer"}
        BY Labels DEF Writing
      <3>. QED  BY <1>1, <1>3, <3>1, GoFacts
    <2>4. /\ subState' \in [Submission -> Decidable \union Final \union {"NONE"}]
          /\ subAttempt' \in [Submission -> Attempt \union {None}]
          /\ \A s \in Submission : /\ subState'[s] = IF s = r THEN "PENDING_VERIFICATION" ELSE subState[s]
                                   /\ subAttempt'[s] = IF s = r THEN work[h] ELSE subAttempt[s]
      <3>. HIDE DEF NextRow
      <3>. QED  BY <1>1, <1>3, <2>2 DEF Data, Decidable, Pending
    <2>5. PaymentTypeOK' /\ Orders' /\ SoldOnlyIfPaid' /\ OrderGrows /\ Attempts'
      <3>1. UNCHANGED <<orderVars, attOrder, attState, effectVars>>
        BY <1>1 DEF orderVars, effectVars
      <3>. QED  BY <1>1, <2>3, <3>1, RowsStay DEF Data, Attempts, Acts
    <2>6. work[h] # None
      BY <1>1, OrderPaymentAssumption
    <2>7. Submissions'
      BY <1>1, <2>2, <2>4, <2>6 DEF Data, Submissions
    <2>8. Numbered'
      <3>1. n + 1 \in 0..MaxSubmissions
        BY <2>1, <2>2, CardToCardAssumption DEF Submission
      <3>2. \A s \in Submission : subAttempt'[s] # None <=> s <= n + 1
        BY <2>1, <2>2, <2>4, <2>6, CardToCardAssumption DEF Submission
      <3>. QED  BY <3>1, <3>2 DEF Numbered
    <2>9. ApprovedIsPaid' /\ RejectedHoldsNothing'
      <3>1. \A s \in Submission : subState'[s] \in {"APPROVED", "REJECTED"} =>
               s # r /\ subState'[s] = subState[s] /\ subAttempt'[s] = subAttempt[s]
        BY <2>4
      <3>2. ApprovedIsPaid'
        BY <1>1, <3>1 DEF Data, ApprovedIsPaid, OrderOf
      <3>3. RejectedHoldsNothing'
        BY <1>1, <3>1 DEF Data, RejectedHoldsNothing, In, OrderOf
      <3>. QED  BY <3>2, <3>3
    <2>10. Data' /\ Grows
      BY <1>1, <2>2, <2>4, <2>5, <2>7, <2>8, <2>9 DEF Data, Grows
    <2>11. Knows(h)'
      BY <1>1, <2>3, WritingKnows DEF Stays
    <2>. QED  BY <2>3, <2>10, <2>11, HandlerStep
  <1>. QED  BY <1>2, <1>3 DEF CreateSubmission

LEMMA UpdateSubmissionInv ==
  ASSUME Inv, NEW h \in Handler, UpdateSubmission(h)
  PROVE  Inv'
  <1>1. /\ pc[h] = "update" /\ TypeOK /\ Data /\ Knows(h)
        /\ ord[h] \in Order /\ status[ord[h]] # "NONE" /\ work[h] \in Attempt /\ attOrder[work[h]] # None
        /\ UNCHANGED <<orderVars, attOrder, attState, effectVars, subAttempt, late, overdue>>
    BY WritingFacts DEF UpdateSubmission, Writing
  <1>2. PICK s \in Submission : s = sub[h] /\ subAttempt[s] # None
    BY <1>1 DEF Knows
  <1>3. CASE Go(h, "answer") /\ UNCHANGED subState
    BY <1>1, <1>3, AnswerStep DEF rowVars
  <1>4. CASE subState' = [subState EXCEPT ![sub[h]] = "PENDING_VERIFICATION"] /\ Go(h, "review")
    <2>1. Acts(h) /\ pc'[h] = "review" /\ Stays(h)
      <3>1. "review" \in (Label \ {"idle"}) \union {"answer"}
        BY Labels DEF Writing
      <3>. QED  BY <1>1, <1>4, <3>1, GoFacts
    <2>2. Data' /\ Grows
      BY <1>1, <1>2, <1>4, <2>1, SubmissionData DEF Acts, Decidable, Pending
    <2>3. Knows(h)'
      BY <1>1, <2>1, WritingKnows DEF Stays, orderVars
    <2>. QED  BY <2>1, <2>2, <2>3, HandlerStep
  <1>. QED  BY <1>3, <1>4 DEF UpdateSubmission

LEMMA ReviewInv ==
  ASSUME Inv, NEW h \in Handler, Review(h)
  PROVE  Inv'
  <1>1. /\ pc[h] = "review" /\ TypeOK /\ Data /\ work[h] \in Attempt /\ attOrder[work[h]] # None
        /\ SetState(work[h], "REQUIRES_REVIEW") /\ Go(h, "answer")
        /\ UNCHANGED <<orderVars, attOrder, effectVars, rowVars>>
    BY WritingFacts DEF Review, Writing
  <1>2. PICK a \in Attempt : a = work[h]
    BY <1>1
  <1>3. Acts(h) /\ pc'[h] = "idle"
    BY <1>1, GoFacts
  <1>4. Data' /\ Grows
    BY <1>1, <1>2, <1>3, AttemptData DEF Acts, AttemptState
  <1>. QED  BY <1>3, <1>4, IdleKnows, HandlerStep

\* What a handler in the middle of a decision has.
LEMMA DecidingFacts ==
  ASSUME Inv, NEW h \in Handler, pc[h] \in Deciding \union Finalizing
  PROVE  /\ TypeOK /\ Data /\ Knows(h)
         /\ sub[h] \in Submission /\ subAttempt[sub[h]] # None /\ work[h] = subAttempt[sub[h]]
         /\ choice[h] \in Decision /\ work[h] \in Attempt
         /\ attOrder[work[h]] \in Order /\ attOrder[work[h]] # None /\ status[attOrder[work[h]]] # "NONE"
  <1>1. TypeOK /\ Data /\ Knows(h) /\ At(h) = pc[h]
    BY DEF Inv, At, Examining, Deciding, Finalizing, Paying, Booking
  <1>. QED  BY <1>1, RowFacts DEF Knows, OrderOf

\* A rejection on its way.
LEMMA RejectingKnows ==
  ASSUME NEW h \in Handler, pc'[h] \in {"rejectGoods", "decided"}, choice'[h] = "REJECTED",
         sub'[h] \in Submission, subAttempt'[sub'[h]] # None, work'[h] = subAttempt'[sub'[h]],
         pc'[h] = "decided" => goods'[attOrder'[work'[h]]][0] # "ACTIVE"
  PROVE  Knows(h)'
  <1>1. pc'[h] \notin Ordering \union Finalizing \union Submitting \union Writing \union Examining
    BY DEF Ordering, Examining, Submitting, Writing, Finalizing, Paying, Booking
  <1>2. OrderKnows(h)'
    BY <1>1 DEF OrderKnows, Finalizing
  <1>3. At(h)' = pc'[h]
    BY <1>1 DEF At
  <1>. QED  BY <1>1, <1>2, <1>3 DEF Knows, Writing, Decision

LEMMA RejectInv ==
  ASSUME Inv, NEW h \in Handler, Reject(h) \/ RejectGoods(h)
  PROVE  Inv'
  <1>1. /\ pc[h] \in {"reject", "rejectGoods"} /\ TypeOK /\ Data /\ choice[h] = "REJECTED"
        /\ sub[h] \in Submission /\ subAttempt[sub[h]] # None /\ work[h] = subAttempt[sub[h]]
        /\ work[h] \in Attempt
        /\ attOrder[work[h]] \in Order /\ attOrder[work[h]] # None /\ status[attOrder[work[h]]] # "NONE"
    <2>1. pc[h] \in {"reject", "rejectGoods"} /\ pc[h] \in Deciding
      BY DEF Reject, RejectGoods, Deciding
    <2>2. choice[h] = "REJECTED"
      BY <2>1, DecidingFacts DEF Knows
    <2>. QED  BY <2>1, <2>2, DecidingFacts
  <1>2. PICK a \in Attempt : a = work[h]
    BY <1>1
  <1>3. ASSUME NEW l \in {"rejectGoods", "decided"}, Go(h, l)
        PROVE  Acts(h) /\ pc'[h] = l /\ Stays(h)
    <2>1. l \in (Label \ {"idle"}) \union {"answer"} /\ l # "answer"
      BY Labels DEF Deciding
    <2>. QED  BY <1>1, <1>3, <2>1, GoFacts
  <1>4. CASE Reject(h)
    <2>1. /\ SetState(a, "FAILED") /\ UNCHANGED <<orderVars, attOrder, effectVars, rowVars>>
          /\ Acts(h) /\ pc'[h] = "rejectGoods" /\ Stays(h)
      BY <1>2, <1>3, <1>4 DEF Reject
    <2>2. Data' /\ Grows
      BY <1>1, <1>2, <2>1, AttemptData DEF Acts, AttemptState
    <2>3. Knows(h)'
      BY <1>1, <2>1, RejectingKnows DEF Stays, rowVars
    <2>. QED  BY <2>1, <2>2, <2>3, HandlerStep
  <1>5. CASE RejectGoods(h)
    <2>1. PICK o \in Order : o = attOrder[work[h]] /\ status[o] # "NONE"
      BY <1>1
    <2>2. /\ Release(o)
          /\ UNCHANGED <<status, payStatus, attOrder, attState, effectVars, rowVars>>
          /\ Acts(h) /\ pc'[h] = "decided" /\ Stays(h)
      BY <1>3, <1>5, <2>1 DEF RejectGoods
    <2>3. Data' /\ Grows /\ goods'[o][0] # "ACTIVE"
      BY <1>1, <2>1, <2>2, ReleaseData DEF Acts
    <2>4. Knows(h)'
      BY <1>1, <2>1, <2>2, <2>3, RejectingKnows DEF Stays, rowVars
    <2>. QED  BY <2>2, <2>3, <2>4, HandlerStep
  <1>. QED  BY <1>4, <1>5

LEMMA WriteDecisionInv ==
  ASSUME Inv, NEW h \in Handler, WriteDecision(h)
  PROVE  Inv'
  <1>1. /\ pc[h] \in {"decided", "finalized"} /\ TypeOK /\ Data /\ Knows(h)
        /\ sub[h] \in Submission /\ subAttempt[sub[h]] # None /\ work[h] = subAttempt[sub[h]]
        /\ choice[h] \in Decision
    <2>1. pc[h] \in {"decided", "finalized"} /\ pc[h] \in Deciding \union Finalizing
      BY DEF WriteDecision, Deciding, Finalizing, Paying, Booking
    <2>. QED  BY <2>1, DecidingFacts
  <1>2. /\ choice[h] = "APPROVED" => payStatus[OrderOf(sub[h])] = "PAID"
        /\ choice[h] = "REJECTED" => goods[OrderOf(sub[h])][0] # "ACTIVE"
    BY <1>1 DEF Knows, OrderKnows, OrderOf, Finalizing, Paying, Booking
  <1>3. PICK s \in Submission : s = sub[h]
    BY <1>1
  <1>4. PICK d \in Decidable \union Final : d = choice[h]
    BY <1>1 DEF Decision, Decidable, Final
  <1>5. /\ Go(h, "answer") /\ subState' = [subState EXCEPT ![s] = d]
        /\ UNCHANGED <<orderVars, attOrder, attState, effectVars, subAttempt, late, overdue>>
    BY <1>3, <1>4 DEF WriteDecision
  <1>6. Acts(h) /\ pc'[h] = "idle"
    BY <1>1, <1>5, GoFacts
  <1>7. Data' /\ Grows
    BY <1>1, <1>2, <1>3, <1>4, <1>5, <1>6, SubmissionData DEF Acts
  <1>. QED  BY <1>6, <1>7, IdleKnows, HandlerStep

-----------------------------------------------------------------------------
(* Time, deaths, and the whole *)

LEMMA DieInv ==
  ASSUME Inv, NEW h \in Handler, Die(h)
  PROVE  Inv'
  <1>1. TypeOK /\ Data /\ UNCHANGED <<orderVars, attOrder, attState, effectVars, rowVars>>
    BY DEF Inv, Die, Crash
  <1>2. Moved(h, Label) /\ pc'[h] = "idle"
    <2>1. /\ pc \in [Handler -> Label] /\ PaymentTypeOK /\ "idle" \in Label
      BY <1>1, LabelFacts DEF SharedLabel
    <2>2. crashes' \in 0..MaxCrashes
      BY <2>1, OrderPaymentAssumption DEF Die, Crash, PaymentTypeOK
    <2>. QED  BY <2>1, <2>2 DEF Die, Crash, PaymentTypeOK, Moved, OnlyMoves
  <1>3. Acts(h)
    BY <1>1, <1>2, LabelFacts DEF Die, Forget, Acts
  <1>. QED  BY <1>1, <1>2, <1>3, IdleKnows, ReadingStep

\* A step outside the handlers.
LEMMA OutsideStep ==
  ASSUME Inv, UNCHANGED <<paymentVars, subState, subAttempt, localVars>>,
         late' \subseteq Order, overdue' \subseteq Attempt
  PROVE  Inv'
  <1>1. UNCHANGED <<status, payStatus, goods, attOrder, attState, bank, journal, outbox,
                    pc, ord, work, rows, crashes, subState, subAttempt, sub, seen, choice, back>>
    BY DEF paymentVars, orderVars, effectVars, handlerVars, localVars
  <1>2. TypeOK'
    BY <1>1 DEF Inv, TypeOK, PaymentTypeOK
  <1>3. (PaymentTypeOK /\ Orders /\ SoldOnlyIfPaid)'
    BY <1>1 DEF Inv, Data, PaymentTypeOK, Orders, SoldOnlyIfPaid, In
  <1>4. (Attempts /\ Submissions /\ Numbered)'
    BY <1>1 DEF Inv, Data, Attempts, Submissions, Numbered
  <1>5. (ApprovedIsPaid /\ RejectedHoldsNothing)'
    BY <1>1 DEF Inv, Data, ApprovedIsPaid, RejectedHoldsNothing, In, OrderOf
  <1>6. ASSUME NEW h \in Handler PROVE Knows(h)'
    BY <1>1 DEF Inv, Knows, OrderKnows, At
  <1>. QED  BY <1>1, <1>2, <1>3, <1>4, <1>5, <1>6 DEF Inv, Data

LEMMA TimeInv ==
  ASSUME Inv, (\E o \in Order : Age(o)) \/ (\E a \in Attempt : Overdue(a))
  PROVE  Inv'
  <1>1. UNCHANGED <<paymentVars, subState, subAttempt, localVars>>
    BY DEF Age, Overdue
  <1>2. late' \subseteq Order /\ overdue' \subseteq Attempt
    BY DEF Age, Overdue, Inv, Data
  <1>. QED  BY <1>1, <1>2, OutsideStep

LEMMA InitInv == Init => Inv
  <1>. SUFFICES ASSUME Init PROVE Inv
    OBVIOUS
  <1>. USE DEF Init, PaymentInit
  <1>1. PaymentTypeOK
    BY OrderPaymentAssumption DEF PaymentTypeOK, Goods, AttemptState, Event
  <1>2. TypeOK
    BY <1>1 DEF TypeOK
  <1>3. Orders /\ Attempts /\ Submissions /\ SoldOnlyIfPaid
    BY DEF Orders, Attempts, Submissions, SoldOnlyIfPaid, In
  <1>4. Numbered
    <2>1. 0 \in 0..MaxSubmissions /\ \A s \in Submission : ~(s <= 0)
      BY CardToCardAssumption DEF Submission
    <2>. QED  BY <2>1 DEF Numbered
  <1>5. ApprovedIsPaid /\ RejectedHoldsNothing
    BY DEF ApprovedIsPaid, RejectedHoldsNothing
  <1>6. \A h \in Handler : Knows(h)
    BY DEF Knows, OrderKnows, At, Ordering, Examining, Submitting, Writing, Deciding,
       Finalizing, Paying, Booking
  <1>. QED  BY <1>1, <1>2, <1>3, <1>4, <1>5, <1>6 DEF Inv, Data

LEMMA StepInv == Inv /\ [Next]_vars => Inv'
  <1>. SUFFICES ASSUME Inv, [Next]_vars PROVE Inv'
    OBVIOUS
  <1>1. ASSUME NEW h \in Handler, Request(h) PROVE Inv'
    BY <1>1, OrderRequestInv, SubmitInv, ShowInv, DecideInv DEF Request
  <1>2. ASSUME NEW h \in Handler, Step(h) PROVE Inv'
    BY <1>2, SharedInv, LookInv, ExpireSubmissionInv, ExpireAttemptInv, ExpireGoodsInv,
       SubmittingReads, FindPendingInv, FindCorrectableInv, CreateAttemptInv,
       CreateSubmissionInv, UpdateSubmissionInv, ReviewInv, DecidingReads, RejectInv,
       WriteDecisionInv DEF Step
  <1>3. ASSUME NEW h \in Handler, Die(h) PROVE Inv'
    BY <1>3, DieInv
  <1>4. ASSUME (\E o \in Order : Age(o)) \/ (\E a \in Attempt : Overdue(a)) PROVE Inv'
    BY <1>4, TimeInv
  <1>5. CASE UNCHANGED vars
    <2>1. UNCHANGED <<paymentVars, subState, subAttempt, late, overdue, localVars>>
      BY <1>5 DEF vars, cardVars, rowVars
    <2>. QED  BY <2>1, OutsideStep DEF Inv, Data
  <1>. QED  BY <1>1, <1>2, <1>3, <1>4, <1>5 DEF Next

THEOREM Invariant == Spec => []Inv
  BY InitInv, StepInv, PTL DEF Spec

\* TypeOK: the state keeps its types.
THEOREM CardTypeCorrect == Spec => []TypeOK
  <1>1. Inv => TypeOK
    BY DEF Inv
  <1>. QED  BY <1>1, Invariant, PTL

\* SoldOnlyIfPaid: goods leave only for an order that is paid.
THEOREM CardSoldOnlyIfPaid == Spec => []SoldOnlyIfPaid
  <1>1. Inv => SoldOnlyIfPaid
    BY DEF Inv, Data
  <1>. QED  BY <1>1, Invariant, PTL

\* ApprovedIsPaid: a submission is approved only when its order is paid.
THEOREM ApprovalsArePaid == Spec => []ApprovedIsPaid
  <1>1. Inv => ApprovedIsPaid
    BY DEF Inv, Data
  <1>. QED  BY <1>1, Invariant, PTL

\* RejectedHoldsNothing: of what its order reserved when it was placed, a
\* rejected transfer holds nothing.
THEOREM RejectionsHoldNothing == Spec => []RejectedHoldsNothing
  <1>1. Inv => RejectedHoldsNothing
    BY DEF Inv, Data
  <1>. QED  BY <1>1, Invariant, PTL

-----------------------------------------------------------------------------
(* Nothing paid or sold is taken back *)

LEMMA CardStays == Inv /\ [Next]_vars => PaidStays
  <1>. SUFFICES ASSUME Inv, [Next]_vars PROVE PaidStays
    OBVIOUS
  <1>1. PaymentTypeOK /\ TypeOK
    BY DEF Inv, Data
  <1>2. ASSUME NEW h \in Handler, Shared(h) PROVE PaidStays
    BY <1>2, SharedFacts, GrowsStays DEF Shared, Shares
  <1>3. ASSUME NEW h \in Handler, OrderRequest(h) PROVE PaidStays
    <2>1. Shares(h)
      BY <1>1, <1>3, LabelFacts, PlaceShares, CheckShares DEF OrderRequest, Inv, Data
    <2>. QED  BY <2>1, GrowsStays DEF Shares
  <1>4. ASSUME NEW h \in Handler, ExpireGoods(h) \/ RejectGoods(h) PROVE PaidStays
    BY <1>1, <1>4, ReleaseStays DEF ExpireGoods, RejectGoods
  <1>5. ASSUME NEW h \in Handler,
               \/ \E o \in Order, a \in Attempt : Submit(h, o, a)
               \/ \E s \in Submission : Show(h, s) \/ \E d \in Decision : Decide(h, s, d)
               \/ Look(h) \/ ExpireSubmission(h) \/ ExpireAttempt(h)
               \/ Keyed(h) \/ CheckOrder(h) \/ FindPending(h) \/ StillPending(h)
               \/ FindCorrectable(h) \/ CreateAttempt(h) \/ CreateSubmission(h)
               \/ UpdateSubmission(h) \/ Review(h) \/ Fresh(h) \/ Approve(h) \/ Reject(h)
               \/ WriteDecision(h) \/ Die(h)
        PROVE  PaidStays
    <2>1. UNCHANGED <<payStatus, goods>>
      BY <1>5 DEF Submit, Show, Decide, Look, ExpireSubmission, ExpireAttempt, Keyed, CheckOrder,
         FindPending, StillPending, FindCorrectable, CreateAttempt, CreateSubmission,
         UpdateSubmission, Review, Fresh, Approve, Reject, WriteDecision, Die, Crash, orderVars
    <2>. QED  BY <2>1, SameStays
  <1>6. CASE (\E o \in Order : Age(o)) \/ (\E a \in Attempt : Overdue(a)) \/ UNCHANGED vars
    <2>1. UNCHANGED <<payStatus, goods>>
      BY <1>6 DEF Age, Overdue, vars, paymentVars, orderVars
    <2>. QED  BY <2>1, SameStays
  <1>. QED  BY <1>2, <1>3, <1>4, <1>5, <1>6 DEF Next, Request, Step

\* PaidStaysPaid: a paid order stays paid and goods once sold are not handed
\* back by a late cancellation, rejection, expiry or edit.
THEOREM CardPaidStaysPaid == Spec => PaidStaysPaid
  <1>1. Inv /\ [Next]_vars => [PaidStays]_orderVars
    BY CardStays
  <1>2. Spec => [][PaidStays]_orderVars
    BY <1>1, Invariant, PTL DEF Spec
  <1>. QED  BY <1>2 DEF PaidStaysPaid, PaidStays

-----------------------------------------------------------------------------
(* The refinement: what Purchase sees of a step.  Goods and payments are   *)
(* seen as they are; the money of an order is vouched for from the moment  *)
(* a submission for it is on file, which it stays.                         *)

Paid == {o \in Order : payStatus[o] = "PAID"}
Confirmed == {o \in Order : OnFile(o)}
Shelf == [o \in Order |-> GoodsOf(o)]

\* Nothing of what Purchase sees changes.
LEMMA Unseen ==
  ASSUME Shelf' = Shelf, Confirmed' = Confirmed, Paid' = Paid
  PROVE  UNCHANGED Promise!vars
  BY DEF Promise!vars, Shelf, Confirmed, Paid

\* GoodsOf, told by the rows.
OfRows(g) ==
    IF \E b \in Batch : g[b] = "CONSUMED" THEN "CONSUMED"
    ELSE IF \E b \in Batch : g[b] = "ACTIVE" THEN "ACTIVE"
    ELSE IF \E b \in Batch : g[b] = "RELEASED" THEN "RELEASED" ELSE "NONE"
ToldByRows == \A o \in Order : GoodsOf(o) = OfRows(goods[o])

LEMMA GoodsTold == ToldByRows
  <1>. SUFFICES ASSUME NEW o \in Order PROVE GoodsOf(o) = OfRows(goods[o])
    BY DEF ToldByRows
  <1>1. CASE \E b \in Batch : goods[o][b] = "CONSUMED"
    BY <1>1 DEF GoodsOf, In, OfRows
  <1>2. CASE /\ ~\E b \in Batch : goods[o][b] = "CONSUMED"
             /\ \E b \in Batch : goods[o][b] = "ACTIVE"
    BY <1>2 DEF GoodsOf, In, OfRows
  <1>3. CASE /\ ~\E b \in Batch : goods[o][b] = "CONSUMED"
             /\ ~\E b \in Batch : goods[o][b] = "ACTIVE"
    BY <1>3 DEF GoodsOf, In, OfRows
  <1>. QED  BY <1>1, <1>2, <1>3

LEMMA GoodsOfFacts == ToldByRows /\ ToldByRows'
  BY GoodsTold, PTL

\* An order that has a row has goods to show.
LEMMA OfRowsFacts ==
  ASSUME NEW g \in [Batch -> Goods], \E b \in Batch : g[b] # "NONE"
  PROVE  OfRows(g) \in {"ACTIVE", "RELEASED", "CONSUMED"}
  BY DEF OfRows, Goods

\* A step that changes neither goods, payments nor submissions is not seen.
LEMMA QuietUnseen ==
  ASSUME UNCHANGED <<goods, payStatus>>, Confirmed' = Confirmed
  PROVE  UNCHANGED Promise!vars
  <1>1. Shelf' = Shelf /\ Paid' = Paid
    BY DEF Shelf, Paid, GoodsOf, In
  <1>. QED  BY <1>1, Unseen

LEMMA SameFile ==
  ASSUME UNCHANGED <<attOrder, subAttempt>>
  PROVE  Confirmed' = Confirmed
  BY DEF Confirmed, OnFile, OrderOf

\* The goods of one order change.
LEMMA ShelfSeen ==
  ASSUME NEW o \in Order, UNCHANGED <<payStatus, attOrder, subAttempt>>,
         \A p \in Order : p # o => goods'[p] = goods[p],
         NEW before, NEW after, before = OfRows(goods[o]), after = OfRows(goods'[o]),
         \/ after = before
         \/ before \in {"NONE", "RELEASED"} /\ after = "ACTIVE"
         \/ before = "ACTIVE" /\ after = "RELEASED"
         \/ before \in {"ACTIVE", "RELEASED"} /\ after = "CONSUMED" /\ payStatus[o] = "PAID"
  PROVE  [Promise!Next]_(Promise!vars)
  <1>1. /\ Shelf = [p \in Order |-> OfRows(goods[p])]
        /\ Shelf' = [p \in Order |-> OfRows(goods'[p])]
    BY GoodsOfFacts DEF Shelf, ToldByRows
  <1>2. Shelf[o] = before /\ Shelf' = [Shelf EXCEPT ![o] = after]
    BY <1>1
  <1>3. Paid' = Paid /\ Confirmed' = Confirmed
    BY SameFile DEF Paid
  <1>4. CASE after = before
    <2>1. Shelf' = Shelf
      BY <1>1, <1>2, <1>4
    <2>. QED  BY <1>3, <2>1, Unseen
  <1>5. CASE before \in {"NONE", "RELEASED"} /\ after = "ACTIVE"
    <2>1. Promise!SetAside(o)
      BY <1>2, <1>3, <1>5 DEF Promise!SetAside, Shelf, Confirmed, Paid
    <2>. QED  BY <2>1 DEF Promise!Next
  <1>6. CASE before = "ACTIVE" /\ after = "RELEASED"
    <2>1. Promise!GiveBack(o)
      BY <1>2, <1>3, <1>6 DEF Promise!GiveBack, Shelf, Confirmed, Paid
    <2>. QED  BY <2>1 DEF Promise!Next
  <1>7. CASE before \in {"ACTIVE", "RELEASED"} /\ after = "CONSUMED" /\ payStatus[o] = "PAID"
    <2>1. Promise!Sell(o)
      BY <1>2, <1>3, <1>7 DEF Promise!Sell, Shelf, Confirmed, Paid
    <2>. QED  BY <2>1 DEF Promise!Next
  <1>. QED  BY <1>4, <1>5, <1>6, <1>7

\* Placing sets aside.
LEMMA PlaceSeen ==
  ASSUME Inv, NEW h \in Handler, NEW o \in Order, Place(h, o), UNCHANGED rowVars
  PROVE  [Promise!Next]_(Promise!vars)
  <1>1. PaymentTypeOK /\ Orders /\ UNCHANGED <<payStatus, attOrder, subAttempt>>
    BY DEF Inv, Data, Place, rowVars
  <1>2. /\ \A p \in Order : p # o => goods'[p] = goods[p]
        /\ \A b \in Batch : goods[o][b] = "NONE"
        /\ \A b \in Batch : goods'[o][b] = IF b = 0 THEN "ACTIVE" ELSE "NONE"
    BY <1>1, BatchFacts DEF Place, Orders, PaymentTypeOK
  <1>3. OfRows(goods[o]) = "NONE" /\ OfRows(goods'[o]) = "ACTIVE"
    BY <1>2, BatchFacts DEF OfRows
  <1>. QED  BY <1>1, <1>2, <1>3, ShelfSeen

\* A cancellation, a rejection and an expiry give back.
LEMMA ReleaseSeen ==
  ASSUME PaymentTypeOK, NEW o \in Order, Release(o), UNCHANGED <<payStatus, attOrder, subAttempt>>
  PROVE  [Promise!Next]_(Promise!vars)
  <1>1. /\ \A p \in Order : p # o => goods'[p] = goods[p]
        /\ \A b \in Batch : goods'[o][b] = IF goods[o][b] = "ACTIVE" THEN "RELEASED" ELSE goods[o][b]
    BY DEF Release, Turn, In, PaymentTypeOK
  <1>2. OfRows(goods'[o]) = IF OfRows(goods[o]) = "ACTIVE" THEN "RELEASED" ELSE OfRows(goods[o])
    BY <1>1 DEF OfRows
  <1>. QED  BY <1>1, <1>2, ShelfSeen

LEMMA CancelSeen ==
  ASSUME Inv, NEW h \in Handler, CancelWrite(h), UNCHANGED rowVars
  PROVE  [Promise!Next]_(Promise!vars)
  <1>1. PaymentTypeOK /\ UNCHANGED <<payStatus, attOrder, subAttempt>>
    BY DEF Inv, Data, CancelWrite, rowVars
  <1>2. PICK o \in Order : o = ord[h]
    BY DEF Inv, Knows, OrderKnows, CancelWrite, Ordering
  <1>3. Release(o)
    BY <1>2 DEF CancelWrite
  <1>. QED  BY <1>1, <1>3, ReleaseSeen

LEMMA GivenUpSeen ==
  ASSUME Inv, NEW h \in Handler, ExpireGoods(h) \/ RejectGoods(h)
  PROVE  [Promise!Next]_(Promise!vars)
  <1>1. PaymentTypeOK /\ Data /\ Knows(h) /\ UNCHANGED <<payStatus, attOrder, subAttempt>>
    BY DEF Inv, Data, ExpireGoods, RejectGoods, rowVars
  <1>2. CASE ExpireGoods(h)
    <2>1. PICK o \in Order : o = OrderOf(sub[h])
      BY <1>1, <1>2, RowFacts DEF Knows, ExpireGoods, Examining
    <2>2. Release(o)
      BY <1>2, <2>1 DEF ExpireGoods
    <2>. QED  BY <1>1, <2>2, ReleaseSeen
  <1>3. CASE RejectGoods(h)
    <2>1. PICK o \in Order : o = attOrder[work[h]]
      BY <1>3, DecidingFacts DEF RejectGoods, Deciding
    <2>2. Release(o)
      BY <1>3, <2>1 DEF RejectGoods
    <2>. QED  BY <1>1, <2>2, ReleaseSeen
  <1>. QED  BY <1>2, <1>3

\* An edit may set goods aside again.
LEMMA EditSeen ==
  ASSUME Inv, NEW h \in Handler, EditWrite(h), UNCHANGED rowVars
  PROVE  [Promise!Next]_(Promise!vars)
  <1>1. PaymentTypeOK /\ Orders /\ UNCHANGED <<payStatus, attOrder, subAttempt>>
    BY DEF Inv, Data, EditWrite, rowVars
  <1>2. PICK o \in Order : o = ord[h] /\ status[o] # "NONE"
    BY DEF Inv, Knows, OrderKnows, EditWrite, Ordering
  <1>3. CASE UNCHANGED goods
    BY <1>1, <1>3, SameFile, QuietUnseen
  <1>4. ASSUME NEW b \in Batch, goods[o][b] = "NONE",
               goods' = [goods EXCEPT ![o] =
                   [c \in Batch |-> IF c = b THEN "ACTIVE"
                                    ELSE IF @[c] = "ACTIVE" THEN "RELEASED" ELSE @[c]]]
        PROVE  [Promise!Next]_(Promise!vars)
    <2>1. /\ \A p \in Order : p # o => goods'[p] = goods[p]
          /\ \A c \in Batch : goods'[o][c] =
               IF c = b THEN "ACTIVE"
               ELSE IF goods[o][c] = "ACTIVE" THEN "RELEASED" ELSE goods[o][c]
      BY <1>1, <1>4 DEF PaymentTypeOK
    <2>2. goods[o] \in [Batch -> Goods] /\ goods[o][0] # "NONE"
      BY <1>1, <1>2 DEF Orders, PaymentTypeOK
    <2>3. OfRows(goods[o]) \in {"ACTIVE", "RELEASED", "CONSUMED"}
      BY <2>2, BatchFacts, OfRowsFacts
    <2>4. OfRows(goods'[o]) = IF OfRows(goods[o]) = "CONSUMED" THEN "CONSUMED" ELSE "ACTIVE"
      BY <1>4, <2>1 DEF OfRows
    <2>. QED  BY <1>1, <2>1, <2>3, <2>4, ShelfSeen
  <1>. QED  BY <1>2, <1>3, <1>4 DEF EditWrite

\* A consumption sells.
LEMMA ConsumeSeen ==
  ASSUME Inv, NEW h \in Handler, Consume(h), UNCHANGED rowVars
  PROVE  [Promise!Next]_(Promise!vars)
  <1>1. /\ PaymentTypeOK /\ Data /\ Knows(h) /\ pc[h] = "consume"
        /\ UNCHANGED <<payStatus, attOrder, subAttempt>>
    BY DEF Inv, Data, Consume, rowVars
  <1>2. PICK o \in Order : o = attOrder[work[h]] /\ payStatus[o] = "PAID" /\ goods[o][0] # "NONE"
    BY <1>1, DecidingFacts DEF Knows, OrderKnows, Finalizing, Paying, Data, Orders
  <1>3. CASE UNCHANGED goods
    BY <1>1, <1>3, SameFile, QuietUnseen
  <1>4. CASE ConsumeRows(h)
    <2>1. /\ \A p \in Order : p # o => goods'[p] = goods[p]
          /\ \A b \in Batch : goods'[o][b] = IF b \in rows[h] THEN "CONSUMED" ELSE goods[o][b]
          /\ rows[h] \subseteq Batch
      BY <1>1, <1>2, <1>4 DEF ConsumeRows, Turn, PaymentTypeOK
    <2>2. goods[o] \in [Batch -> Goods]
      BY <1>1 DEF PaymentTypeOK
    <2>3. OfRows(goods[o]) \in {"ACTIVE", "RELEASED", "CONSUMED"}
      BY <1>2, <2>2, BatchFacts, OfRowsFacts
    <2>4. OfRows(goods'[o]) = IF rows[h] # {} THEN "CONSUMED" ELSE OfRows(goods[o])
      BY <2>1 DEF OfRows
    <2>. QED  BY <1>1, <1>2, <2>1, <2>3, <2>4, ShelfSeen
  <1>. QED  BY <1>3, <1>4 DEF Consume

\* The order becomes paid: the submission being approved vouches for it.
LEMMA MarkPaidSeen ==
  ASSUME Inv, NEW h \in Handler, MarkPaid(h), UNCHANGED rowVars
  PROVE  [Promise!Next]_(Promise!vars)
  <1>1. PaymentTypeOK /\ pc[h] \in Finalizing /\ UNCHANGED <<goods, attOrder, subAttempt>>
    BY DEF Inv, Data, MarkPaid, rowVars, Finalizing
  <1>2. PICK o \in Order : o = attOrder[work[h]] /\ OnFile(o)
    BY <1>1, DecidingFacts DEF OnFile, OrderOf
  <1>3. payStatus' = [payStatus EXCEPT ![o] = "PAID"]
    BY <1>2 DEF MarkPaid
  <1>4. Paid' = Paid \union {o} /\ o \in Confirmed
    BY <1>1, <1>2, <1>3 DEF Paid, Confirmed, PaymentTypeOK
  <1>5. Shelf' = Shelf /\ Confirmed' = Confirmed
    BY <1>1, SameFile DEF Shelf, GoodsOf, In
  <1>6. Promise!Pay(o)
    BY <1>4, <1>5 DEF Promise!Pay, Paid, Shelf, Confirmed
  <1>. QED  BY <1>6 DEF Promise!Next

LEMMA OrderSeen ==
  ASSUME Inv, NEW h \in Handler, OrderStep(h) \/ OrderRequest(h), UNCHANGED rowVars
  PROVE  [Promise!Next]_(Promise!vars)
  <1>1. CASE \/ PublishCreated(h) \/ PublishEdited(h) \/ ReadReservation(h)
             \/ PostSaleJournal(h) \/ RecordPaid(h) \/ PublishPaid(h)
             \/ \E o \in Order : CancelCheck(h, o) \/ EditCheck(h, o)
    <2>1. UNCHANGED <<goods, payStatus, attOrder, subAttempt>>
      BY <1>1 DEF PublishCreated, PublishEdited, ReadReservation, PostSaleJournal, RecordPaid,
         PublishPaid, CancelCheck, EditCheck, orderVars, rowVars
    <2>. QED  BY <2>1, SameFile, QuietUnseen
  <1>2. CASE \E o \in Order : Place(h, o)
    BY <1>2, PlaceSeen
  <1>3. CASE CancelWrite(h) \/ EditWrite(h)
    BY <1>3, CancelSeen, EditSeen
  <1>4. CASE MarkPaid(h) \/ Consume(h)
    BY <1>4, MarkPaidSeen, ConsumeSeen
  <1>. QED  BY <1>1, <1>2, <1>3, <1>4 DEF OrderStep, OrderRequest

\* A new attempt is not yet anybody's submission.
LEMMA CreateAttemptSeen ==
  ASSUME Inv, NEW h \in Handler, CreateAttempt(h)
  PROVE  UNCHANGED Promise!vars
  <1>1. Data /\ UNCHANGED <<goods, payStatus, subAttempt>>
    BY DEF Inv, CreateAttempt, orderVars, rowVars
  <1>2. \A a \in Attempt : attOrder[a] # None => attOrder'[a] = attOrder[a]
    BY <1>1 DEF CreateAttempt, Data, Attempts, PaymentTypeOK
  <1>3. \A s \in Submission : subAttempt[s] # None => OrderOf(s)' = OrderOf(s)
    BY <1>1, <1>2, RowFacts DEF OrderOf
  <1>4. Confirmed' = Confirmed
    BY <1>1, <1>3 DEF Confirmed, OnFile
  <1>. QED  BY <1>1, <1>4, QuietUnseen

\* A submission vouches for its order, which has been placed.
LEMMA CreateSubmissionSeen ==
  ASSUME Inv, NEW h \in Handler, CreateSubmission(h)
  PROVE  [Promise!Next]_(Promise!vars)
  <1>1. /\ Data /\ work[h] \in Attempt /\ attOrder[work[h]] # None
        /\ UNCHANGED <<goods, payStatus, attOrder>>
    BY WritingFacts DEF CreateSubmission, Writing, orderVars
  <1>2. CASE UNCHANGED subAttempt
    BY <1>1, <1>2, SameFile, QuietUnseen
  <1>3. CASE /\ NextRow \in Submission
             /\ subAttempt' = [subAttempt EXCEPT ![NextRow] = work[h]]
    <2>1. PICK r \in Submission : r = NextRow /\ subAttempt[r] = None
      <3>1. PICK n \in 0..MaxSubmissions :
              NextRow = n + 1 /\ \A s \in Submission : subAttempt[s] # None <=> s <= n
        BY <1>1, NextRowFacts
      <3>. QED  BY <1>3, <3>1
    <2>2. PICK o \in Order : o = attOrder[work[h]] /\ goods[o][0] # "NONE"
      BY <1>1, RowFacts DEF Data, Orders
    <2>3. \A s \in Submission : subAttempt'[s] = IF s = r THEN work[h] ELSE subAttempt[s]
      <3>. HIDE DEF NextRow
      <3>. QED  BY <1>1, <1>3, <2>1 DEF Data
    <2>4. work[h] # None
      BY <1>1, OrderPaymentAssumption
    <2>5. Confirmed' = Confirmed \union {o}
      BY <1>1, <2>1, <2>2, <2>3, <2>4 DEF Confirmed, OnFile, OrderOf
    <2>6. Shelf' = Shelf /\ Paid' = Paid
      BY <1>1 DEF Shelf, Paid, GoodsOf, In
    <2>7. Shelf[o] # "NONE"
      <3>1. goods[o] \in [Batch -> Goods]
        BY <1>1 DEF Data, PaymentTypeOK
      <3>2. OfRows(goods[o]) # "NONE"
        BY <2>2, <3>1, BatchFacts, OfRowsFacts
      <3>. QED  BY <3>2, GoodsTold DEF Shelf, ToldByRows
    <2>8. Promise!Confirm(o)
      BY <2>5, <2>6, <2>7 DEF Promise!Confirm, Shelf, Confirmed, Paid
    <2>. QED  BY <2>8 DEF Promise!Next
  <1>. QED  BY <1>2, <1>3 DEF CreateSubmission

LEMMA PromiseInit == Init => Promise!Init
  <1>. SUFFICES ASSUME Init PROVE Promise!Init
    OBVIOUS
  <1>1. \A o \in Order : GoodsOf(o) = "NONE"
    BY GoodsTold DEF Init, PaymentInit, ToldByRows, OfRows
  <1>2. {o \in Order : payStatus[o] = "PAID"} = {}
    BY DEF Init, PaymentInit
  <1>3. {o \in Order : OnFile(o)} = {}
    BY DEF Init, OnFile
  <1>. QED  BY <1>1, <1>2, <1>3 DEF Promise!Init

LEMMA PromiseStep == Inv /\ [Next]_vars => [Promise!Next]_(Promise!vars)
  <1>. SUFFICES ASSUME Inv, [Next]_vars PROVE [Promise!Next]_(Promise!vars)
    OBVIOUS
  <1>1. ASSUME NEW h \in Handler, OrderStep(h) \/ OrderRequest(h), UNCHANGED rowVars
        PROVE  [Promise!Next]_(Promise!vars)
    BY <1>1, OrderSeen
  <1>2. ASSUME NEW h \in Handler, ExpireGoods(h) \/ RejectGoods(h)
        PROVE  [Promise!Next]_(Promise!vars)
    BY <1>2, GivenUpSeen
  <1>3. ASSUME NEW h \in Handler, CreateAttempt(h) \/ CreateSubmission(h)
        PROVE  [Promise!Next]_(Promise!vars)
    BY <1>3, CreateAttemptSeen, CreateSubmissionSeen
  <1>4. ASSUME NEW h \in Handler,
               \/ \E o \in Order, a \in Attempt : Submit(h, o, a)
               \/ \E s \in Submission : Show(h, s) \/ \E d \in Decision : Decide(h, s, d)
               \/ Look(h) \/ ExpireSubmission(h) \/ ExpireAttempt(h)
               \/ Keyed(h) \/ CheckOrder(h) \/ FindPending(h) \/ StillPending(h)
               \/ FindCorrectable(h) \/ UpdateSubmission(h) \/ Review(h)
               \/ Fresh(h) \/ Approve(h) \/ Reject(h) \/ WriteDecision(h) \/ Die(h)
        PROVE  [Promise!Next]_(Promise!vars)
    <2>1. UNCHANGED <<goods, payStatus, attOrder, subAttempt>>
      BY <1>4 DEF Submit, Show, Decide, Look, ExpireSubmission, ExpireAttempt, Keyed, CheckOrder,
         FindPending, StillPending, FindCorrectable, UpdateSubmission, Review, Fresh, Approve,
         Reject, WriteDecision, Die, Crash, orderVars, rowVars
    <2>. QED  BY <2>1, SameFile, QuietUnseen
  <1>5. CASE (\E o \in Order : Age(o)) \/ (\E a \in Attempt : Overdue(a)) \/ UNCHANGED vars
    <2>1. UNCHANGED <<goods, payStatus, attOrder, subAttempt>>
      BY <1>5 DEF Age, Overdue, vars, paymentVars, orderVars, cardVars, rowVars
    <2>. QED  BY <2>1, SameFile, QuietUnseen
  <1>. QED  BY <1>1, <1>2, <1>3, <1>4, <1>5 DEF Next, Request, Step, Shared, cardVars

\* KeepsPromise: paying by transfer implements what the shop promises.
THEOREM CardPromiseKept == Spec => KeepsPromise
  BY PromiseInit, PromiseStep, Invariant, PTL DEF Spec, KeepsPromise, Promise!Spec

-----------------------------------------------------------------------------
(* Only an approval pays *)

LEMMA ApprovalPays == Inv /\ [Next]_vars => PaidByApproval
  <1>. SUFFICES ASSUME Inv, [Next]_vars PROVE PaidByApproval
    OBVIOUS
  <1>1. ASSUME NEW h \in Handler, MarkPaid(h) PROVE PaidByApproval
    <2>1. /\ PaymentTypeOK /\ Knows(h) /\ pc[h] = "settle" /\ pc[h] \in Finalizing
          /\ pc \in [Handler -> Label]
      BY <1>1, LabelFacts DEF Inv, MarkPaid, Finalizing
    <2>2. choice[h] = "APPROVED" /\ sub[h] \in Submission /\ OrderOf(sub[h]) = attOrder[work[h]]
      BY <2>1, DecidingFacts DEF Knows, OrderOf
    <2>3. pc'[h] = "reserved"
      BY <1>1, <2>1 DEF MarkPaid, Goto
    <2>4. \A o \in Order : o # attOrder[work[h]] => payStatus'[o] = payStatus[o]
      BY <1>1, <2>1 DEF MarkPaid, PaymentTypeOK
    <2>. QED  BY <2>1, <2>2, <2>3, <2>4 DEF PaidByApproval
  <1>2. ASSUME NEW h \in Handler,
               \/ PublishCreated(h) \/ CancelWrite(h) \/ EditWrite(h) \/ PublishEdited(h)
               \/ ReadReservation(h) \/ Consume(h) \/ PostSaleJournal(h) \/ RecordPaid(h)
               \/ PublishPaid(h) \/ OrderRequest(h)
        PROVE  PaidByApproval
    <2>1. UNCHANGED payStatus
      BY <1>2 DEF PublishCreated, CancelWrite, EditWrite, PublishEdited, ReadReservation, Consume,
         PostSaleJournal, RecordPaid, PublishPaid, OrderRequest, Place, CancelCheck, EditCheck,
         orderVars
    <2>. QED  BY <2>1 DEF PaidByApproval
  <1>3. ASSUME NEW h \in Handler,
               \/ \E o \in Order, a \in Attempt : Submit(h, o, a)
               \/ \E s \in Submission : Show(h, s) \/ \E d \in Decision : Decide(h, s, d)
               \/ Look(h) \/ ExpireSubmission(h) \/ ExpireAttempt(h) \/ ExpireGoods(h)
               \/ Keyed(h) \/ CheckOrder(h) \/ FindPending(h) \/ StillPending(h)
               \/ FindCorrectable(h) \/ CreateAttempt(h) \/ CreateSubmission(h)
               \/ UpdateSubmission(h) \/ Review(h) \/ Fresh(h) \/ Approve(h) \/ Reject(h)
               \/ RejectGoods(h) \/ WriteDecision(h) \/ Die(h)
        PROVE  PaidByApproval
    <2>1. UNCHANGED payStatus
      BY <1>3 DEF Submit, Show, Decide, Look, ExpireSubmission, ExpireAttempt, ExpireGoods, Keyed,
         CheckOrder, FindPending, StillPending, FindCorrectable, CreateAttempt, CreateSubmission,
         UpdateSubmission, Review, Fresh, Approve, Reject, RejectGoods, WriteDecision, Die, Crash,
         orderVars
    <2>. QED  BY <2>1 DEF PaidByApproval
  <1>4. CASE (\E o \in Order : Age(o)) \/ (\E a \in Attempt : Overdue(a)) \/ UNCHANGED vars
    <2>1. UNCHANGED payStatus
      BY <1>4 DEF Age, Overdue, vars, paymentVars, orderVars
    <2>. QED  BY <2>1 DEF PaidByApproval
  <1>. QED  BY <1>1, <1>2, <1>3, <1>4 DEF Next, Request, Step, Shared, OrderStep

\* OnlyApprovalPays: what a customer submits or corrects, a rejection, a request
\* for correction or an expiry never makes an order paid (decide, finalizePaid).
THEOREM OnlyApprovalsPay == Spec => OnlyApprovalPays
  <1>1. Inv /\ [Next]_vars => [PaidByApproval]_vars
    BY ApprovalPays
  <1>. QED  BY <1>1, Invariant, PTL DEF Spec, OnlyApprovalPays
=============================================================================
