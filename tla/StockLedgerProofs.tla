------------------------- MODULE StockLedgerProofs -------------------------
(***************************************************************************)
(* Proofs, for every set of SKUs, warehouses, transactions and orders, of   *)
(* all the safety properties of the stock engine: no overdrawn cell, every  *)
(* balanceAfter computed from the balance it follows, the variant's stock   *)
(* equal to the ledger's, goods neither made nor lost, one sale per order,  *)
(* and no order accepted on goods that others have reserved.                *)
(*                                                                         *)
(* The inductive invariant comes in layers: Shape (types, and what a        *)
(* transaction may hold in each phase), Chain (a balance read under the     *)
(* row lock is still the balance), Sold (who may write a SALE key), Counted *)
(* (the sums) and Secured (a checked order stays covered).                  *)
(***************************************************************************)
EXTENDS StockLedger, Sums, TLAPS

\* A reservation that exists is for a positive quantity.
Positive == \A o \in Order, s \in Sku : resState[o][s] # "NONE" => resQty[o][s] > 0

\* A transaction that has not begun holds nothing; only direct moves and
\* releases pass lines over; what is wanted is a line; all but direct moves
\* work for an order; direct moves and consumptions have keys of their own.
Phases ==
    \A t \in Txn :
        /\ pc[t] = "new" => /\ skipped[t] = {} /\ wants[t] = {}
                            /\ \A s \in Sku : lock[s] # t
        /\ kind[t] \in {"hold", "consume"} => skipped[t] = {}
        /\ wants[t] \subseteq DOMAIN lines[t]
        /\ kind[t] \in {"hold", "consume", "release"} => order[t] \in Order
        /\ kind[t] = "move" => \A s \in DOMAIN lines[t] : lines[t][s].key \in MoveKey
        /\ kind[t] = "consume" =>
              \A s \in DOMAIN lines[t] : /\ lines[t][s].key = SaleKey(order[t], s)
                                       /\ resState[order[t]][s] # "NONE"

Shape == TypeOK /\ Positive /\ Phases

\* The initial state has the shape.
LEMMA InitShape == Init => Shape
  BY ConstantsAssumption, SMT DEF Init, Shape, TypeOK, Positive, Phases, Cell, IsLines, Line, Key

\* What a transaction reads of its own lines is well typed.
LEMMA LineTypes ==
  ASSUME Shape, NEW t \in Txn, NEW s \in DOMAIN lines[t]
  PROVE  /\ s \in Sku /\ lines[t][s] \in Line
         /\ lines[t][s].qty \in Nat /\ lines[t][s].qty > 0
         /\ lines[t][s].key \in Key \union {NoKey}
         /\ lines[t][s].in \in BOOLEAN
         /\ CellOf(t, s) \in Cell
         /\ Delta(t, s) \in Int /\ After(t, s) \in Int
  BY DEF Shape, TypeOK, IsLines, Line, CellOf, Delta, After, Cell

\* The lines that append a row are lines of the transaction.
LEMMA MovedLines ==
  ASSUME NEW t \in Txn
  PROVE  Moved(t) \subseteq DOMAIN lines[t]
  BY DEF Moved

\* A direct move writes keys of its own, a consumption SALE keys of its order.
LEMMA MovedKeys ==
  ASSUME Shape, NEW t \in Txn, NEW s \in Moved(t)
  PROVE  /\ kind[t] = "move" => lines[t][s].key \in MoveKey
         /\ kind[t] # "move" => kind[t] = "consume" /\ lines[t][s].key = SaleKey(order[t], s)
         /\ lines[t][s].key \in Key
  <1>1. s \in DOMAIN lines[t] /\ s \in Sku
    BY MovedLines, LineTypes
  <1>2. CASE kind[t] = "move"
    BY <1>1, <1>2 DEF Shape, Phases, Key
  <1>3. CASE kind[t] # "move"
    <2>1. kind[t] = "consume"
      BY <1>3 DEF Moved
    <2>2. order[t] \in Order /\ lines[t][s].key = SaleKey(order[t], s)
      BY <1>1, <2>1 DEF Shape, Phases
    <2>. QED  BY <1>1, <1>3, <2>1, <2>2 DEF Key, SaleKey
  <1>. QED  BY <1>2, <1>3

\* The writes of a committing transaction keep the types.
LEMMA AppendRowsShape ==
  ASSUME Shape, NEW t \in Txn, AppendRows(t)
  PROVE  /\ sumIn' \in [Cell -> Nat] /\ sumOut' \in [Cell -> Nat]
         /\ lastAfter' \in [Cell -> Int]
         /\ keys' \subseteq Key
         /\ stockQty' \in [Sku -> Int]
         /\ alerts' \subseteq ({"LowStockStockAlert", "StockRestocked"} \X Cell \X Int)
  <1>. USE DEF AppendRows
  <1>1. \A s \in Moved(t) : s \in DOMAIN lines[t]
    BY MovedLines
  <1>2. sumIn' \in [Cell -> Nat]
    <2>1. \A c \in Cell : Touches(t, c) => lines[t][c[2]].qty \in Nat
      BY <1>1, LineTypes DEF Touches
    <2>. QED  BY <2>1 DEF Shape, TypeOK
  <1>3. sumOut' \in [Cell -> Nat]
    <2>1. \A c \in Cell : Touches(t, c) => lines[t][c[2]].qty \in Nat
      BY <1>1, LineTypes DEF Touches
    <2>. QED  BY <2>1 DEF Shape, TypeOK
  <1>4. lastAfter' \in [Cell -> Int]
    <2>1. \A c \in Cell : Touches(t, c) => After(t, c[2]) \in Int
      BY <1>1, LineTypes DEF Touches
    <2>. QED  BY <2>1 DEF Shape, TypeOK
  <1>5. keys' \subseteq Key
    BY MovedKeys DEF Shape, TypeOK
  <1>6. stockQty' \in [Sku -> Int]
    <2>1. \A s \in Moved(t) : NextStock(t, s) \in Int
      BY <1>1, LineTypes DEF Shape, TypeOK, NextStock
    <2>. QED  BY <2>1 DEF Shape, TypeOK
  <1>7. alerts' \subseteq ({"LowStockStockAlert", "StockRestocked"} \X Cell \X Int)
    <2>1. \A s \in Moved(t) : /\ s \in Sku /\ CellOf(t, s) \in Cell
                             /\ Delta(t, s) \in Int /\ NextStock(t, s) \in Int
      BY <1>1, LineTypes DEF Shape, TypeOK, NextStock
    <2>. QED  BY <2>1 DEF Shape, TypeOK
  <1>. QED  BY <1>2, <1>3, <1>4, <1>5, <1>6, <1>7

\* Reservations keep their types, and none ever becomes NONE again.
LEMMA WriteReservationShape ==
  ASSUME Shape, NEW t \in Txn, WriteReservation(t)
  PROVE  /\ resState' \in [Order -> [Sku -> {"NONE", "ACTIVE", "RELEASED", "CONSUMED"}]]
         /\ resQty' \in [Order -> [Sku -> Nat]]
         /\ reservedQty' \in [Sku -> Nat]
         /\ Positive'
         /\ \A o \in Order, s \in Sku : resState'[o][s] = "NONE" => resState[o][s] = "NONE"
  <1>1. \A s \in DOMAIN lines[t] : s \in Sku /\ lines[t][s].qty \in Nat /\ lines[t][s].qty > 0
    BY LineTypes
  <1>2. \A s \in DOMAIN lines[t] : Lowered(t, s) \in Nat
    BY <1>1 DEF Lowered, Shape, TypeOK
  <1>3. CASE kind[t] = "hold"
    <2>1. order[t] \in Order /\ MarkLines(t, "ACTIVE")
      BY <1>3 DEF Shape, Phases, WriteReservation
    <2>2. resState' \in [Order -> [Sku -> {"NONE", "ACTIVE", "RELEASED", "CONSUMED"}]]
      BY <2>1 DEF MarkLines, Shape, TypeOK
    <2>3. /\ resQty' = [resQty EXCEPT ![order[t]] =
                  [s \in Sku |-> IF s \in DOMAIN lines[t] THEN lines[t][s].qty ELSE @[s]]]
          /\ reservedQty' = [s \in Sku |->
                  IF s \in DOMAIN lines[t] THEN reservedQty[s] + lines[t][s].qty ELSE reservedQty[s]]
      BY <1>3 DEF WriteReservation
    <2>4. resQty' \in [Order -> [Sku -> Nat]] /\ reservedQty' \in [Sku -> Nat]
      <3>1. resQty \in [Order -> [Sku -> Nat]] /\ reservedQty \in [Sku -> Nat]
        BY DEF Shape, TypeOK
      <3>. QED  BY <1>1, <2>1, <2>3, <3>1
    <2>6. Positive'
      <3>1. /\ resQty \in [Order -> [Sku -> Nat]]
            /\ resState \in [Order -> [Sku -> {"NONE", "ACTIVE", "RELEASED", "CONSUMED"}]]
        BY DEF Shape, TypeOK
      <3>2. SUFFICES ASSUME NEW o \in Order, NEW s \in Sku, resState'[o][s] # "NONE"
                     PROVE  resQty'[o][s] > 0
        BY DEF Positive
      <3>3. CASE o = order[t] /\ s \in DOMAIN lines[t]
        BY <1>1, <2>3, <3>1, <3>3
      <3>4. CASE ~(o = order[t] /\ s \in DOMAIN lines[t])
        <4>1. resState'[o][s] = resState[o][s]
          BY <2>1, <3>1, <3>4 DEF MarkLines
        <4>2. resQty'[o][s] = resQty[o][s]
          BY <2>3, <3>1, <3>4
        <4>. QED  BY <3>2, <4>1, <4>2 DEF Shape, Positive
      <3>. QED  BY <3>3, <3>4
    <2>5. \A o \in Order, s \in Sku : resState'[o][s] = "NONE" => resState[o][s] = "NONE"
      BY <2>1 DEF MarkLines, Shape, TypeOK
    <2>. QED  BY <2>2, <2>4, <2>5, <2>6
  <1>4. CASE kind[t] = "consume"
    <2>1. order[t] \in Order /\ MarkLines(t, "CONSUMED") /\ UNCHANGED resQty
      BY <1>4 DEF Shape, Phases, WriteReservation
    <2>2. resState' \in [Order -> [Sku -> {"NONE", "ACTIVE", "RELEASED", "CONSUMED"}]]
      BY <2>1 DEF MarkLines, Shape, TypeOK
    <2>3. resQty' \in [Order -> [Sku -> Nat]] /\ reservedQty' \in [Sku -> Nat]
      BY <1>2, <1>4, <2>1 DEF WriteReservation, Shape, TypeOK
    <2>4. \A s \in DOMAIN lines[t] : s \in Sku /\ resQty[order[t]][s] > 0
      BY <1>1, <1>4, <2>1 DEF Shape, Phases, Positive
    <2>5. Positive'
      BY <2>1, <2>4 DEF MarkLines, Shape, TypeOK, Positive
    <2>6. \A o \in Order, s \in Sku : resState'[o][s] = "NONE" => resState[o][s] = "NONE"
      BY <2>1 DEF MarkLines, Shape, TypeOK
    <2>. QED  BY <2>2, <2>3, <2>5, <2>6
  <1>5. CASE kind[t] \notin {"hold", "consume"}
    BY <1>5 DEF WriteReservation, Shape, TypeOK, Positive, resVars
  <1>. QED  BY <1>3, <1>4, <1>5

\* Ending a transaction frees its own locks and no others.
LEMMA UnlockShape ==
  ASSUME Shape, NEW t \in Txn, Unlock(t)
  PROVE  /\ lock' \in [Sku -> Txn \union {NoTxn}]
         /\ \A u \in Txn, s \in Sku : lock'[s] = u => lock[s] = u /\ u # t
  BY ConstantsAssumption DEF Shape, TypeOK, Unlock

\* A rollback keeps the shape.
LEMMA RollbackShape ==
  ASSUME Shape, NEW t \in Txn, Rollback(t)
  PROVE  Shape'
  <1>. USE DEF Rollback, ledgerVars, variantVars, resVars
  <1>1. TypeOK'
    BY UnlockShape DEF Shape, TypeOK, Cell
  <1>2. Positive'
    BY DEF Shape, Positive
  <1>3. Phases'
    BY UnlockShape DEF Shape, Phases, TypeOK
  <1>. QED  BY <1>1, <1>2, <1>3 DEF Shape

\* A commit keeps the shape.
LEMMA CommitShape ==
  ASSUME Shape, NEW t \in Txn, Commit(t)
  PROVE  Shape'
  <1>. USE DEF Commit
  <1>1. TypeOK'
    BY AppendRowsShape, WriteReservationShape, UnlockShape DEF Shape, TypeOK, Cell
  <1>2. Positive'
    BY WriteReservationShape
  <1>3. Phases'
    <2>1. \A u \in Txn : \A s \in DOMAIN lines[u] : s \in Sku
      BY LineTypes
    <2>. QED  BY <2>1, UnlockShape, WriteReservationShape DEF Shape, Phases, TypeOK
  <1>. QED  BY <1>1, <1>2, <1>3 DEF Shape

\* Releasing rows keeps their types and touches no NONE.
LEMMA ReleaseRowsShape ==
  ASSUME Shape, NEW R, ReleaseRows(R)
  PROVE  /\ resState' \in [Order -> [Sku -> {"NONE", "ACTIVE", "RELEASED", "CONSUMED"}]]
         /\ \A o \in Order, s \in Sku : resState'[o][s] = "NONE" <=> resState[o][s] = "NONE"
  BY DEF Shape, TypeOK, ReleaseRows

\* One step per action: each keeps the types and the phases.
LEMMA NextShape == Shape /\ [Next]_vars => Shape'
  <1>. SUFFICES ASSUME Shape, [Next]_vars PROVE Shape'
    OBVIOUS
  <1>. USE DEF ledgerVars, variantVars, resVars
  <1>0. \A u \in Txn : \A s \in DOMAIN lines[u] : s \in Sku
    BY LineTypes
  <1>1. ASSUME NEW t \in Txn, BeginMove(t) PROVE Shape'
    <2>1. PICK job \in Jobs : lines' = [lines EXCEPT ![t] = job]
      BY <1>1 DEF BeginMove
    <2>2. IsLines(job) /\ \A s \in DOMAIN job : job[s].key \in MoveKey
      BY ConstantsAssumption
    <2>3. TypeOK' /\ Positive'
      BY <1>1, <2>1, <2>2 DEF BeginMove, Shape, TypeOK, Positive, Cell
    <2>4. Phases'
      BY <1>0, <1>1, <2>1, <2>2 DEF BeginMove, Shape, TypeOK, Phases
    <2>. QED  BY <2>3, <2>4 DEF Shape
  <1>2. ASSUME NEW t \in Txn, NEW o \in Order, BeginHold(t, o) PROVE Shape'
    <2>1. PICK cart \in Carts : lines' = [lines EXCEPT ![t] = [s \in DOMAIN cart |->
                      [wh |-> Main, qty |-> cart[s], in |-> FALSE, key |-> NoKey]]]
      BY <1>2 DEF BeginHold
    <2>2. IsCart(cart)
      BY ConstantsAssumption
    <2>3. IsLines(lines'[t])
      BY <2>1, <2>2, ConstantsAssumption DEF IsCart, IsLines, Line, Shape, TypeOK
    <2>4. TypeOK' /\ Positive'
      BY <1>2, <2>1, <2>3 DEF BeginHold, Shape, TypeOK, Positive, Cell
    <2>5. Phases'
      BY <1>0, <1>2, <2>1 DEF BeginHold, Shape, TypeOK, Phases
    <2>. QED  BY <2>4, <2>5 DEF Shape
  <1>3. ASSUME NEW t \in Txn, NEW o \in Order, BeginConsume(t, o) PROVE Shape'
    <2>. DEFINE active == {s \in Sku : resState[o][s] = "ACTIVE"}
    <2>1. lines' = [lines EXCEPT ![t] = [s \in active |->
            [wh |-> Main, qty |-> resQty[o][s], in |-> FALSE, key |-> SaleKey(o, s)]]]
      BY <1>3 DEF BeginConsume
    <2>2. IsLines(lines'[t])
      <3>1. lines'[t] = [s \in active |->
              [wh |-> Main, qty |-> resQty[o][s], in |-> FALSE, key |-> SaleKey(o, s)]]
        BY <2>1 DEF Shape, TypeOK
      <3>2. \A s \in active : /\ s \in Sku /\ resQty[o][s] \in Nat \ {0}
                              /\ SaleKey(o, s) \in Key \union {NoKey}
        <4>1. SUFFICES ASSUME NEW s \in active
                       PROVE  /\ s \in Sku /\ resQty[o][s] \in Nat \ {0}
                              /\ SaleKey(o, s) \in Key \union {NoKey}
          OBVIOUS
        <4>2. s \in Sku /\ resState[o][s] # "NONE"
          OBVIOUS
        <4>3. resQty[o][s] \in Nat /\ resQty[o][s] > 0
          BY <4>2 DEF Shape, TypeOK, Positive
        <4>. QED  BY <4>2, <4>3 DEF Key, SaleKey
      <3>3. \A s \in active :
              [wh |-> Main, qty |-> resQty[o][s], in |-> FALSE, key |-> SaleKey(o, s)] \in Line
        BY <3>2, ConstantsAssumption DEF Line
      <3>. HIDE DEF active
      <3>. QED  BY <3>1, <3>2, <3>3 DEF IsLines
    <2>3. TypeOK' /\ Positive'
      BY <1>3, <2>1, <2>2 DEF BeginConsume, Shape, TypeOK, Positive, Cell
    <2>4. Phases'
      BY <1>0, <1>3, <2>1 DEF BeginConsume, Shape, TypeOK, Phases
    <2>. QED  BY <2>3, <2>4 DEF Shape
  <1>4. ASSUME NEW t \in Txn, NEW o \in Order, BeginRelease(t, o) PROVE Shape'
    <2>. DEFINE S == {s \in Sku : resState[o][s] \in {"ACTIVE", "RELEASED"}}
    <2>1. lines' = [lines EXCEPT ![t] = [s \in S |->
            [wh |-> Main, qty |-> resQty[o][s], in |-> TRUE, key |-> NoKey]]]
      BY <1>4 DEF BeginRelease
    <2>2. IsLines(lines'[t])
      <3>1. lines'[t] = [s \in S |->
              [wh |-> Main, qty |-> resQty[o][s], in |-> TRUE, key |-> NoKey]]
        BY <2>1 DEF Shape, TypeOK
      <3>2. \A s \in S : s \in Sku /\ resQty[o][s] \in Nat \ {0}
        <4>1. SUFFICES ASSUME NEW s \in S
                       PROVE  s \in Sku /\ resQty[o][s] \in Nat \ {0}
          OBVIOUS
        <4>2. s \in Sku /\ resState[o][s] # "NONE"
          OBVIOUS
        <4>3. resQty[o][s] \in Nat /\ resQty[o][s] > 0
          BY <4>2 DEF Shape, TypeOK, Positive
        <4>. QED  BY <4>2, <4>3
      <3>3. \A s \in S :
              [wh |-> Main, qty |-> resQty[o][s], in |-> TRUE, key |-> NoKey] \in Line
        BY <3>2, ConstantsAssumption DEF Line
      <3>. HIDE DEF S
      <3>. QED  BY <3>1, <3>2, <3>3 DEF IsLines
    <2>3. ReleaseRows(RowsOfOrder(o))
      BY <1>4 DEF BeginRelease
    <2>4. TypeOK' /\ Positive'
      <3>1. /\ resState' \in [Order -> [Sku -> {"NONE", "ACTIVE", "RELEASED", "CONSUMED"}]]
            /\ \A p \in Order, s \in Sku : resState'[p][s] = "NONE" <=> resState[p][s] = "NONE"
        BY <2>3, ReleaseRowsShape
      <3>2. Positive'
        BY <1>4, <3>1 DEF BeginRelease, Shape, Positive
      <3>3. lines' = [u \in Txn |-> lines'[u]] /\ \A u \in Txn : IsLines(lines'[u])
        BY <2>1, <2>2 DEF Shape, TypeOK
      <3>4. TypeOK'
        BY <1>4, <3>1, <3>3 DEF BeginRelease, Shape, TypeOK, Cell
      <3>. QED  BY <3>2, <3>4
    <2>5. Phases'
      BY <1>0, <1>4, <2>1, <2>3, ReleaseRowsShape DEF BeginRelease, Shape, TypeOK, Phases
    <2>. QED  BY <2>4, <2>5 DEF Shape
  <1>5. ASSUME NEW t \in Txn, NEW s \in Sku, Want(t, s) PROVE Shape'
    <2>1. /\ pc[t] = "active" /\ s \in DOMAIN lines[t]
          /\ UNCHANGED <<ledgerVars, variantVars, resVars, lock,
                         kind, order, lines, seen, seenStock>>
      BY <1>5 DEF Want, Remaining
    <2>2. CASE /\ kind[t] = "move"
               /\ skipped' = [skipped EXCEPT ![t] = @ \union {s}]
               /\ UNCHANGED <<pc, wants, seenReserved>>
      <3>1. TypeOK' /\ Positive'
        BY <2>1, <2>2 DEF Shape, TypeOK, Positive
      <3>2. Phases'
        BY <2>1, <2>2 DEF Shape, TypeOK, Phases
      <3>. QED  BY <3>1, <3>2 DEF Shape
    <2>3. CASE /\ pc' = [pc EXCEPT ![t] = "waiting"]
               /\ wants' = [wants EXCEPT ![t] = {s}]
               /\ seenReserved' = [seenReserved EXCEPT ![t][s] = reservedQty[s]]
               /\ UNCHANGED skipped
      <3>1. TypeOK' /\ Positive'
        BY <2>1, <2>3 DEF Shape, TypeOK, Positive
      <3>2. Phases'
        BY <2>1, <2>3 DEF Shape, TypeOK, Phases
      <3>. QED  BY <3>1, <3>2 DEF Shape
    <2>. QED  BY <1>5, <2>2, <2>3 DEF Want
  <1>6. ASSUME NEW t \in Txn, NEW s \in Sku, Lock(t, s) PROVE Shape'
    <2>1. CellOf(t, s) \in Cell
      BY <1>6, LineTypes DEF Lock, Shape, Phases
    <2>2. TypeOK' /\ Positive'
      BY <1>6, <2>1 DEF Lock, OnHand, Shape, TypeOK, Positive
    <2>3. Phases'
      BY <1>6 DEF Lock, Shape, TypeOK, Phases
    <2>. QED  BY <2>2, <2>3 DEF Shape
  <1>7. ASSUME NEW t \in Txn, NEW s \in Sku, WriteBack(t, s) PROVE Shape'
    <2>1. s \in DOMAIN lines[t] /\ lines[t][s].qty \in Nat
      BY <1>7, LineTypes DEF WriteBack, Shape, Phases
    <2>2. Lowered(t, s) \in Nat
      BY <2>1 DEF Lowered, Shape, TypeOK
    <2>3. TypeOK' /\ Positive'
      BY <1>7, <2>2 DEF WriteBack, Shape, TypeOK, Positive
    <2>4. Phases'
      BY <1>7 DEF WriteBack, Shape, TypeOK, Phases
    <2>. QED  BY <2>3, <2>4 DEF Shape
  <1>8. ASSUME NEW t \in Txn, Check(t) PROVE Shape'
    BY <1>8 DEF Check, Shape, TypeOK, Positive, Phases, Ready
  <1>9. ASSUME NEW t \in Txn, Commit(t) PROVE Shape'
    BY <1>9, CommitShape
  <1>10. ASSUME NEW t \in Txn, Fail(t) \/ DeadlockVictim(t) \/ Crash(t) PROVE Shape'
    BY <1>10, RollbackShape DEF Fail, DeadlockVictim, Crash
  <1>11. ASSUME NEW R, ReleaseOnly(R) PROVE Shape'
    <2>1. ReleaseRows(R)
      BY <1>11 DEF ReleaseOnly
    <2>2. TypeOK' /\ Positive'
      BY <1>11, <2>1, ReleaseRowsShape DEF ReleaseOnly, txnVars, Shape, TypeOK, Positive, Cell
    <2>3. Phases'
      BY <1>0, <1>11, <2>1, ReleaseRowsShape DEF ReleaseOnly, txnVars, Shape, TypeOK, Phases
    <2>. QED  BY <2>2, <2>3 DEF Shape
  <1>12. CASE UNCHANGED vars
    BY <1>12 DEF vars, txnVars, Shape, TypeOK, Positive, Phases
  <1>. QED
    BY <1>1, <1>2, <1>3, <1>4, <1>5, <1>6, <1>7, <1>8, <1>9, <1>10, <1>11, <1>12
       DEF Next, Step, CancelOrder, Sweep, Terminating

-----------------------------------------------------------------------------
\* A balance and a stockQty read under the row lock are still current while
\* the lock is held: only its holder can append to the cell.
Fresh ==
    \A t \in Txn, s \in Sku :
        lock[s] = t /\ kind[t] \in {"move", "consume"} =>
            /\ s \in DOMAIN lines[t] /\ seen[t][s] = OnHand(CellOf(t, s))
            /\ seenStock[t][s] = stockQty[s]

Chain == LedgerChain /\ NonNegative /\ Fresh

\* The opening rows form a chain.
LEMMA InitChain == Init => Chain
  BY ConstantsAssumption DEF Init, Chain, LedgerChain, NonNegative, Fresh, OnHand, Cell

\* A transaction appends only to variants whose row it has locked.
LEMMA CommitLocked ==
  ASSUME Shape, NEW t \in Txn, Commit(t)
  PROVE  \A s \in Moved(t) : s \in Sku /\ lock[s] = t
  <1>1. SUFFICES ASSUME NEW s \in Moved(t) PROVE s \in Sku /\ lock[s] = t
    OBVIOUS
  <1>2. s \in DOMAIN lines[t] /\ s \in Sku
    BY MovedLines, LineTypes
  <1>3. kind[t] \in {"move", "consume"} /\ s \notin skipped[t]
    BY DEF Moved, Shape, Phases
  <1>. QED  BY <1>2, <1>3 DEF Commit, Ready, Held

\* What a commit does to one cell.
LEMMA CommitCell ==
  ASSUME Shape, NEW t \in Txn, Commit(t), NEW c \in Cell
  PROVE  /\ Touches(t, c) => OnHand(c)' = OnHand(c) + Delta(t, c[2])
         /\ ~Touches(t, c) => OnHand(c)' = OnHand(c) /\ lastAfter'[c] = lastAfter[c]
  <1>1. AppendRows(t)
    BY DEF Commit
  <1>2. sumIn[c] \in Nat /\ sumOut[c] \in Nat
    BY DEF Shape, TypeOK
  <1>3. Touches(t, c) => lines[t][c[2]].qty \in Nat /\ lines[t][c[2]].in \in BOOLEAN
    BY MovedLines, LineTypes DEF Touches
  <1>. QED  BY <1>1, <1>2, <1>3 DEF AppendRows, OnHand, Delta

\* A commit appends the next link to every chain it touches.
LEMMA CommitChain ==
  ASSUME Shape, Chain, NEW t \in Txn, Commit(t)
  PROVE  Chain'
  <1>1. \A c \in Cell : Touches(t, c) =>
            /\ OnHand(c)' = After(t, c[2]) /\ lastAfter'[c] = After(t, c[2])
            /\ After(t, c[2]) >= 0
    <2>1. SUFFICES ASSUME NEW c \in Cell, Touches(t, c)
                   PROVE  /\ OnHand(c)' = After(t, c[2]) /\ lastAfter'[c] = After(t, c[2])
                          /\ After(t, c[2]) >= 0
      OBVIOUS
    <2>2. c[2] \in Moved(t) /\ CellOf(t, c[2]) = c
      BY <2>1 DEF Touches
    <2>3. lock[c[2]] = t /\ c[2] \in Sku /\ kind[t] \in {"move", "consume"}
      BY <2>2, CommitLocked DEF Moved
    <2>4. seen[t][c[2]] = OnHand(c)
      BY <2>2, <2>3 DEF Chain, Fresh
    <2>5. OnHand(c)' = After(t, c[2])
      BY <2>1, <2>4, CommitCell DEF After
    <2>6. lastAfter'[c] = After(t, c[2])
      BY <2>1 DEF Commit, AppendRows
    <2>7. After(t, c[2]) >= 0
      BY <2>2, MovedLines, LineTypes DEF Commit, Overdrawn
    <2>. QED  BY <2>5, <2>6, <2>7
  <1>2. LedgerChain' /\ NonNegative'
    BY <1>1, CommitCell DEF Chain, LedgerChain, NonNegative, Cell
  <1>3. Fresh'
    <2>1. SUFFICES ASSUME NEW u \in Txn, NEW s \in Sku,
                          lock'[s] = u, kind'[u] \in {"move", "consume"}
                   PROVE  /\ s \in DOMAIN lines'[u] /\ seen'[u][s] = OnHand(CellOf(u, s))'
                          /\ seenStock'[u][s] = stockQty'[s]
      BY DEF Fresh
    <2>2. UNCHANGED <<kind, lines, seen, seenStock>>
      BY DEF Commit
    <2>3. lock[s] = u /\ u # t
      BY <2>1, UnlockShape DEF Commit
    <2>4. /\ s \in DOMAIN lines[u] /\ seen[u][s] = OnHand(CellOf(u, s))
          /\ seenStock[u][s] = stockQty[s]
      BY <2>1, <2>2, <2>3 DEF Chain, Fresh
    <2>5. CellOf(u, s) \in Cell /\ CellOf(u, s)[2] = s
      BY <2>4, LineTypes DEF CellOf
    <2>6. ~Touches(t, CellOf(u, s))
      BY <2>3, <2>5, CommitLocked DEF Touches
    <2>7. OnHand(CellOf(u, s))' = OnHand(CellOf(u, s))
      <3>1. CellOf(u, s)' = CellOf(u, s)
        BY <2>2 DEF CellOf
      <3>. QED  BY <2>5, <2>6, <3>1, CommitCell DEF OnHand
    <2>8. stockQty'[s] = stockQty[s]
      BY <2>3, CommitLocked DEF Commit, AppendRows
    <2>. QED  BY <2>2, <2>4, <2>7, <2>8
  <1>. QED  BY <1>2, <1>3 DEF Chain

\* Every other step leaves the ledger alone.
LEMMA LedgerKept ==
  ASSUME Chain, UNCHANGED ledgerVars, Fresh'
  PROVE  Chain'
  BY DEF Chain, LedgerChain, NonNegative, OnHand, ledgerVars

\* One step per action: each keeps the chain.
LEMMA NextChain == Shape /\ Chain /\ [Next]_vars => Chain'
  <1>. SUFFICES ASSUME Shape, Chain, [Next]_vars PROVE Chain'
    OBVIOUS
  <1>. USE DEF ledgerVars, variantVars, resVars
  <1>1. ASSUME NEW t \in Txn, BeginMove(t) PROVE Chain'
    BY <1>1, LedgerKept DEF BeginMove, Shape, TypeOK, Phases, Chain, Fresh, OnHand, CellOf
  <1>2. ASSUME NEW t \in Txn, NEW o \in Order, BeginHold(t, o) PROVE Chain'
    BY <1>2, LedgerKept DEF BeginHold, Shape, TypeOK, Phases, Chain, Fresh, OnHand, CellOf
  <1>3. ASSUME NEW t \in Txn, NEW o \in Order, BeginConsume(t, o) PROVE Chain'
    BY <1>3, LedgerKept DEF BeginConsume, Shape, TypeOK, Phases, Chain, Fresh, OnHand, CellOf
  <1>4. ASSUME NEW t \in Txn, NEW o \in Order, BeginRelease(t, o) PROVE Chain'
    BY <1>4, LedgerKept DEF BeginRelease, Shape, TypeOK, Phases, Chain, Fresh, OnHand, CellOf
  <1>5. ASSUME NEW t \in Txn, NEW s \in Sku, Want(t, s) PROVE Chain'
    BY <1>5, LedgerKept DEF Want, Chain, Fresh, OnHand, CellOf
  <1>6. ASSUME NEW t \in Txn, NEW s \in Sku, Lock(t, s) PROVE Chain'
    <2>1. s \in DOMAIN lines[t]
      BY <1>6 DEF Lock, Shape, Phases
    <2>2. Fresh'
      <3>1. SUFFICES ASSUME NEW u \in Txn, NEW r \in Sku,
                            lock'[r] = u, kind'[u] \in {"move", "consume"}
                     PROVE  /\ r \in DOMAIN lines'[u] /\ seen'[u][r] = OnHand(CellOf(u, r))'
                            /\ seenStock'[u][r] = stockQty'[r]
        BY DEF Fresh
      <3>2. CASE r = s
        BY <1>6, <2>1, <3>1, <3>2 DEF Lock, Shape, TypeOK, OnHand, CellOf
      <3>3. CASE r # s
        BY <1>6, <3>1, <3>3 DEF Lock, Shape, TypeOK, Chain, Fresh, OnHand, CellOf
      <3>. QED  BY <3>2, <3>3
    <2>. QED  BY <1>6, <2>2, LedgerKept DEF Lock
  <1>7. ASSUME NEW t \in Txn, NEW s \in Sku, WriteBack(t, s) PROVE Chain'
    BY <1>7, LedgerKept DEF WriteBack, Chain, Fresh, OnHand, CellOf
  <1>8. ASSUME NEW t \in Txn, Check(t) PROVE Chain'
    BY <1>8, LedgerKept DEF Check, Chain, Fresh, OnHand, CellOf
  <1>9. ASSUME NEW t \in Txn, Commit(t) PROVE Chain'
    BY <1>9, CommitChain
  <1>10. ASSUME NEW t \in Txn, Fail(t) \/ DeadlockVictim(t) \/ Crash(t) PROVE Chain'
    <2>1. Rollback(t)
      BY <1>10 DEF Fail, DeadlockVictim, Crash
    <2>. QED  BY <2>1, UnlockShape, LedgerKept DEF Rollback, Chain, Fresh, OnHand, CellOf
  <1>11. ASSUME NEW R, ReleaseOnly(R) PROVE Chain'
    BY <1>11, LedgerKept DEF ReleaseOnly, txnVars, Chain, Fresh, OnHand, CellOf
  <1>12. CASE UNCHANGED vars
    BY <1>12, LedgerKept DEF vars, txnVars, Chain, Fresh, OnHand, CellOf
  <1>. QED
    BY <1>1, <1>2, <1>3, <1>4, <1>5, <1>6, <1>7, <1>8, <1>9, <1>10, <1>11, <1>12
       DEF Next, Step, CancelOrder, Sweep, Terminating

-----------------------------------------------------------------------------
\* While an order is being placed nothing else can touch its reservation, and
\* it is placed by one transaction.
Placing(t) == kind[t] = "hold" /\ pc[t] \in {"active", "waiting", "checked"}
Unplaced ==
    /\ \A t \in Txn : Placing(t) => \A s \in Sku : resState[order[t]][s] = "NONE"
    /\ \A t, u \in Txn : kind[t] = "hold" /\ kind[u] = "hold" /\ order[t] = order[u] => t = u

Sold == ConsumedIffSold /\ Unplaced

\* Nothing is sold at the start.
LEMMA InitSold == Init => Sold
  BY DEF Init, Sold, ConsumedIffSold, Unplaced, Placing, SaleKey

\* The key of a direct move is never that of a SALE row.
LEMMA KeyDisjoint ==
  ASSUME NEW k \in MoveKey, NEW o \in Order, NEW s \in Sku
  PROVE  k # SaleKey(o, s)
  BY ConstantsAssumption DEF SaleKey

\* A commit writes the SALE keys and CONSUMED states of an order together.
LEMMA CommitSold ==
  ASSUME Shape, Sold, NEW t \in Txn, Commit(t)
  PROVE  Sold'
  <1>. DEFINE o == order[t]
  <1>1. AppendRows(t) /\ WriteReservation(t) /\ UNCHANGED <<kind, order, lines>>
    BY DEF Commit
  <1>2. resState \in [Order -> [Sku -> {"NONE", "ACTIVE", "RELEASED", "CONSUMED"}]]
    BY DEF Shape, TypeOK
  <1>3. keys' = keys \union {lines[t][s].key : s \in Moved(t)}
    BY <1>1 DEF AppendRows
  <1>4. \A s \in DOMAIN lines[t] : s \in Sku
    BY LineTypes
  <1>5. CASE kind[t] = "consume"
    <2>1. o \in Order /\ \A s \in DOMAIN lines[t] : /\ lines[t][s].key = SaleKey(o, s)
                                                  /\ resState[o][s] # "NONE"
      BY <1>5 DEF Shape, Phases
    <2>2. keys' = keys \union {SaleKey(o, s) : s \in DOMAIN lines[t]}
      BY <1>3, <1>5, <2>1 DEF Moved
    <2>3. resState' = [resState EXCEPT ![o] =
                         [s \in Sku |-> IF s \in DOMAIN lines[t] THEN "CONSUMED" ELSE @[s]]]
      BY <1>1, <1>5 DEF WriteReservation, MarkLines
    <2>4. \A p \in Order, s \in Sku :
             SaleKey(p, s) \in {SaleKey(o, r) : r \in DOMAIN lines[t]} <=> p = o /\ s \in DOMAIN lines[t]
      BY DEF SaleKey
    <2>5. ConsumedIffSold'
      BY <1>2, <2>1, <2>2, <2>3, <2>4 DEF Sold, ConsumedIffSold
    <2>6. ASSUME NEW u \in Txn, Placing(u)', NEW s \in Sku
          PROVE  resState'[order'[u]][s] = "NONE"
      <3>1. u # t /\ Placing(u) /\ order'[u] = order[u]
        BY <1>1, <1>5, <2>6 DEF Placing, Commit
      <3>2. order[u] \in Order /\ \A r \in Sku : resState[order[u]][r] = "NONE"
        BY <3>1 DEF Sold, Unplaced, Placing, Shape, Phases
      <3>3. order[u] = o => DOMAIN lines[t] = {}
        BY <1>4, <2>1, <3>2
      <3>. QED  BY <1>2, <2>1, <2>3, <3>1, <3>2, <3>3
    <2>7. Unplaced'
      BY <1>1, <2>6 DEF Sold, Unplaced
    <2>. QED  BY <2>5, <2>7 DEF Sold
  <1>6. CASE kind[t] = "hold"
    <2>1. Placing(t) /\ o \in Order
      BY <1>6 DEF Commit, Placing, Shape, Phases
    <2>2. \A s \in Sku : resState[o][s] = "NONE" /\ SaleKey(o, s) \notin keys
      BY <2>1 DEF Sold, Unplaced, ConsumedIffSold
    <2>3. keys' = keys
      BY <1>3, <1>6 DEF Moved
    <2>4. resState' = [resState EXCEPT ![o] =
                         [s \in Sku |-> IF s \in DOMAIN lines[t] THEN "ACTIVE" ELSE @[s]]]
      BY <1>1, <1>6 DEF WriteReservation, MarkLines
    <2>5. ConsumedIffSold'
      BY <1>2, <2>1, <2>2, <2>3, <2>4 DEF Sold, ConsumedIffSold
    <2>6. ASSUME NEW u \in Txn, Placing(u)', NEW s \in Sku
          PROVE  resState'[order'[u]][s] = "NONE"
      <3>1. u # t /\ Placing(u) /\ order'[u] = order[u]
        BY <1>1, <2>6 DEF Placing, Commit, Shape, TypeOK
      <3>2. order[u] # o /\ order[u] \in Order
        BY <1>6, <3>1 DEF Sold, Unplaced, Placing, Shape, Phases
      <3>3. resState'[order[u]] = resState[order[u]]
        BY <1>2, <2>4, <3>2
      <3>. QED  BY <3>1, <3>3 DEF Sold, Unplaced
    <2>7. Unplaced'
      BY <1>1, <2>6 DEF Sold, Unplaced
    <2>. QED  BY <2>5, <2>7 DEF Sold
  <1>7. CASE kind[t] \notin {"hold", "consume"}
    <2>1. resState' = resState
      BY <1>1, <1>7 DEF WriteReservation, resVars
    <2>2. \A k \in keys' : k \in keys \/ k \in MoveKey
      BY <1>3, <1>7, MovedKeys
    <2>3. keys \subseteq keys'
      BY <1>3
    <2>4. ConsumedIffSold'
      BY <2>1, <2>2, <2>3, KeyDisjoint DEF Sold, ConsumedIffSold
    <2>5. \A u \in Txn : Placing(u)' => Placing(u)
      BY <1>1 DEF Placing, Commit, Shape, TypeOK
    <2>. QED  BY <1>1, <2>1, <2>4, <2>5 DEF Sold, Unplaced
  <1>. QED  BY <1>5, <1>6, <1>7

\* A release changes ACTIVE rows only.
LEMMA ReleasedWasActive ==
  ASSUME NEW R, ReleaseRows(R), NEW o \in Order, NEW s \in Sku
  PROVE  \/ resState'[o][s] = resState[o][s]
         \/ resState[o][s] = "ACTIVE" /\ resState'[o][s] = "RELEASED"
  <1>. DEFINE hit == <<o, s>> \in R /\ resState[o][s] = "ACTIVE"
  <1>1. resState'[o][s] = IF hit THEN "RELEASED" ELSE resState[o][s]
    BY Zenon DEF ReleaseRows
  <1>. QED  BY <1>1

\* It leaves CONSUMED rows alone.
LEMMA ReleaseRowsSold ==
  ASSUME Shape, Sold, NEW R, ReleaseRows(R), UNCHANGED keys
  PROVE  ConsumedIffSold'
  <1>1. \A o \in Order, s \in Sku : resState'[o][s] = "CONSUMED" <=> resState[o][s] = "CONSUMED"
    BY ReleasedWasActive
  <1>. QED  BY <1>1 DEF Sold, ConsumedIffSold

\* Steps that leave keys and reservation rows alone, and begin no order.
LEMMA SoldKept ==
  ASSUME Sold, UNCHANGED <<keys, resState, order, kind>>,
         \A t \in Txn : Placing(t)' => Placing(t)
  PROVE  Sold'
  BY DEF Sold, ConsumedIffSold, Unplaced

\* One step per action: each keeps what is sold.
LEMMA NextSold == Shape /\ Sold /\ [Next]_vars => Sold'
  <1>. SUFFICES ASSUME Shape, Sold, [Next]_vars PROVE Sold'
    OBVIOUS
  <1>. USE DEF ledgerVars, variantVars, resVars
  <1>1. ASSUME NEW t \in Txn, BeginMove(t) PROVE Sold'
    <2>1. ConsumedIffSold'
      BY <1>1 DEF BeginMove, Sold, ConsumedIffSold
    <2>2. Unplaced'
      BY <1>1 DEF BeginMove, Sold, Unplaced, Placing, Shape, TypeOK
    <2>. QED  BY <2>1, <2>2 DEF Sold
  <1>2. ASSUME NEW t \in Txn, NEW o \in Order, BeginHold(t, o) PROVE Sold'
    <2>1. ConsumedIffSold'
      BY <1>2 DEF BeginHold, Sold, ConsumedIffSold
    <2>2. Unplaced'
      BY <1>2 DEF BeginHold, Sold, Unplaced, Placing, Shape, TypeOK
    <2>. QED  BY <2>1, <2>2 DEF Sold
  <1>3. ASSUME NEW t \in Txn, NEW o \in Order, BeginConsume(t, o) PROVE Sold'
    <2>1. ConsumedIffSold'
      BY <1>3 DEF BeginConsume, Sold, ConsumedIffSold
    <2>2. Unplaced'
      BY <1>3 DEF BeginConsume, Sold, Unplaced, Placing, Shape, TypeOK
    <2>. QED  BY <2>1, <2>2 DEF Sold
  <1>4. ASSUME NEW t \in Txn, NEW o \in Order, BeginRelease(t, o) PROVE Sold'
    <2>1. ConsumedIffSold'
      BY <1>4, ReleaseRowsSold DEF BeginRelease
    <2>2. \A p \in Order, s \in Sku : resState'[p][s] = "NONE" <=> resState[p][s] = "NONE"
      BY <1>4, ReleaseRowsShape DEF BeginRelease
    <2>3. ASSUME NEW u \in Txn, Placing(u)' PROVE Placing(u) /\ order'[u] = order[u] /\ order[u] \in Order
      BY <1>4, <2>3 DEF BeginRelease, Placing, Shape, TypeOK, Phases
    <2>4. \A u \in Txn : kind'[u] = "hold" => kind[u] = "hold" /\ order'[u] = order[u]
      BY <1>4 DEF BeginRelease, Shape, TypeOK
    <2>5. Unplaced'
      BY <2>2, <2>3, <2>4 DEF Sold, Unplaced
    <2>. QED  BY <2>1, <2>5 DEF Sold
  <1>5. ASSUME NEW t \in Txn, NEW s \in Sku, Want(t, s) PROVE Sold'
    BY <1>5, SoldKept DEF Want, Placing, Shape, TypeOK
  <1>6. ASSUME NEW t \in Txn, NEW s \in Sku, Lock(t, s) PROVE Sold'
    BY <1>6, SoldKept DEF Lock, Placing, Shape, TypeOK
  <1>7. ASSUME NEW t \in Txn, NEW s \in Sku, WriteBack(t, s) PROVE Sold'
    BY <1>7, SoldKept DEF WriteBack, Placing, Shape, TypeOK
  <1>8. ASSUME NEW t \in Txn, Check(t) PROVE Sold'
    BY <1>8, SoldKept DEF Check, Ready, Placing, Shape, TypeOK
  <1>9. ASSUME NEW t \in Txn, Commit(t) PROVE Sold'
    BY <1>9, CommitSold
  <1>10. ASSUME NEW t \in Txn, Fail(t) \/ DeadlockVictim(t) \/ Crash(t) PROVE Sold'
    <2>1. Rollback(t)
      BY <1>10 DEF Fail, DeadlockVictim, Crash
    <2>. QED  BY <2>1, SoldKept DEF Rollback, Placing, Shape, TypeOK
  <1>11. ASSUME NEW R, ReleaseOnly(R) PROVE Sold'
    <2>1. ConsumedIffSold'
      BY <1>11, ReleaseRowsSold DEF ReleaseOnly
    <2>2. \A p \in Order, s \in Sku : resState'[p][s] = "NONE" <=> resState[p][s] = "NONE"
      BY <1>11, ReleaseRowsShape DEF ReleaseOnly
    <2>3. \A u \in Txn : Placing(u) => order[u] \in Order
      BY DEF Placing, Shape, Phases
    <2>4. Unplaced'
      BY <1>11, <2>2, <2>3 DEF ReleaseOnly, txnVars, Sold, Unplaced, Placing
    <2>. QED  BY <2>1, <2>4 DEF Sold
  <1>12. CASE UNCHANGED vars
    BY <1>12, SoldKept DEF vars, txnVars, Placing
  <1>. QED
    BY <1>1, <1>2, <1>3, <1>4, <1>5, <1>6, <1>7, <1>8, <1>9, <1>10, <1>11, <1>12
       DEF Next, Step, CancelOrder, Sweep, Terminating

-----------------------------------------------------------------------------
\* The ledger of a variant over all warehouses, as one sum.
Shelf(s) == [w \in Warehouse |-> OnHand(<<w, s>>)]
Total(s) == Sum(Shelf(s), Warehouse)

LEMMA TotalIs == \A s \in Sku : SumFunction(Shelf(s)) = Total(s)
  BY DEF Total, Shelf, Sum, SumFunction

\* Every shelf holds an integer.
LEMMA ShelfTypes ==
  ASSUME Shape, NEW s \in Sku
  PROVE  \A w \in Warehouse : <<w, s>> \in Cell /\ Shelf(s)[w] \in Int
  BY DEF Shape, TypeOK, Shelf, OnHand, Cell

\* A commit changes the total of a variant by its own line and no more.
LEMMA CommitTotal ==
  ASSUME Shape, Shape', NEW t \in Txn, Commit(t), NEW s \in Sku
  PROVE  /\ Total(s) \in Int
         /\ s \in Moved(t) => Total(s)' = Total(s) + Delta(t, s)
         /\ s \notin Moved(t) => Total(s)' = Total(s)
  <1>1. PICK old, new : old = Shelf(s) /\ new = Shelf(s)'
    OBVIOUS
  <1>2. \A w \in Warehouse : /\ <<w, s>> \in Cell
                             /\ old[w] = OnHand(<<w, s>>) /\ old[w] \in Int
                             /\ new[w] = OnHand(<<w, s>>)' /\ new[w] \in Int
    BY <1>1, ShelfTypes DEF Shape, TypeOK, Shelf, OnHand, Cell
  <1>3. Total(s) = Sum(old, Warehouse) /\ Total(s)' = Sum(new, Warehouse)
    BY <1>1 DEF Total
  <1>4. IsFiniteSet(Warehouse)
    BY ConstantsAssumption
  <1>5. Total(s) \in Int
    BY <1>2, <1>3, <1>4, SumInt
  <1>6. ASSUME s \in Moved(t)
        PROVE  Total(s)' = Total(s) + Delta(t, s)
    <2>1. s \in DOMAIN lines[t] /\ lines[t][s].wh \in Warehouse /\ Delta(t, s) \in Int
      BY <1>6, MovedLines, LineTypes DEF Line
    <2>2. PICK v \in Warehouse : v = lines[t][s].wh
      BY <2>1
    <2>3. \A w \in Warehouse : Touches(t, <<w, s>>) <=> w = v
      BY <1>6, <2>2 DEF Touches, CellOf
    <2>4. \A w \in Warehouse : w # v => new[w] = old[w]
      BY <1>2, <2>3, CommitCell
    <2>5. new[v] = old[v] + Delta(t, s)
      <3>1. Touches(t, <<v, s>>) /\ <<v, s>> \in Cell
        BY <1>2, <2>3
      <3>. QED  BY <1>2, <3>1, CommitCell
    <2>6. Sum(new, Warehouse) = Sum(old, Warehouse) + new[v] - old[v]
      BY <1>2, <1>4, <2>4, SumChange
    <2>7. old[v] \in Int /\ Sum(old, Warehouse) \in Int
      BY <1>2, <1>3, <1>5
    <2>8. Sum(new, Warehouse) = Sum(old, Warehouse) + Delta(t, s)
      BY <2>1, <2>5, <2>6, <2>7
    <2>. QED  BY <1>3, <2>8
  <1>7. ASSUME s \notin Moved(t)
        PROVE  Total(s)' = Total(s)
    <2>1. \A w \in Warehouse : ~Touches(t, <<w, s>>)
      BY <1>7 DEF Touches
    <2>2. \A w \in Warehouse : new[w] = old[w]
      BY <1>2, <2>1, CommitCell
    <2>. QED  BY <1>3, <1>4, <2>2, SumSame
  <1>. QED  BY <1>5, <1>6, <1>7

\* At the start all stock is in the main warehouse.
LEMMA InitTotal ==
  ASSUME Init, NEW s \in Sku
  PROVE  Total(s) = Opening[s]
  <1>1. PICK f : f = Shelf(s)
    OBVIOUS
  <1>2. f[Main] = Opening[s] /\ \A w \in Warehouse \ {Main} : f[w] = 0
    BY <1>1, ConstantsAssumption DEF Init, Shelf, OnHand, Cell
  <1>3. \A w \in Warehouse : f[w] \in Int
    BY <1>2, ConstantsAssumption
  <1>4. IsFiniteSet(Warehouse) /\ IsFiniteSet(Warehouse \ {Main})
    BY ConstantsAssumption, FiniteParts
  <1>5. Sum(f, Warehouse) = f[Main] + Sum(f, Warehouse \ {Main})
    BY <1>3, <1>4, SumRemove, ConstantsAssumption
  <1>6. Sum(f, Warehouse \ {Main}) = 0
    BY <1>2, <1>4, SumZero
  <1>. QED  BY <1>1, <1>2, <1>5, <1>6, ConstantsAssumption DEF Total

\* Only commits write to the ledger, stockQty or its keys.
LEMMA OthersKeepLedger ==
  ASSUME [Next]_vars
  PROVE  (\E t \in Txn : Commit(t)) \/ UNCHANGED <<sumIn, sumOut, keys, stockQty>>
  <1>. USE DEF ledgerVars, variantVars
  <1>1. ASSUME NEW t \in Txn, BeginMove(t) \/ Rollback(t) \/ Check(t)
        PROVE  UNCHANGED <<sumIn, sumOut, keys, stockQty>>
    BY <1>1 DEF BeginMove, Rollback, Check
  <1>2. ASSUME NEW t \in Txn, NEW o \in Order, BeginHold(t, o) \/ BeginConsume(t, o) \/ BeginRelease(t, o)
        PROVE  UNCHANGED <<sumIn, sumOut, keys, stockQty>>
    BY <1>2 DEF BeginHold, BeginConsume, BeginRelease
  <1>3. ASSUME NEW t \in Txn, NEW s \in Sku, Want(t, s) \/ Lock(t, s) \/ WriteBack(t, s)
        PROVE  UNCHANGED <<sumIn, sumOut, keys, stockQty>>
    BY <1>3 DEF Want, Lock, WriteBack
  <1>4. ASSUME NEW R, ReleaseOnly(R) PROVE UNCHANGED <<sumIn, sumOut, keys, stockQty>>
    BY <1>4 DEF ReleaseOnly
  <1>5. CASE UNCHANGED vars
    BY <1>5 DEF vars
  <1>. QED
    BY <1>1, <1>2, <1>3, <1>4, <1>5
       DEF Next, Step, Fail, DeadlockVictim, Crash, CancelOrder, Sweep, Terminating

Projected == \A s \in Sku : stockQty[s] = Total(s)

LEMMA NextProjected == Shape /\ Chain /\ Projected /\ [Next]_vars => Projected'
  <1>. SUFFICES ASSUME Shape, Chain, Projected, [Next]_vars PROVE Projected'
    OBVIOUS
  <1>1. Shape'
    BY NextShape
  <1>2. ASSUME NEW t \in Txn, Commit(t), NEW s \in Sku PROVE stockQty'[s] = Total(s)'
    <2>1. stockQty'[s] = IF s \in Moved(t) THEN stockQty[s] + Delta(t, s) ELSE stockQty[s]
      <3>1. stockQty'[s] = IF s \in Moved(t) THEN NextStock(t, s) ELSE stockQty[s]
        BY <1>2 DEF Commit, AppendRows
      <3>2. s \in Moved(t) => seenStock[t][s] = stockQty[s]
        BY <1>2, CommitLocked DEF Moved, Chain, Fresh
      <3>. QED  BY <3>1, <3>2 DEF NextStock
    <2>. QED  BY <1>1, <1>2, <2>1, CommitTotal DEF Projected
  <1>3. CASE UNCHANGED <<sumIn, sumOut, keys, stockQty>>
    BY <1>3 DEF Projected, Total, Shelf, OnHand
  <1>. QED  BY <1>2, <1>3, OthersKeepLedger DEF Projected

-----------------------------------------------------------------------------
\* What the row of a key moves: keys name one line, so it does not matter
\* which job is looked at.
Carried(k, s) ==
    IF \E job \in Jobs : s \in DOMAIN job /\ job[s].key = k
    THEN LET line == (CHOOSE job \in Jobs : s \in DOMAIN job /\ job[s].key = k)[s]
         IN IF line.in THEN line.qty ELSE -line.qty
    ELSE 0

LEMMA KeyDeltaIs ==
  \A k \in MoveKey, s \in Sku :
     /\ KeyDelta(k, s) = IF k \in keys THEN Carried(k, s) ELSE 0
     /\ KeyDelta(k, s)' = IF k \in keys' THEN Carried(k, s) ELSE 0
  BY DEF KeyDelta, Carried

LEMMA CarriedBy ==
  ASSUME NEW job \in Jobs, NEW r \in DOMAIN job, NEW s \in Sku
  PROVE  Carried(job[r].key, s) =
            IF s = r THEN IF job[r].in THEN job[r].qty ELSE -job[r].qty ELSE 0
  <1>1. \A again \in Jobs : s \in DOMAIN again /\ again[s].key = job[r].key => s = r /\ again[s] = job[r]
    BY ConstantsAssumption
  <1>2. CASE s = r
    <2>1. PICK again \in Jobs :
             /\ again = CHOOSE j \in Jobs : s \in DOMAIN j /\ j[s].key = job[r].key
             /\ s \in DOMAIN again /\ again[s].key = job[r].key
      BY <1>2
    <2>2. again[s] = job[r]
      BY <1>1, <2>1
    <2>. QED  BY <1>2, <2>1, <2>2 DEF Carried
  <1>3. CASE s # r
    BY <1>1, <1>3 DEF Carried
  <1>. QED  BY <1>2, <1>3

LEMMA CarriedInt == ASSUME NEW k \in MoveKey, NEW s \in Sku PROVE Carried(k, s) \in Int
  <1>1. CASE \E job \in Jobs : s \in DOMAIN job /\ job[s].key = k
    <2>1. PICK job \in Jobs : s \in DOMAIN job /\ job[s].key = k
      BY <1>1
    <2>2. job[s] \in Line
      BY <2>1, ConstantsAssumption DEF IsLines
    <2>3. job[s].qty \in Nat /\ job[s].in \in BOOLEAN
      BY <2>2 DEF Line
    <2>. QED  BY <2>1, <2>3, CarriedBy
  <1>2. CASE ~\E job \in Jobs : s \in DOMAIN job /\ job[s].key = k
    BY <1>2 DEF Carried
  <1>. QED  BY <1>1, <1>2

\* The lines of a direct move are a job's; those of a consumption take out
\* what the order reserved.
Sourced ==
    \A t \in Txn :
        /\ kind[t] = "move" => lines[t] \in Jobs
        /\ kind[t] = "consume" =>
              \A s \in DOMAIN lines[t] : ~lines[t][s].in /\ lines[t][s].qty = resQty[order[t]][s]

LEMMA InitSourced == Init => Sourced
  BY DEF Init, Sourced

\* A commit leaves the quantity of a reservation that exists alone.
LEMMA CommitResQty ==
  ASSUME Shape, Sold, NEW t \in Txn, Commit(t), NEW o \in Order, NEW s \in Sku,
         resState[o][s] # "NONE"
  PROVE  resQty'[o][s] = resQty[o][s]
  <1>1. WriteReservation(t)
    BY DEF Commit
  <1>2. CASE kind[t] = "hold"
    <2>1. Placing(t) /\ order[t] \in Order
      BY <1>2 DEF Commit, Placing, Shape, Phases
    <2>2. o # order[t]
      BY <2>1 DEF Sold, Unplaced
    <2>. QED  BY <1>1, <1>2, <2>1, <2>2 DEF WriteReservation, Shape, TypeOK
  <1>3. CASE kind[t] # "hold"
    BY <1>1, <1>3 DEF WriteReservation, resVars
  <1>. QED  BY <1>2, <1>3

\* All other steps leave every quantity, and what is CONSUMED, alone, and
\* make nothing ACTIVE.
LEMMA OthersKeepSales ==
  ASSUME Shape, [Next]_vars
  PROVE  \/ \E t \in Txn : Commit(t)
         \/ /\ resQty' = resQty
            /\ \A o \in Order, s \in Sku :
                  /\ resState'[o][s] = "CONSUMED" <=> resState[o][s] = "CONSUMED"
                  /\ resState'[o][s] = "ACTIVE" => resState[o][s] = "ACTIVE"
  <1>. USE DEF resVars
  <1>. DEFINE Kept == /\ resQty' = resQty
                      /\ \A o \in Order, s \in Sku :
                            /\ resState'[o][s] = "CONSUMED" <=> resState[o][s] = "CONSUMED"
                            /\ resState'[o][s] = "ACTIVE" => resState[o][s] = "ACTIVE"
  <1>0. ASSUME NEW R, ReleaseRows(R)
        PROVE  \A o \in Order, s \in Sku :
                  /\ resState'[o][s] = "CONSUMED" <=> resState[o][s] = "CONSUMED"
                  /\ resState'[o][s] = "ACTIVE" => resState[o][s] = "ACTIVE"
    BY <1>0, ReleasedWasActive
  <1>1. ASSUME NEW t \in Txn, BeginMove(t) \/ Rollback(t) \/ Check(t) PROVE Kept
    BY <1>1 DEF BeginMove, Rollback, Check
  <1>2. ASSUME NEW t \in Txn, NEW o \in Order, BeginHold(t, o) \/ BeginConsume(t, o) PROVE Kept
    BY <1>2 DEF BeginHold, BeginConsume
  <1>3. ASSUME NEW t \in Txn, NEW o \in Order, BeginRelease(t, o) PROVE Kept
    BY <1>0, <1>3 DEF BeginRelease
  <1>4. ASSUME NEW t \in Txn, NEW s \in Sku, Want(t, s) \/ Lock(t, s) \/ WriteBack(t, s) PROVE Kept
    BY <1>4 DEF Want, Lock, WriteBack
  <1>5. ASSUME NEW R, ReleaseOnly(R) PROVE Kept
    BY <1>0, <1>5 DEF ReleaseOnly
  <1>6. ASSUME UNCHANGED vars PROVE Kept
    BY <1>6 DEF vars
  <1>. HIDE DEF Kept
  <1>7. (\E t \in Txn : Commit(t)) \/ Kept
    BY <1>1, <1>2, <1>3, <1>4, <1>5, <1>6
       DEF Next, Step, Fail, DeadlockVictim, Crash, CancelOrder, Sweep, Terminating
  <1>. QED  BY <1>7 DEF Kept

\* Transactions that were open keep their lines.
LEMMA LinesKept ==
  ASSUME Shape, [Next]_vars, NEW t \in Txn
  PROVE  \/ UNCHANGED <<kind[t], order[t], lines[t]>>
         \/ BeginMove(t)
         \/ \E o \in Order : BeginHold(t, o) \/ BeginConsume(t, o) \/ BeginRelease(t, o)
  <1>. DEFINE Kept == UNCHANGED <<kind[t], order[t], lines[t]>>
              Begun == \/ BeginMove(t)
                       \/ \E o \in Order : BeginHold(t, o) \/ BeginConsume(t, o) \/ BeginRelease(t, o)
  <1>1. ASSUME NEW u \in Txn, BeginMove(u), u # t PROVE Kept
    BY <1>1 DEF BeginMove, Shape, TypeOK
  <1>2. ASSUME NEW u \in Txn, NEW o \in Order, u # t,
               BeginHold(u, o) \/ BeginConsume(u, o) \/ BeginRelease(u, o)
        PROVE  Kept
    BY <1>2 DEF BeginHold, BeginConsume, BeginRelease, Shape, TypeOK
  <1>3. ASSUME NEW u \in Txn, Rollback(u) \/ Check(u) \/ Commit(u) PROVE Kept
    BY <1>3 DEF Rollback, Check, Commit
  <1>4. ASSUME NEW u \in Txn, NEW s \in Sku, Want(u, s) \/ Lock(u, s) \/ WriteBack(u, s) PROVE Kept
    BY <1>4 DEF Want, Lock, WriteBack
  <1>5. ASSUME NEW R, ReleaseOnly(R) PROVE Kept
    BY <1>5 DEF ReleaseOnly, txnVars
  <1>6. ASSUME UNCHANGED vars PROVE Kept
    BY <1>6 DEF vars, txnVars
  <1>7. ASSUME NEW u \in Txn, BeginMove(u) PROVE Kept \/ Begun
    BY <1>1, <1>7
  <1>8. ASSUME NEW u \in Txn, NEW o \in Order,
               BeginHold(u, o) \/ BeginConsume(u, o) \/ BeginRelease(u, o)
        PROVE  Kept \/ Begun
    BY <1>2, <1>8
  <1>. HIDE DEF Kept, Begun
  <1>9. Kept \/ Begun
    BY <1>3, <1>4, <1>5, <1>6, <1>7, <1>8
       DEF Next, Step, Fail, DeadlockVictim, Crash, CancelOrder, Sweep, Terminating
  <1>. QED  BY <1>9 DEF Kept, Begun

LEMMA NextSourced == Shape /\ Sold /\ Sourced /\ [Next]_vars => Sourced'
  <1>. SUFFICES ASSUME Shape, Sold, Sourced, [Next]_vars, NEW t \in Txn
                PROVE  /\ kind'[t] = "move" => lines'[t] \in Jobs
                       /\ kind'[t] = "consume" =>
                            \A s \in DOMAIN lines'[t] :
                               ~lines'[t][s].in /\ lines'[t][s].qty = resQty'[order'[t]][s]
    BY DEF Sourced
  <1>1. CASE BeginMove(t)
    BY <1>1 DEF BeginMove, Shape, TypeOK
  <1>2. ASSUME NEW o \in Order, BeginHold(t, o) \/ BeginRelease(t, o)
        PROVE  kind'[t] \notin {"move", "consume"}
    BY <1>2 DEF BeginHold, BeginRelease, Shape, TypeOK
  <1>3. ASSUME NEW o \in Order, BeginConsume(t, o)
        PROVE  kind'[t] = "consume" /\ \A s \in DOMAIN lines'[t] :
                               ~lines'[t][s].in /\ lines'[t][s].qty = resQty'[order'[t]][s]
    <2>. DEFINE active == {s \in Sku : resState[o][s] = "ACTIVE"}
    <2>1. lines'[t] = [s \in active |->
            [wh |-> Main, qty |-> resQty[o][s], in |-> FALSE, key |-> SaleKey(o, s)]]
      BY <1>3 DEF BeginConsume, Shape, TypeOK
    <2>2. kind'[t] = "consume" /\ order'[t] = o /\ resQty' = resQty
      BY <1>3 DEF BeginConsume, resVars, Shape, TypeOK
    <2>. HIDE DEF active
    <2>. QED  BY <2>1, <2>2
  <1>4. CASE UNCHANGED <<kind[t], order[t], lines[t]>>
    <2>1. kind[t] = "consume" => \A s \in DOMAIN lines[t] :
              /\ ~lines[t][s].in /\ lines[t][s].qty = resQty[order[t]][s]
              /\ order[t] \in Order /\ s \in Sku /\ resState[order[t]][s] # "NONE"
      BY LineTypes DEF Sourced, Shape, Phases
    <2>2. kind[t] = "consume" => \A s \in DOMAIN lines[t] : resQty'[order[t]][s] = resQty[order[t]][s]
      BY <2>1, CommitResQty, OthersKeepSales
    <2>. QED  BY <1>4, <2>1, <2>2 DEF Sourced
  <1>. QED  BY <1>1, <1>2, <1>3, <1>4, LinesKept

\* What the direct moves in the ledger brought, and what orders consumed.
Moves(s) == [k \in MoveKey |-> KeyDelta(k, s)]
Sales(s) == [o \in Order |-> ConsumedBy(o, s)]
Conserved ==
    \A s \in Sku : Total(s) = Opening[s] + Sum(Moves(s), MoveKey) - Sum(Sales(s), Order)

LEMMA InitConserved == Init => Conserved
  <1>. SUFFICES ASSUME Init, NEW s \in Sku
                PROVE  Total(s) = Opening[s] + Sum(Moves(s), MoveKey) - Sum(Sales(s), Order)
    BY DEF Conserved
  <1>1. PICK f, g : f = Moves(s) /\ g = Sales(s)
    OBVIOUS
  <1>2. (\A k \in MoveKey : f[k] = 0) /\ (\A o \in Order : g[o] = 0)
    BY <1>1, KeyDeltaIs DEF Moves, Sales, Init, ConsumedBy
  <1>3. Sum(f, MoveKey) = 0 /\ Sum(g, Order) = 0
    BY <1>2, ConstantsAssumption, SumZero
  <1>. QED  BY <1>1, <1>3, InitTotal, ConstantsAssumption

\* The terms are integers.
LEMMA TermTypes ==
  ASSUME Shape, Shape', NEW s \in Sku
  PROVE  /\ \A k \in MoveKey : /\ Moves(s)[k] = KeyDelta(k, s) /\ KeyDelta(k, s) \in Int
                               /\ Moves(s)'[k] = KeyDelta(k, s)' /\ KeyDelta(k, s)' \in Int
         /\ \A o \in Order : /\ Sales(s)[o] = ConsumedBy(o, s) /\ ConsumedBy(o, s) \in Int
                             /\ Sales(s)'[o] = ConsumedBy(o, s)' /\ ConsumedBy(o, s)' \in Int
  <1>1. \A k \in MoveKey : KeyDelta(k, s) \in Int /\ KeyDelta(k, s)' \in Int
    BY KeyDeltaIs, CarriedInt
  <1>2. \A o \in Order : ConsumedBy(o, s) \in Int /\ ConsumedBy(o, s)' \in Int
    BY DEF ConsumedBy, Shape, TypeOK
  <1>. QED  BY <1>1, <1>2 DEF Moves, Sales

\* A direct move's row is counted under its key, once.
LEMMA CommitMoves ==
  ASSUME Shape, Shape', Sourced, NEW t \in Txn, Commit(t), NEW s \in Sku
  PROVE  Sum(Moves(s), MoveKey)' = Sum(Moves(s), MoveKey)
            + IF kind[t] = "move" /\ s \in Moved(t) THEN Delta(t, s) ELSE 0
  <1>1. PICK old, new : old = Moves(s) /\ new = Moves(s)'
    OBVIOUS
  <1>2. \A k \in MoveKey : /\ old[k] = KeyDelta(k, s) /\ old[k] \in Int
                           /\ new[k] = KeyDelta(k, s)' /\ new[k] \in Int
    BY <1>1, TermTypes
  <1>3. IsFiniteSet(MoveKey) /\ Sum(old, MoveKey) \in Int
    BY <1>2, ConstantsAssumption, SumInt
  <1>4. keys' = keys \union {lines[t][r].key : r \in Moved(t)}
    BY DEF Commit, AppendRows
  <1>5. CASE kind[t] = "move"
    <2>1. PICK job \in Jobs : job = lines[t]
      BY <1>5 DEF Sourced
    <2>2. \A r \in Moved(t) : r \in DOMAIN job /\ job[r].key \in MoveKey /\ job[r].key \notin keys
      BY <1>5, <2>1, MovedLines, MovedKeys DEF Commit, Duplicate
    <2>3. ASSUME NEW k \in MoveKey, ~(s \in Moved(t) /\ k = job[s].key) PROVE new[k] = old[k]
      <3>1. CASE k \in {job[r].key : r \in Moved(t)}
        <4>1. PICK r \in Moved(t) : k = job[r].key
          BY <3>1
        <4>2. Carried(k, s) = 0
          BY <2>2, <2>3, <4>1, CarriedBy
        <4>. QED  BY <1>2, <4>2, KeyDeltaIs
      <3>2. CASE k \notin {job[r].key : r \in Moved(t)}
        <4>1. k \in keys' <=> k \in keys
          BY <1>4, <2>1, <3>2
        <4>. QED  BY <1>2, <4>1, KeyDeltaIs
      <3>. QED  BY <3>1, <3>2
    <2>4. CASE s \in Moved(t)
      <3>1. PICK k \in MoveKey : k = job[s].key
        BY <2>2, <2>4
      <3>2. k \notin keys /\ k \in keys'
        BY <1>4, <2>1, <2>2, <2>4, <3>1
      <3>3. Carried(k, s) = Delta(t, s)
        BY <2>1, <2>2, <2>4, <3>1, CarriedBy DEF Delta
      <3>4. old[k] = 0 /\ new[k] = Delta(t, s)
        BY <1>2, <3>2, <3>3, KeyDeltaIs
      <3>5. \A x \in MoveKey : x # k => new[x] = old[x]
        BY <2>3, <3>1
      <3>6. Sum(new, MoveKey) = Sum(old, MoveKey) + new[k] - old[k]
        BY <1>2, <1>3, <3>5, SumChange
      <3>7. new[k] \in Int
        BY <1>2
      <3>8. Sum(new, MoveKey) = Sum(old, MoveKey) + Delta(t, s)
        BY <1>3, <3>4, <3>6, <3>7
      <3>. QED  BY <1>1, <1>5, <2>4, <3>8
    <2>5. CASE s \notin Moved(t)
      <3>1. Sum(new, MoveKey) = Sum(old, MoveKey)
        BY <1>3, <2>3, <2>5, SumSame
      <3>2. Sum(new, MoveKey) = Sum(old, MoveKey) + 0
        BY <1>3, <3>1
      <3>. QED  BY <1>1, <2>5, <3>2
    <2>. QED  BY <2>4, <2>5
  <1>6. CASE kind[t] # "move"
    <2>1. \A r \in Moved(t) : lines[t][r].key = SaleKey(order[t], r) /\ order[t] \in Order /\ r \in Sku
      BY <1>6, MovedKeys, MovedLines, LineTypes DEF Shape, Phases
    <2>2. \A k \in MoveKey : k \in keys' <=> k \in keys
      BY <1>4, <2>1, KeyDisjoint
    <2>3. Sum(new, MoveKey) = Sum(old, MoveKey)
      BY <1>2, <1>3, <2>2, KeyDeltaIs, SumSame
    <2>4. Sum(new, MoveKey) = Sum(old, MoveKey) + 0
      BY <1>3, <2>3
    <2>. QED  BY <1>1, <1>6, <2>4
  <1>. QED  BY <1>5, <1>6

\* A consumption's row is counted with its order, once.
LEMMA CommitSales ==
  ASSUME Shape, Shape', Sold, Sourced, NEW t \in Txn, Commit(t), NEW s \in Sku
  PROVE  Sum(Sales(s), Order)' = Sum(Sales(s), Order)
            - IF kind[t] = "consume" /\ s \in Moved(t) THEN Delta(t, s) ELSE 0
  <1>1. PICK old, new : old = Sales(s) /\ new = Sales(s)'
    OBVIOUS
  <1>2. \A o \in Order : /\ old[o] = ConsumedBy(o, s) /\ old[o] \in Int
                         /\ new[o] = ConsumedBy(o, s)' /\ new[o] \in Int
    BY <1>1, TermTypes
  <1>3. IsFiniteSet(Order) /\ Sum(old, Order) \in Int
    BY <1>2, ConstantsAssumption, SumInt
  <1>4. resState \in [Order -> [Sku -> {"NONE", "ACTIVE", "RELEASED", "CONSUMED"}]]
    BY DEF Shape, TypeOK
  <1>5. CASE kind[t] = "consume" /\ s \in Moved(t)
    <2>1. PICK o \in Order : o = order[t]
      BY <1>5 DEF Shape, Phases
    <2>2. /\ s \in DOMAIN lines[t] /\ lines[t][s].key = SaleKey(o, s)
          /\ resState[o][s] # "NONE"
      BY <1>5, <2>1, MovedLines DEF Shape, Phases
    <2>3. ~lines[t][s].in /\ lines[t][s].qty = resQty[o][s] /\ lines[t][s].qty \in Nat
      BY <1>5, <2>1, <2>2, LineTypes DEF Sourced
    <2>4. resState' = [resState EXCEPT ![o] =
                         [r \in Sku |-> IF r \in DOMAIN lines[t] THEN "CONSUMED" ELSE @[r]]]
          /\ resQty' = resQty
      BY <1>5, <2>1 DEF Commit, WriteReservation, MarkLines
    <2>5. resState[o][s] # "CONSUMED" /\ resState'[o][s] = "CONSUMED"
      BY <1>4, <1>5, <2>2, <2>4 DEF Sold, ConsumedIffSold, Moved
    <2>6. old[o] = 0 /\ new[o] = -Delta(t, s)
      BY <1>2, <2>3, <2>4, <2>5 DEF ConsumedBy, Delta
    <2>7. \A p \in Order : p # o => new[p] = old[p]
      BY <1>2, <1>4, <2>4 DEF ConsumedBy
    <2>8. Sum(new, Order) = Sum(old, Order) + new[o] - old[o]
      BY <1>2, <1>3, <2>7, SumChange
    <2>9. Delta(t, s) \in Int
      BY <2>2, LineTypes
    <2>10. Sum(new, Order) = Sum(old, Order) - Delta(t, s)
      BY <1>3, <2>6, <2>8, <2>9
    <2>. QED  BY <1>1, <1>5, <2>10
  <1>6. CASE ~(kind[t] = "consume" /\ s \in Moved(t))
    <2>1. \A o \in Order : resState'[o][s] = "CONSUMED" <=> resState[o][s] = "CONSUMED"
      <3>1. CASE kind[t] = "consume"
        <4>1. /\ order[t] \in Order
              /\ resState' = [resState EXCEPT ![order[t]] =
                    [r \in Sku |-> IF r \in DOMAIN lines[t] THEN "CONSUMED" ELSE @[r]]]
          BY <3>1 DEF Commit, WriteReservation, MarkLines, Shape, Phases
        <4>2. s \in DOMAIN lines[t] => resState[order[t]][s] = "CONSUMED"
          BY <1>6, <3>1, <4>1 DEF Moved, Sold, ConsumedIffSold, Shape, Phases
        <4>. QED  BY <1>4, <4>1, <4>2
      <3>2. CASE kind[t] = "hold"
        <4>1. Placing(t) /\ order[t] \in Order
          BY <3>2 DEF Commit, Placing, Shape, Phases
        <4>2. \A r \in Sku : resState[order[t]][r] = "NONE"
          BY <4>1 DEF Sold, Unplaced
        <4>3. resState' = [resState EXCEPT ![order[t]] =
                    [r \in Sku |-> IF r \in DOMAIN lines[t] THEN "ACTIVE" ELSE @[r]]]
          BY <3>2 DEF Commit, WriteReservation, MarkLines
        <4>. QED  BY <1>4, <4>1, <4>2, <4>3
      <3>3. CASE kind[t] \notin {"hold", "consume"}
        BY <3>3 DEF Commit, WriteReservation, resVars
      <3>. QED  BY <3>1, <3>2, <3>3
    <2>2. \A o \in Order : new[o] = old[o]
      BY <1>2, <2>1, CommitResQty DEF ConsumedBy
    <2>3. Sum(new, Order) = Sum(old, Order)
      BY <1>3, <2>2, SumSame
    <2>4. Sum(new, Order) = Sum(old, Order) - 0
      BY <1>3, <2>3
    <2>. QED  BY <1>1, <1>6, <2>4
  <1>. QED  BY <1>5, <1>6

LEMMA NextConserved == Shape /\ Sold /\ Sourced /\ Conserved /\ [Next]_vars => Conserved'
  <1>. SUFFICES ASSUME Shape, Sold, Sourced, Conserved, [Next]_vars, NEW s \in Sku
                PROVE  Total(s)' = Opening[s] + Sum(Moves(s), MoveKey)' - Sum(Sales(s), Order)'
    BY DEF Conserved
  <1>1. Shape'
    BY NextShape
  <1>2. Total(s) = Opening[s] + Sum(Moves(s), MoveKey) - Sum(Sales(s), Order)
    BY DEF Conserved
  <1>3. Sum(Moves(s), MoveKey) \in Int /\ Sum(Sales(s), Order) \in Int /\ Opening[s] \in Int
    BY <1>1, TermTypes, ConstantsAssumption, SumInt
  <1>4. ASSUME NEW t \in Txn, Commit(t)
        PROVE  Total(s)' = Opening[s] + Sum(Moves(s), MoveKey)' - Sum(Sales(s), Order)'
    <2>1. s \in Moved(t) => Delta(t, s) \in Int /\ kind[t] \in {"move", "consume"}
      BY MovedLines, LineTypes DEF Moved
    <2>2. Total(s)' = Total(s) + IF s \in Moved(t) THEN Delta(t, s) ELSE 0
      BY <1>1, <1>4, CommitTotal
    <2>3. Sum(Moves(s), MoveKey)' = Sum(Moves(s), MoveKey)
            + IF kind[t] = "move" /\ s \in Moved(t) THEN Delta(t, s) ELSE 0
      BY <1>1, <1>4, CommitMoves
    <2>4. Sum(Sales(s), Order)' = Sum(Sales(s), Order)
            - IF kind[t] = "consume" /\ s \in Moved(t) THEN Delta(t, s) ELSE 0
      BY <1>1, <1>4, CommitSales
    <2>. QED  BY <1>2, <1>3, <2>1, <2>2, <2>3, <2>4
  <1>5. CASE ~\E t \in Txn : Commit(t)
    <2>1. /\ UNCHANGED <<sumIn, sumOut, keys>> /\ resQty' = resQty
          /\ \A o \in Order, r \in Sku : resState'[o][r] = "CONSUMED" <=> resState[o][r] = "CONSUMED"
      BY <1>5, OthersKeepLedger, OthersKeepSales
    <2>2. Total(s)' = Total(s)
      BY <2>1 DEF Total, Shelf, OnHand
    <2>3. Moves(s)' = Moves(s)
      BY <2>1 DEF Moves, KeyDelta
    <2>4. Sales(s)' = Sales(s)
      BY <2>1 DEF Sales, ConsumedBy
    <2>. QED  BY <1>2, <2>2, <2>3, <2>4
  <1>. QED  BY <1>4, <1>5

-----------------------------------------------------------------------------
\* What is reserved of a variant, as one sum over all orders.
Reserved(s) == [o \in Order |-> IF resState[o][s] = "ACTIVE" THEN resQty[o][s] ELSE 0]
ReservedIsSum ==
    \A s \in Sku : ActiveQty(s) = Sum(Reserved(s), Order) /\ Sum(Reserved(s), Order) \in Int

LEMMA ActiveIs == Shape => ReservedIsSum
  <1>. SUFFICES ASSUME Shape, NEW s \in Sku
                PROVE  ActiveQty(s) = Sum(Reserved(s), Order) /\ Sum(Reserved(s), Order) \in Int
    BY DEF ReservedIsSum
  <1>. DEFINE P == {p \in Order : resState[p][s] = "ACTIVE"}
              f == [o \in P |-> resQty[o][s]]
              g == Reserved(s)
  <1>1. ActiveQty(s) = Sum(f, P)
    BY DEF SumFunction, Sum, ActiveQty
  <1>2. \A x \in P : f[x] \in Int
    BY DEF Shape, TypeOK
  <1>3. \A x \in Order : g[x] = IF x \in P THEN f[x] ELSE 0
    BY DEF Reserved
  <1>4. P \in SUBSET Order /\ IsFiniteSet(Order) /\ \A x \in Order : g[x] \in Int
    BY ConstantsAssumption DEF Reserved, Shape, TypeOK
  <1>. HIDE DEF P, f, g
  <1>5. Sum(g, Order) = Sum(f, P) /\ Sum(g, Order) \in Int
    BY <1>2, <1>3, <1>4, SumFilter, SumInt
  <1>. QED  BY <1>1, <1>5 DEF g

LEMMA ActiveIsNext == Shape' => ReservedIsSum'
  BY ActiveIs, PTL

\* A commit that places an order adds its lines to what is reserved.
LEMMA CommitActive ==
  ASSUME Shape, Shape', Sold, NEW t \in Txn, Commit(t), kind[t] = "hold", NEW s \in Sku
  PROVE  ActiveQty(s)' = ActiveQty(s) + IF s \in DOMAIN lines[t] THEN lines[t][s].qty ELSE 0
  <1>1. PICK f, g : f = Reserved(s) /\ g = Reserved(s)'
    OBVIOUS
  <1>2. \A o \in Order :
           /\ f[o] = IF resState[o][s] = "ACTIVE" THEN resQty[o][s] ELSE 0
           /\ g[o] = IF resState'[o][s] = "ACTIVE" THEN resQty'[o][s] ELSE 0
           /\ f[o] \in Int /\ g[o] \in Int
    BY <1>1 DEF Reserved, Shape, TypeOK
  <1>3. /\ ActiveQty(s) = Sum(f, Order) /\ Sum(f, Order) \in Int
        /\ ActiveQty(s)' = Sum(g, Order)
    BY <1>1, ActiveIs, ActiveIsNext DEF ReservedIsSum
  <1>4. Placing(t) /\ order[t] \in Order
    BY DEF Commit, Placing, Shape, Phases
  <1>5. PICK o \in Order : o = order[t]
    BY <1>4
  <1>6. resState[o][s] = "NONE"
    BY <1>4, <1>5 DEF Sold, Unplaced
  <1>7. /\ resState' = [resState EXCEPT ![o] =
              [r \in Sku |-> IF r \in DOMAIN lines[t] THEN "ACTIVE" ELSE @[r]]]
        /\ resQty' = [resQty EXCEPT ![o] =
              [r \in Sku |-> IF r \in DOMAIN lines[t] THEN lines[t][r].qty ELSE @[r]]]
    BY <1>5 DEF Commit, WriteReservation, MarkLines
  <1>8. /\ resState \in [Order -> [Sku -> {"NONE", "ACTIVE", "RELEASED", "CONSUMED"}]]
        /\ resQty \in [Order -> [Sku -> Nat]]
    BY DEF Shape, TypeOK
  <1>9. \A p \in Order : p # o => g[p] = f[p]
    BY <1>2, <1>7, <1>8
  <1>10. f[o] = 0 /\ g[o] = IF s \in DOMAIN lines[t] THEN lines[t][s].qty ELSE 0
    BY <1>2, <1>6, <1>7, <1>8
  <1>11. IsFiniteSet(Order) /\ \A p \in Order : f[p] \in Int /\ g[p] \in Int
    BY <1>2, ConstantsAssumption
  <1>12. Sum(g, Order) = Sum(f, Order) + g[o] - f[o]
    BY <1>9, <1>11, SumChange
  <1>. QED  BY <1>3, <1>10, <1>11, <1>12

\* What is reserved does not grow while no order becomes ACTIVE.
LEMMA ActiveFalls ==
  ASSUME Shape, Shape', NEW s \in Sku,
         \A o \in Order : resState'[o][s] = "ACTIVE" =>
            resState[o][s] = "ACTIVE" /\ resQty'[o][s] = resQty[o][s]
  PROVE  ActiveQty(s)' <= ActiveQty(s)
  <1>1. PICK f, g : f = Reserved(s) /\ g = Reserved(s)'
    OBVIOUS
  <1>2. \A o \in Order :
           /\ f[o] = IF resState[o][s] = "ACTIVE" THEN resQty[o][s] ELSE 0
           /\ g[o] = IF resState'[o][s] = "ACTIVE" THEN resQty'[o][s] ELSE 0
           /\ resQty[o][s] \in Nat /\ resQty'[o][s] \in Nat
    BY <1>1 DEF Reserved, Shape, TypeOK
  <1>3. ActiveQty(s) = Sum(f, Order) /\ ActiveQty(s)' = Sum(g, Order)
    BY <1>1, ActiveIs, ActiveIsNext DEF ReservedIsSum
  <1>4. IsFiniteSet(Order) /\ \A p \in Order : f[p] \in Int /\ g[p] \in Int /\ g[p] <= f[p]
    BY <1>2, ConstantsAssumption
  <1>. QED  BY <1>3, <1>4, SumAtMost

\* Once an order is checked its lines stay covered: it has locked every
\* variant, and whoever wants to take or reserve goods needs that lock.
Secured ==
    \A t \in Txn : kind[t] = "hold" /\ pc[t] = "checked" =>
        \A s \in DOMAIN lines[t] :
            lock[s] = t /\ lines[t][s].qty <= OnHand(<<Main, s>>) - ActiveQty(s)

LEMMA InitSecured == Init => Secured
  BY DEF Init, Secured

\* A checked transaction keeps its lines and locks until it ends.
LEMMA StaysChecked ==
  ASSUME Shape, [Next]_vars, NEW t \in Txn, kind'[t] = "hold", pc'[t] = "checked"
  PROVE  \/ Check(t)
         \/ /\ kind[t] = "hold" /\ pc[t] = "checked" /\ lines'[t] = lines[t]
            /\ \A s \in Sku : lock[s] = t => lock'[s] = t
            /\ ~Commit(t)
  <1>. DEFINE Stays == /\ kind[t] = "hold" /\ pc[t] = "checked" /\ lines'[t] = lines[t]
                       /\ \A s \in Sku : lock[s] = t => lock'[s] = t
  <1>0. ~Commit(t) /\ ~Rollback(t)
    BY DEF Commit, Rollback, Shape, TypeOK
  <1>1. ASSUME NEW u \in Txn, BeginMove(u) PROVE Stays
    BY <1>1 DEF BeginMove, Shape, TypeOK
  <1>2. ASSUME NEW u \in Txn, NEW o \in Order,
               BeginHold(u, o) \/ BeginConsume(u, o) \/ BeginRelease(u, o)
        PROVE  Stays
    BY <1>2 DEF BeginHold, BeginConsume, BeginRelease, Shape, TypeOK
  <1>3. ASSUME NEW u \in Txn, u # t, Rollback(u) \/ Commit(u) PROVE Stays
    BY <1>3 DEF Rollback, Commit, Unlock, Shape, TypeOK
  <1>4. ASSUME NEW u \in Txn, u # t, Check(u) PROVE Stays
    BY <1>4 DEF Check, Shape, TypeOK
  <1>5. ASSUME NEW u \in Txn, NEW s \in Sku, Want(u, s) \/ WriteBack(u, s) PROVE Stays
    BY <1>5 DEF Want, WriteBack, Shape, TypeOK
  <1>6. ASSUME NEW u \in Txn, NEW s \in Sku, Lock(u, s) PROVE Stays
    BY <1>6, ConstantsAssumption DEF Lock, Shape, TypeOK
  <1>7. ASSUME NEW R, ReleaseOnly(R) PROVE Stays
    BY <1>7 DEF ReleaseOnly, txnVars
  <1>8. ASSUME UNCHANGED vars PROVE Stays
    BY <1>8 DEF vars, txnVars
  <1>. HIDE DEF Stays
  <1>9. Check(t) \/ Stays
    BY <1>0, <1>1, <1>2, <1>3, <1>4, <1>5, <1>6, <1>7, <1>8
       DEF Next, Step, Fail, DeadlockVictim, Crash, CancelOrder, Sweep, Terminating
  <1>. QED  BY <1>0, <1>9 DEF Stays

LEMMA NextSecured == Shape /\ Sold /\ Secured /\ [Next]_vars => Secured'
  <1>. SUFFICES ASSUME Shape, Sold, Secured, [Next]_vars,
                       NEW t \in Txn, kind'[t] = "hold", pc'[t] = "checked",
                       NEW s \in DOMAIN lines'[t]
                PROVE  /\ lock'[s] = t
                       /\ lines'[t][s].qty <= OnHand(<<Main, s>>)' - ActiveQty(s)'
    BY DEF Secured
  <1>1. Shape' /\ s \in Sku
    BY NextShape DEF Shape, TypeOK, IsLines
  <1>2. CASE Check(t)
    <2>1. /\ s \in DOMAIN lines[t] /\ lock[s] = t
          /\ lines[t][s].qty <= OnHand(<<Main, s>>) - ActiveQty(s)
      BY <1>1, <1>2 DEF Check, Ready, Covered, Held, Shape, Phases
    <2>2. UNCHANGED <<ledgerVars, resVars, lock, lines>>
      BY <1>2 DEF Check
    <2>. QED  BY <2>1, <2>2 DEF OnHand, ActiveQty, ledgerVars, resVars
  <1>3. CASE /\ kind[t] = "hold" /\ pc[t] = "checked" /\ lines'[t] = lines[t]
             /\ \A r \in Sku : lock[r] = t => lock'[r] = t
             /\ ~Commit(t)
    <2>1. /\ s \in DOMAIN lines[t] /\ lock[s] = t
          /\ lines[t][s].qty <= OnHand(<<Main, s>>) - ActiveQty(s)
          /\ lines[t][s].qty \in Nat
      BY <1>3, LineTypes DEF Secured
    <2>2. <<Main, s>> \in Cell /\ OnHand(<<Main, s>>) \in Int /\ OnHand(<<Main, s>>)' \in Int
      BY <1>1, ConstantsAssumption DEF Shape, TypeOK, OnHand, Cell
    <2>3. OnHand(<<Main, s>>)' = OnHand(<<Main, s>>)
      <3>1. ASSUME NEW u \in Txn, Commit(u) PROVE ~Touches(u, <<Main, s>>)
        BY <1>3, <2>1, <3>1, CommitLocked DEF Touches
      <3>2. CASE \E u \in Txn : Commit(u)
        BY <2>2, <3>1, <3>2, CommitCell
      <3>3. CASE UNCHANGED <<sumIn, sumOut, keys, stockQty>>
        BY <3>3 DEF OnHand
      <3>. QED  BY <3>2, <3>3, OthersKeepLedger
    <2>4. ActiveQty(s) \in Int /\ ActiveQty(s)' \in Int
      BY <1>1, ActiveIs, ActiveIsNext DEF ReservedIsSum
    <2>5. ActiveQty(s)' <= ActiveQty(s)
      <3>1. ASSUME NEW u \in Txn, Commit(u), kind[u] = "hold" PROVE ActiveQty(s)' = ActiveQty(s)
        <4>1. s \notin DOMAIN lines[u]
          BY <1>3, <2>1, <3>1 DEF Secured, Commit
        <4>. QED  BY <1>1, <2>4, <3>1, <4>1, CommitActive
      <3>2. ASSUME NEW u \in Txn, Commit(u), kind[u] # "hold" PROVE ActiveQty(s)' <= ActiveQty(s)
        <4>1. resState \in [Order -> [Sku -> {"NONE", "ACTIVE", "RELEASED", "CONSUMED"}]]
          BY DEF Shape, TypeOK
        <4>2. \A o \in Order : resState'[o][s] = "ACTIVE" => resState[o][s] = "ACTIVE"
          BY <1>1, <3>2, <4>1 DEF Commit, WriteReservation, MarkLines, resVars
        <4>3. resQty' = resQty
          BY <3>2 DEF Commit, WriteReservation, resVars
        <4>. QED  BY <1>1, <4>2, <4>3, ActiveFalls
      <3>3. CASE ~\E u \in Txn : Commit(u)
        BY <1>1, <3>3, OthersKeepSales, ActiveFalls
      <3>. QED  BY <2>4, <3>1, <3>2, <3>3
    <2>. QED  BY <1>1, <1>3, <2>1, <2>2, <2>3, <2>4, <2>5
  <1>. QED  BY <1>2, <1>3, StaysChecked

\* Of a checked transaction only its own commit makes a committed one.
LEMMA AcceptedCommits ==
  ASSUME Shape, [Next]_vars, NEW t \in Txn, Accepted(t)
  PROVE  Commit(t)
  <1>. USE DEF Accepted
  <1>1. ASSUME NEW u \in Txn, BeginMove(u) \/ Rollback(u) \/ Check(u) PROVE FALSE
    BY <1>1 DEF BeginMove, Rollback, Check, Shape, TypeOK
  <1>2. ASSUME NEW u \in Txn, NEW o \in Order,
               BeginHold(u, o) \/ BeginConsume(u, o) \/ BeginRelease(u, o)
        PROVE  FALSE
    BY <1>2 DEF BeginHold, BeginConsume, BeginRelease, Shape, TypeOK
  <1>3. ASSUME NEW u \in Txn, u # t, Commit(u) PROVE FALSE
    BY <1>3 DEF Commit, Shape, TypeOK
  <1>4. ASSUME NEW u \in Txn, NEW s \in Sku, Want(u, s) \/ Lock(u, s) \/ WriteBack(u, s) PROVE FALSE
    BY <1>4 DEF Want, Lock, WriteBack, Shape, TypeOK
  <1>5. ASSUME NEW R, ReleaseOnly(R) PROVE FALSE
    BY <1>5 DEF ReleaseOnly, txnVars
  <1>6. ASSUME UNCHANGED vars PROVE FALSE
    BY <1>6 DEF vars, txnVars
  <1>. QED
    BY <1>1, <1>2, <1>3, <1>4, <1>5, <1>6
       DEF Next, Step, Fail, DeadlockVictim, Crash, CancelOrder, Sweep, Terminating

\* An order that is accepted leaves the reservations covered.
LEMMA AcceptedIsCovered ==
  ASSUME Shape, Shape', Sold, Secured, [Next]_vars, NEW t \in Txn, Accepted(t),
         NEW s \in DOMAIN lines[t]
  PROVE  ActiveQty(s)' <= OnHand(<<Main, s>>)'
  <1>1. Commit(t) /\ kind[t] = "hold"
    BY AcceptedCommits DEF Accepted
  <1>2. /\ s \in Sku /\ lines[t][s].qty \in Nat
        /\ lines[t][s].qty <= OnHand(<<Main, s>>) - ActiveQty(s)
    BY LineTypes DEF Secured, Accepted
  <1>3. <<Main, s>> \in Cell /\ OnHand(<<Main, s>>) \in Int /\ ActiveQty(s) \in Int
    <2>1. ActiveQty(s) \in Int
      BY <1>2, ActiveIs DEF ReservedIsSum
    <2>. QED  BY <1>2, <2>1, ConstantsAssumption DEF Shape, TypeOK, OnHand, Cell
  <1>4. OnHand(<<Main, s>>)' = OnHand(<<Main, s>>)
    BY <1>1, <1>3, CommitCell DEF Touches, Moved
  <1>5. ActiveQty(s)' = ActiveQty(s) + lines[t][s].qty
    BY <1>1, <1>2, CommitActive
  <1>. QED  BY <1>2, <1>3, <1>4, <1>5

-----------------------------------------------------------------------------
\* The inductive invariant.
Counted == Projected /\ Sourced /\ Conserved
IInv == Shape /\ Chain /\ Sold /\ Counted /\ Secured

LEMMA InitCounted == Init => Counted
  <1>1. Init => Projected
    BY InitTotal DEF Projected, Init
  <1>. QED  BY <1>1, InitSourced, InitConserved DEF Counted

LEMMA NextCounted == Shape /\ Chain /\ Sold /\ Counted /\ [Next]_vars => Counted'
  BY NextProjected, NextSourced, NextConserved DEF Counted

\* Every reachable state satisfies the inductive invariant.
THEOREM Inductive == Spec => []IInv
  <1>1. Init => IInv
    BY InitShape, InitChain, InitSold, InitCounted, InitSecured DEF IInv
  <1>2. IInv /\ [Next]_vars => IInv'
    BY NextShape, NextChain, NextSold, NextCounted, NextSecured DEF IInv
  <1>. QED  BY <1>1, <1>2, PTL DEF Spec

\* The variables keep their types; reservedQty never goes below zero.
THEOREM TypeCorrect == Spec => []TypeOK
  <1>1. IInv => TypeOK
    BY DEF IInv, Shape
  <1>. QED  BY <1>1, Inductive, PTL

\* No cell of the ledger is ever overdrawn, however many transactions race
\* for it (moveInTx 127-136).
THEOREM NeverNegative == Spec => []NonNegative
  <1>1. IInv => NonNegative
    BY DEF IInv, Chain
  <1>. QED  BY <1>1, Inductive, PTL

\* Every ledger row was computed from the balance it follows (moveInTx
\* 121-164).
THEOREM ChainUnbroken == Spec => []LedgerChain
  <1>1. IInv => LedgerChain
    BY DEF IInv, Chain
  <1>. QED  BY <1>1, Inductive, PTL

\* However often payments consume an order's reservation, it is sold once,
\* and only together with its SALE row (consumeReservation 319-350).
THEOREM SoldOnce == Spec => []ConsumedIffSold
  <1>1. IInv => ConsumedIffSold
    BY DEF IInv, Sold
  <1>. QED  BY <1>1, Inductive, PTL

\* The stock shown on the variant is what the ledger holds (moveInTx 156-160).
THEOREM ProjectionHolds == Spec => []ProjectionMatchesLedger
  <1>1. IInv => ProjectionMatchesLedger
    <2>1. IInv => \A s \in Sku : stockQty[s] = Total(s)
      BY DEF IInv, Counted, Projected
    <2>. QED  BY <2>1, TotalIs DEF ProjectionMatchesLedger, Shelf
  <1>. QED  BY <1>1, Inductive, PTL

\* Retried, raced and rolled back, a move counts exactly once, and so does the
\* sale of an order (moveInTx 117-119, consumeReservation 319-350).
THEOREM StockConserved == Spec => []StockConservation
  <1>1. IInv => StockConservation
    <2>. SUFFICES ASSUME IInv, NEW s \in Sku
                  PROVE  SumFunction(Shelf(s)) = Opening[s]
                           + SumFunction(Moves(s)) - SumFunction(Sales(s))
      BY DEF StockConservation, Shelf, Moves, Sales
    <2>2. Total(s) = Opening[s] + Sum(Moves(s), MoveKey) - Sum(Sales(s), Order)
      <3>1. Conserved
        BY DEF IInv, Counted
      <3>. QED  BY <3>1 DEF Conserved
    <2>3. SumFunction(Moves(s)) = Sum(Moves(s), MoveKey) /\ SumFunction(Sales(s)) = Sum(Sales(s), Order)
      BY DEF SumFunction, Sum, Moves, Sales
    <2>. QED  BY <2>2, <2>3, TotalIs
  <1>. QED  BY <1>1, Inductive, PTL

\* Of two orders for the last unit one is refused (createGuestOrder 256-312).
THEOREM NeverOverHeld == Spec => NoOverHold
  <1>1. IInv /\ IInv' /\ [Next]_vars =>
          \A t \in Txn : Accepted(t) =>
             \A s \in DOMAIN lines[t] : ActiveQty(s)' <= OnHand(<<Main, s>>)'
    BY AcceptedIsCovered DEF IInv
  <1>2. IInv /\ IInv' /\ [Next]_vars =>
          [\A t \in Txn : Accepted(t) =>
             \A s \in DOMAIN lines[t] : ActiveQty(s)' <= OnHand(<<Main, s>>)']_vars
    BY <1>1
  <1>. QED  BY <1>2, Inductive, PTL DEF Spec, NoOverHold
-----------------------------------------------------------------------------
(* The refinement: every step is a request of AtomicStock, or nothing. *)

\* What an open transaction will write is what was asked for: a consumption
\* takes from the warehouse it was set aside in, a placing is one of the
\* baskets, and what a move passes over is in the ledger already.
Intended ==
    \A t \in Txn :
        /\ kind[t] = "consume" => \A s \in DOMAIN lines[t] : lines[t][s].wh = Main
        /\ kind[t] = "hold" =>
              \E cart \in Carts : /\ DOMAIN lines[t] = DOMAIN cart
                                  /\ \A s \in DOMAIN cart : lines[t][s].qty = cart[s]
        /\ kind[t] = "move" => \A s \in skipped[t] : lines[t][s].key \in keys

LEMMA InitIntended == Init => Intended
  BY DEF Init, Intended

\* Every step but a commit leaves the reservation rows alone, or releases some.
LEMMA OthersRelease ==
  ASSUME [Next]_vars
  PROVE  \/ \E t \in Txn : Commit(t)
         \/ UNCHANGED resState
         \/ \E R : ReleaseRows(R)
  <1>. USE DEF resVars
  <1>1. ASSUME NEW t \in Txn, BeginMove(t) \/ Rollback(t) \/ Check(t) PROVE UNCHANGED resState
    BY <1>1 DEF BeginMove, Rollback, Check
  <1>2. ASSUME NEW t \in Txn, NEW o \in Order, BeginHold(t, o) \/ BeginConsume(t, o)
        PROVE  UNCHANGED resState
    BY <1>2 DEF BeginHold, BeginConsume
  <1>3. ASSUME NEW t \in Txn, NEW o \in Order, BeginRelease(t, o) PROVE \E R : ReleaseRows(R)
    BY <1>3 DEF BeginRelease
  <1>4. ASSUME NEW t \in Txn, NEW s \in Sku, Want(t, s) \/ Lock(t, s) \/ WriteBack(t, s)
        PROVE  UNCHANGED resState
    BY <1>4 DEF Want, Lock, WriteBack
  <1>5. ASSUME NEW R, ReleaseOnly(R) PROVE \E Q : ReleaseRows(Q)
    BY <1>5 DEF ReleaseOnly
  <1>6. ASSUME UNCHANGED vars PROVE UNCHANGED resState
    BY <1>6 DEF vars
  <1>. QED
    BY <1>1, <1>2, <1>3, <1>4, <1>5, <1>6
       DEF Next, Step, Fail, DeadlockVictim, Crash, CancelOrder, Sweep, Terminating

\* Nothing leaves the ledger.
LEMMA KeysStay ==
  ASSUME [Next]_vars
  PROVE  keys \subseteq keys'
  BY OthersKeepLedger DEF Commit, AppendRows

\* Only a key that was found makes a move pass a line over.
LEMMA SkippedKept ==
  ASSUME Shape, [Next]_vars, NEW t \in Txn, kind[t] = "move"
  PROVE  \A s \in skipped'[t] : s \in skipped[t] \/ lines[t][s].key \in keys
  <1>. DEFINE Kept == \A s \in skipped'[t] : s \in skipped[t] \/ lines[t][s].key \in keys
  <1>1. ASSUME NEW u \in Txn, BeginMove(u) PROVE Kept
    BY <1>1 DEF BeginMove
  <1>2. ASSUME NEW u \in Txn, NEW o \in Order,
               BeginHold(u, o) \/ BeginConsume(u, o) \/ BeginRelease(u, o)
        PROVE  Kept
    BY <1>2 DEF BeginHold, BeginConsume, BeginRelease
  <1>3. ASSUME NEW u \in Txn, Rollback(u) \/ Check(u) \/ Commit(u) PROVE Kept
    BY <1>3 DEF Rollback, Check, Commit
  <1>4. ASSUME NEW u \in Txn, NEW s \in Sku, Want(u, s) PROVE Kept
    <2>1. u # t => skipped'[t] = skipped[t]
      BY <1>4 DEF Want, Shape, TypeOK
    <2>2. u = t => Kept
      BY <1>4 DEF Want, Shape, TypeOK
    <2>. QED  BY <2>1, <2>2
  <1>5. ASSUME NEW u \in Txn, NEW s \in Sku, Lock(u, s) \/ WriteBack(u, s) PROVE Kept
    <2>1. u # t => skipped'[t] = skipped[t]
      BY <1>5 DEF Lock, WriteBack, Shape, TypeOK
    <2>2. u = t => skipped' = skipped
      BY <1>5 DEF Lock, WriteBack
    <2>. QED  BY <2>1, <2>2
  <1>6. ASSUME NEW R, ReleaseOnly(R) PROVE Kept
    BY <1>6 DEF ReleaseOnly, txnVars
  <1>7. ASSUME UNCHANGED vars PROVE Kept
    BY <1>7 DEF vars, txnVars
  <1>. HIDE DEF Kept
  <1>8. Kept
    BY <1>1, <1>2, <1>3, <1>4, <1>5, <1>6, <1>7
       DEF Next, Step, Fail, DeadlockVictim, Crash, CancelOrder, Sweep, Terminating
  <1>. QED  BY <1>8 DEF Kept

LEMMA NextIntended == Shape /\ Intended /\ [Next]_vars => Intended'
  <1>. SUFFICES ASSUME Shape, Intended, [Next]_vars, NEW t \in Txn
                PROVE  /\ kind'[t] = "consume" => \A s \in DOMAIN lines'[t] : lines'[t][s].wh = Main
                       /\ kind'[t] = "hold" =>
                            \E cart \in Carts : /\ DOMAIN lines'[t] = DOMAIN cart
                                                /\ \A s \in DOMAIN cart : lines'[t][s].qty = cart[s]
                       /\ kind'[t] = "move" => \A s \in skipped'[t] : lines'[t][s].key \in keys'
    BY DEF Intended
  <1>1. CASE BeginMove(t)
    BY <1>1 DEF BeginMove, Shape, TypeOK, Phases
  <1>2. ASSUME NEW o \in Order, BeginHold(t, o)
        PROVE  kind'[t] = "hold" /\ \E cart \in Carts :
                  /\ DOMAIN lines'[t] = DOMAIN cart
                  /\ \A s \in DOMAIN cart : lines'[t][s].qty = cart[s]
    <2>1. PICK cart \in Carts : lines' = [lines EXCEPT ![t] = [s \in DOMAIN cart |->
                      [wh |-> Main, qty |-> cart[s], in |-> FALSE, key |-> NoKey]]]
      BY <1>2 DEF BeginHold
    <2>2. lines'[t] = [s \in DOMAIN cart |->
                      [wh |-> Main, qty |-> cart[s], in |-> FALSE, key |-> NoKey]]
      BY <2>1 DEF Shape, TypeOK
    <2>. QED  BY <1>2, <2>2 DEF BeginHold, Shape, TypeOK
  <1>3. ASSUME NEW o \in Order, BeginConsume(t, o)
        PROVE  kind'[t] = "consume" /\ \A s \in DOMAIN lines'[t] : lines'[t][s].wh = Main
    <2>. DEFINE active == {s \in Sku : resState[o][s] = "ACTIVE"}
    <2>1. lines'[t] = [s \in active |->
            [wh |-> Main, qty |-> resQty[o][s], in |-> FALSE, key |-> SaleKey(o, s)]]
      BY <1>3 DEF BeginConsume, Shape, TypeOK
    <2>2. kind'[t] = "consume"
      BY <1>3 DEF BeginConsume, Shape, TypeOK
    <2>. QED  BY <2>1, <2>2
  <1>4. ASSUME NEW o \in Order, BeginRelease(t, o) PROVE kind'[t] = "release"
    BY <1>4 DEF BeginRelease, Shape, TypeOK
  <1>5. CASE ~(BeginMove(t) \/ \E o \in Order : BeginHold(t, o) \/ BeginConsume(t, o) \/ BeginRelease(t, o))
    <2>1. UNCHANGED <<kind[t], order[t], lines[t]>>
      BY <1>5, LinesKept
    <2>2. kind[t] = "move" =>
             \A s \in skipped'[t] : s \in skipped[t] \/ lines[t][s].key \in keys
      BY SkippedKept
    <2>. QED  BY <2>1, <2>2, KeysStay DEF Intended
  <1>. QED  BY <1>1, <1>2, <1>3, <1>4, <1>5

\* What AtomicStock sees of a step that writes no ledger and no reservation.
LEMMA Unseen ==
  ASSUME UNCHANGED <<sumIn, sumOut, keys, resState, resQty>>
  PROVE  UNCHANGED Alone!vars
  BY DEF Alone!vars, OnHand

LEMMA StockNext == [c \in Cell |-> OnHand(c)]' = [c \in Cell |-> OnHand(c)']
  OBVIOUS

\* A commit that writes no ledger row leaves the stock and the keys alone.
LEMMA NothingMoved ==
  ASSUME Shape, NEW t \in Txn, Commit(t), Moved(t) = {}
  PROVE  /\ keys' = keys
         /\ [c \in Cell |-> OnHand(c)]' = [c \in Cell |-> OnHand(c)]
  <1>1. \A c \in Cell : OnHand(c)' = OnHand(c)
    BY CommitCell DEF Touches
  <1>. QED  BY <1>1, StockNext DEF Commit, AppendRows

LEMMA CommitMoveAlone ==
  ASSUME IInv, IInv', Intended, NEW t \in Txn, Commit(t), kind[t] = "move"
  PROVE  \E job \in Jobs : Alone!Move(job)
  <1>. USE DEF IInv
  <1>1. PICK job \in Jobs : job = lines[t]
    BY DEF Counted, Sourced
  <1>2. \A s \in DOMAIN job : s \in Moved(t) <=> job[s].key \notin keys
    BY <1>1 DEF Commit, Duplicate, Moved, Intended
  <1>3. \A s \in DOMAIN job : job[s].key \in MoveKey
    BY ConstantsAssumption
  <1>4. Alone!NewLines(job) = Moved(t)
    BY <1>1, <1>2, <1>3, MovedLines DEF Alone!NewLines
  <1>5. ASSUME NEW c \in Cell PROVE Alone!Moved(job, c) = OnHand(c)' /\ OnHand(c)' >= 0
    <2>1. c = <<c[1], c[2]>> /\ OnHand(c) \in Int
      BY DEF Cell, Shape, TypeOK, OnHand
    <2>2. Touches(t, c) <=> c[2] \in Moved(t) /\ job[c[2]].wh = c[1]
      BY <1>1, <2>1 DEF Touches, CellOf
    <2>3. Touches(t, c) => job[c[2]].qty \in Nat /\ job[c[2]].in \in BOOLEAN
      BY <1>1, <2>2, MovedLines, LineTypes
    <2>4. Touches(t, c) => OnHand(c)' = OnHand(c) + Delta(t, c[2])
      BY CommitCell
    <2>5. ~Touches(t, c) => OnHand(c)' = OnHand(c)
      BY CommitCell
    <2>6. Alone!Moved(job, c) =
             IF Touches(t, c) THEN IF job[c[2]].in THEN OnHand(c) + job[c[2]].qty
                                   ELSE OnHand(c) - job[c[2]].qty
             ELSE OnHand(c)
      BY <1>4, <2>2 DEF Alone!Moved
    <2>7. Touches(t, c) => Delta(t, c[2]) = IF job[c[2]].in THEN job[c[2]].qty ELSE -job[c[2]].qty
      BY <1>1 DEF Delta
    <2>8. OnHand(c)' >= 0
      BY DEF Chain, NonNegative
    <2>. QED  BY <2>1, <2>3, <2>4, <2>5, <2>6, <2>7, <2>8
  <1>6. [c \in Cell |-> OnHand(c)]' = [c \in Cell |-> Alone!Moved(job, c)]
    BY <1>5, StockNext
  <1>7. (keys \intersect MoveKey)' = (keys \intersect MoveKey) \union {job[s].key : s \in Moved(t)}
    <2>1. keys' = keys \union {job[s].key : s \in Moved(t)}
      BY <1>1 DEF Commit, AppendRows
    <2>. QED  BY <1>1, <1>3, <2>1, MovedLines
  <1>8. UNCHANGED <<resState, resQty>>
    BY DEF Commit, WriteReservation, resVars
  <1>9. \A c \in Cell : Alone!Moved(job, c) >= 0
    BY <1>5
  <1>10. Alone!Cell = Cell
    BY DEF Alone!Cell, Cell
  <1>. QED  BY <1>4, <1>6, <1>7, <1>8, <1>9, <1>10 DEF Alone!Move

LEMMA CommitHoldAlone ==
  ASSUME IInv, Intended, NEW t \in Txn, Commit(t), kind[t] = "hold"
  PROVE  \E o \in Order, cart \in Carts : Alone!Place(o, cart)
  <1>. USE DEF IInv
  <1>1. PICK o \in Order : o = order[t]
    BY DEF Shape, Phases
  <1>2. PICK cart \in Carts : /\ DOMAIN lines[t] = DOMAIN cart
                              /\ \A s \in DOMAIN cart : lines[t][s].qty = cart[s]
    BY DEF Intended
  <1>3. \A s \in Sku : resState[o][s] = "NONE"
    <2>1. Placing(t)
      BY DEF Commit, Placing
    <2>. QED  BY <1>1, <2>1 DEF Sold, Unplaced
  <1>4. /\ Alone!Basket(o) = {}
        /\ resState' = [resState EXCEPT ![o] =
              [s \in Sku |-> IF s \in DOMAIN cart THEN "ACTIVE" ELSE "NONE"]]
    <2>1. resState' = [resState EXCEPT ![o] =
                         [s \in Sku |-> IF s \in DOMAIN lines[t] THEN "ACTIVE" ELSE @[s]]]
      BY <1>1 DEF Commit, WriteReservation, MarkLines
    <2>2. [s \in Sku |-> IF s \in DOMAIN lines[t] THEN "ACTIVE" ELSE resState[o][s]]
            = [s \in Sku |-> IF s \in DOMAIN cart THEN "ACTIVE" ELSE "NONE"]
      BY <1>2, <1>3
    <2>. QED  BY <1>3, <2>1, <2>2, Zenon DEF Alone!Basket
  <1>5. \A s \in DOMAIN cart : cart[s] <= [c \in Cell |-> OnHand(c)][<<Main, s>>] - ActiveQty(s)
    <2>1. SUFFICES ASSUME NEW s \in DOMAIN cart
                   PROVE  cart[s] <= [c \in Cell |-> OnHand(c)][<<Main, s>>] - ActiveQty(s)
      OBVIOUS
    <2>2. s \in DOMAIN lines[t] /\ s \in Sku /\ lines[t][s].qty = cart[s]
      BY <1>2, <2>1, LineTypes
    <2>3. lines[t][s].qty <= OnHand(<<Main, s>>) - ActiveQty(s)
      BY <2>2 DEF Secured, Commit
    <2>4. <<Main, s>> \in Cell
      BY <2>2, ConstantsAssumption DEF Cell
    <2>. QED  BY <2>2, <2>3, <2>4
  <1>6. \A s \in Sku : Alone!SetAside(s) = ActiveQty(s)
    BY DEF Alone!SetAside, ActiveQty, Alone!SumFunction, Alone!SumFunctionOnSet,
           Alone!FoldFunctionOnSet, Alone!MapThenFoldSet,
           SumFunction, SumFunctionOnSet, FoldFunctionOnSet, MapThenFoldSet
  <1>7. resQty' = [resQty EXCEPT ![o] =
                     [s \in Sku |-> IF s \in DOMAIN cart THEN cart[s] ELSE @[s]]]
    <2>1. resQty' = [resQty EXCEPT ![o] =
                       [s \in Sku |-> IF s \in DOMAIN lines[t] THEN lines[t][s].qty ELSE @[s]]]
      BY <1>1 DEF Commit, WriteReservation
    <2>2. [s \in Sku |-> IF s \in DOMAIN lines[t] THEN lines[t][s].qty ELSE resQty[o][s]]
            = [s \in Sku |-> IF s \in DOMAIN cart THEN cart[s] ELSE resQty[o][s]]
      BY <1>2
    <2>. QED  BY <2>1, <2>2, Zenon
  <1>8. keys' = keys /\ [c \in Cell |-> OnHand(c)]' = [c \in Cell |-> OnHand(c)]
    BY NothingMoved DEF Moved
  <1>9. \A s \in DOMAIN cart : cart[s] <= [c \in Cell |-> OnHand(c)][<<Main, s>>] - Alone!SetAside(s)
    BY <1>2, <1>5, <1>6, LineTypes
  <1>10. Alone!Place(o, cart)
    BY <1>3, <1>4, <1>7, <1>8, <1>9 DEF Alone!Place
  <1>. QED  BY <1>10

\* A consumption takes out the rows of its lines that are not sold yet; those
\* another one sold meanwhile it only marks again.
LEMMA CommitConsumeAlone ==
  ASSUME IInv, IInv', Intended, NEW t \in Txn, Commit(t), kind[t] = "consume"
  PROVE  \E o \in Order : \E S \in SUBSET Alone!Unsold(o) : Alone!Sell(o, S)
  <1>. USE DEF IInv
  <1>. DEFINE S == Moved(t)
  <1>1. PICK o \in Order : o = order[t]
    BY DEF Shape, Phases
  <1>2. resState \in [Order -> [Sku -> {"NONE", "ACTIVE", "RELEASED", "CONSUMED"}]]
    BY DEF Shape, TypeOK
  <1>3. S \subseteq DOMAIN lines[t] /\ DOMAIN lines[t] \subseteq Sku
    BY MovedLines, LineTypes
  <1>4. \A s \in DOMAIN lines[t] : lines[t][s].key = SaleKey(o, s) /\ resState[o][s] # "NONE"
    BY <1>1 DEF Shape, Phases
  <1>5. \A s \in DOMAIN lines[t] : s \in S <=> resState[o][s] # "CONSUMED"
    BY <1>3, <1>4 DEF Moved, Sold, ConsumedIffSold
  <1>6. S \in SUBSET Alone!Unsold(o)
    BY <1>2, <1>3, <1>4, <1>5 DEF Alone!Unsold
  <1>7. \A s \in S : /\ lines[t][s].wh = Main /\ ~lines[t][s].in
                     /\ lines[t][s].qty = resQty[o][s] /\ resQty[o][s] \in Nat
    <2>1. \A s \in DOMAIN lines[t] : ~lines[t][s].in /\ lines[t][s].qty = resQty[o][s]
      BY <1>1 DEF Counted, Sourced
    <2>2. \A s \in DOMAIN lines[t] : lines[t][s].wh = Main /\ lines[t][s].qty \in Nat
      BY LineTypes DEF Intended
    <2>. QED  BY <1>3, <2>1, <2>2
  <1>8. resState' = [resState EXCEPT ![o] = [s \in Sku |-> IF s \in S THEN "CONSUMED" ELSE @[s]]]
    <2>1. resState' = [resState EXCEPT ![o] =
                         [s \in Sku |-> IF s \in DOMAIN lines[t] THEN "CONSUMED" ELSE @[s]]]
      BY <1>1 DEF Commit, WriteReservation, MarkLines
    <2>2. \A s \in Sku : (IF s \in DOMAIN lines[t] THEN "CONSUMED" ELSE resState[o][s])
                           = IF s \in S THEN "CONSUMED" ELSE resState[o][s]
      BY <1>3, <1>5
    <2>3. [s \in Sku |-> IF s \in DOMAIN lines[t] THEN "CONSUMED" ELSE resState[o][s]]
            = [s \in Sku |-> IF s \in S THEN "CONSUMED" ELSE resState[o][s]]
      BY <2>2
    <2>. QED  BY <2>1, <2>3, Zenon
  <1>. HIDE DEF S
  <1>9. ASSUME NEW c \in Cell
        PROVE  /\ OnHand(c)' = IF c[1] = Main /\ c[2] \in S
                               THEN OnHand(c) - resQty[o][c[2]] ELSE OnHand(c)
               /\ OnHand(c)' >= 0 /\ OnHand(c) \in Int
    <2>1. c = <<c[1], c[2]>> /\ OnHand(c) \in Int
      BY DEF Cell, Shape, TypeOK, OnHand
    <2>2. Touches(t, c) <=> c[1] = Main /\ c[2] \in S
      BY <1>7, <2>1 DEF S, Touches, CellOf
    <2>3. Touches(t, c) => Delta(t, c[2]) = -resQty[o][c[2]] /\ resQty[o][c[2]] \in Nat
      BY <1>7, <2>2 DEF Delta
    <2>4. OnHand(c)' >= 0
      BY DEF Chain, NonNegative
    <2>. QED  BY <2>1, <2>2, <2>3, <2>4, CommitCell
  <1>10. \A s \in S : resQty[o][s] <= [c \in Cell |-> OnHand(c)][<<Main, s>>]
    <2>1. SUFFICES ASSUME NEW s \in S
                   PROVE  resQty[o][s] <= [c \in Cell |-> OnHand(c)][<<Main, s>>]
      OBVIOUS
    <2>2. <<Main, s>> \in Cell
      BY <1>3, ConstantsAssumption DEF Cell
    <2>3. /\ OnHand(<<Main, s>>)' = OnHand(<<Main, s>>) - resQty[o][s]
          /\ OnHand(<<Main, s>>)' >= 0 /\ OnHand(<<Main, s>>) \in Int
      BY <1>9, <2>2
    <2>4. resQty[o][s] \in Nat
      BY <1>7
    <2>. QED  BY <2>2, <2>3, <2>4
  <1>11. [c \in Cell |-> OnHand(c)]' =
           [c \in Cell |-> IF c[1] = Main /\ c[2] \in S
                           THEN [d \in Cell |-> OnHand(d)][c] - resQty[o][c[2]]
                           ELSE [d \in Cell |-> OnHand(d)][c]]
    BY <1>9, StockNext
  <1>12. (keys \intersect MoveKey)' = keys \intersect MoveKey
    <2>1. keys' = keys \union {lines[t][s].key : s \in S}
      BY DEF Commit, AppendRows, S
    <2>. QED  BY <1>3, <1>4, <2>1, KeyDisjoint
  <1>13. UNCHANGED resQty /\ Alone!Cell = Cell
    BY DEF Commit, WriteReservation, Alone!Cell, Cell
  <1>14. Alone!Sell(o, S)
    BY <1>8, <1>10, <1>11, <1>12, <1>13 DEF Alone!Sell
  <1>. QED  BY <1>6, <1>14

\* A release gives back the goods among its rows that are still set aside.
LEMMA ReleaseAlone ==
  ASSUME Shape, NEW R, ReleaseRows(R), UNCHANGED <<sumIn, sumOut, keys, resQty>>
  PROVE  \E Q \in SUBSET Alone!Reserved : Alone!GiveBack(Q)
  <1>. DEFINE Q == {row \in Alone!Reserved : row \in R}
  <1>1. \A o \in Order, s \in Sku : <<o, s>> \in Q <=> <<o, s>> \in R /\ resState[o][s] = "ACTIVE"
    BY DEF Alone!Reserved
  <1>. HIDE DEF Q
  <1>2. resState' = [o \in Order |-> [s \in Sku |->
                       IF <<o, s>> \in Q THEN "RELEASED" ELSE resState[o][s]]]
    BY <1>1 DEF ReleaseRows
  <1>3. [c \in Cell |-> OnHand(c)]' = [c \in Cell |-> OnHand(c)]
    BY DEF OnHand
  <1>4. Alone!GiveBack(Q)
    BY <1>2, <1>3 DEF Alone!GiveBack
  <1>5. Q \in SUBSET Alone!Reserved
    BY DEF Q
  <1>. QED  BY <1>4, <1>5

LEMMA StepAlone ==
  ASSUME IInv, IInv', Intended, [Next]_vars
  PROVE  [Alone!Next]_(Alone!vars)
  <1>1. ASSUME NEW t \in Txn, Commit(t) PROVE [Alone!Next]_(Alone!vars)
    <2>1. CASE kind[t] = "move"
      BY <1>1, <2>1, CommitMoveAlone DEF Alone!Next
    <2>2. CASE kind[t] = "hold"
      BY <1>1, <2>2, CommitHoldAlone DEF Alone!Next
    <2>3. CASE kind[t] = "consume"
      BY <1>1, <2>3, CommitConsumeAlone DEF Alone!Next
    <2>4. CASE kind[t] \notin {"move", "hold", "consume"}
      <3>1. Moved(t) = {} /\ UNCHANGED <<resState, resQty>>
        BY <1>1, <2>4 DEF Moved, Commit, WriteReservation, resVars
      <3>. QED  BY <1>1, <3>1, NothingMoved DEF Alone!vars, IInv
    <2>. QED  BY <2>1, <2>2, <2>3, <2>4
  <1>2. CASE ~\E t \in Txn : Commit(t)
    <2>1. UNCHANGED <<sumIn, sumOut, keys>>
      BY <1>2, OthersKeepLedger
    <2>2. UNCHANGED resQty
      BY <1>2, OthersKeepSales DEF IInv
    <2>3. CASE UNCHANGED resState
      BY <2>1, <2>2, <2>3, Unseen
    <2>4. ASSUME NEW R, ReleaseRows(R) PROVE Alone!Next
      BY <2>1, <2>2, <2>4, ReleaseAlone DEF IInv, Alone!Next
    <2>. QED  BY <1>2, <2>3, <2>4, OthersRelease
  <1>. QED  BY <1>1, <1>2

LEMMA InitAlone == Init => Alone!Init
  <1>. SUFFICES ASSUME Init PROVE Alone!Init
    OBVIOUS
  <1>1. \A c \in Cell : OnHand(c) = IF c[1] = Main THEN Opening[c[2]] ELSE 0
    BY ConstantsAssumption DEF Init, OnHand, Cell
  <1>2. Alone!Cell = Cell
    BY DEF Alone!Cell, Cell
  <1>. QED  BY <1>1, <1>2 DEF Init, Alone!Init

\* The stock engine implements AtomicStock: with row locks, keys and one check
\* at the end, any number of transactions that read, wait, race, fail and die
\* do to the goods only what requests do that run one after the other
\* (moveInTx, createGuestOrder, consumeReservation, releaseByRef).
THEOREM RunsAlone == Spec => RunsAsIfAlone
  <1>1. Init => Intended
    BY InitIntended
  <1>2. IInv /\ Intended /\ [Next]_vars => Intended'
    BY NextIntended DEF IInv
  <1>3. Spec => []Intended
    BY <1>1, <1>2, Inductive, PTL DEF Spec
  <1>4. IInv /\ IInv' /\ Intended /\ [Next]_vars => [Alone!Next]_(Alone!vars)
    BY StepAlone
  <1>. QED  BY <1>3, <1>4, InitAlone, Inductive, PTL DEF Spec, RunsAsIfAlone, Alone!Spec

-----------------------------------------------------------------------------
(* Locks end with their transactions. *)

Open == {"active", "waiting", "checked"}
LocksAreHeld == \A s \in Sku : lock[s] # NoTxn => pc[lock[s]] \in Open

LEMMA NextLocks == TypeOK /\ LocksAreHeld /\ [Next]_vars => LocksAreHeld'
  <1>. SUFFICES ASSUME TypeOK, LocksAreHeld, [Next]_vars PROVE LocksAreHeld'
    OBVIOUS
  <1>. USE DEF LocksAreHeld, Open
  <1>1. pc \in [Txn -> {"new", "active", "waiting", "checked", "committed", "aborted"}]
        /\ lock \in [Sku -> Txn \union {NoTxn}]
    BY DEF TypeOK
  <1>2. ASSUME NEW t \in Txn,
               \/ BeginMove(t)
               \/ \E o \in Order : BeginHold(t, o) \/ BeginConsume(t, o) \/ BeginRelease(t, o)
        PROVE  LocksAreHeld'
    <2>1. /\ pc[t] = "new" /\ UNCHANGED lock
          /\ \A u \in Txn : u # t => pc'[u] = pc[u]
      BY <1>1, <1>2 DEF BeginMove, BeginHold, BeginConsume, BeginRelease
    <2>. QED  BY <1>1, <2>1
  <1>3. ASSUME NEW t \in Txn,
               \/ \E s \in Sku : Want(t, s) \/ Lock(t, s) \/ WriteBack(t, s)
               \/ Check(t)
        PROVE  LocksAreHeld'
    <2>1. /\ pc'[t] \in Open /\ \A u \in Txn : u # t => pc'[u] = pc[u]
      BY <1>1, <1>3 DEF Want, Lock, WriteBack, Check, Ready
    <2>2. \A s \in Sku : lock'[s] # lock[s] => lock'[s] = t
      BY <1>1, <1>3 DEF Want, Lock, WriteBack, Check
    <2>. QED  BY <1>1, <2>1, <2>2
  <1>4. ASSUME NEW t \in Txn, Unlock(t), \A u \in Txn : u # t => pc'[u] = pc[u]
        PROVE  LocksAreHeld'
    BY <1>1, <1>4 DEF Unlock
  <1>5. ASSUME NEW t \in Txn, Commit(t) \/ Fail(t) \/ DeadlockVictim(t) \/ Crash(t)
        PROVE  LocksAreHeld'
    <2>1. Unlock(t) /\ \A u \in Txn : u # t => pc'[u] = pc[u]
      BY <1>1, <1>5 DEF Commit, Fail, DeadlockVictim, Crash, Rollback
    <2>. QED  BY <1>4, <2>1
  <1>6. CASE \/ \E o \in Order : CancelOrder(o)
             \/ Sweep \/ Terminating \/ UNCHANGED vars
    BY <1>6 DEF CancelOrder, Sweep, ReleaseOnly, Terminating, vars, txnVars
  <1>. QED  BY <1>2, <1>3, <1>5, <1>6 DEF Next, Step

\* However a transaction ends, by its commit, a failed check, the deadlock
\* detector or the death of its process, it leaves no variant row locked, and
\* none is locked before it begins (moveInTx 121-122, createGuestOrder).
THEOREM NoLockOutlives == Spec => []LocksAreHeld
  <1>1. Init => LocksAreHeld
    BY DEF Init, LocksAreHeld
  <1>2. IInv => TypeOK
    BY DEF IInv, Shape
  <1>. QED  BY <1>1, <1>2, NextLocks, Inductive, PTL DEF Spec
=============================================================================
