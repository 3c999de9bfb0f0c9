---------------------------- MODULE StockLedger ----------------------------
(***************************************************************************)
(* The stock engine of apps/api/src/inventory/inventory.service.ts: the    *)
(* append-only ledger, its projections on the variant row, and order       *)
(* reservations, at the level of PostgreSQL READ COMMITTED transactions    *)
(* that lock variant rows with SELECT ... FOR UPDATE.                      *)
(*                                                                         *)
(* A transaction works through its lines in the order the caller supplied, *)
(* which no code sorts, so the order is left open: Want picks the next     *)
(* line, Lock obtains the row and reads what the following statements      *)
(* will use, Commit writes everything.  Writes become visible at commit,   *)
(* which is also when the row locks go.                                    *)
(*                                                                         *)
(* The rows of the ledger are kept as what the code reads of them: the two *)
(* SUM aggregates of a (warehouse, sku) cell, the balanceAfter of the      *)
(* cell's latest row, and the set of idempotency keys.                     *)
(***************************************************************************)
EXTENDS Integers, FiniteSets, Functions

CONSTANTS
    Sku,        \* product variants
    Warehouse,
    Main,       \* the sales channel's default warehouse
    Txn,        \* database transactions; each runs at most once
    NoTxn,
    Order,      \* orders that may be placed
    MoveKey,    \* idempotency keys of direct moves
    NoKey,
    Jobs,       \* direct moves: functions from a set of SKUs to lines
    Carts,      \* order baskets: functions from a set of SKUs to quantities
    Opening,    \* stock on hand at the start, per SKU, in Main
    Threshold,  \* lowStockThreshold of a variant
    MinRestock  \* setting minRestockQty

SaleKey(o, s) == <<o, s>>
Key == MoveKey \union (Order \X Sku)
Line == [wh : Warehouse, qty : Nat \ {0}, in : BOOLEAN, key : Key \union {NoKey}]
IsLines(f) == DOMAIN f \subseteq Sku /\ f \in [DOMAIN f -> Line]
IsCart(f) == DOMAIN f \subseteq Sku /\ f \in [DOMAIN f -> Nat \ {0}]

ASSUME ConstantsAssumption ==
    /\ Main \in Warehouse
    /\ NoTxn \notin Txn /\ NoTxn \notin Order
    /\ MoveKey \intersect (Order \X Sku) = {} /\ NoKey \notin Key
    /\ IsFiniteSet(Warehouse) /\ IsFiniteSet(Order) /\ IsFiniteSet(MoveKey)
    /\ \A job \in Jobs : IsLines(job) /\ \A s \in DOMAIN job : job[s].key \in MoveKey
    \* A key names one line, as the unique index on it presumes.
    /\ \A job, again \in Jobs : \A s \in DOMAIN job : \A r \in DOMAIN again :
          job[s].key = again[r].key => s = r /\ job[s] = again[r]
    /\ \A cart \in Carts : IsCart(cart)
    /\ Opening \in [Sku -> Nat]
    /\ Threshold \in [Sku -> Nat]
    /\ MinRestock \in Nat

VARIABLES
    sumIn, sumOut,  \* aggregates of qtyIn, qtyOut per cell
    lastAfter,      \* balanceAfter of the latest ledger row of a cell
    keys,           \* idempotency keys present in the ledger
    stockQty, reservedQty,  \* projections on the variant row
    resState, resQty,       \* StockReservation of an order, per SKU
    alerts,         \* threshold events in the outbox, unique by payload
    lock,           \* holder of a variant row lock
    pc, kind, order, lines, wants, skipped, seen, seenStock, seenReserved

ledgerVars == <<sumIn, sumOut, lastAfter, keys>>
variantVars == <<stockQty, reservedQty, alerts>>
resVars == <<resState, resQty>>
txnVars == <<pc, kind, order, lines, wants, skipped, seen, seenStock, seenReserved>>
vars == <<ledgerVars, variantVars, resVars, lock, txnVars>>

-----------------------------------------------------------------------------
Cell == Warehouse \X Sku
OnHand(c) == sumIn[c] - sumOut[c]
ActiveQty(s) ==
    SumFunction([o \in {p \in Order : resState[p][s] = "ACTIVE"} |-> resQty[o][s]])

\* The variant rows t has locked.
Held(t) == {s \in Sku : lock[s] = t}
CellOf(t, s) == <<lines[t][s].wh, s>>
Remaining(t) == DOMAIN lines[t] \ (Held(t) \union skipped[t])

\* A consumption locks the reservation row of a line before the variant's.
RowsOf(t) == IF kind[t] = "consume" THEN Held(t) \union wants[t] ELSE {}
RowTaken(t, s) ==
    kind[t] = "consume" /\ \E u \in Txn \ {t} : order[u] = order[t] /\ s \in RowsOf(u)

Ready(t) == pc[t] = "active" /\ DOMAIN lines[t] = Held(t) \union skipped[t]

\* The lines that append a ledger row when t commits.
Moved(t) ==
    {s \in DOMAIN lines[t] :
        \/ kind[t] = "move" /\ s \notin skipped[t]
        \/ kind[t] = "consume" /\ lines[t][s].key \notin keys}
Touches(t, c) == c[2] \in Moved(t) /\ CellOf(t, c[2]) = c
Delta(t, s) == IF lines[t][s].in THEN lines[t][s].qty ELSE -lines[t][s].qty
After(t, s) == seen[t][s] + Delta(t, s)
NextStock(t, s) == seenStock[t][s] + Delta(t, s)

TypeOK ==
    /\ sumIn \in [Cell -> Nat] /\ sumOut \in [Cell -> Nat]
    /\ lastAfter \in [Cell -> Int]
    /\ keys \subseteq Key
    /\ stockQty \in [Sku -> Int] /\ reservedQty \in [Sku -> Nat]
    /\ resState \in [Order -> [Sku -> {"NONE", "ACTIVE", "RELEASED", "CONSUMED"}]]
    /\ resQty \in [Order -> [Sku -> Nat]]
    /\ alerts \subseteq ({"LowStockStockAlert", "StockRestocked"} \X Cell \X Int)
    /\ lock \in [Sku -> Txn \union {NoTxn}]
    /\ pc \in [Txn -> {"new", "active", "waiting", "checked", "committed", "aborted"}]
    /\ kind \in [Txn -> {"none", "move", "hold", "consume", "release"}]
    /\ order \in [Txn -> Order \union {NoTxn}]
    /\ lines = [t \in Txn |-> lines[t]] /\ \A t \in Txn : IsLines(lines[t])
    /\ wants \in [Txn -> SUBSET Sku]
    /\ skipped \in [Txn -> SUBSET Sku]
    /\ seen \in [Txn -> [Sku -> Int]] /\ seenStock \in [Txn -> [Sku -> Int]]
    /\ seenReserved \in [Txn -> [Sku -> Nat]]

Init ==
    /\ sumIn = [c \in Cell |-> IF c[1] = Main THEN Opening[c[2]] ELSE 0]
    /\ sumOut = [c \in Cell |-> 0]
    /\ lastAfter = sumIn
    /\ keys = {}
    /\ stockQty = Opening
    /\ reservedQty = [s \in Sku |-> 0]
    /\ resState = [o \in Order |-> [s \in Sku |-> "NONE"]]
    /\ resQty = [o \in Order |-> [s \in Sku |-> 0]]
    /\ alerts = {}
    /\ lock = [s \in Sku |-> NoTxn]
    /\ pc = [t \in Txn |-> "new"]
    /\ kind = [t \in Txn |-> "none"]
    /\ order = [t \in Txn |-> NoTxn]
    /\ lines = [t \in Txn |-> [s \in {} |-> NoKey]]
    /\ wants = [t \in Txn |-> {}]
    /\ skipped = [t \in Txn |-> {}]
    /\ seen = [t \in Txn |-> [s \in Sku |-> 0]]
    /\ seenStock = [t \in Txn |-> [s \in Sku |-> 0]]
    /\ seenReserved = [t \in Txn |-> [s \in Sku |-> 0]]

-----------------------------------------------------------------------------
(* Opening a transaction. *)

\* move(), and every caller of moveInTx that already knows its lines.
BeginMove(t) ==
    /\ pc[t] = "new"
    /\ \E job \in Jobs : lines' = [lines EXCEPT ![t] = job]
    /\ kind' = [kind EXCEPT ![t] = "move"]
    /\ pc' = [pc EXCEPT ![t] = "active"]
    /\ UNCHANGED <<ledgerVars, variantVars, resVars, lock,
                   order, wants, skipped, seen, seenStock, seenReserved>>

\* The transaction of createGuestOrder: lock every line, check, reserve.
BeginHold(t, o) ==
    /\ pc[t] = "new"
    /\ \A s \in Sku : resState[o][s] = "NONE"
    /\ \A u \in Txn : kind[u] = "hold" => order[u] # o
    /\ \E cart \in Carts :
          lines' = [lines EXCEPT ![t] = [s \in DOMAIN cart |->
                      [wh |-> Main, qty |-> cart[s], in |-> FALSE, key |-> NoKey]]]
    /\ kind' = [kind EXCEPT ![t] = "hold"]
    /\ order' = [order EXCEPT ![t] = o]
    /\ pc' = [pc EXCEPT ![t] = "active"]
    /\ UNCHANGED <<ledgerVars, variantVars, resVars, lock,
                   wants, skipped, seen, seenStock, seenReserved>>

\* consumeReservation reads the ACTIVE rows of the order before it locks
\* anything; with none it returns at once.
BeginConsume(t, o) ==
    LET active == {s \in Sku : resState[o][s] = "ACTIVE"} IN
    /\ pc[t] = "new"
    /\ \E s \in Sku : resState[o][s] # "NONE"
    /\ lines' = [lines EXCEPT ![t] = [s \in active |->
                    [wh |-> Main, qty |-> resQty[o][s], in |-> FALSE, key |-> SaleKey(o, s)]]]
    /\ kind' = [kind EXCEPT ![t] = "consume"]
    /\ order' = [order EXCEPT ![t] = o]
    /\ pc' = [pc EXCEPT ![t] = IF active = {} THEN "committed" ELSE "active"]
    /\ UNCHANGED <<ledgerVars, variantVars, resVars, lock,
                   wants, skipped, seen, seenStock, seenReserved>>

RowsOfOrder(o) == {o} \X Sku

\* The rows of R can be updated: no consumption has locked an ACTIVE one.
Free(R) ==
    \A u \in Txn : \A s \in RowsOf(u) :
        <<order[u], s>> \in R => resState[order[u]][s] # "ACTIVE"

\* Fault: the release does not look at the state of a row.
ReleaseRowsAnyState(R) ==
    resState' = [o \in Order |-> [s \in Sku |->
        IF <<o, s>> \in R /\ resState[o][s] # "NONE" THEN "RELEASED" ELSE resState[o][s]]]

\* UPDATE ... SET state = RELEASED on the ACTIVE rows of R.
ReleaseRows(R) ==
    resState' = [o \in Order |-> [s \in Sku |->
        IF <<o, s>> \in R /\ resState[o][s] = "ACTIVE" THEN "RELEASED" ELSE resState[o][s]]]

\* releaseByRef, which is no transaction: the ACTIVE rows of the order become
\* RELEASED at once (waiting for a consumption that has them locked), and
\* then reservedQty is lowered, variant by variant, by all RELEASED rows,
\* also those an earlier call had released.  The UPDATE and the findMany after
\* it are one step: what is found only decides by how much to lower.
BeginRelease(t, o) ==
    LET S == {s \in Sku : resState[o][s] \in {"ACTIVE", "RELEASED"}} IN
    /\ pc[t] = "new"
    /\ S # {}
    /\ Free(RowsOfOrder(o))
    /\ ReleaseRows(RowsOfOrder(o))
    /\ lines' = [lines EXCEPT ![t] = [s \in S |->
                    [wh |-> Main, qty |-> resQty[o][s], in |-> TRUE, key |-> NoKey]]]
    /\ kind' = [kind EXCEPT ![t] = "release"]
    /\ order' = [order EXCEPT ![t] = o]
    /\ pc' = [pc EXCEPT ![t] = "active"]
    /\ UNCHANGED <<ledgerVars, variantVars, resQty, lock,
                   wants, skipped, seen, seenStock, seenReserved>>

-----------------------------------------------------------------------------
(* Working through the lines. *)

\* The next line.  A direct move first looks its idempotency key up, without
\* a lock, and leaves the line alone when the row is already there.  A
\* consumption locks its reservation row; it and a release then read the
\* variant whose reservedQty they will write back.
Want(t, s) ==
    /\ pc[t] = "active"
    /\ s \in Remaining(t) /\ ~RowTaken(t, s)
    /\ \/ /\ kind[t] = "move" /\ lines[t][s].key \in keys
          /\ skipped' = [skipped EXCEPT ![t] = @ \union {s}]
          /\ UNCHANGED <<pc, wants, seenReserved>>
       \/ /\ kind[t] = "move" => lines[t][s].key \notin keys
          /\ pc' = [pc EXCEPT ![t] = "waiting"]
          /\ wants' = [wants EXCEPT ![t] = {s}]
          /\ seenReserved' = [seenReserved EXCEPT ![t][s] = reservedQty[s]]
          /\ UNCHANGED skipped
    /\ UNCHANGED <<ledgerVars, variantVars, resVars, lock,
                   kind, order, lines, seen, seenStock>>

\* Fault: the aggregate is not restricted to the warehouse of the line.
LockSumsAllWarehouses(t, s) ==
    /\ pc[t] = "waiting" /\ wants[t] = {s} /\ kind[t] # "release"
    /\ lock[s] = NoTxn
    /\ lock' = [lock EXCEPT ![s] = t]
    /\ seen' = [seen EXCEPT ![t][s] = SumFunction([w \in Warehouse |-> OnHand(<<w, s>>)])]
    /\ seenStock' = [seenStock EXCEPT ![t][s] = stockQty[s]]
    /\ wants' = [wants EXCEPT ![t] = {}]
    /\ pc' = [pc EXCEPT ![t] = "active"]
    /\ UNCHANGED <<ledgerVars, variantVars, resVars,
                   kind, order, lines, skipped, seenReserved>>

\* Fault: the variant's row is read before it is locked, here as early as
\* can be, before anything moved.
LockReadBefore(t, s) ==
    /\ pc[t] = "waiting" /\ wants[t] = {s} /\ kind[t] # "release"
    /\ lock[s] = NoTxn
    /\ lock' = [lock EXCEPT ![s] = t]
    /\ seen' = [seen EXCEPT ![t][s] = OnHand(CellOf(t, s))]
    /\ seenStock' = [seenStock EXCEPT ![t][s] = Opening[s]]
    /\ wants' = [wants EXCEPT ![t] = {}]
    /\ pc' = [pc EXCEPT ![t] = "active"]
    /\ UNCHANGED <<ledgerVars, variantVars, resVars,
                   kind, order, lines, skipped, seenReserved>>

\* SELECT ... FOR UPDATE returns; the statements after it sum the ledger and
\* read the stockQty that is written back with the row.
Lock(t, s) ==
    /\ pc[t] = "waiting" /\ wants[t] = {s} /\ kind[t] # "release"
    /\ lock[s] = NoTxn
    /\ lock' = [lock EXCEPT ![s] = t]
    /\ seen' = [seen EXCEPT ![t][s] = OnHand(CellOf(t, s))]
    /\ seenStock' = [seenStock EXCEPT ![t][s] = stockQty[s]]
    /\ wants' = [wants EXCEPT ![t] = {}]
    /\ pc' = [pc EXCEPT ![t] = "active"]
    /\ UNCHANGED <<ledgerVars, variantVars, resVars,
                   kind, order, lines, skipped, seenReserved>>

\* Fault: no Math.max(0, ...).
LoweredUnclamped(t, s) == seenReserved[t][s] - lines[t][s].qty

Lowered(t, s) ==
    IF seenReserved[t][s] < lines[t][s].qty THEN 0 ELSE seenReserved[t][s] - lines[t][s].qty

\* releaseByRef's update of one variant, from the value it read before.
WriteBack(t, s) ==
    /\ pc[t] = "waiting" /\ wants[t] = {s} /\ kind[t] = "release"
    /\ lock[s] = NoTxn
    /\ reservedQty' = [reservedQty EXCEPT ![s] = Lowered(t, s)]
    /\ skipped' = [skipped EXCEPT ![t] = @ \union {s}]
    /\ wants' = [wants EXCEPT ![t] = {}]
    /\ pc' = [pc EXCEPT ![t] = "active"]
    /\ UNCHANGED <<ledgerVars, stockQty, alerts, resVars, lock,
                   kind, order, lines, seen, seenStock, seenReserved>>

\* Fault: reservations of other orders are not deducted.
CoveredByOnHand(t) ==
    \A s \in DOMAIN lines[t] : lines[t][s].qty <= OnHand(<<Main, s>>)

\* createGuestOrder's check looks at neither quarantine nor expiry.
Covered(t) ==
    \A s \in DOMAIN lines[t] : lines[t][s].qty <= OnHand(<<Main, s>>) - ActiveQty(s)

\* Once all rows are locked it sums ledger and ACTIVE reservations.
Check(t) ==
    /\ kind[t] = "hold" /\ Ready(t)
    /\ Covered(t)
    /\ pc' = [pc EXCEPT ![t] = "checked"]
    /\ UNCHANGED <<ledgerVars, variantVars, resVars, lock,
                   kind, order, lines, wants, skipped, seen, seenStock, seenReserved>>

-----------------------------------------------------------------------------
(* The end of a transaction. *)

\* Fault: the balance a move would leave is not checked.
NeverOverdrawn(t) == FALSE

Overdrawn(t) == \E s \in Moved(t) : After(t, s) < 0

\* Fault: no unique index on idempotencyKey.
DuplicateUnnoticed(t) == FALSE

Duplicate(t) == \E s \in Moved(t) : lines[t][s].key \in keys

Unlock(t) == lock' = [s \in Sku |-> IF lock[s] = t THEN NoTxn ELSE lock[s]]

\* The ledger rows, their projection on stockQty and the threshold events.
AppendRows(t) ==
    /\ sumIn' = [c \in Cell |-> IF Touches(t, c) /\ lines[t][c[2]].in
                               THEN sumIn[c] + lines[t][c[2]].qty ELSE sumIn[c]]
    /\ sumOut' = [c \in Cell |-> IF Touches(t, c) /\ ~lines[t][c[2]].in
                                THEN sumOut[c] + lines[t][c[2]].qty ELSE sumOut[c]]
    /\ lastAfter' = [c \in Cell |-> IF Touches(t, c) THEN After(t, c[2]) ELSE lastAfter[c]]
    /\ keys' = keys \union {lines[t][s].key : s \in Moved(t)}
    /\ stockQty' = [s \in Sku |-> IF s \in Moved(t) THEN NextStock(t, s) ELSE stockQty[s]]
    /\ alerts' = alerts
         \union {<<"LowStockStockAlert", CellOf(t, s), NextStock(t, s)>> :
                   s \in {r \in Moved(t) : /\ Delta(t, r) < 0 /\ Threshold[r] > 0
                                           /\ NextStock(t, r) <= Threshold[r]}}
         \union {<<"StockRestocked", CellOf(t, s), Delta(t, s)>> :
                   s \in {r \in Moved(t) : Delta(t, r) > 0 /\ Delta(t, r) >= MinRestock}}

MarkLines(t, state) ==
    resState' = [resState EXCEPT ![order[t]] =
                   [s \in Sku |-> IF s \in DOMAIN lines[t] THEN state ELSE @[s]]]

\* What the transaction does to the order's reservation and to reservedQty.
WriteReservation(t) ==
    \/ /\ kind[t] = "hold"
       /\ MarkLines(t, "ACTIVE")
       /\ resQty' = [resQty EXCEPT ![order[t]] =
             [s \in Sku |-> IF s \in DOMAIN lines[t] THEN lines[t][s].qty ELSE @[s]]]
       /\ reservedQty' = [s \in Sku |->
             IF s \in DOMAIN lines[t] THEN reservedQty[s] + lines[t][s].qty ELSE reservedQty[s]]
    \/ /\ kind[t] = "consume"
       /\ MarkLines(t, "CONSUMED")
       /\ reservedQty' = [s \in Sku |->
             IF s \in DOMAIN lines[t] THEN Lowered(t, s) ELSE reservedQty[s]]
       /\ UNCHANGED resQty
    \/ kind[t] \notin {"hold", "consume"} /\ UNCHANGED <<resVars, reservedQty>>

Commit(t) ==
    /\ IF kind[t] = "hold" THEN pc[t] = "checked" ELSE Ready(t)
    /\ ~Overdrawn(t) /\ ~Duplicate(t)
    /\ AppendRows(t)
    /\ WriteReservation(t)
    /\ Unlock(t)
    /\ pc' = [pc EXCEPT ![t] = "committed"]
    /\ UNCHANGED <<kind, order, lines, wants, skipped, seen, seenStock, seenReserved>>

\* Fault: a transaction that fails is left open, with its locks.
RollbackForgotten(t) ==
    /\ pc' = [pc EXCEPT ![t] = "aborted"]
    /\ wants' = [wants EXCEPT ![t] = {}]
    /\ UNCHANGED <<ledgerVars, variantVars, resVars, lock,
                   kind, order, lines, skipped, seen, seenStock, seenReserved>>

Rollback(t) ==
    /\ Unlock(t)
    /\ pc' = [pc EXCEPT ![t] = "aborted"]
    /\ wants' = [wants EXCEPT ![t] = {}]
    /\ UNCHANGED <<ledgerVars, variantVars, resVars,
                   kind, order, lines, skipped, seen, seenStock, seenReserved>>

\* INSUFFICIENT_STOCK, or the unique index on idempotencyKey (P2002).
Fail(t) ==
    /\ Ready(t)
    /\ Overdrawn(t) \/ Duplicate(t) \/ (kind[t] = "hold" /\ ~Covered(t))
    /\ Rollback(t)

\* Who t waits for: the holder of the variant row it wants, or, for a
\* consumption, another one of the same order that has its remaining rows.
Blockers(t) ==
    ({lock[s] : s \in wants[t]} \ {NoTxn})
      \union {u \in Txn : /\ pc[t] = "active" /\ u # t /\ order[u] = order[t]
                          /\ \A s \in Remaining(t) : RowTaken(t, s)
                          /\ \E s \in Remaining(t) : s \in RowsOf(u)}
Cycle(C) ==
    /\ C # {}
    /\ \A t \in C : Blockers(t) # {} /\ Blockers(t) \subseteq C
    /\ C = UNION {Blockers(t) : t \in C}

\* PostgreSQL's deadlock detector picks a victim.
DeadlockVictim(t) == (\E C \in SUBSET Txn : t \in C /\ Cycle(C)) /\ Rollback(t)

\* The process or its connection dies.
Crash(t) == pc[t] \in {"active", "waiting", "checked"} /\ Rollback(t)

-----------------------------------------------------------------------------
(* Releases that touch nothing but the reservation rows. *)

ActiveRows == {row \in Order \X Sku : resState[row[1]][row[2]] = "ACTIVE"}

\* One UPDATE, which leaves reservedQty alone.
ReleaseOnly(R) ==
    /\ R \intersect ActiveRows # {}
    /\ Free(R)
    /\ ReleaseRows(R)
    /\ UNCHANGED <<ledgerVars, variantVars, resQty, lock, txnVars>>

\* cancelUnpaid of an order that is not paid.
CancelOrder(o) == ReleaseOnly(RowsOfOrder(o))

\* releaseExpiredReservations, which available() runs first.  Each row has an
\* expiresAt of its own, also within an order: it may find any of them past.
Sweep == \E R \in SUBSET ActiveRows : ReleaseOnly(R)

Terminating == (\A t \in Txn : pc[t] \in {"committed", "aborted"}) /\ UNCHANGED vars

Step(t) ==
    \/ \E s \in Sku : Want(t, s) \/ Lock(t, s) \/ WriteBack(t, s)
    \/ Check(t) \/ Commit(t) \/ Fail(t)

Next ==
    \/ \E t \in Txn :
         \/ BeginMove(t)
         \/ \E o \in Order : BeginHold(t, o) \/ BeginConsume(t, o) \/ BeginRelease(t, o)
         \/ Step(t) \/ DeadlockVictim(t) \/ Crash(t)
    \/ \E o \in Order : CancelOrder(o)
    \/ Sweep
    \/ Terminating

Spec == Init /\ [][Next]_vars

\* Node keeps running the transactions it started and PostgreSQL resolves
\* deadlocks; nobody is obliged to start one.
Fairness == \A t \in Txn : WF_vars(Step(t)) /\ WF_vars(DeadlockVictim(t))
FairSpec == Spec /\ Fairness

-----------------------------------------------------------------------------
(* Properties. *)

\* No cell of the ledger goes below zero, whatever runs at the same time
\* (moveInTx 127-136, commerce-suite-architecture.md 202).
NonNegative == \A c \in Cell : OnHand(c) >= 0

\* balanceAfter of the newest row is the stock on hand: no row was computed
\* from a balance another transaction had already changed (moveInTx 127-164).
LedgerChain == \A c \in Cell : lastAfter[c] = OnHand(c)

\* stockQty of a variant is the ledger summed over the warehouses, although it
\* is read in one statement and written back in another: no move writes over
\* what another one added meanwhile (moveInTx 156-160).
ProjectionMatchesLedger ==
    \A s \in Sku : stockQty[s] = SumFunction([w \in Warehouse |-> OnHand(<<w, s>>)])

\* An order's reservation is CONSUMED exactly when its SALE row exists,
\* however many consumptions of the order ran (consumeReservation 319-350).
ConsumedIffSold ==
    \A o \in Order, s \in Sku : resState[o][s] = "CONSUMED" <=> SaleKey(o, s) \in keys

\* Goods are neither made nor lost: the opening stock, plus what the direct
\* moves whose key is in the ledger carry, minus what orders consumed, is what
\* the ledger holds.  A retried move counts once, a rolled back one not at
\* all (moveInTx 117-119 and the unique idempotencyKey).
KeyDelta(k, s) ==
    IF \E job \in Jobs : s \in DOMAIN job /\ job[s].key = k /\ k \in keys
    THEN LET line == (CHOOSE job \in Jobs : s \in DOMAIN job /\ job[s].key = k)[s]
         IN IF line.in THEN line.qty ELSE -line.qty
    ELSE 0
ConsumedBy(o, s) == IF resState[o][s] = "CONSUMED" THEN resQty[o][s] ELSE 0
StockConservation ==
    \A s \in Sku :
        SumFunction([w \in Warehouse |-> OnHand(<<w, s>>)]) =
            Opening[s] + SumFunction([k \in MoveKey |-> KeyDelta(k, s)])
                       - SumFunction([o \in Order |-> ConsumedBy(o, s)])

\* An order is accepted only when stock on hand covers it beside all other
\* ACTIVE reservations: of two buyers of the last unit one succeeds
\* (createGuestOrder 256-312, commerce-suite-architecture.md 202).
Accepted(t) == kind[t] = "hold" /\ pc[t] = "checked" /\ pc'[t] = "committed"
NoOverHold ==
    [][\A t \in Txn : Accepted(t) =>
          \A s \in DOMAIN lines[t] : ActiveQty(s)' <= OnHand(<<Main, s>>)']_vars

\* Requests take effect as if each ran alone at the moment it commits: a move
\* in all its new lines, an order on goods no other has set aside, a sale once,
\* whatever the others read, hold and roll back meanwhile (moveInTx,
\* createGuestOrder, consumeReservation under their row locks).
Alone == INSTANCE AtomicStock WITH
            stock <- [c \in Cell |-> OnHand(c)], done <- keys \intersect MoveKey,
            goods <- resState, qty <- resQty
RunsAsIfAlone == Alone!Spec

\* Every transaction that starts comes to an end, although nothing orders the
\* row locks it takes (moveInTx 121-122): a deadlock costs one of the parties.
EveryTxnEnds ==
    \A t \in Txn : pc[t] \in {"active", "waiting"} ~> pc[t] \in {"committed", "aborted"}
=============================================================================
