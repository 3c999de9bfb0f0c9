----------------------------- MODULE StockDocs -----------------------------
(***************************************************************************)
(* The documents that move goods by hand: transfers between warehouses,    *)
(* damage reports, quarantine (inventory/inventory-ops.service.ts) and     *)
(* stocktakes with their approval (admin/admin-panel.controller.ts,        *)
(* inventory/inventory.controller.ts).                                     *)
(*                                                                         *)
(* Every handler has the same shape: it reads the document, judges its     *)
(* state, and writes later, in a transaction that does not look again.     *)
(* The first half is one of the Read... actions; pc[h] then names the      *)
(* write that is due, doc[h] the document and noted[h] the number the      *)
(* handler computed from what it read.                                     *)
(*                                                                         *)
(* There is one SKU, as documents of different SKUs do not meet, and       *)
(* moveInTx is one step: StockLedger is about its interior.                *)
(***************************************************************************)
EXTENDS Integers, FiniteSets, Functions

CONSTANTS
    Warehouse,
    Transfer, Damage, Quarantine, Stocktake, Request,   \* documents
    Handler,
    From, To,   \* warehouses of a transfer
    At,         \* warehouse of every other document
    About,      \* the stocktake an approval request is about
    Qty,        \* quantity of a transfer, damage report or quarantine
    Tolerance,  \* toleranceQty of a stocktake; 0 means the general setting
    Threshold,  \* setting adjustmentApprovalThreshold
    Costed,     \* warehouses that have an average cost for the SKU
    Opening,    \* stock on hand at the start, per warehouse
    Counts,     \* quantities a count may report
    MaxStock,   \* bound on goods that arrive from elsewhere
    NoDoc, NoCount

Doc == Transfer \union Damage \union Quarantine \union Stocktake \union Request
Kinds == {Transfer, Damage, Quarantine, Stocktake, Request}

\* Idempotency keys of ledger rows.
OutKey(t) == <<"trf-out", t>>
InKey(t) == <<"trf-in", t>>
DamageKey(d) == <<"dmg", d>>
DestroyKey(q) == <<"qrn-dest", q>>
CountKey(s) == <<"stk", s>>
Key == ({"trf-out", "trf-in"} \X Transfer) \union ({"dmg"} \X Damage)
         \union ({"qrn-dest"} \X Quarantine) \union ({"stk"} \X Stocktake)

ASSUME ConstantsAssumption ==
    /\ \A K, L \in Kinds : K # L => K \intersect L = {}
    /\ NoDoc \notin Doc
    /\ From \in [Transfer -> Warehouse] /\ To \in [Transfer -> Warehouse]
    /\ \A t \in Transfer : From[t] # To[t]
    /\ At \in [Damage \union Quarantine \union Stocktake -> Warehouse]
    /\ About \in [Request -> Stocktake]
    /\ Qty \in [Transfer \union Damage \union Quarantine -> Nat \ {0}]
    /\ Tolerance \in [Stocktake -> Nat] /\ Threshold \in Nat
    /\ Costed \subseteq Warehouse
    /\ Opening \in [Warehouse -> Nat]
    /\ SumFunction(Opening) \in Nat
    /\ Counts \subseteq Nat /\ NoCount \notin Nat
    /\ MaxStock \in Nat

VARIABLES
    onHand,    \* ledger balance per warehouse
    rows,      \* signed quantity of the ledger row with a key, 0 without one
    stockQty,  \* ProductVariant.stockQty, over all warehouses
    state,     \* of every document
    system, counted, approved,  \* of a stocktake: systemQty, countedQty, approvedById
    records,   \* DamageRecords the destructions of a quarantine wrote
    booked,    \* keys for which a journal entry was posted
    pc, doc, noted

stockVars == <<onHand, rows, stockQty>>
paperVars == <<system, counted, approved, records>>
handlerVars == <<pc, doc, noted>>
vars == <<stockVars, state, paperVars, booked, handlerVars>>

States == {"NONE", "DRAFT", "IN_TRANSIT", "DONE", "CANCELLED", "POSTED",
           "HELD", "RELEASED", "DESTROYED", "OPEN", "CLOSED",
           "PENDING", "APPROVED", "REJECTED"}

\* The writes that may be due, by the kind of their document.
TransferDue == {"confirm", "receive", "cancelTransfer"}
DamageDue == {"post", "cancelDamage", "bookDamage"}
QuarantineDue == {"hold", "release", "destroy", "bookDestroyed"}
StocktakeDue == {"start", "count", "adjust", "bookCount", "close"}
RequestDue == {"ask", "approve", "reject", "grant"}
Due == TransferDue \union DamageDue \union QuarantineDue \union StocktakeDue \union RequestDue

TypeOK ==
    /\ onHand \in [Warehouse -> Int]
    /\ rows \in [Key -> Int]
    /\ stockQty \in Int
    /\ state \in [Doc -> States]
    /\ system \in [Stocktake -> Int]
    /\ counted \in [Stocktake -> Nat \union {NoCount}]
    /\ approved \in [Stocktake -> BOOLEAN]
    /\ records \in [Quarantine -> Nat]
    /\ booked \subseteq Key
    /\ pc \in [Handler -> Due \union {"idle"}]
    /\ doc \in [Handler -> Doc \union {NoDoc}]
    /\ noted \in [Handler -> Int]
    /\ \A h \in Handler :
         /\ pc[h] \in TransferDue => doc[h] \in Transfer
         /\ pc[h] \in DamageDue => doc[h] \in Damage
         /\ pc[h] \in QuarantineDue => doc[h] \in Quarantine
         /\ pc[h] \in StocktakeDue => doc[h] \in Stocktake
         /\ pc[h] \in RequestDue => doc[h] \in Request

Init ==
    /\ onHand = Opening
    /\ rows = [k \in Key |-> 0]
    /\ stockQty = SumFunction(Opening)
    /\ state = [d \in Doc |-> "NONE"]
    /\ system = [s \in Stocktake |-> 0]
    /\ counted = [s \in Stocktake |-> NoCount]
    /\ approved = [s \in Stocktake |-> FALSE]
    /\ records = [q \in Quarantine |-> 0]
    /\ booked = {}
    /\ pc = [h \in Handler |-> "idle"]
    /\ doc = [h \in Handler |-> NoDoc]
    /\ noted = [h \in Handler |-> 0]

-----------------------------------------------------------------------------
(* Parts of handlers *)

\* moveInTx: a key that is there already moves nothing; an outgoing move
\* needs the goods on hand, else the transaction is rolled back (Fail).
Move(k, w, n) ==
    IF rows[k] # 0
    THEN UNCHANGED stockVars
    ELSE /\ onHand[w] + n >= 0
         /\ onHand' = [onHand EXCEPT ![w] = @ + n]
         /\ rows' = [rows EXCEPT ![k] = n]
         /\ stockQty' = stockQty + n

Posted(k) == booked' = booked \union {k}

\* Fault: the failure of the journal entry is swallowed.
PostInTxOrNotify(k, w) == IF w \in Costed THEN Posted(k) \/ UNCHANGED booked ELSE UNCHANGED booked

\* The journal entry of a transfer, in its transaction: its failure rolls
\* everything back (Fail), and goods without a cost have none.
PostInTx(k, w) == IF w \in Costed THEN Posted(k) ELSE UNCHANGED booked

\* postOrNotify: posts, or reports the failure and carries on; also goods
\* without a value are not posted.
PostOrNotify(k) == Posted(k) \/ UNCHANGED booked

SetState(d, s) == state' = [state EXCEPT ![d] = s]

Begin(h, write, d, n) ==
    /\ pc[h] = "idle"
    /\ pc' = [pc EXCEPT ![h] = write]
    /\ doc' = [doc EXCEPT ![h] = d]
    /\ noted' = [noted EXCEPT ![h] = n]
    /\ UNCHANGED <<stockVars, state, paperVars, booked>>

\* A due "hold", "start" or "ask" creates its document, which only one handler
\* does: hence their guards state[doc[h]] = "NONE".

\* The handler goes on to another write, or to none.
Then(h, write) ==
    /\ pc' = [pc EXCEPT ![h] = write]
    /\ doc' = IF write = "idle" THEN [doc EXCEPT ![h] = NoDoc] ELSE doc
    /\ noted' = IF write = "idle" THEN [noted EXCEPT ![h] = 0] ELSE noted

\* The handler dies, its transaction is rolled back (not enough goods, a key
\* written meanwhile, a journal entry refused), or the write fails.
Fail(h) ==
    /\ pc[h] # "idle"
    /\ Then(h, "idle")
    /\ UNCHANGED <<stockVars, state, paperVars, booked>>

\* Sales and purchases by other parts of the shop.
Elsewhere(w) ==
    \E n \in {-1, 1} :
        /\ onHand[w] + n \in 0..MaxStock
        /\ onHand' = [onHand EXCEPT ![w] = @ + n]
        /\ stockQty' = stockQty + n
        /\ UNCHANGED <<rows, state, paperVars, booked, handlerVars>>

-----------------------------------------------------------------------------
(* Transfers *)

Create(d) ==
    /\ d \in Transfer \union Damage
    /\ state[d] = "NONE"
    /\ SetState(d, "DRAFT")
    /\ UNCHANGED <<stockVars, paperVars, booked, handlerVars>>

\* Fault: a transfer can be received before it is sent.
ReadTransferUnsent(h, t) ==
    \/ state[t] = "DRAFT" /\ Begin(h, "confirm", t, 0)
    \/ state[t] \in {"DRAFT", "IN_TRANSIT"} /\ Begin(h, "receive", t, 0)
    \/ state[t] \in {"DRAFT", "CANCELLED"} /\ Begin(h, "cancelTransfer", t, 0)

ReadTransfer(h, t) ==
    \/ state[t] = "DRAFT" /\ Begin(h, "confirm", t, 0)
    \/ state[t] = "IN_TRANSIT" /\ Begin(h, "receive", t, 0)
    \/ state[t] \in {"DRAFT", "CANCELLED"} /\ Begin(h, "cancelTransfer", t, 0)

ConfirmTransfer(h) ==
    LET t == doc[h] IN
    /\ pc[h] = "confirm"
    /\ Move(OutKey(t), From[t], -Qty[t])
    /\ SetState(t, "IN_TRANSIT")
    /\ PostInTx(OutKey(t), From[t])
    /\ Then(h, "idle")
    /\ UNCHANGED paperVars

ReceiveTransfer(h) ==
    LET t == doc[h] IN
    /\ pc[h] = "receive"
    /\ Move(InKey(t), To[t], Qty[t])
    /\ SetState(t, "DONE")
    /\ PostInTx(InKey(t), To[t])
    /\ Then(h, "idle")
    /\ UNCHANGED paperVars

\* cancelTransfer and cancelDamage.
Cancel(h) ==
    /\ pc[h] \in {"cancelTransfer", "cancelDamage"}
    /\ SetState(doc[h], "CANCELLED")
    /\ Then(h, "idle")
    /\ UNCHANGED <<stockVars, paperVars, booked>>

-----------------------------------------------------------------------------
(* Damage and loss *)

\* A report that is not held for approval is posted as it is written.
ReportDamage(h, d) ==
    /\ pc[h] = "idle" /\ state[d] = "NONE"
    /\ Move(DamageKey(d), At[d], -Qty[d])
    /\ SetState(d, "POSTED")
    /\ pc' = [pc EXCEPT ![h] = "bookDamage"]
    /\ doc' = [doc EXCEPT ![h] = d]
    /\ UNCHANGED <<paperVars, booked, noted>>

ReadDamage(h, d) ==
    /\ state[d] = "DRAFT"
    /\ Begin(h, "post", d, 0) \/ Begin(h, "cancelDamage", d, 0)

\* Fault: the report is posted before its goods are moved.
PostDamageFirst(h) ==
    LET d == doc[h] IN
    /\ pc[h] = "post"
    /\ SetState(d, "POSTED")
    /\ Then(h, "bookDamage")
    /\ UNCHANGED <<stockVars, paperVars, booked>>

PostDamage(h) ==
    LET d == doc[h] IN
    /\ pc[h] = "post"
    /\ Move(DamageKey(d), At[d], -Qty[d])
    /\ SetState(d, "POSTED")
    /\ Then(h, "bookDamage")
    /\ UNCHANGED <<paperVars, booked>>

BookDamage(h) ==
    /\ pc[h] = "bookDamage"
    /\ PostOrNotify(DamageKey(doc[h]))
    /\ Then(h, "idle")
    /\ UNCHANGED <<stockVars, state, paperVars>>

-----------------------------------------------------------------------------
(* Quarantine: what is held stays on hand, and is only no longer available *)

HeldQty(w) ==
    SumFunction([q \in {r \in Quarantine : state[r] = "HELD" /\ At[r] = w} |-> Qty[q]])

\* availableInTx, which locks nothing; reservations of orders are left out.
ReadQuarantine(h, q) ==
    \/ /\ state[q] = "NONE" /\ onHand[At[q]] - HeldQty(At[q]) >= Qty[q]
       /\ Begin(h, "hold", q, 0)
    \/ state[q] = "HELD" /\ Begin(h, "release", q, 0)
    \/ state[q] = "HELD" /\ Begin(h, "destroy", q, 0)

QuarantineHold(h) ==
    /\ pc[h] = "hold" /\ state[doc[h]] = "NONE"
    /\ SetState(doc[h], "HELD")
    /\ Then(h, "idle")
    /\ UNCHANGED <<stockVars, paperVars, booked>>

QuarantineRelease(h) ==
    /\ pc[h] = "release"
    /\ SetState(doc[h], "RELEASED")
    /\ Then(h, "idle")
    /\ UNCHANGED <<stockVars, paperVars, booked>>

\* Each destruction writes a DamageRecord, posted and under a new number, also
\* when its move finds the goods gone.
QuarantineDestroy(h) ==
    LET q == doc[h] IN
    /\ pc[h] = "destroy"
    /\ Move(DestroyKey(q), At[q], -Qty[q])
    /\ records' = [records EXCEPT ![q] = @ + 1]
    /\ SetState(q, "DESTROYED")
    /\ Then(h, "bookDestroyed")
    /\ UNCHANGED <<system, counted, approved, booked>>

BookDestroyed(h) ==
    /\ pc[h] = "bookDestroyed"
    /\ PostOrNotify(DestroyKey(doc[h]))
    /\ Then(h, "idle")
    /\ UNCHANGED <<stockVars, state, paperVars>>

-----------------------------------------------------------------------------
(* Stocktakes *)

Abs(n) == IF n < 0 THEN -n ELSE n
Difference(s) == counted[s] - system[s]
Limit(s) == IF Tolerance[s] > 0 THEN Tolerance[s] ELSE Threshold
\* Fault: shortages need no approval.
SurplusNeedsApproval(s) == Difference(s) > Limit(s)
NeedsApproval(s) == Abs(Difference(s)) > Limit(s)

ReadStocktake(h, s) ==
    \/ state[s] = "NONE" /\ Begin(h, "start", s, stockQty)
    \/ state[s] = "OPEN" /\ \E n \in Counts : Begin(h, "count", s, n)
    \/ /\ state[s] = "OPEN" /\ counted[s] # NoCount
       /\ NeedsApproval(s) => approved[s]
       /\ Begin(h, "adjust", s, Difference(s))

StartStocktake(h) ==
    LET s == doc[h] IN
    /\ pc[h] = "start" /\ state[s] = "NONE"
    /\ SetState(s, "OPEN")
    /\ system' = [system EXCEPT ![s] = noted[h]]
    /\ Then(h, "idle")
    /\ UNCHANGED <<stockVars, counted, approved, records, booked>>

\* Fault: the difference is stored in place of the count.
CountDifference(h) ==
    /\ pc[h] = "count"
    /\ counted' = [counted EXCEPT ![doc[h]] = noted[h] - system[doc[h]]]
    /\ Then(h, "idle")
    /\ UNCHANGED <<stockVars, state, system, approved, records, booked>>

CountItem(h) ==
    /\ pc[h] = "count"
    /\ counted' = [counted EXCEPT ![doc[h]] = noted[h]]
    /\ Then(h, "idle")
    /\ UNCHANGED <<stockVars, state, system, approved, records, booked>>

\* closeStocktake passes move() the size of the difference, and move() takes
\* the direction of an ADJUSTMENT from the sign of what it is passed.
Adjust(h) ==
    LET s == doc[h] IN
    /\ pc[h] = "adjust"
    /\ IF noted[h] = 0
       THEN UNCHANGED stockVars
       ELSE Move(CountKey(s), At[s], Abs(noted[h]))
    /\ Then(h, IF noted[h] = 0 THEN "close" ELSE "bookCount")
    /\ UNCHANGED <<state, paperVars, booked>>

BookCount(h) ==
    /\ pc[h] = "bookCount"
    /\ PostOrNotify(CountKey(doc[h]))
    /\ Then(h, "close")
    /\ UNCHANGED <<stockVars, state, paperVars>>

CloseStocktake(h) ==
    /\ pc[h] = "close"
    /\ SetState(doc[h], "CLOSED")
    /\ Then(h, "idle")
    /\ UNCHANGED <<stockVars, paperVars, booked>>

\* requestStocktakeApproval goes by the general setting, and decideApproval.
ReadRequest(h, r) ==
    LET s == About[r] IN
    \/ /\ state[r] = "NONE" /\ state[s] = "OPEN" /\ counted[s] # NoCount
       /\ Abs(Difference(s)) > Threshold
       /\ Begin(h, "ask", r, 0)
    \/ state[r] = "PENDING" /\ Begin(h, "approve", r, 0)
    \/ state[r] = "PENDING" /\ Begin(h, "reject", r, 0)

Ask(h) ==
    /\ pc[h] = "ask" /\ state[doc[h]] = "NONE"
    /\ SetState(doc[h], "PENDING")
    /\ Then(h, "idle")
    /\ UNCHANGED <<stockVars, paperVars, booked>>

Decide(h) ==
    /\ \/ pc[h] = "approve" /\ SetState(doc[h], "APPROVED") /\ Then(h, "grant")
       \/ pc[h] = "reject" /\ SetState(doc[h], "REJECTED") /\ Then(h, "idle")
    /\ UNCHANGED <<stockVars, paperVars, booked>>

Grant(h) ==
    /\ pc[h] = "grant"
    /\ approved' = [approved EXCEPT ![About[doc[h]]] = TRUE]
    /\ Then(h, "idle")
    /\ UNCHANGED <<stockVars, state, system, counted, records, booked>>

-----------------------------------------------------------------------------
Read(h) ==
    \/ \E t \in Transfer : ReadTransfer(h, t)
    \/ \E d \in Damage : ReadDamage(h, d) \/ ReportDamage(h, d)
    \/ \E q \in Quarantine : ReadQuarantine(h, q)
    \/ \E s \in Stocktake : ReadStocktake(h, s)
    \/ \E r \in Request : ReadRequest(h, r)

Write(h) ==
    \/ ConfirmTransfer(h) \/ ReceiveTransfer(h) \/ Cancel(h)
    \/ PostDamage(h) \/ BookDamage(h)
    \/ QuarantineHold(h) \/ QuarantineRelease(h)
    \/ QuarantineDestroy(h) \/ BookDestroyed(h)
    \/ StartStocktake(h) \/ CountItem(h) \/ Adjust(h) \/ BookCount(h) \/ CloseStocktake(h)
    \/ Ask(h) \/ Decide(h) \/ Grant(h)

Next ==
    \/ \E h \in Handler : Read(h) \/ Write(h) \/ Fail(h)
    \/ \E d \in Doc : Create(d)
    \/ \E w \in Warehouse : Elsewhere(w)

Spec == Init /\ [][Next]_vars

-----------------------------------------------------------------------------
\* What a transfer brings into one warehouse is what it took out of the
\* other, once each, however many requests confirm, receive or cancel it and
\* whatever state it is left in.  (confirmTransfer, receiveTransfer)
TransferConserves ==
    \A t \in Transfer :
        /\ rows[OutKey(t)] \in {0, -Qty[t]}
        /\ rows[InKey(t)] # 0 => rows[InKey(t)] = -rows[OutKey(t)]

\* A document that says its goods have moved tells the truth, though the state
\* it was judged by may be stale; what left quarantine for good is on a
\* DamageRecord.  (confirm, receive, post, report, destroy)
StateShowsMove ==
    /\ \A t \in Transfer :
         /\ state[t] \in {"IN_TRANSIT", "DONE"} => rows[OutKey(t)] = -Qty[t]
         /\ state[t] = "DONE" => rows[InKey(t)] = Qty[t]
    /\ \A d \in Damage : state[d] = "POSTED" => rows[DamageKey(d)] = -Qty[d]
    /\ \A q \in Quarantine :
         /\ state[q] = "DESTROYED" => records[q] > 0
         /\ rows[DestroyKey(q)] = IF records[q] > 0 THEN -Qty[q] ELSE 0

\* Goods with a cost do not leave or enter a warehouse by transfer without a
\* journal entry, whatever fails.  (postOrNotifyInTx in both transactions)
BookedWithGoods ==
    \A t \in Transfer :
        /\ rows[OutKey(t)] # 0 /\ From[t] \in Costed => OutKey(t) \in booked
        /\ rows[InKey(t)] # 0 /\ To[t] \in Costed => InKey(t) \in booked

\* No stocktake puts an adjustment above its tolerance into the ledger that
\* nobody approved, though counts change while it closes.  (closeStocktake)
AdjustedIsApproved ==
    \A s \in Stocktake : rows[CountKey(s)] > Limit(s) => approved[s]

\* A closed stocktake has put into the ledger the difference it recorded.
\* (closeStocktake: the difference of every line as an ADJUSTMENT)
CountSettles ==
    \A s \in Stocktake : state[s] = "CLOSED" => rows[CountKey(s)] = Difference(s)
=============================================================================
