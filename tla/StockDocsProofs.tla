-------------------------- MODULE StockDocsProofs --------------------------
(***************************************************************************)
(* Proofs, for every set of documents, warehouses and concurrent handlers, *)
(* that the documents of StockDocs keep faith with the ledger although     *)
(* every handler writes on the strength of a state it read earlier.        *)
(*                                                                         *)
(* The step from the properties to an inductive invariant is what a        *)
(* handler may still rely on when it writes: Pending.  States of documents *)
(* may be overwritten at any time, but a ledger row stays and an approval  *)
(* is not withdrawn, so what was inferred from a state remains true when   *)
(* the state no longer is.                                                 *)
(***************************************************************************)
EXTENDS StockDocs, TLAPS

\* What the guard of a due write has established for good.
Pending ==
    \A h \in Handler :
        /\ pc[h] = "receive" => rows[OutKey(doc[h])] = -Qty[doc[h]]
        /\ pc[h] = "count" => noted[h] \in Nat
        /\ pc[h] = "adjust" => (Abs(noted[h]) > Limit(doc[h]) => approved[doc[h]])

\* A row of a damage report or a destruction has the document's quantity.
Rows ==
    /\ \A d \in Damage : rows[DamageKey(d)] \in {0, -Qty[d]}
    /\ \A q \in Quarantine : rows[DestroyKey(q)] \in {0, -Qty[q]}

Inv == /\ TypeOK
       /\ Rows
       /\ TransferConserves
       /\ StateShowsMove
       /\ BookedWithGoods
       /\ AdjustedIsApproved
       /\ Pending

-----------------------------------------------------------------------------
(* Keys, documents and the move itself *)

\* Keys of different documents and of different events differ.
LEMMA KeyFacts ==
  /\ \A t \in Transfer : OutKey(t) \in Key /\ InKey(t) \in Key
  /\ \A d \in Damage : DamageKey(d) \in Key
  /\ \A q \in Quarantine : DestroyKey(q) \in Key
  /\ \A s \in Stocktake : CountKey(s) \in Key
  BY DEF Key, OutKey, InKey, DamageKey, DestroyKey, CountKey

\* A key names its event and its document.
LEMMA KeyInjective ==
  ASSUME NEW x, NEW y
  PROVE  /\ OutKey(x) = OutKey(y) <=> x = y
         /\ InKey(x) = InKey(y) <=> x = y
         /\ DamageKey(x) = DamageKey(y) <=> x = y
         /\ DestroyKey(x) = DestroyKey(y) <=> x = y
         /\ CountKey(x) = CountKey(y) <=> x = y
         /\ OutKey(x) # InKey(y) /\ OutKey(x) # DamageKey(y)
         /\ OutKey(x) # DestroyKey(y) /\ OutKey(x) # CountKey(y)
         /\ InKey(x) # DamageKey(y) /\ InKey(x) # DestroyKey(y)
         /\ InKey(x) # CountKey(y) /\ DamageKey(x) # DestroyKey(y)
         /\ DamageKey(x) # CountKey(y) /\ DestroyKey(x) # CountKey(y)
  BY DEF OutKey, InKey, DamageKey, DestroyKey, CountKey

\* After moveInTx the key has a row: the old one, or the new quantity.
LEMMA MoveFacts ==
  ASSUME TypeOK, NEW k \in Key, NEW w \in Warehouse, NEW n \in Int, Move(k, w, n)
  PROVE  /\ onHand' \in [Warehouse -> Int] /\ stockQty' \in Int
         /\ rows' \in [Key -> Int]
         /\ rows'[k] = IF rows[k] # 0 THEN rows[k] ELSE n
         /\ \A j \in Key : j # k => rows'[j] = rows[j]
  BY DEF Move, TypeOK, stockVars

\* The constants, as the proofs use them.
LEMMA ConstantFacts ==
  /\ \A t \in Transfer : From[t] \in Warehouse /\ To[t] \in Warehouse
  /\ \A d \in Damage \union Quarantine \union Stocktake : At[d] \in Warehouse
  /\ \A d \in Transfer \union Damage \union Quarantine :
       Qty[d] \in Nat /\ Qty[d] > 0 /\ -Qty[d] \in Int /\ -Qty[d] # 0
  /\ \A s \in Stocktake : Limit(s) \in Nat
  /\ NoDoc \notin Doc
  BY ConstantsAssumption DEF Limit
-----------------------------------------------------------------------------
(* Steps of a handler *)

\* A write leads on to a write of the same kind, or to none.
Follows(h, write) ==
    /\ write \in Due \union {"idle"}
    /\ write \in TransferDue => doc[h] \in Transfer
    /\ write \in DamageDue => doc[h] \in Damage
    /\ write \in QuarantineDue => doc[h] \in Quarantine
    /\ write \in StocktakeDue => doc[h] \in Stocktake
    /\ write \in RequestDue => doc[h] \in Request
    /\ write \notin {"receive", "count", "adjust"}

\* Going on keeps the types, and what handlers rely on if rows, and
\* approvals, that are there stay.
LEMMA ThenFacts ==
  ASSUME TypeOK, Pending, NEW h \in Handler, NEW write, Follows(h, write), Then(h, write),
         \A t \in Transfer : rows[OutKey(t)] # 0 => rows'[OutKey(t)] = rows[OutKey(t)],
         \A s \in Stocktake : approved[s] => approved'[s]
  PROVE  /\ pc' \in [Handler -> Due \union {"idle"}]
         /\ doc' \in [Handler -> Doc \union {NoDoc}]
         /\ noted' \in [Handler -> Int]
         /\ \A g \in Handler :
              /\ pc'[g] \in TransferDue => doc'[g] \in Transfer
              /\ pc'[g] \in DamageDue => doc'[g] \in Damage
              /\ pc'[g] \in QuarantineDue => doc'[g] \in Quarantine
              /\ pc'[g] \in StocktakeDue => doc'[g] \in Stocktake
              /\ pc'[g] \in RequestDue => doc'[g] \in Request
         /\ Pending'
  <1>1. /\ pc' \in [Handler -> Due \union {"idle"}]
        /\ doc' \in [Handler -> Doc \union {NoDoc}]
        /\ noted' \in [Handler -> Int]
    BY DEF TypeOK, Then, Follows
  <1>2. /\ pc'[h] = write
        /\ write # "idle" => doc'[h] = doc[h]
        /\ \A g \in Handler \ {h} : pc'[g] = pc[g] /\ doc'[g] = doc[g] /\ noted'[g] = noted[g]
    BY DEF TypeOK, Then
  <1>3. ASSUME NEW g \in Handler
        PROVE  /\ pc'[g] \in TransferDue => doc'[g] \in Transfer
               /\ pc'[g] \in DamageDue => doc'[g] \in Damage
               /\ pc'[g] \in QuarantineDue => doc'[g] \in Quarantine
               /\ pc'[g] \in StocktakeDue => doc'[g] \in Stocktake
               /\ pc'[g] \in RequestDue => doc'[g] \in Request
    <2>1. CASE g = h
      BY <1>2, <2>1 DEF Follows, TransferDue, DamageDue, QuarantineDue, StocktakeDue, RequestDue
    <2>2. CASE g # h
      BY <1>2, <2>2 DEF TypeOK
    <2>. QED  BY <2>1, <2>2
  <1>4. ASSUME NEW g \in Handler, pc'[g] = "receive"
        PROVE  rows'[OutKey(doc'[g])] = -Qty[doc'[g]]
    <2>1. g # h
      BY <1>2, <1>4 DEF Follows
    <2>2. pc[g] = "receive" /\ doc'[g] = doc[g] /\ doc[g] \in Transfer
      BY <1>2, <1>4, <2>1 DEF TypeOK, TransferDue
    <2>3. rows[OutKey(doc[g])] = -Qty[doc[g]] /\ -Qty[doc[g]] # 0
      BY <2>2, ConstantFacts DEF Pending
    <2>. QED  BY <2>2, <2>3
  <1>5. ASSUME NEW g \in Handler, pc'[g] = "adjust"
        PROVE  Abs(noted'[g]) > Limit(doc'[g]) => approved'[doc'[g]]
    <2>1. g # h
      BY <1>2, <1>5 DEF Follows
    <2>2. /\ pc[g] = "adjust" /\ doc'[g] = doc[g] /\ doc[g] \in Stocktake
          /\ noted'[g] = noted[g]
      BY <1>2, <1>5, <2>1 DEF TypeOK, StocktakeDue
    <2>3. Abs(noted[g]) > Limit(doc[g]) => approved[doc[g]]
      BY <2>2 DEF Pending
    <2>. QED  BY <2>2, <2>3
  <1>6. ASSUME NEW g \in Handler, pc'[g] = "count"
        PROVE  noted'[g] \in Nat
    BY <1>2, <1>6 DEF Follows, Pending
  <1>7. Pending'
    BY <1>4, <1>5, <1>6 DEF Pending, Abs, Limit
  <1>. QED  BY <1>1, <1>3, <1>7

\* The first half of a handler: the guard has established what is Pending.
LEMMA BeginInv ==
  ASSUME Inv, NEW h \in Handler, NEW write \in Due, NEW d \in Doc, NEW n \in Int,
         Begin(h, write, d, n),
         write \in TransferDue => d \in Transfer,
         write \in DamageDue => d \in Damage,
         write \in QuarantineDue => d \in Quarantine,
         write \in StocktakeDue => d \in Stocktake,
         write \in RequestDue => d \in Request,
         write = "receive" => rows[OutKey(d)] = -Qty[d],
         write = "count" => n \in Nat,
         write = "adjust" => (Abs(n) > Limit(d) => approved[d])
  PROVE  Inv'
  <1>1. /\ pc' = [pc EXCEPT ![h] = write] /\ doc' = [doc EXCEPT ![h] = d]
        /\ noted' = [noted EXCEPT ![h] = n]
        /\ UNCHANGED <<onHand, rows, stockQty, state, system, counted, approved, records, booked>>
    BY DEF Begin, stockVars, paperVars
  <1>2. TypeOK'
    BY <1>1 DEF Inv, TypeOK
  <1>3. Rows' /\ TransferConserves' /\ StateShowsMove' /\ BookedWithGoods' /\ AdjustedIsApproved'
    BY <1>1 DEF Inv, Rows, TransferConserves, StateShowsMove, BookedWithGoods,
                AdjustedIsApproved, Limit
  <1>4. ASSUME NEW g \in Handler
        PROVE  /\ pc'[g] = "receive" => rows'[OutKey(doc'[g])] = -Qty[doc'[g]]
               /\ pc'[g] = "count" => noted'[g] \in Nat
               /\ pc'[g] = "adjust" => (Abs(noted'[g]) > Limit(doc'[g]) => approved'[doc'[g]])
    <2>1. CASE g = h
      BY <1>1, <2>1 DEF Inv, TypeOK
    <2>2. CASE g # h
      BY <1>1, <2>2 DEF Inv, TypeOK, Pending
    <2>. QED  BY <2>1, <2>2
  <1>5. Pending'
    BY <1>4 DEF Pending, Abs, Limit
  <1>. QED  BY <1>2, <1>3, <1>5 DEF Inv

\* A write that moves no goods: it may add journal entries and approvals, and
\* put documents into states that say nothing of goods.
LEMMA QuietInv ==
  ASSUME Inv, NEW h \in Handler, NEW write, Follows(h, write), Then(h, write),
         UNCHANGED <<stockVars, records>>,
         booked \subseteq booked', booked' \subseteq Key,
         state' \in [Doc -> States],
         \A d \in Doc : state'[d] # state[d] =>
             state'[d] \notin {"IN_TRANSIT", "DONE", "POSTED", "DESTROYED"},
         system' \in [Stocktake -> Int],
         counted' \in [Stocktake -> Nat \union {NoCount}],
         approved' \in [Stocktake -> BOOLEAN],
         \A s \in Stocktake : approved[s] => approved'[s]
  PROVE  Inv'
  <1>1. UNCHANGED <<onHand, rows, stockQty, records>>
    BY DEF stockVars
  <1>2. TypeOK' /\ Pending'
    <2>1. TypeOK /\ Pending
      BY DEF Inv
    <2>2. \A t \in Transfer : rows[OutKey(t)] # 0 => rows'[OutKey(t)] = rows[OutKey(t)]
      BY <1>1
    <2>3. /\ pc' \in [Handler -> Due \union {"idle"}]
          /\ doc' \in [Handler -> Doc \union {NoDoc}]
          /\ noted' \in [Handler -> Int]
          /\ \A g \in Handler :
               /\ pc'[g] \in TransferDue => doc'[g] \in Transfer
               /\ pc'[g] \in DamageDue => doc'[g] \in Damage
               /\ pc'[g] \in QuarantineDue => doc'[g] \in Quarantine
               /\ pc'[g] \in StocktakeDue => doc'[g] \in Stocktake
               /\ pc'[g] \in RequestDue => doc'[g] \in Request
          /\ Pending'
      BY <2>1, <2>2, ThenFacts
    <2>. QED  BY <1>1, <2>1, <2>3 DEF TypeOK
  <1>3. Rows' /\ TransferConserves'
    BY <1>1 DEF Inv, Rows, TransferConserves
  <1>4. StateShowsMove'
    BY <1>1 DEF Inv, StateShowsMove, Doc
  <1>5. BookedWithGoods'
    BY <1>1 DEF Inv, BookedWithGoods
  <1>6. AdjustedIsApproved'
    BY <1>1 DEF Inv, AdjustedIsApproved, Limit
  <1>. QED  BY <1>2, <1>3, <1>4, <1>5, <1>6 DEF Inv

\* A write that moves goods: k is the key of its document d, n the quantity;
\* what it has to keep is left to the parts that speak of its document.
LEMMA MovingTypes ==
  ASSUME Inv, NEW h \in Handler, NEW write, Follows(h, write), Then(h, write),
         NEW k \in Key, NEW w \in Warehouse, NEW n \in Int, Move(k, w, n),
         NEW d \in Doc, NEW st \in States, SetState(d, st),
         booked' \subseteq Key, UNCHANGED <<system, counted, approved>>,
         records' \in [Quarantine -> Nat]
  PROVE  TypeOK' /\ Pending'
  <1>1. TypeOK /\ Pending
    BY DEF Inv
  <1>2. /\ onHand' \in [Warehouse -> Int] /\ stockQty' \in Int
        /\ rows' \in [Key -> Int]
        /\ \A j \in Key : rows[j] # 0 => rows'[j] = rows[j]
    BY <1>1, MoveFacts
  <1>3. state' \in [Doc -> States]
    BY <1>1 DEF TypeOK, SetState
  <1>4. \A t \in Transfer : rows[OutKey(t)] # 0 => rows'[OutKey(t)] = rows[OutKey(t)]
    BY <1>2, KeyFacts
  <1>5. UNCHANGED <<system, counted, approved>>
    OBVIOUS
  <1>6. /\ pc' \in [Handler -> Due \union {"idle"}]
        /\ doc' \in [Handler -> Doc \union {NoDoc}]
        /\ noted' \in [Handler -> Int]
        /\ \A g \in Handler :
             /\ pc'[g] \in TransferDue => doc'[g] \in Transfer
             /\ pc'[g] \in DamageDue => doc'[g] \in Damage
             /\ pc'[g] \in QuarantineDue => doc'[g] \in Quarantine
             /\ pc'[g] \in StocktakeDue => doc'[g] \in Stocktake
             /\ pc'[g] \in RequestDue => doc'[g] \in Request
        /\ Pending'
    BY <1>1, <1>4, <1>5, ThenFacts
  <1>. QED  BY <1>1, <1>2, <1>3, <1>5, <1>6 DEF TypeOK

\* Sending: the transfer's outgoing row is there afterwards.
LEMMA ConfirmInv ==
  ASSUME Inv, NEW h \in Handler, ConfirmTransfer(h)
  PROVE  Inv'
  <1>. DEFINE t == doc[h]
  <1>1. t \in Transfer /\ t \in Doc
    BY DEF Inv, TypeOK, ConfirmTransfer, TransferDue, Doc
  <1>2. /\ Move(OutKey(t), From[t], -Qty[t]) /\ SetState(t, "IN_TRANSIT")
        /\ PostInTx(OutKey(t), From[t]) /\ Then(h, "idle") /\ UNCHANGED paperVars
    BY DEF ConfirmTransfer
  <1>3. /\ OutKey(t) \in Key /\ From[t] \in Warehouse /\ -Qty[t] \in Int /\ -Qty[t] # 0
        /\ Follows(h, "idle") /\ "IN_TRANSIT" \in States
    BY <1>1, KeyFacts, ConstantFacts
       DEF Follows, TransferDue, DamageDue, QuarantineDue, StocktakeDue, RequestDue, States
  <1>4. /\ booked \subseteq booked' /\ booked' \subseteq Key
        /\ From[t] \in Costed => OutKey(t) \in booked'
    BY <1>2, <1>3 DEF PostInTx, Posted, Inv, TypeOK
  <1>5. TypeOK' /\ Pending'
    BY <1>1, <1>2, <1>3, <1>4, MovingTypes DEF Inv, TypeOK, paperVars
  <1>6. /\ rows'[OutKey(t)] = -Qty[t]
        /\ \A j \in Key : j # OutKey(t) => rows'[j] = rows[j]
    <2>1. rows[OutKey(t)] \in {0, -Qty[t]}
      BY <1>1 DEF Inv, TransferConserves
    <2>. QED  BY <1>2, <1>3, <2>1, MoveFacts DEF Inv
  <1>7. UNCHANGED <<system, counted, approved, records>>
    BY <1>2 DEF paperVars
  <1>8. TransferConserves'
    <2>. SUFFICES ASSUME NEW u \in Transfer
                  PROVE  /\ rows'[OutKey(u)] \in {0, -Qty[u]}
                         /\ rows'[InKey(u)] # 0 => rows'[InKey(u)] = -rows'[OutKey(u)]
      BY DEF TransferConserves
    <2>1. rows'[InKey(u)] = rows[InKey(u)]
      BY <1>6, KeyFacts, KeyInjective
    <2>2. CASE u = t
      <3>1. rows[OutKey(t)] \in {0, -Qty[t]} /\ (rows[InKey(t)] # 0 => rows[InKey(t)] = -rows[OutKey(t)])
        BY <1>1 DEF Inv, TransferConserves
      <3>. QED  BY <1>6, <2>1, <2>2, <3>1
    <2>3. CASE u # t
      <3>1. rows'[OutKey(u)] = rows[OutKey(u)]
        BY <1>6, <2>3, KeyFacts, KeyInjective
      <3>. QED  BY <2>1, <3>1 DEF Inv, TransferConserves
    <2>. QED  BY <2>2, <2>3
  <1>9. StateShowsMove'
    <2>1. \A d \in Doc \ {t} : state'[d] = state[d]
      BY <1>1, <1>2 DEF SetState, Inv, TypeOK
    <2>2. state'[t] = "IN_TRANSIT"
      BY <1>1, <1>2 DEF SetState, Inv, TypeOK
    <2>3. \A u \in Transfer \ {t} : rows'[OutKey(u)] = rows[OutKey(u)]
      BY <1>6, KeyFacts, KeyInjective
    <2>4. /\ \A u \in Transfer : rows'[InKey(u)] = rows[InKey(u)]
          /\ \A d \in Damage : rows'[DamageKey(d)] = rows[DamageKey(d)]
          /\ \A q \in Quarantine : rows'[DestroyKey(q)] = rows[DestroyKey(q)]
      BY <1>6, KeyFacts, KeyInjective
    <2>. QED  BY <1>6, <1>7, <2>1, <2>2, <2>3, <2>4 DEF Inv, StateShowsMove, Doc
  <1>10. BookedWithGoods'
    <2>1. /\ \A u \in Transfer \ {t} : rows'[OutKey(u)] = rows[OutKey(u)]
          /\ \A u \in Transfer : rows'[InKey(u)] = rows[InKey(u)]
      BY <1>6, KeyFacts, KeyInjective
    <2>. QED  BY <1>4, <2>1 DEF Inv, BookedWithGoods
  <1>11. Rows' /\ AdjustedIsApproved'
    <2>1. /\ \A s \in Stocktake : rows'[CountKey(s)] = rows[CountKey(s)]
          /\ \A d \in Damage : rows'[DamageKey(d)] = rows[DamageKey(d)]
          /\ \A q \in Quarantine : rows'[DestroyKey(q)] = rows[DestroyKey(q)]
      BY <1>6, KeyFacts, KeyInjective
    <2>. QED  BY <1>7, <2>1 DEF Inv, Rows, AdjustedIsApproved, Limit
  <1>. QED  BY <1>5, <1>8, <1>9, <1>10, <1>11 DEF Inv

\* Receiving: by Pending the goods were sent, whatever the state says now.
LEMMA ReceiveInv ==
  ASSUME Inv, NEW h \in Handler, ReceiveTransfer(h)
  PROVE  Inv'
  <1>. DEFINE t == doc[h]
  <1>1. t \in Transfer /\ t \in Doc
    BY DEF Inv, TypeOK, ReceiveTransfer, TransferDue, Doc
  <1>2. /\ Move(InKey(t), To[t], Qty[t]) /\ SetState(t, "DONE")
        /\ PostInTx(InKey(t), To[t]) /\ Then(h, "idle") /\ UNCHANGED paperVars
        /\ rows[OutKey(t)] = -Qty[t]
    BY DEF ReceiveTransfer, Inv, Pending
  <1>3. /\ InKey(t) \in Key /\ To[t] \in Warehouse /\ Qty[t] \in Int /\ Qty[t] # 0
        /\ Qty[t] = -(-Qty[t])
        /\ Follows(h, "idle") /\ "DONE" \in States
    BY <1>1, KeyFacts, ConstantFacts
       DEF Follows, TransferDue, DamageDue, QuarantineDue, StocktakeDue, RequestDue, States
  <1>4. /\ booked \subseteq booked' /\ booked' \subseteq Key
        /\ To[t] \in Costed => InKey(t) \in booked'
    BY <1>2, <1>3 DEF PostInTx, Posted, Inv, TypeOK
  <1>5. TypeOK' /\ Pending'
    BY <1>1, <1>2, <1>3, <1>4, MovingTypes DEF Inv, TypeOK, paperVars
  <1>6. /\ rows'[InKey(t)] = Qty[t]
        /\ \A j \in Key : j # InKey(t) => rows'[j] = rows[j]
    <2>1. rows[InKey(t)] # 0 => rows[InKey(t)] = Qty[t]
      BY <1>1, <1>2, <1>3 DEF Inv, TransferConserves
    <2>. QED  BY <1>2, <1>3, <2>1, MoveFacts DEF Inv
  <1>7. UNCHANGED <<system, counted, approved, records>>
    BY <1>2 DEF paperVars
  <1>8. /\ \A u \in Transfer : rows'[OutKey(u)] = rows[OutKey(u)]
        /\ \A u \in Transfer \ {t} : rows'[InKey(u)] = rows[InKey(u)]
        /\ \A d \in Damage : rows'[DamageKey(d)] = rows[DamageKey(d)]
        /\ \A q \in Quarantine : rows'[DestroyKey(q)] = rows[DestroyKey(q)]
        /\ \A s \in Stocktake : rows'[CountKey(s)] = rows[CountKey(s)]
    <2>1. \A u \in Transfer : /\ OutKey(u) # InKey(t)
                              /\ u # t => InKey(u) # InKey(t)
      BY KeyInjective
    <2>2. /\ \A d \in Damage : DamageKey(d) # InKey(t)
          /\ \A q \in Quarantine : DestroyKey(q) # InKey(t)
          /\ \A s \in Stocktake : CountKey(s) # InKey(t)
      BY KeyInjective
    <2>. QED  BY <1>6, <2>1, <2>2, KeyFacts
  <1>9. TransferConserves'
    BY <1>1, <1>2, <1>3, <1>6, <1>8 DEF Inv, TransferConserves
  <1>10. StateShowsMove'
    <2>1. state'[t] = "DONE" /\ \A d \in Doc \ {t} : state'[d] = state[d]
      BY <1>1, <1>2 DEF SetState, Inv, TypeOK
    <2>. QED  BY <1>2, <1>6, <1>7, <1>8, <2>1 DEF Inv, StateShowsMove, Doc
  <1>11. BookedWithGoods'
    BY <1>4, <1>8 DEF Inv, BookedWithGoods
  <1>12. Rows' /\ AdjustedIsApproved'
    BY <1>7, <1>8 DEF Inv, Rows, AdjustedIsApproved, Limit
  <1>. QED  BY <1>5, <1>9, <1>10, <1>11, <1>12 DEF Inv

\* Posting a damage report: by postDamage or as it is written.
LEMMA PostedInv ==
  ASSUME Inv, NEW h \in Handler, NEW d \in Damage,
         Move(DamageKey(d), At[d], -Qty[d]), SetState(d, "POSTED"),
         TypeOK', Pending', UNCHANGED <<paperVars, booked>>
  PROVE  Inv'
  <1>1. /\ DamageKey(d) \in Key /\ At[d] \in Warehouse /\ -Qty[d] \in Int /\ d \in Doc
    BY KeyFacts, ConstantFacts DEF Doc
  <1>2. /\ rows'[DamageKey(d)] = -Qty[d]
        /\ \A j \in Key : j # DamageKey(d) => rows'[j] = rows[j]
    BY <1>1, MoveFacts DEF Inv, Rows
  <1>3. /\ \A u \in Transfer : rows'[OutKey(u)] = rows[OutKey(u)] /\ rows'[InKey(u)] = rows[InKey(u)]
        /\ \A e \in Damage \ {d} : rows'[DamageKey(e)] = rows[DamageKey(e)]
        /\ \A q \in Quarantine : rows'[DestroyKey(q)] = rows[DestroyKey(q)]
        /\ \A s \in Stocktake : rows'[CountKey(s)] = rows[CountKey(s)]
    BY <1>2, KeyFacts, KeyInjective
  <1>4. state'[d] = "POSTED" /\ \A e \in Doc \ {d} : state'[e] = state[e]
    BY <1>1 DEF SetState, Inv, TypeOK
  <1>5. TransferConserves' /\ BookedWithGoods' /\ AdjustedIsApproved'
    BY <1>3 DEF Inv, TransferConserves, BookedWithGoods, AdjustedIsApproved, Limit, paperVars
  <1>6. StateShowsMove'
    BY <1>2, <1>3, <1>4 DEF Inv, StateShowsMove, Doc, paperVars
  <1>7. Rows'
    BY <1>2, <1>3 DEF Inv, Rows
  <1>. QED  BY <1>5, <1>6, <1>7 DEF Inv

LEMMA PostInv ==
  ASSUME Inv, NEW h \in Handler, PostDamage(h)
  PROVE  Inv'
  <1>. DEFINE d == doc[h]
  <1>1. d \in Damage /\ d \in Doc
    BY DEF Inv, TypeOK, PostDamage, DamageDue, Doc
  <1>2. /\ Move(DamageKey(d), At[d], -Qty[d]) /\ SetState(d, "POSTED")
        /\ Then(h, "bookDamage") /\ UNCHANGED <<paperVars, booked>>
    BY DEF PostDamage
  <1>3. /\ DamageKey(d) \in Key /\ At[d] \in Warehouse /\ -Qty[d] \in Int
        /\ Follows(h, "bookDamage") /\ "POSTED" \in States
    BY <1>1, KeyFacts, ConstantFacts
       DEF Follows, Due, TransferDue, DamageDue, QuarantineDue, StocktakeDue, RequestDue, States
  <1>4. TypeOK' /\ Pending'
    BY <1>1, <1>2, <1>3, MovingTypes DEF Inv, TypeOK, paperVars
  <1>. QED  BY <1>1, <1>2, <1>4, PostedInv

\* A report posted at once sets its handler to work by itself.
LEMMA ReportInv ==
  ASSUME Inv, NEW h \in Handler, NEW d \in Damage, ReportDamage(h, d)
  PROVE  Inv'
  <1>1. /\ Move(DamageKey(d), At[d], -Qty[d]) /\ SetState(d, "POSTED")
        /\ pc' = [pc EXCEPT ![h] = "bookDamage"] /\ doc' = [doc EXCEPT ![h] = d]
        /\ UNCHANGED <<system, counted, approved, records, booked, noted>>
    BY DEF ReportDamage, paperVars
  <1>2. /\ DamageKey(d) \in Key /\ At[d] \in Warehouse /\ -Qty[d] \in Int /\ d \in Doc
        /\ "POSTED" \in States
    BY KeyFacts, ConstantFacts DEF Doc, States
  <1>3. /\ onHand' \in [Warehouse -> Int] /\ stockQty' \in Int /\ rows' \in [Key -> Int]
        /\ \A j \in Key : rows[j] # 0 => rows'[j] = rows[j]
    BY <1>1, <1>2, MoveFacts DEF Inv
  <1>4. /\ pc' \in [Handler -> Due \union {"idle"}]
        /\ doc' \in [Handler -> Doc \union {NoDoc}]
        /\ state' \in [Doc -> States]
    BY <1>1, <1>2 DEF Inv, TypeOK, SetState, Due, DamageDue
  <1>5. ASSUME NEW g \in Handler
        PROVE  /\ pc'[g] \in TransferDue => doc'[g] \in Transfer
               /\ pc'[g] \in DamageDue => doc'[g] \in Damage
               /\ pc'[g] \in QuarantineDue => doc'[g] \in Quarantine
               /\ pc'[g] \in StocktakeDue => doc'[g] \in Stocktake
               /\ pc'[g] \in RequestDue => doc'[g] \in Request
               /\ pc'[g] = "receive" => rows'[OutKey(doc'[g])] = -Qty[doc'[g]]
               /\ pc'[g] = "count" => noted'[g] \in Nat
               /\ pc'[g] = "adjust" => (Abs(noted'[g]) > Limit(doc'[g]) => approved'[doc'[g]])
    <2>1. CASE g = h
      BY <1>1, <2>1
         DEF Inv, TypeOK, TransferDue, DamageDue, QuarantineDue, StocktakeDue, RequestDue
    <2>2. CASE g # h
      <3>1. pc'[g] = pc[g] /\ doc'[g] = doc[g]
        BY <1>1, <2>2 DEF Inv, TypeOK
      <3>2. pc[g] = "receive" => rows'[OutKey(doc[g])] = rows[OutKey(doc[g])]
        BY <1>3, KeyFacts, ConstantFacts DEF Inv, TypeOK, Pending, TransferDue
      <3>. QED  BY <1>1, <3>1, <3>2 DEF Inv, TypeOK, Pending
    <2>. QED  BY <2>1, <2>2
  <1>6. Pending'
    BY <1>5 DEF Pending, Abs, Limit
  <1>7. TypeOK'
    BY <1>1, <1>3, <1>4, <1>5 DEF Inv, TypeOK
  <1>. QED  BY <1>1, <1>6, <1>7, PostedInv DEF paperVars

\* Destroying what was held.
LEMMA DestroyInv ==
  ASSUME Inv, NEW h \in Handler, QuarantineDestroy(h)
  PROVE  Inv'
  <1>. DEFINE q == doc[h]
  <1>1. q \in Quarantine /\ q \in Doc
    BY DEF Inv, TypeOK, QuarantineDestroy, QuarantineDue, Doc
  <1>2. /\ Move(DestroyKey(q), At[q], -Qty[q]) /\ SetState(q, "DESTROYED")
        /\ Then(h, "bookDestroyed") /\ UNCHANGED <<system, counted, approved, booked>>
        /\ records' = [records EXCEPT ![q] = @ + 1]
    BY DEF QuarantineDestroy
  <1>3. /\ DestroyKey(q) \in Key /\ At[q] \in Warehouse /\ -Qty[q] \in Int
        /\ Follows(h, "bookDestroyed") /\ "DESTROYED" \in States
    BY <1>1, KeyFacts, ConstantFacts
       DEF Follows, Due, TransferDue, DamageDue, QuarantineDue, StocktakeDue, RequestDue, States
  <1>3a. records' \in [Quarantine -> Nat]
         /\ \A r \in Quarantine : records'[r] = IF r = q THEN records[q] + 1 ELSE records[r]
    BY <1>1, <1>2 DEF Inv, TypeOK
  <1>4. TypeOK' /\ Pending'
    BY <1>1, <1>2, <1>3, <1>3a, MovingTypes DEF Inv, TypeOK
  <1>5. /\ rows'[DestroyKey(q)] = -Qty[q]
        /\ \A j \in Key : j # DestroyKey(q) => rows'[j] = rows[j]
    BY <1>1, <1>2, <1>3, MoveFacts DEF Inv, Rows
  <1>6. /\ \A u \in Transfer : rows'[OutKey(u)] = rows[OutKey(u)] /\ rows'[InKey(u)] = rows[InKey(u)]
        /\ \A d \in Damage : rows'[DamageKey(d)] = rows[DamageKey(d)]
        /\ \A r \in Quarantine \ {q} : rows'[DestroyKey(r)] = rows[DestroyKey(r)]
        /\ \A s \in Stocktake : rows'[CountKey(s)] = rows[CountKey(s)]
    BY <1>5, KeyFacts, KeyInjective
  <1>7. state'[q] = "DESTROYED" /\ \A e \in Doc \ {q} : state'[e] = state[e]
    BY <1>1, <1>2 DEF SetState, Inv, TypeOK
  <1>8. TransferConserves' /\ BookedWithGoods' /\ AdjustedIsApproved'
    BY <1>2, <1>6 DEF Inv, TransferConserves, BookedWithGoods, AdjustedIsApproved, Limit, paperVars
  <1>9. StateShowsMove' /\ Rows'
    <2>1. \A r \in Quarantine : records[r] \in Nat
      BY DEF Inv, TypeOK
    <2>. QED  BY <1>5, <1>6, <1>7, <1>3a, <2>1 DEF Inv, StateShowsMove, Rows, Doc
  <1>. QED  BY <1>4, <1>8, <1>9 DEF Inv

\* Adjusting: by Pending a difference above the tolerance was approved.
LEMMA AdjustInv ==
  ASSUME Inv, NEW h \in Handler, Adjust(h)
  PROVE  Inv'
  <1>. DEFINE s == doc[h]
              write == IF noted[h] = 0 THEN "close" ELSE "bookCount"
  <1>1. s \in Stocktake /\ s \in Doc /\ noted[h] \in Int /\ At[s] \in Warehouse
    BY ConstantFacts DEF Inv, TypeOK, Adjust, StocktakeDue, Doc
  <1>2. /\ Then(h, write) /\ UNCHANGED <<state, paperVars, booked>>
        /\ Abs(noted[h]) > Limit(s) => approved[s]
    BY DEF Adjust, Inv, Pending
  <1>3. Follows(h, write)
    BY <1>1 DEF Follows, Due, TransferDue, DamageDue, QuarantineDue, StocktakeDue, RequestDue
  <1>4. CASE noted[h] = 0
    <2>1. UNCHANGED stockVars
      BY <1>4 DEF Adjust
    <2>. QED  BY <1>2, <1>3, <2>1, QuietInv DEF Inv, TypeOK, paperVars
  <1>5. CASE noted[h] # 0
    <2>1. Move(CountKey(s), At[s], Abs(noted[h])) /\ SetState(s, state[s]) /\ state[s] \in States
      BY <1>1, <1>2, <1>5 DEF Adjust, SetState, Inv, TypeOK
    <2>2. CountKey(s) \in Key /\ Abs(noted[h]) \in Int
      BY <1>1, KeyFacts DEF Abs
    <2>3. TypeOK' /\ Pending'
      <3>1. booked' \subseteq Key /\ UNCHANGED paperVars
        BY <1>2 DEF Inv, TypeOK
      <3>. QED  BY <1>1, <1>2, <1>3, <2>1, <2>2, <3>1, MovingTypes DEF Inv, TypeOK, paperVars
    <2>4. /\ rows'[CountKey(s)] = IF rows[CountKey(s)] # 0 THEN rows[CountKey(s)] ELSE Abs(noted[h])
          /\ \A j \in Key : j # CountKey(s) => rows'[j] = rows[j]
      BY <1>1, <2>1, <2>2, MoveFacts DEF Inv
    <2>5. /\ \A u \in Transfer : rows'[OutKey(u)] = rows[OutKey(u)] /\ rows'[InKey(u)] = rows[InKey(u)]
          /\ \A d \in Damage : rows'[DamageKey(d)] = rows[DamageKey(d)]
          /\ \A q \in Quarantine : rows'[DestroyKey(q)] = rows[DestroyKey(q)]
          /\ \A r \in Stocktake \ {s} : rows'[CountKey(r)] = rows[CountKey(r)]
      <3>1. \A u \in Transfer : OutKey(u) # CountKey(s) /\ InKey(u) # CountKey(s)
        BY KeyInjective
      <3>2. /\ \A d \in Damage : DamageKey(d) # CountKey(s)
            /\ \A q \in Quarantine : DestroyKey(q) # CountKey(s)
            /\ \A r \in Stocktake \ {s} : CountKey(r) # CountKey(s)
        BY KeyInjective
      <3>. QED  BY <2>4, <3>1, <3>2, KeyFacts
    <2>6. AdjustedIsApproved'
      BY <1>1, <1>2, <2>4, <2>5 DEF Inv, AdjustedIsApproved, Limit, paperVars
    <2>7. TransferConserves' /\ BookedWithGoods' /\ StateShowsMove' /\ Rows'
      BY <1>2, <2>5 DEF Inv, TransferConserves, BookedWithGoods, StateShowsMove, Rows, paperVars
    <2>. QED  BY <2>3, <2>6, <2>7 DEF Inv
  <1>. QED  BY <1>4, <1>5

-----------------------------------------------------------------------------
(* The invariant *)

LEMMA InitInv == Init => Inv
  BY ConstantsAssumption
     DEF Init, Inv, TypeOK, Rows, TransferConserves, StateShowsMove, BookedWithGoods,
         AdjustedIsApproved, Pending, Doc, Key, Limit, States, Due, OutKey, InKey, DamageKey,
         DestroyKey, CountKey, TransferDue, DamageDue, QuarantineDue, StocktakeDue, RequestDue

\* Reading a document, for every kind of document.
LEMMA ReadInv ==
  ASSUME Inv, NEW h \in Handler, Read(h)
  PROVE  Inv'
  <1>. USE DEF Doc, Due, TransferDue, DamageDue, QuarantineDue, StocktakeDue, RequestDue
  <1>1. CASE \E t \in Transfer : ReadTransfer(h, t)
    <2>. PICK t \in Transfer : ReadTransfer(h, t)
      BY <1>1
    <2>1. state[t] = "IN_TRANSIT" => rows[OutKey(t)] = -Qty[t]
      BY DEF Inv, StateShowsMove
    <2>. QED  BY <2>1, BeginInv DEF ReadTransfer
  <1>2. CASE \E d \in Damage : ReadDamage(h, d)
    BY <1>2, BeginInv DEF ReadDamage
  <1>3. CASE \E d \in Damage : ReportDamage(h, d)
    BY <1>3, ReportInv
  <1>4. CASE \E q \in Quarantine : ReadQuarantine(h, q)
    BY <1>4, BeginInv DEF ReadQuarantine
  <1>5. CASE \E s \in Stocktake : ReadStocktake(h, s)
    <2>. PICK s \in Stocktake : ReadStocktake(h, s)
      BY <1>5
    <2>1. CASE state[s] = "NONE" /\ Begin(h, "start", s, stockQty)
      BY <2>1, BeginInv DEF Inv, TypeOK
    <2>2. CASE \E n \in Counts : Begin(h, "count", s, n)
      BY <2>2, BeginInv, ConstantsAssumption
    <2>3. CASE /\ counted[s] # NoCount
               /\ NeedsApproval(s) => approved[s]
               /\ Begin(h, "adjust", s, Difference(s))
      <3>1. Difference(s) \in Int
        BY <2>3 DEF Inv, TypeOK, Difference
      <3>. QED  BY <2>3, <3>1, BeginInv DEF NeedsApproval
    <2>. QED  BY <2>1, <2>2, <2>3 DEF ReadStocktake
  <1>6. CASE \E r \in Request : ReadRequest(h, r)
    BY <1>6, BeginInv DEF ReadRequest
  <1>. QED  BY <1>1, <1>2, <1>3, <1>4, <1>5, <1>6 DEF Read

\* The writes that move no goods, and the end of a handler that fails.
LEMMA QuietWrites ==
  ASSUME Inv, NEW h \in Handler,
         \/ Cancel(h) \/ BookDamage(h) \/ QuarantineHold(h) \/ QuarantineRelease(h)
         \/ BookDestroyed(h) \/ StartStocktake(h) \/ CountItem(h) \/ BookCount(h)
         \/ CloseStocktake(h) \/ Ask(h) \/ Decide(h) \/ Grant(h) \/ Fail(h)
  PROVE  Inv'
  <1>. USE DEF Due, TransferDue, DamageDue, QuarantineDue, StocktakeDue, RequestDue
  <1>1. Follows(h, "idle")
    BY DEF Follows
  <1>2. TypeOK
    BY DEF Inv
  <1>3. CASE Fail(h)
    BY <1>1, <1>2, <1>3, QuietInv DEF Fail, TypeOK, paperVars
  <1>4. CASE Cancel(h) \/ QuarantineHold(h) \/ QuarantineRelease(h) \/ CloseStocktake(h) \/ Ask(h)
    <2>1. /\ Then(h, "idle") /\ UNCHANGED <<stockVars, paperVars, booked>>
          /\ \E st \in {"CANCELLED", "HELD", "RELEASED", "CLOSED", "PENDING"} : SetState(doc[h], st)
      BY <1>4 DEF Cancel, QuarantineHold, QuarantineRelease, CloseStocktake, Ask
    <2>2. /\ state' \in [Doc -> States]
          /\ \A d \in Doc : state'[d] # state[d] =>
                 state'[d] \notin {"IN_TRANSIT", "DONE", "POSTED", "DESTROYED"}
      BY <1>2, <2>1 DEF SetState, TypeOK, States
    <2>. QED  BY <1>1, <1>2, <2>1, <2>2, QuietInv DEF TypeOK, paperVars
  <1>5. CASE BookDamage(h) \/ BookDestroyed(h) \/ BookCount(h)
    <2>1. /\ \E write \in {"idle", "close"} : Then(h, write) /\ Follows(h, write)
          /\ UNCHANGED <<stockVars, state, paperVars>>
      BY <1>1, <1>2, <1>5 DEF BookDamage, BookDestroyed, BookCount, Follows, TypeOK
    <2>2. booked \subseteq booked' /\ booked' \subseteq Key
      BY <1>2, <1>5, KeyFacts
         DEF BookDamage, BookDestroyed, BookCount, PostOrNotify, Posted, TypeOK
    <2>. QED  BY <1>2, <2>1, <2>2, QuietInv DEF TypeOK, paperVars
  <1>6. CASE StartStocktake(h)
    <2>1. /\ Then(h, "idle") /\ SetState(doc[h], "OPEN")
          /\ system' = [system EXCEPT ![doc[h]] = noted[h]]
          /\ UNCHANGED <<stockVars, counted, approved, records, booked>>
      BY <1>6 DEF StartStocktake
    <2>2. /\ state' \in [Doc -> States] /\ system' \in [Stocktake -> Int]
          /\ \A d \in Doc : state'[d] # state[d] =>
                 state'[d] \notin {"IN_TRANSIT", "DONE", "POSTED", "DESTROYED"}
      BY <1>2, <2>1 DEF SetState, TypeOK, States
    <2>. QED  BY <1>1, <1>2, <2>1, <2>2, QuietInv DEF TypeOK
  <1>7. CASE CountItem(h)
    <2>1. noted[h] \in Nat
      BY <1>7 DEF CountItem, Inv, Pending
    <2>. QED  BY <1>1, <1>2, <1>7, <2>1, QuietInv DEF CountItem, TypeOK
  <1>8. CASE Decide(h)
    <2>1. /\ \E write \in {"idle", "grant"} : Then(h, write) /\ Follows(h, write)
          /\ UNCHANGED <<stockVars, paperVars, booked>>
          /\ \E st \in {"APPROVED", "REJECTED"} : SetState(doc[h], st)
      BY <1>1, <1>2, <1>8 DEF Decide, Follows, TypeOK
    <2>2. /\ state' \in [Doc -> States]
          /\ \A d \in Doc : state'[d] # state[d] =>
                 state'[d] \notin {"IN_TRANSIT", "DONE", "POSTED", "DESTROYED"}
      BY <1>2, <2>1 DEF SetState, TypeOK, States
    <2>. QED  BY <1>2, <2>1, <2>2, QuietInv DEF TypeOK, paperVars
  <1>9. CASE Grant(h)
    <2>1. /\ approved' = [approved EXCEPT ![About[doc[h]]] = TRUE] /\ Then(h, "idle")
          /\ UNCHANGED <<stockVars, state, system, counted, records, booked>>
      BY <1>9 DEF Grant
    <2>2. /\ approved' \in [Stocktake -> BOOLEAN]
          /\ \A s \in Stocktake : approved[s] => approved'[s]
      BY <1>2, <2>1 DEF TypeOK
    <2>. QED  BY <1>1, <1>2, <2>1, <2>2, QuietInv DEF TypeOK
  <1>. QED  BY <1>3, <1>4, <1>5, <1>6, <1>7, <1>8, <1>9

\* Steps of no handler: a new document, goods sold or bought elsewhere.
LEMMA OtherInv ==
  ASSUME Inv, (\E d \in Doc : Create(d)) \/ (\E w \in Warehouse : Elsewhere(w))
  PROVE  Inv'
  <1>1. CASE \E d \in Doc : Create(d)
    <2>1. PICK d \in Doc : state' = [state EXCEPT ![d] = "DRAFT"]
      BY <1>1 DEF Create, SetState
    <2>2. UNCHANGED <<onHand, rows, stockQty, system, counted, approved, records, booked, pc, doc, noted>>
      BY <1>1 DEF Create, stockVars, paperVars, handlerVars
    <2>3. TypeOK' /\ Pending'
      BY <2>1, <2>2 DEF Inv, TypeOK, Pending, States, Abs, Limit
    <2>4. Rows' /\ TransferConserves' /\ BookedWithGoods' /\ AdjustedIsApproved'
      BY <2>2 DEF Inv, Rows, TransferConserves, BookedWithGoods, AdjustedIsApproved, Limit
    <2>5. StateShowsMove'
      BY <2>1, <2>2 DEF Inv, TypeOK, StateShowsMove, Doc
    <2>. QED  BY <2>3, <2>4, <2>5 DEF Inv
  <1>2. CASE \E w \in Warehouse : Elsewhere(w)
    <2>1. /\ onHand' \in [Warehouse -> Int] /\ stockQty' \in Int
          /\ UNCHANGED <<rows, state, system, counted, approved, records, booked, pc, doc, noted>>
      BY <1>2 DEF Elsewhere, Inv, TypeOK, paperVars, handlerVars
    <2>2. TypeOK' /\ Pending' /\ Rows'
      BY <2>1 DEF Inv, TypeOK, Pending, Rows, Abs, Limit
    <2>3. TransferConserves' /\ BookedWithGoods' /\ AdjustedIsApproved' /\ StateShowsMove'
      BY <2>1 DEF Inv, TransferConserves, BookedWithGoods, AdjustedIsApproved, StateShowsMove, Limit
    <2>. QED  BY <2>2, <2>3 DEF Inv
  <1>. QED  BY <1>1, <1>2

LEMMA StepInv == Inv /\ [Next]_vars => Inv'
  <1>. SUFFICES ASSUME Inv, [Next]_vars PROVE Inv'
    OBVIOUS
  <1>1. CASE \E h \in Handler : Read(h) \/ Fail(h)
    BY <1>1, ReadInv, QuietWrites
  <1>2. CASE \E h \in Handler : Write(h)
    BY <1>2, ConfirmInv, ReceiveInv, PostInv, DestroyInv, AdjustInv, QuietWrites DEF Write
  <1>3. CASE (\E d \in Doc : Create(d)) \/ (\E w \in Warehouse : Elsewhere(w))
    BY <1>3, OtherInv
  <1>4. CASE UNCHANGED vars
    <2>1. UNCHANGED <<onHand, rows, stockQty, state, system, counted, approved, records, booked, pc, doc, noted>>
      BY <1>4 DEF vars, stockVars, paperVars, handlerVars
    <2>2. TypeOK' /\ Pending' /\ Rows'
      BY <2>1 DEF Inv, TypeOK, Pending, Rows, Abs, Limit
    <2>3. TransferConserves' /\ BookedWithGoods' /\ AdjustedIsApproved' /\ StateShowsMove'
      BY <2>1 DEF Inv, TransferConserves, BookedWithGoods, AdjustedIsApproved, StateShowsMove, Limit
    <2>. QED  BY <2>2, <2>3 DEF Inv
  <1>. QED  BY <1>1, <1>2, <1>3, <1>4 DEF Next

\* The inductive invariant holds of every behaviour of the documents.
THEOREM Invariant == Spec => []Inv
  BY InitInv, StepInv, PTL DEF Spec

\* The variables keep their types.
THEOREM DocsTypeCorrect == Spec => []TypeOK
  <1>1. Inv => TypeOK
    BY DEF Inv
  <1>. QED  BY <1>1, Invariant, PTL

\* Transfers bring what they took, once, under any number of requests.
THEOREM TransfersConserve == Spec => []TransferConserves
  <1>1. Inv => TransferConserves
    BY DEF Inv
  <1>. QED  BY <1>1, Invariant, PTL

\* States that say goods have moved are backed by the ledger.
THEOREM StatesAreTrue == Spec => []StateShowsMove
  <1>1. Inv => StateShowsMove
    BY DEF Inv
  <1>. QED  BY <1>1, Invariant, PTL

\* Goods that have a cost are transferred only together with their entries.
THEOREM TransfersAreBooked == Spec => []BookedWithGoods
  <1>1. Inv => BookedWithGoods
    BY DEF Inv
  <1>. QED  BY <1>1, Invariant, PTL

\* No large adjustment reaches the ledger unapproved.
THEOREM LargeAdjustmentsApproved == Spec => []AdjustedIsApproved
  <1>1. Inv => AdjustedIsApproved
    BY DEF Inv
  <1>. QED  BY <1>1, Invariant, PTL
=============================================================================
