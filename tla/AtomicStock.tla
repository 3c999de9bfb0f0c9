---------------------------- MODULE AtomicStock ----------------------------
(***************************************************************************)
(* What the stock engine promises its callers: every request that succeeds *)
(* takes effect as if it ran alone.  There are no transactions here, no    *)
(* locks, no reads that age, and none of the columns that carry them.      *)
(*                                                                         *)
(* A direct move writes each of its lines once, whoever sends it again; an *)
(* order is placed whole, on goods that nobody else has set aside; what it *)
(* wants of a SKU is given back or sold, and sold once.  Nothing is        *)
(* promised about reservedQty, which no decision is based on.              *)
(***************************************************************************)
EXTENDS Integers, Functions

CONSTANTS Sku, Warehouse, Main, Order, Jobs, Carts, Opening

VARIABLES
    stock,      \* on hand, per warehouse and SKU
    done,       \* keys of the direct moves that took effect
    goods,      \* of an order, per SKU: NONE, ACTIVE, RELEASED or CONSUMED
    qty         \* that an order wants of a SKU

vars == <<stock, done, goods, qty>>

Cell == Warehouse \X Sku

Init ==
    /\ stock = [c \in Cell |-> IF c[1] = Main THEN Opening[c[2]] ELSE 0]
    /\ done = {}
    /\ goods = [o \in Order |-> [s \in Sku |-> "NONE"]]
    /\ qty = [o \in Order |-> [s \in Sku |-> 0]]

Basket(o) == {s \in Sku : goods[o][s] # "NONE"}
SetAside(s) ==
    SumFunction([o \in {p \in Order : goods[p][s] = "ACTIVE"} |-> qty[o][s]])

\* The lines of a job whose keys are new take effect together.
NewLines(job) == {s \in DOMAIN job : job[s].key \notin done}
Moved(job, c) ==
    IF c[2] \in NewLines(job) /\ job[c[2]].wh = c[1]
    THEN IF job[c[2]].in THEN stock[c] + job[c[2]].qty ELSE stock[c] - job[c[2]].qty
    ELSE stock[c]

Move(job) ==
    /\ \A c \in Cell : Moved(job, c) >= 0
    /\ stock' = [c \in Cell |-> Moved(job, c)]
    /\ done' = done \union {job[s].key : s \in NewLines(job)}
    /\ UNCHANGED <<goods, qty>>

Place(o, cart) ==
    /\ Basket(o) = {}
    /\ \A s \in DOMAIN cart : cart[s] <= stock[<<Main, s>>] - SetAside(s)
    /\ goods' = [goods EXCEPT ![o] =
                   [s \in Sku |-> IF s \in DOMAIN cart THEN "ACTIVE" ELSE "NONE"]]
    /\ qty' = [qty EXCEPT ![o] = [s \in Sku |-> IF s \in DOMAIN cart THEN cart[s] ELSE @[s]]]
    /\ UNCHANGED <<stock, done>>

\* Any of the goods set aside, of one order or of several.
Reserved == {row \in Order \X Sku : goods[row[1]][row[2]] = "ACTIVE"}
GiveBack(R) ==
    /\ goods' = [o \in Order |-> [s \in Sku |->
                   IF <<o, s>> \in R THEN "RELEASED" ELSE goods[o][s]]]
    /\ UNCHANGED <<stock, done, qty>>

\* Also after the goods were given back, if they are still there.
Unsold(o) == {s \in Sku : goods[o][s] \in {"ACTIVE", "RELEASED"}}
Sell(o, S) ==
    /\ \A s \in S : qty[o][s] <= stock[<<Main, s>>]
    /\ stock' = [c \in Cell |-> IF c[1] = Main /\ c[2] \in S
                                THEN stock[c] - qty[o][c[2]] ELSE stock[c]]
    /\ goods' = [goods EXCEPT ![o] = [s \in Sku |-> IF s \in S THEN "CONSUMED" ELSE @[s]]]
    /\ UNCHANGED <<done, qty>>

Next ==
    \/ \E job \in Jobs : Move(job)
    \/ \E o \in Order :
         \/ \E cart \in Carts : Place(o, cart)
         \/ \E S \in SUBSET Unsold(o) : Sell(o, S)
    \/ \E R \in SUBSET Reserved : GiveBack(R)

Spec == Init /\ [][Next]_vars
=============================================================================
