------------------------------ MODULE Purchase ------------------------------
(***************************************************************************)
(* What the shop promises about an order, whatever way it is paid: goods   *)
(* are set aside when it is placed; it becomes paid once, and only after   *)
(* somebody vouched for its money, the gateway by a capture or a customer  *)
(* by the particulars of a transfer; goods leave only for a paid order and *)
(* do not come back by themselves.  An edit may set goods aside again.     *)
(*                                                                         *)
(* Nothing is promised about goods that were released before the payment   *)
(* was finalized: the shop may still sell them, or keep the order paid     *)
(* and unsold.                                                             *)
(***************************************************************************)
CONSTANT Order

VARIABLES
    goods,      \* per order: NONE, ACTIVE (set aside), RELEASED or CONSUMED (sold)
    confirmed,  \* orders whose money somebody vouched for
    paid        \* orders that are paid

vars == <<goods, confirmed, paid>>

Init ==
    /\ goods = [o \in Order |-> "NONE"]
    /\ confirmed = {} /\ paid = {}

SetAside(o) ==
    /\ goods[o] \in {"NONE", "RELEASED"}
    /\ goods' = [goods EXCEPT ![o] = "ACTIVE"]
    /\ UNCHANGED <<confirmed, paid>>

Confirm(o) ==
    /\ goods[o] # "NONE"
    /\ confirmed' = confirmed \union {o}
    /\ UNCHANGED <<goods, paid>>

Pay(o) ==
    /\ o \in confirmed
    /\ paid' = paid \union {o}
    /\ UNCHANGED <<goods, confirmed>>

GiveBack(o) ==
    /\ goods[o] = "ACTIVE"
    /\ goods' = [goods EXCEPT ![o] = "RELEASED"]
    /\ UNCHANGED <<confirmed, paid>>

Sell(o) ==
    /\ o \in paid /\ goods[o] \in {"ACTIVE", "RELEASED"}
    /\ goods' = [goods EXCEPT ![o] = "CONSUMED"]
    /\ UNCHANGED <<confirmed, paid>>

Next == \E o \in Order : SetAside(o) \/ Confirm(o) \/ Pay(o) \/ GiveBack(o) \/ Sell(o)

Spec == Init /\ [][Next]_vars
=============================================================================
