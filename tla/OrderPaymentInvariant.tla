------------------------ MODULE OrderPaymentInvariant ------------------------
(***************************************************************************)
(* What the proofs of OnlinePayment and CardToCard both say of the shared  *)
(* statements of a payment: the places of their code at which a handler    *)
(* may rely on the same things, what holds of the rows of orders, and what *)
(* no statement takes back.                                                *)
(***************************************************************************)
EXTENDS OrderPayment

Ordering == {"placed", "cancel", "edit", "edited"}
Booking == {"book", "record", "publish", "finalized"}
Paying == {"reserved", "consume"} \union Booking
Finalizing == {"settle"} \union Paying
SharedLabel == {"idle"} \union Ordering \union Finalizing

\* An order that exists has its first batch, and no other has any.
Orders ==
    \A o \in Order : IF status[o] = "NONE" THEN \A b \in Batch : goods[o][b] = "NONE"
                                           ELSE goods[o][0] # "NONE"

\* What is paid or sold stays so.
PaidStays ==
    \A o \in Order : /\ payStatus[o] = "PAID" => payStatus'[o] = "PAID"
                     /\ In(o, "CONSUMED") \subseteq In(o, "CONSUMED")'
=============================================================================
