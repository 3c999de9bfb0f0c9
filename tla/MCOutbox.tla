------------------------------ MODULE MCOutbox ------------------------------
(* Small instances of Outbox. *)
EXTENDS Outbox

CONSTANTS p1, p2, w1, e1, d1
MCSender == Pass \union Worker \union {Admin}
=============================================================================
