--------------------------- MODULE MCStockLedger ---------------------------
(* Small instances of StockLedger. *)
EXTENDS StockLedger, TLC

CONSTANTS a, b, main, shop, k1, k2

MCSku == {a, b}
MCWarehouse == {main, shop}
MCKeys == {k1, k2}
In(w, n, k) == [wh |-> w, qty |-> n, in |-> TRUE, key |-> k]
Out(w, n, k) == [wh |-> w, qty |-> n, in |-> FALSE, key |-> k]

\* A client, who may send it twice, takes both units of one variant out and
\* brings one of the other into the second warehouse.
MCJobs == {(a :> Out(main, 2, k1)) @@ (b :> In(shop, 1, k2))}
MCCarts == {(a :> 1), (a :> 1) @@ (b :> 1)}
MCOpening == (a :> 2) @@ (b :> 1)
MCThreshold == (a :> 1) @@ (b :> 0)
=============================================================================
