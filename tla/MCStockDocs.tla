---------------------------- MODULE MCStockDocs ----------------------------
(* Small instances of StockDocs. *)
EXTENDS StockDocs, TLC

CONSTANTS main, shop, t1, d1, q1, s1, r1, h1, h2

MCFrom == t1 :> main
MCTo == t1 :> shop
MCAt == (d1 :> main) @@ (q1 :> main) @@ (s1 :> shop)
MCAbout == r1 :> s1
MCQty == (t1 :> 1) @@ (d1 :> 1) @@ (q1 :> 1)
MCTolerance == s1 :> 1
MCHandlers == Permutations({h1, h2})
MCOpening == (main :> 1) @@ (shop :> 1)

\* Bound: at most three of the five documents in one history.
FewDocuments == Cardinality({d \in Doc : state[d] # "NONE"}) <= 3
=============================================================================
