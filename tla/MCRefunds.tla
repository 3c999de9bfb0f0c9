----------------------------- MODULE MCRefunds -----------------------------
(* Small instances of Refunds. *)
EXTENDS Refunds, TLC

CONSTANTS r1, r2, c1, c2, h1, h2

MCQty == (r1 :> 1) @@ (r2 :> 1) @@ (c1 :> 1) @@ (c2 :> 2)
MCMethod == (r1 :> "ORIGINAL_METHOD") @@ (r2 :> "ORIGINAL_METHOD")
              @@ (c1 :> "CASH") @@ (c2 :> "STORE_CREDIT")
MCHandlers == Permutations({h1, h2})
=============================================================================
