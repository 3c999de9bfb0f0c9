---------------------------- MODULE MCPurchasing ----------------------------
(* Small instances of Purchasing. *)
EXTENDS Purchasing, TLC

CONSTANTS cr, cp, cm, o1, g1, i1, h1, h2, k1, k2, k3

MCDirection == (cr :> "RECEIVED") @@ (cp :> "ISSUED") @@ (cm :> "ISSUED")
MCSource == (cr :> "pos_invoice") @@ (cp :> "purchase_payment") @@ (cm :> "manual")
MCAmount == (cr :> 1) @@ (cp :> 2) @@ (cm :> 1)
MCOrderOf == g1 :> o1
MCWorth == g1 :> 3
MCReceiptOf == i1 :> g1
MCGrandTotal == i1 :> 2
MCSymmetry == Permutations({h1, h2}) \union Permutations(Key)
=============================================================================
