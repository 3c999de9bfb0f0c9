----------------------------- MODULE MCCardToCard -----------------------------
(* Small instances of CardToCard. *)
EXTENDS CardToCard, TLC

HandlerSymmetry == Permutations(Handler) \union Permutations(Attempt)
=============================================================================
