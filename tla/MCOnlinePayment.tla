-------------------------- MODULE MCOnlinePayment --------------------------
(* Small instances of OnlinePayment. *)
EXTENDS OnlinePayment, TLC

HandlerSymmetry == Permutations(Handler) \union Permutations(Attempt) \union Permutations(Authority)
=============================================================================
