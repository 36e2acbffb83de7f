-------------------------- MODULE MCMarketplaceBid --------------------------
(* A small instance of MarketplaceBid: two owners in turn, two bids each.  *)
(* The owners are alike.                                                   *)
EXTENDS MarketplaceBid, TLC

Symmetry == Permutations(Wallets)
=============================================================================
