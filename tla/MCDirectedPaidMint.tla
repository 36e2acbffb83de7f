------------------------ MODULE MCDirectedPaidMint ------------------------
(* A small instance of the vault: two wallets, either of which may be the  *)
(* executor.                                                               *)
EXTENDS DirectedPaidMint
=============================================================================
