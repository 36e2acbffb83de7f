----------------------------- MODULE MCChainIndexer -----------------------------
(* Instance of ChainIndexer for TLC: two deployments of the indexer, that  *)
(* of the owners and that of the accounts' purchases and the market.       *)
EXTENDS ChainIndexer

MCJobs == {<<"transfers", "activations">>, <<"seaport", "activations", "acquisitions">>}
=============================================================================
