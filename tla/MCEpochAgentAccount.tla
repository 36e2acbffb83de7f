------------------------ MODULE MCEpochAgentAccount -------------------------
(* A small instance of EpochAgentAccount: two wallets, sessions of two     *)
(* mints, one a day or both, over three days of two ticks.                 *)
EXTENDS EpochAgentAccount

MCLimits == {[total |-> 2, perDay |-> 1, until |-> 3],
             [total |-> 2, perDay |-> 2, until |-> 1]}
=============================================================================
