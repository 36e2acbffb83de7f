-------------------------- MODULE MCPrioritySessions --------------------------
(* Small instances of PrioritySessions: the session of a first deposit,     *)
(* which expires while the clock runs, and a second deposit's for the same  *)
(* Punk, which may replace it at any time and outlasts the clock.           *)
EXTENDS PrioritySessions, TLC

CONSTANTS d1, d2, w1, w2

MCPunkOf == [d \in Deposits |-> "punk"]
MCAmount == [d \in Deposits |-> IF d = d1 THEN 2 ELSE 1]
MCLife == [d \in Deposits |-> IF d = d1 THEN 2 ELSE 9]
MCRequested == [d \in Deposits |-> 1]
\* Workers differ in nothing but their name.
Symmetry == Permutations(Workers)
=============================================================================
