---------------------------- MODULE FunderEscrow ----------------------------
(***************************************************************************)
(* What a directed paid-mint vault promises the people who fund it,        *)
(* without its missions, deadlines, generations or Punk ownership: one     *)
(* open escrow at a time, whose whole amount is either spent for its       *)
(* funder or becomes a debt to that same funder; and debts leave only by   *)
(* being paid in full to the account they are owed to.                     *)
(*                                                                         *)
(* DirectedPaidMint implements this specification (see its Implements      *)
(* property, and DirectedPaidWorker_proofs for every value of the          *)
(* constants).                                                             *)
(***************************************************************************)
EXTENDS Naturals

CONSTANTS Accounts, NoOne

VARIABLES
    holder,     \* the account whose money is in the open escrow, or NoOne
    held,       \* the amount in the open escrow
    owed,       \* what each account may withdraw
    paidIn,     \* all an account has ever put in
    spent,      \* all of it that bought a mint
    paidOut     \* all of it that was paid back

vars == <<holder, held, owed, paidIn, spent, paidOut>>

Init ==
    /\ holder = NoOne
    /\ held = 0
    /\ owed = [a \in Accounts |-> 0]
    /\ paidIn = [a \in Accounts |-> 0]
    /\ spent = [a \in Accounts |-> 0]
    /\ paidOut = [a \in Accounts |-> 0]

Deposit(a) ==
    /\ holder = NoOne
    /\ holder' = a
    /\ held' \in Nat \ {0}
    /\ paidIn' = [paidIn EXCEPT ![a] = @ + held']
    /\ UNCHANGED <<owed, spent, paidOut>>

Spend(a) ==
    /\ holder = a
    /\ holder' = NoOne
    /\ held' = 0
    /\ spent' = [spent EXCEPT ![a] = @ + held]
    /\ UNCHANGED <<owed, paidIn, paidOut>>

Release(a) ==
    /\ holder = a
    /\ holder' = NoOne
    /\ held' = 0
    /\ owed' = [owed EXCEPT ![a] = @ + held]
    /\ UNCHANGED <<paidIn, spent, paidOut>>

PayOut(a) ==
    /\ owed[a] > 0
    /\ owed' = [owed EXCEPT ![a] = 0]
    /\ paidOut' = [paidOut EXCEPT ![a] = @ + owed[a]]
    /\ UNCHANGED <<holder, held, paidIn, spent>>

Next ==
    \E a \in Accounts :
        \/ Deposit(a)
        \/ Spend(a)
        \/ Release(a)
        \/ PayOut(a)

Spec == Init /\ [][Next]_vars
=============================================================================
