----------------------------- MODULE OwnerGrant -----------------------------
(***************************************************************************)
(* What the session of an epoch agent account promises, without wrapper,   *)
(* epochs, generations, bundles or callbacks: an owner gives one grant; it *)
(* buys no more than its limits, each intent once, before it ends and for  *)
(* the owner who gave it; and it ends for good when the token moves, even  *)
(* if the token comes back, or when it is taken away.                      *)
(*                                                                         *)
(* EpochAgentAccount implements this specification (its Implements).       *)
(***************************************************************************)
EXTENDS Naturals

CONSTANTS Holders, NoGrant, DayLength

VARIABLES
    owner,   \* who owns the token
    grant,   \* the grant in force, or NoGrant
    last,    \* number of the last grant ever given
    bought,  \* intents that were bought
    now

vars == <<owner, grant, last, bought, now>>

Today == now \div DayLength

Init ==
    /\ owner \in Holders
    /\ grant = NoGrant
    /\ last = 0
    /\ bought = {}
    /\ now = 0

\* A transfer, also one of an owner to himself, ends the grant.
Move ==
    /\ owner' \in Holders
    /\ grant' = NoGrant
    /\ UNCHANGED <<last, bought, now>>

\* A new grant has a number no grant had, so an ended one cannot return.
Give ==
    /\ last' > last
    /\ grant' \in [number : {last'}, by : {owner}, left : Nat, perDay : Nat,
                  until : Nat, day : {Today}, mintsToday : {0}]
    /\ UNCHANGED <<owner, bought, now>>

\* By its owner, or by the guardian.
TakeAway ==
    /\ grant' = NoGrant
    /\ last' >= last
    /\ UNCHANGED <<owner, bought, now>>

UsedToday == IF grant.day = Today THEN grant.mintsToday ELSE 0

Use ==
    /\ grant # NoGrant
    /\ grant.by = owner
    /\ grant.left > 0
    /\ now <= grant.until
    /\ UsedToday < grant.perDay
    /\ \E intent \in bought' \ bought : bought' = bought \cup {intent}
    /\ grant' = [number |-> grant.number, by |-> grant.by, left |-> grant.left - 1,
                 perDay |-> grant.perDay, until |-> grant.until,
                 day |-> Today, mintsToday |-> UsedToday + 1]
    /\ UNCHANGED <<owner, last, now>>

Tick == now' > now /\ UNCHANGED <<owner, grant, last, bought>>

Next == Move \/ Give \/ TakeAway \/ Use \/ Tick

Spec == Init /\ [][Next]_vars
=============================================================================
