-------------------------- MODULE DirectedPaidMint --------------------------
(***************************************************************************)
(* The per-Punk escrow vault of contracts/src/GoghPunkDirectedPaidMint.sol *)
(* and the factory entry point that funds it.  The owner of the Punk puts  *)
(* price + fee in once; the named executor may mint once for exactly that  *)
(* price before the deadline; otherwise the money goes back to the funder. *)
(*                                                                         *)
(* An EVM transaction is one step: it happens as a whole or reverts, and   *)
(* every entry point is nonReentrant, so what a callback could do to the   *)
(* state below it could as well do just before or after the call.  Each    *)
(* require is a guard; a reverted call is no step.                         *)
(***************************************************************************)
EXTENDS Integers, FiniteSets, Functions

CONSTANTS
    Accounts,       \* wallets: Punk owners and executors
    NoOne,          \* the zero address, and the owner of a burned Punk
    Prices,         \* public drop prices the target collection may set
    Fees,           \* execution fees an owner may offer
    MaxDuration,    \* MAX_DURATION (10 minutes), in clock ticks
    MaxTime,        \* bound: last clock value
    MaxGeneration,  \* bound: authorizations of one vault
    MaxStray        \* bound: ether forced into the vault

ASSUME AccountsAssumption == NoOne \notin Accounts /\ IsFiniteSet(Accounts)
ASSUME AmountsAssumption == Prices \subseteq Nat \ {0} /\ Fees \subseteq Nat
ASSUME BoundsAssumption ==
    /\ MaxDuration \in Nat \ {0}
    /\ {MaxTime, MaxGeneration, MaxStray} \subseteq Nat

VARIABLES
    now,              \* block.timestamp
    punkOwner,        \* PUNKS.ownerOf(punkTokenId); NoOne once burned
    drop,             \* price at which the adapter would build a mint; 0: none
    mission,          \* Mission public mission
    refundable,       \* mapping(address => uint256) refundable
    refundLiability,  \* uint256 refundLiability
    balance,          \* address(this).balance
    stray,            \* ether ever forced into the vault (bound only)
    paidIn,           \* history: what each account ever put in
    spent,            \* history: what of it bought a mint
    paidOut           \* history: what of it was paid back

vars == <<now, punkOwner, drop, mission, refundable, refundLiability, balance,
          stray, paidIn, spent, paidOut>>
ledger == <<paidIn, spent, paidOut>>
environment == <<now, punkOwner, drop, stray>>

Status == {"EMPTY", "ACTIVE", "COMPLETED", "CANCELLED"}

Mission == [authorizingOwner : Accounts \cup {NoOne},
            executor : Accounts \cup {NoOne},
            price : Nat, fee : Nat,
            generation : Nat, deadline : Nat, status : Status]

NoMission == [authorizingOwner |-> NoOne, executor |-> NoOne, price |-> 0,
              fee |-> 0, generation |-> 0, deadline |-> 0, status |-> "EMPTY"]

Nothing == [a \in Accounts |-> 0]

\* The part of the balance recoverNative must leave behind besides the debts.
MissionEscrow(m) == IF m.status = "ACTIVE" THEN m.price + m.fee ELSE 0

\* The pinned adapter still builds a mint of this price (_execution).
Quotable(price) == drop = price

\* What recoverNative must leave behind.
ReservedForDebtsAlone == refundLiability                             \* mutant
Reserved == refundLiability + MissionEscrow(mission)

SameGeneration(generation) == mission.generation = generation        \* mutant
Running(generation) ==
    /\ mission.status = "ACTIVE"
    /\ mission.generation = generation

FunderOwnsThePunk == punkOwner = mission.authorizingOwner

Init ==
    /\ now = 0
    /\ punkOwner \in Accounts
    /\ drop \in Prices \cup {0}
    /\ mission = NoMission
    /\ refundable = Nothing
    /\ refundLiability = 0
    /\ balance = 0
    /\ stray = 0
    /\ paidIn = Nothing /\ spent = Nothing /\ paidOut = Nothing

(***************************************************************************)
(* The Punk's owner funds and authorizes one mission.  A vault that does   *)
(* not exist yet is created in the same transaction, with generation 0.    *)
(***************************************************************************)
Authorize(caller, executor, price, fee, expectedGeneration, deadline) ==
    /\ punkOwner = caller
    /\ mission.status # "ACTIVE"
    /\ mission.generation = expectedGeneration
    /\ deadline > now /\ deadline <= now + MaxDuration
    /\ Quotable(price)
    /\ mission' = [authorizingOwner |-> caller, executor |-> executor,
                   price |-> price, fee |-> fee,
                   generation |-> expectedGeneration + 1,
                   deadline |-> deadline, status |-> "ACTIVE"]
    /\ balance' = balance + price + fee
    /\ paidIn' = [paidIn EXCEPT ![caller] = @ + price + fee]
    /\ UNCHANGED <<environment, refundable, refundLiability, spent, paidOut>>

(***************************************************************************)
(* The executor mints for the mission's price, the NFT goes on to the      *)
(* Punk's agent wallet, the fee to the executor.  A wrong NFT, a failed    *)
(* payment or an owner changed by a callback reverts all of it.            *)
(***************************************************************************)
Execute(caller, generation) ==
    /\ caller = mission.executor
    /\ Running(generation)
    /\ now <= mission.deadline
    /\ FunderOwnsThePunk
    /\ Quotable(mission.price)
    /\ balance >= mission.price + mission.fee
    /\ mission' = [mission EXCEPT !.status = "COMPLETED"]
    /\ balance' = balance - mission.price - mission.fee
    /\ spent' = [spent EXCEPT ![mission.authorizingOwner] =
                     @ + mission.price + mission.fee]
    /\ UNCHANGED <<environment, refundable, refundLiability, paidIn, paidOut>>

\* cancel: its funder at any time; anybody once the Punk has another owner
\* (or none: ownerOf is tried, not required) or the deadline has passed.
MayCancelAnExistingPunks(caller) ==                                  \* mutant
    /\ punkOwner # NoOne
    /\ \/ caller = mission.authorizingOwner
       \/ punkOwner # mission.authorizingOwner
       \/ now > mission.deadline
MayCancel(caller) ==
    \/ caller = mission.authorizingOwner
    \/ punkOwner # mission.authorizingOwner
    \/ now > mission.deadline

\* refundable[...] += amount; refundLiability += amount.
CreditTheOwner(funder, amount) ==                                    \* mutant
    /\ refundable' = [refundable EXCEPT ![punkOwner] = @ + amount]
    /\ refundLiability' = refundLiability + amount
CreditWithoutDebt(funder, amount) ==                                 \* mutant
    /\ refundable' = [refundable EXCEPT ![funder] = @ + amount]
    /\ UNCHANGED refundLiability
CreditBackwards(funder, amount) ==                                   \* mutant
    /\ refundable' = [refundable EXCEPT ![funder] = @ + amount]
    /\ refundLiability' = refundLiability - amount
CreditRefund(funder, amount) ==
    /\ refundable' = [refundable EXCEPT ![funder] = @ + amount]
    /\ refundLiability' = refundLiability + amount

Cancel(caller, generation) ==
    /\ Running(generation)
    /\ MayCancel(caller)
    /\ mission' = [mission EXCEPT !.status = "CANCELLED"]
    /\ CreditRefund(mission.authorizingOwner, mission.price + mission.fee)
    /\ UNCHANGED <<environment, balance, ledger>>

\* The subtraction of a checked uint256 and the transfer are guards: they revert.
WithdrawRefund(caller) ==
    LET amount == refundable[caller] IN
    /\ amount > 0
    /\ refundLiability >= amount
    /\ balance >= amount
    /\ refundable' = [refundable EXCEPT ![caller] = 0]
    /\ refundLiability' = refundLiability - amount
    /\ balance' = balance - amount
    /\ paidOut' = [paidOut EXCEPT ![caller] = @ + amount]
    /\ UNCHANGED <<environment, mission, paidIn, spent>>

\* Only what is neither owed nor reserved for the active mission may leave.
RecoverNative(caller) ==
    /\ punkOwner = caller
    /\ balance >= Reserved
    /\ balance' = Reserved
    /\ UNCHANGED <<environment, mission, refundable, refundLiability, ledger>>

-----------------------------------------------------------------------------
(* What happens around the vault.                                          *)

\* A Punk is sold or given away, or burned for training credit.
TransferPunk(to) ==
    /\ punkOwner # NoOne
    /\ to # punkOwner
    /\ punkOwner' = to
    /\ UNCHANGED <<now, drop, mission, refundable, refundLiability, balance,
                   stray, ledger>>

\* The collection changes its price, closes, sells out or is replaced (0).
ChangeDrop(price) ==
    /\ drop' = price
    /\ UNCHANGED <<now, punkOwner, mission, refundable, refundLiability,
                   balance, stray, ledger>>

\* The vault has no receive(): ether arrives unasked only by force.
ForceEther ==
    /\ stray < MaxStray
    /\ stray' = stray + 1
    /\ balance' = balance + 1
    /\ UNCHANGED <<now, punkOwner, drop, mission, refundable, refundLiability,
                   ledger>>

Tick ==
    /\ now < MaxTime
    /\ now' = now + 1
    /\ UNCHANGED <<punkOwner, drop, mission, refundable, refundLiability,
                   balance, stray, ledger>>

-----------------------------------------------------------------------------
AuthorizeSome ==
    \E caller, executor \in Accounts, price \in Prices, fee \in Fees,
       expectedGeneration \in 0 .. MaxGeneration - 1,
       deadline \in now + 1 .. now + MaxDuration :
        Authorize(caller, executor, price, fee, expectedGeneration, deadline)

Next ==
    \/ AuthorizeSome
    \/ \E a \in Accounts, g \in 1 .. MaxGeneration : Execute(a, g)
    \/ \E a \in Accounts, g \in 1 .. MaxGeneration : Cancel(a, g)
    \/ \E a \in Accounts : WithdrawRefund(a)
    \/ \E a \in Accounts : RecoverNative(a)
    \/ \E to \in Accounts \cup {NoOne} : TransferPunk(to)
    \/ \E price \in Prices \cup {0} : ChangeDrop(price)
    \/ ForceEther
    \/ Tick

Spec == Init /\ [][Next]_vars

\* A funder who wants the money back keeps asking for it; nobody else has to
\* do anything.
FunderAsks(a) ==
    /\ WF_vars(a = mission.authorizingOwner
               /\ \E g \in 1 .. MaxGeneration : Cancel(a, g))
    /\ WF_vars(WithdrawRefund(a))

FunderSpec == Spec /\ \A a \in Accounts : FunderAsks(a)

-----------------------------------------------------------------------------
(* Properties *)

TypeOK ==
    /\ now \in Nat
    /\ punkOwner \in Accounts \cup {NoOne}
    /\ drop \in Nat
    /\ mission \in Mission
    /\ refundable \in [Accounts -> Nat]
    /\ refundLiability \in Nat
    /\ balance \in Nat
    /\ stray \in Nat
    /\ paidIn \in [Accounts -> Nat]
    /\ spent \in [Accounts -> Nat]
    /\ paidOut \in [Accounts -> Nat]

\* The vault can always pay everything it owes and still run the active
\* mission, whatever was forced in, recovered or cancelled before.
Solvent == balance >= refundLiability + MissionEscrow(mission)

\* The running total is the sum of what may be withdrawn: the checked
\* subtraction refuses no withdrawal, and recovery cannot touch a refund.
LiabilityIsTheSumOfRefunds == refundLiability = SumFunctionOnSet(refundable, Accounts)

\* What the vault holds of account a: the open escrow and the refund.
HeldFor(a) ==
    refundable[a]
    + (IF mission.status = "ACTIVE" /\ mission.authorizingOwner = a
       THEN mission.price + mission.fee ELSE 0)

\* Nobody's money becomes anybody else's: all an account ever put in was
\* spent on its own missions, paid back to it, or is still there for it.  The
\* Punk may change hands, be burned, and be refunded in between.
FunderMadeWhole ==
    \A a \in Accounts : paidIn[a] = spent[a] + paidOut[a] + HeldFor(a)

\* A funder can always get out alone: the escrow of a mission that is not
\* executed ends, and refunds are paid, even for a burned Punk.
FunderGetsOut ==
    \A a \in Accounts :
        (paidIn[a] > spent[a] + paidOut[a]) ~> (paidIn[a] = spent[a] + paidOut[a])

\* The vault implements the escrow its funders see.
Escrow == INSTANCE FunderEscrow WITH
    holder <- IF mission.status = "ACTIVE" THEN mission.authorizingOwner
              ELSE NoOne,
    held <- MissionEscrow(mission),
    owed <- refundable
Implements == Escrow!Spec
=============================================================================
