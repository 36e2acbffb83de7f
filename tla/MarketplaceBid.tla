--------------------------- MODULE MarketplaceBid ---------------------------
(***************************************************************************)
(* contracts/src/GoghPunkMarketplaceBid.sol: one pool of WETH and one      *)
(* allowance to Seaport stand behind every bid of every funder.  Seaport   *)
(* fills several bids at a time and asks the escrow twice: before it moves *)
(* anything (authorizeOrder) and after all of it moved (validateOrder).    *)
(*                                                                         *)
(* Tokens and other orders' zones are called in between and may call       *)
(* anything back, so a fill is many steps; a failure undoes them all.      *)
(* chain is the storage of the contracts, settled what a failure restores. *)
(* An order is named by what makes its hash unique: funder and nonce.      *)
(* Seaport may have cached an order's signature: only the zone is relied   *)
(* on.  Its own guard against cancel inside a fill is not relied on.       *)
(***************************************************************************)
EXTENDS Integers, FiniteSets, Functions

CONSTANTS
    Wallets,      \* who may own the Punk
    Nobody,       \* the owner of a burned Punk
    Prices,       \* what a bid may offer
    MaxDuration,  \* MAX_BID_DURATION in clock ticks
    MaxBids,      \* bound: bids of one funder
    MaxGifts,     \* bound: WETH sent to the escrow outside of createBid
    MaxTime       \* bound: last clock value

ASSUME NobodyAssumption == Nobody \notin Wallets
ASSUME WalletsAssumption == IsFiniteSet(Wallets)
ASSUME PricesAssumption == Prices \subseteq Nat \ {0}
ASSUME MaxBidsAssumption == MaxBids \in Nat

VARIABLES
    chain,    \* storage of the escrow, Seaport, WETH and the collections
    settled,  \* the storage before the fill in progress; else chain
    fill,     \* orders of the fill in progress, not yet validated
    now       \* block.timestamp

vars == <<chain, settled, fill, now>>

Orders == Wallets \X (0 .. MaxBids - 1)
Funder(o) == o[1]
Running == fill # {}

NoBid == [price |-> 0, deadline |-> 0, status |-> "EMPTY"]

\* paid, delivered and refunds are histories: what moved for each order.
Init ==
    /\ \E w \in Wallets :
        chain = [holder |-> w, bids |-> [o \in Orders |-> NoBid],
                 nonces |-> [v \in Wallets |-> 0], weth |-> 0, allowance |-> 0,
                 filled |-> {}, cancelled |-> {}, held |-> {}, gifts |-> 0,
                 paid |-> {}, delivered |-> {}, refunds |-> [o \in Orders |-> 0]]
    /\ settled = chain
    /\ fill = {}
    /\ now = 0

---------------------------------------------------------------------------
(* What the escrow reads. *)

NotSettled(c, o) == c.bids[o].status \notin {"EMPTY", "SETTLED"}     \* mutant
Active(c, o) == c.bids[o].status = "ACTIVE"

ZoneCheck(c, o) ==
    /\ c.bids[o].status = "ACTIVE"
    /\ now < c.bids[o].deadline
    /\ c.holder = Funder(o)

\* Both createBid and cancelBid approve Seaport for all the WETH there is.
OnlyThisBid(balance, price) == price                                 \* mutant
Approved(balance, price) == balance

WithStatus(c, o, status) == [c EXCEPT !.bids[o].status = status]

---------------------------------------------------------------------------
(* Calls anyone may make at any time: also from inside a fill. *)

Becomes(c) ==
    /\ chain' = c
    /\ settled' = IF Running THEN settled ELSE c
    /\ UNCHANGED <<fill, now>>

CreateBid(w, price, deadline) ==
    LET o == <<w, chain.nonces[w]>>
        balance == chain.weth + price
    IN /\ chain.holder = w
       /\ now < deadline /\ deadline <= now + MaxDuration
       /\ o \in Orders /\ chain.bids[o].status = "EMPTY"
       /\ Becomes([chain EXCEPT
            !.nonces[w] = @ + 1,
            !.bids[o] = [price |-> price, deadline |-> deadline, status |-> "ACTIVE"],
            !.weth = balance,
            !.allowance = Approved(balance, price)])

SettleBid(o) ==
    /\ chain.bids[o].status = "ACTIVE"
    /\ o \in chain.filled
    /\ Becomes(WithStatus(chain, o, "SETTLED"))

\* The funder finds its bid filled, or cancels it and takes the WETH back.
CancelFilled(o) ==
    /\ Active(chain, o)
    /\ o \in chain.filled
    /\ Becomes(WithStatus(chain, o, "SETTLED"))

CancelBid(o) ==
    LET price == chain.bids[o].price
        balance == chain.weth - price
    IN /\ Active(chain, o)
       /\ o \notin chain.filled
       /\ balance >= 0
       /\ Becomes([WithStatus(chain, o, "CANCELLED") EXCEPT
            !.cancelled = @ \cup {o},
            !.weth = balance,
            !.allowance = Approved(balance, price),
            !.refunds[o] = @ + 1])

\* The Punk is sold, burned, or comes back to an earlier owner.
TransferPunk(to) ==
    /\ chain.holder \in Wallets
    /\ Becomes([chain EXCEPT !.holder = to])

SendWeth ==
    /\ chain.gifts < MaxGifts
    /\ Becomes([chain EXCEPT !.gifts = @ + 1, !.weth = @ + 1])

\* The Punk's account sends on what it has just received.
MoveItem(o) ==
    /\ o \in fill \cap chain.held
    /\ Becomes([chain EXCEPT !.held = @ \ {o}])

---------------------------------------------------------------------------
(* A fill by Seaport. *)

\* authorizeOrder of each order; Seaport marks them filled before it pays.
BeginFill(orders) ==
    /\ ~Running
    /\ orders \cap (chain.filled \cup chain.cancelled) = {}
    /\ \A o \in orders : ZoneCheck(chain, o)
    /\ chain' = [chain EXCEPT !.filled = @ \cup orders]
    /\ fill' = orders
    /\ UNCHANGED <<settled, now>>

Pay(o) ==
    LET price == chain.bids[o].price
    IN /\ o \in fill \ chain.paid
       /\ price <= chain.weth /\ price <= chain.allowance
       /\ Becomes([chain EXCEPT !.weth = @ - price, !.allowance = @ - price,
                                !.paid = @ \cup {o}])

Deliver(o) ==
    /\ o \in fill \ chain.delivered
    /\ Becomes([chain EXCEPT !.delivered = @ \cup {o}, !.held = @ \cup {o}])

ValidateOrder(o) ==
    /\ o \in fill
    /\ fill \subseteq chain.paid \cap chain.delivered
    /\ ZoneCheck(chain, o)
    /\ o \in chain.held
    /\ chain' = WithStatus(chain, o, "SETTLED")
    /\ fill' = fill \ {o}
    /\ settled' = IF fill' = {} THEN chain' ELSE settled
    /\ UNCHANGED now

\* Any check or transfer that fails undoes the whole transaction.
Revert ==
    /\ Running
    /\ chain' = settled
    /\ fill' = {}
    /\ UNCHANGED <<settled, now>>

Tick ==
    /\ ~Running
    /\ now < MaxTime
    /\ now' = now + 1
    /\ UNCHANGED <<chain, settled, fill>>

---------------------------------------------------------------------------

Next ==
    \/ \E w \in Wallets, p \in Prices, d \in 1 .. now + MaxDuration : CreateBid(w, p, d)
    \/ \E o \in Orders : \/ SettleBid(o) \/ CancelFilled(o) \/ CancelBid(o)
                         \/ MoveItem(o) \/ Pay(o) \/ Deliver(o) \/ ValidateOrder(o)
    \/ \E to \in Wallets \cup {Nobody} : TransferPunk(to)
    \/ SendWeth
    \/ \E orders \in SUBSET Orders \ {{}} : BeginFill(orders)
    \/ Revert
    \/ Tick

Spec == Init /\ [][Next]_vars

---------------------------------------------------------------------------
(* Properties. *)

\* What the bids that may still take their price from the pool will take.
Owing(c, o) == c.bids[o].status = "ACTIVE" /\ o \notin c.paid
Owed(c) == SumFunctionOnSet([o \in Orders |-> IF Owing(c, o) THEN c.bids[o].price ELSE 0],
                            Orders)

(* One pool and one allowance are enough for all: whatever bid is created, *)
(* filled or cancelled, also from inside a fill, the WETH of the escrow    *)
(* covers every open bid and Seaport may take each of them, and Seaport is *)
(* never approved for more than the escrow has.  A bid that an open fill   *)
(* reconciled too early owes nothing any more: that fill cannot succeed.   *)
BidsAreBacked ==
    LET owed == Owed(chain)
    IN /\ owed <= chain.allowance
       /\ chain.allowance <= chain.weth
       /\ ~Running => chain.weth = owed + chain.gifts

(* A bid ends once, in one way: its price goes to a seller that delivered, *)
(* or back to its funder, never both and never twice, in whatever order    *)
(* fills, callbacks, reconciliations and cancellations happen.             *)
EndsOnce(c, filling, o) ==
    CASE c.bids[o].status = "EMPTY" ->
            c.refunds[o] = 0 /\ o \notin c.paid /\ o \notin c.filled
      [] c.bids[o].status = "ACTIVE" ->
            c.refunds[o] = 0 /\ (o \in c.paid \cup c.filled => o \in filling)
      [] c.bids[o].status = "SETTLED" ->
            c.refunds[o] = 0 /\ (o \in c.paid \cap c.delivered \/ o \in filling)
      [] c.bids[o].status = "CANCELLED" ->
            c.refunds[o] = 1 /\ o \notin c.paid /\ o \notin filling
BidsEndOnce == \A o \in Orders : EndsOnce(chain, fill, o)
=============================================================================
