------------------------ MODULE MarketplaceBid_proofs -----------------------
(***************************************************************************)
(* A bid ends once.  What is inductive is BidsEndOnce of the storage with  *)
(* the fill in progress, together with the same of the storage a failure   *)
(* would restore, for which no fill is in progress.                        *)
(***************************************************************************)
EXTENDS MarketplaceBid, SumTheorems, TLAPS

Status == {"EMPTY", "ACTIVE", "SETTLED", "CANCELLED"}
Bid == [price : Nat, deadline : Int, status : Status]
Storage == [holder : Wallets \cup {Nobody}, bids : [Orders -> Bid],
            nonces : [Wallets -> Int], weth : Int, allowance : Int,
            filled : SUBSET Orders, cancelled : SUBSET Orders,
            held : SUBSET Orders, gifts : Int, paid : SUBSET Orders,
            delivered : SUBSET Orders, refunds : [Orders -> Int]]

Sound(c, filling) ==
    /\ c \in Storage
    /\ filling \subseteq c.filled
    /\ \A o \in Orders : EndsOnce(c, filling, o)

IInv ==
    /\ now \in Int
    /\ Sound(chain, fill)
    /\ Sound(settled, {})

(* Initially nobody has bid. *)
LEMMA InitSound == Init => IInv
<1> SUFFICES ASSUME Init PROVE IInv
  OBVIOUS
<1>1. PICK w \in Wallets :
        chain = [holder |-> w, bids |-> [o \in Orders |-> NoBid],
                 nonces |-> [v \in Wallets |-> 0], weth |-> 0, allowance |-> 0,
                 filled |-> {}, cancelled |-> {}, held |-> {}, gifts |-> 0,
                 paid |-> {}, delivered |-> {}, refunds |-> [o \in Orders |-> 0]]
  BY DEF Init
<1>2. NoBid \in Bid
  BY DEF NoBid, Bid, Status
<1>3. chain \in Storage
  BY <1>1, <1>2 DEF Storage
<1>4. \A o \in Orders : /\ chain.bids[o].status = "EMPTY"
                        /\ chain.refunds[o] = 0
                        /\ o \notin chain.paid /\ o \notin chain.filled
  BY <1>1 DEF NoBid
<1>5. \A o \in Orders : EndsOnce(chain, {}, o)
  BY <1>4 DEF EndsOnce
<1>6. Sound(chain, {})
  BY <1>3, <1>5 DEF Sound
<1>7. fill = {} /\ settled = chain /\ now \in Int
  BY DEF Init
<1> QED
  BY <1>6, <1>7 DEF IInv

(* A call outside or inside a fill: what it leaves is what a later failure *)
(* restores exactly when no fill is in progress.                           *)
LEMMA BecomesSound ==
    ASSUME IInv, NEW c, Becomes(c), Sound(c, fill)
    PROVE  IInv'
<1>1. /\ now' \in Int /\ fill' = fill /\ chain' = c
      /\ settled' = IF Running THEN settled ELSE c
  BY DEF Becomes, IInv
<1>2. Sound(chain', fill')
  BY <1>1
<1>3. CASE Running
  BY <1>1, <1>2, <1>3 DEF IInv, Sound, EndsOnce
<1>4. CASE ~Running
  <2>1. fill = {}
    BY <1>4 DEF Running
  <2>2. Sound(settled', {})
    BY <1>1, <1>4, <2>1
  <2> QED
    BY <1>1, <1>2, <2>2 DEF IInv, Sound, EndsOnce
<1> QED
  BY <1>3, <1>4

(* Changing one bid's status leaves the rest of the storage as it is. *)
LEMMA StatusChanged ==
    ASSUME NEW c \in Storage, NEW o \in Orders, NEW status \in Status
    PROVE  /\ WithStatus(c, o, status) \in Storage
           /\ WithStatus(c, o, status).bids[o].status = status
           /\ \A p \in Orders \ {o} : WithStatus(c, o, status).bids[p] = c.bids[p]
           /\ WithStatus(c, o, status).filled = c.filled
           /\ WithStatus(c, o, status).paid = c.paid
           /\ WithStatus(c, o, status).delivered = c.delivered
           /\ WithStatus(c, o, status).refunds = c.refunds
<1> DEFINE b == [c.bids[o] EXCEPT !.status = status]
           bs == [c.bids EXCEPT ![o] = b]
<1>1. c.bids[o] \in Bid /\ c.bids \in [Orders -> Bid]
  BY DEF Storage
<1>2. b \in Bid /\ b.status = status
  BY <1>1 DEF Bid
<1>3. bs \in [Orders -> Bid] /\ bs[o] = b /\ \A p \in Orders \ {o} : bs[p] = c.bids[p]
  BY <1>1, <1>2
<1>4. WithStatus(c, o, status) = [c EXCEPT !.bids = bs]
  BY DEF WithStatus
<1> HIDE DEF b, bs
<1>5. [c EXCEPT !.bids = bs] \in Storage
  BY <1>3 DEF Storage
<1> QED
  BY <1>2, <1>3, <1>4, <1>5 DEF Storage

(* A filled bid that is reconciled: its fill is still in progress. *)
LEMMA SettledSound ==
    ASSUME IInv, NEW o \in Orders, Active(chain, o), o \in chain.filled
    PROVE  Sound(WithStatus(chain, o, "SETTLED"), fill)
<1> DEFINE d == WithStatus(chain, o, "SETTLED")
<1>1. chain \in Storage /\ fill \subseteq chain.filled
      /\ \A p \in Orders : EndsOnce(chain, fill, p)
  BY DEF IInv, Sound
<1>2. "SETTLED" \in Status
  BY DEF Status
<1>3. /\ d \in Storage /\ d.bids[o].status = "SETTLED"
      /\ \A p \in Orders \ {o} : d.bids[p] = chain.bids[p]
      /\ d.filled = chain.filled /\ d.paid = chain.paid
      /\ d.delivered = chain.delivered /\ d.refunds = chain.refunds
  BY <1>1, <1>2, StatusChanged
<1> HIDE DEF d
<1>4. EndsOnce(chain, fill, o)
  BY <1>1
<1>5. chain.refunds[o] = 0 /\ o \in fill
  BY <1>4 DEF EndsOnce, Active
<1>6. EndsOnce(d, fill, o)
  BY <1>3, <1>5 DEF EndsOnce
<1>7. ASSUME NEW p \in Orders \ {o} PROVE EndsOnce(d, fill, p)
  <2>1. EndsOnce(chain, fill, p)
    BY <1>1
  <2> QED
    BY <1>3, <2>1 DEF EndsOnce
<1>8. Sound(d, fill)
  BY <1>1, <1>3, <1>6, <1>7 DEF Sound
<1> QED
  BY <1>8 DEF d

---------------------------------------------------------------------------
(* One lemma for each step of the escrow that is more than a status.       *)

LEMMA CreateSound ==
    ASSUME IInv, NEW w \in Wallets, NEW price \in Prices, NEW deadline \in Int,
           CreateBid(w, price, deadline)
    PROVE  IInv'
<1> DEFINE o == <<w, chain.nonces[w]>>
           b == [price |-> price, deadline |-> deadline, status |-> "ACTIVE"]
           bs == [chain.bids EXCEPT ![o] = b]
           ns == [chain.nonces EXCEPT ![w] = @ + 1]
           balance == chain.weth + price
           d == [chain EXCEPT !.nonces = ns, !.bids = bs, !.weth = balance,
                              !.allowance = balance]
<1>1. chain \in Storage /\ fill \subseteq chain.filled
      /\ \A p \in Orders : EndsOnce(chain, fill, p)
  BY DEF IInv, Sound
<1>2. o \in Orders /\ chain.bids[o].status = "EMPTY" /\ Becomes(d)
  BY DEF CreateBid, Approved
<1>3. b \in Bid /\ b.status = "ACTIVE"
  BY PricesAssumption DEF Bid, Status
<1>4. /\ chain.bids \in [Orders -> Bid] /\ chain.nonces \in [Wallets -> Int]
      /\ chain.weth \in Int
  BY <1>1 DEF Storage
<1>5. bs \in [Orders -> Bid] /\ bs[o] = b /\ \A p \in Orders \ {o} : bs[p] = chain.bids[p]
  BY <1>2, <1>3, <1>4
<1>6. ns \in [Wallets -> Int] /\ balance \in Int
  BY <1>4, PricesAssumption
<1> HIDE DEF o, b, bs, ns, balance
<1>7. /\ d \in Storage /\ d.bids = bs /\ d.filled = chain.filled
      /\ d.paid = chain.paid /\ d.delivered = chain.delivered /\ d.refunds = chain.refunds
  BY <1>1, <1>5, <1>6 DEF Storage
<1> HIDE DEF d
<1>8. EndsOnce(chain, fill, o)
  BY <1>1, <1>2
<1>9. EndsOnce(d, fill, o)
  BY <1>2, <1>3, <1>5, <1>7, <1>8 DEF EndsOnce
<1>10. ASSUME NEW p \in Orders \ {o} PROVE EndsOnce(d, fill, p)
  <2>1. EndsOnce(chain, fill, p)
    BY <1>1
  <2> QED
    BY <1>5, <1>7, <2>1 DEF EndsOnce
<1>11. Sound(d, fill)
  BY <1>1, <1>7, <1>9, <1>10 DEF Sound
<1> QED
  BY <1>2, <1>11, BecomesSound

LEMMA CancelSound ==
    ASSUME IInv, NEW o \in Orders, CancelBid(o)
    PROVE  IInv'
<1> DEFINE c == WithStatus(chain, o, "CANCELLED")
           balance == chain.weth - chain.bids[o].price
           rs == [c.refunds EXCEPT ![o] = @ + 1]
           d == [c EXCEPT !.cancelled = @ \cup {o}, !.weth = balance,
                          !.allowance = balance, !.refunds = rs]
<1>1. chain \in Storage /\ fill \subseteq chain.filled
      /\ \A p \in Orders : EndsOnce(chain, fill, p)
  BY DEF IInv, Sound
<1>2. Active(chain, o) /\ o \notin chain.filled /\ Becomes(d)
  BY DEF CancelBid, Approved
<1>3. "CANCELLED" \in Status
  BY DEF Status
<1>4. /\ c \in Storage /\ c.bids[o].status = "CANCELLED"
      /\ \A p \in Orders \ {o} : c.bids[p] = chain.bids[p]
      /\ c.filled = chain.filled /\ c.paid = chain.paid
      /\ c.delivered = chain.delivered /\ c.refunds = chain.refunds
  BY <1>1, <1>3, StatusChanged
<1>5. chain.bids[o] \in Bid /\ chain.weth \in Int
  BY <1>1 DEF Storage
<1>6. balance \in Int
  BY <1>5 DEF Bid
<1> HIDE DEF c, balance
<1>7. c.refunds \in [Orders -> Int]
  BY <1>4 DEF Storage
<1>8. /\ rs \in [Orders -> Int] /\ rs[o] = c.refunds[o] + 1
      /\ \A p \in Orders \ {o} : rs[p] = c.refunds[p]
  BY <1>7
<1> HIDE DEF rs
<1>9. /\ d \in Storage /\ d.bids = c.bids /\ d.filled = c.filled
      /\ d.paid = c.paid /\ d.delivered = c.delivered /\ d.refunds = rs
  BY <1>4, <1>6, <1>8 DEF Storage
<1> HIDE DEF d
<1>10. EndsOnce(chain, fill, o)
  BY <1>1
<1>11. o \notin fill /\ o \notin chain.paid /\ chain.refunds[o] = 0
  BY <1>1, <1>2, <1>10 DEF EndsOnce, Active
<1>12. EndsOnce(d, fill, o)
  <2>1. d.refunds[o] = 1 /\ d.bids[o].status = "CANCELLED" /\ o \notin d.paid
    BY <1>4, <1>8, <1>9, <1>11
  <2> QED
    BY <1>11, <2>1 DEF EndsOnce
<1>13. ASSUME NEW p \in Orders \ {o} PROVE EndsOnce(d, fill, p)
  <2>1. EndsOnce(chain, fill, p)
    BY <1>1
  <2> QED
    BY <1>4, <1>8, <1>9, <2>1 DEF EndsOnce
<1>14. Sound(d, fill)
  BY <1>1, <1>4, <1>9, <1>12, <1>13 DEF Sound
<1> QED
  BY <1>2, <1>14, BecomesSound

(* What leaves every bid's status, price and refunds alone. *)
LEMMA PaySound ==
    ASSUME IInv, NEW o \in Orders, Pay(o)
    PROVE  IInv'
<1> DEFINE rest == chain.weth - chain.bids[o].price
           left == chain.allowance - chain.bids[o].price
           d == [chain EXCEPT !.weth = rest, !.allowance = left, !.paid = @ \cup {o}]
<1>1. chain \in Storage /\ fill \subseteq chain.filled
      /\ \A p \in Orders : EndsOnce(chain, fill, p)
  BY DEF IInv, Sound
<1>2. o \in fill /\ Becomes(d)
  BY DEF Pay
<1>3. chain.bids[o] \in Bid /\ chain.weth \in Int /\ chain.allowance \in Int
  BY <1>1 DEF Storage
<1>4. rest \in Int /\ left \in Int
  BY <1>3 DEF Bid
<1> HIDE DEF rest, left
<1>5. /\ d \in Storage /\ d.bids = chain.bids /\ d.filled = chain.filled
      /\ d.paid = chain.paid \cup {o} /\ d.delivered = chain.delivered
      /\ d.refunds = chain.refunds
  BY <1>1, <1>4 DEF Storage
<1> HIDE DEF d
<1>6. ASSUME NEW p \in Orders PROVE EndsOnce(d, fill, p)
  <2>1. EndsOnce(chain, fill, p) /\ EndsOnce(chain, fill, o)
    BY <1>1
  <2>2. o \in chain.filled
    BY <1>1, <1>2
  <2>3. CASE p = o
    BY <1>2, <1>5, <2>1, <2>2, <2>3 DEF EndsOnce
  <2>4. CASE p # o
    BY <1>5, <2>1, <2>4 DEF EndsOnce
  <2> QED
    BY <2>3, <2>4
<1>7. Sound(d, fill)
  BY <1>1, <1>5, <1>6 DEF Sound
<1> QED
  BY <1>2, <1>7, BecomesSound

LEMMA DeliverSound ==
    ASSUME IInv, NEW o \in Orders, Deliver(o)
    PROVE  IInv'
<1> DEFINE d == [chain EXCEPT !.delivered = @ \cup {o}, !.held = @ \cup {o}]
<1>1. chain \in Storage /\ fill \subseteq chain.filled
      /\ \A p \in Orders : EndsOnce(chain, fill, p)
  BY DEF IInv, Sound
<1>2. Becomes(d)
  BY DEF Deliver
<1>3. /\ d \in Storage /\ d.bids = chain.bids /\ d.filled = chain.filled
      /\ d.paid = chain.paid /\ d.delivered = chain.delivered \cup {o}
      /\ d.refunds = chain.refunds
  BY <1>1 DEF Storage
<1> HIDE DEF d
<1>4. ASSUME NEW p \in Orders PROVE EndsOnce(d, fill, p)
  <2>1. EndsOnce(chain, fill, p)
    BY <1>1
  <2>2. /\ p \in chain.delivered => p \in d.delivered
        /\ d.bids[p] = chain.bids[p] /\ d.refunds[p] = chain.refunds[p]
        /\ d.filled = chain.filled /\ d.paid = chain.paid
    BY <1>3
  <2>3. chain.bids[p].status \in Status
    BY <1>1 DEF Storage, Bid
  <2> QED
    BY <2>1, <2>2, <2>3 DEF EndsOnce, Status
<1>5. Sound(d, fill)
  BY <1>1, <1>3, <1>4 DEF Sound
<1> QED
  BY <1>2, <1>5, BecomesSound

LEMMA OutsideSound ==
    ASSUME IInv,
           \/ \E to \in Wallets \cup {Nobody} : TransferPunk(to)
           \/ SendWeth
           \/ \E o \in Orders : MoveItem(o)
    PROVE  IInv'
<1>1. chain \in Storage /\ fill \subseteq chain.filled
      /\ \A p \in Orders : EndsOnce(chain, fill, p)
  BY DEF IInv, Sound
<1>2. ASSUME NEW d \in Storage, Becomes(d),
             d.bids = chain.bids, d.filled = chain.filled, d.paid = chain.paid,
             d.delivered = chain.delivered, d.refunds = chain.refunds
      PROVE  IInv'
  <2>1. \A p \in Orders : EndsOnce(d, fill, p)
    BY <1>1, <1>2 DEF EndsOnce
  <2>2. Sound(d, fill)
    BY <1>1, <1>2, <2>1 DEF Sound
  <2> QED
    BY <1>2, <2>2, BecomesSound
<1>3. ASSUME NEW to \in Wallets \cup {Nobody}, TransferPunk(to) PROVE IInv'
  <2> DEFINE d == [chain EXCEPT !.holder = to]
  <2>1. /\ d \in Storage /\ d.bids = chain.bids /\ d.filled = chain.filled
        /\ d.paid = chain.paid /\ d.delivered = chain.delivered /\ d.refunds = chain.refunds
    BY <1>1 DEF Storage
  <2>2. Becomes(d)
    BY <1>3 DEF TransferPunk
  <2> HIDE DEF d
  <2> QED
    BY <1>2, <2>1, <2>2
<1>4. ASSUME SendWeth PROVE IInv'
  <2> DEFINE g == chain.gifts + 1
             v == chain.weth + 1
             d == [chain EXCEPT !.gifts = g, !.weth = v]
  <2>1. chain.gifts \in Int /\ chain.weth \in Int
    BY <1>1 DEF Storage
  <2>2. g \in Int /\ v \in Int
    BY <2>1
  <2>3. Becomes(d)
    BY <1>4 DEF SendWeth
  <2> HIDE DEF g, v
  <2>4. /\ d \in Storage /\ d.bids = chain.bids /\ d.filled = chain.filled
        /\ d.paid = chain.paid /\ d.delivered = chain.delivered /\ d.refunds = chain.refunds
    BY <1>1, <2>2 DEF Storage
  <2> HIDE DEF d
  <2> QED
    BY <1>2, <2>3, <2>4
<1>5. ASSUME NEW o \in Orders, MoveItem(o) PROVE IInv'
  <2> DEFINE d == [chain EXCEPT !.held = @ \ {o}]
  <2>1. /\ d \in Storage /\ d.bids = chain.bids /\ d.filled = chain.filled
        /\ d.paid = chain.paid /\ d.delivered = chain.delivered /\ d.refunds = chain.refunds
    BY <1>1 DEF Storage
  <2>2. Becomes(d)
    BY <1>5 DEF MoveItem
  <2> HIDE DEF d
  <2> QED
    BY <1>2, <2>1, <2>2
<1> QED
  BY <1>3, <1>4, <1>5

---------------------------------------------------------------------------
(* The steps that begin, advance and end a fill. *)

LEMMA BeginSound ==
    ASSUME IInv, NEW orders \in SUBSET Orders, BeginFill(orders)
    PROVE  IInv'
<1> DEFINE d == [chain EXCEPT !.filled = @ \cup orders]
<1>1. chain \in Storage /\ \A p \in Orders : EndsOnce(chain, fill, p)
  BY DEF IInv, Sound
<1>2. /\ fill = {} /\ chain' = d /\ fill' = orders /\ settled' = settled /\ now' = now
      /\ \A o \in orders : chain.bids[o].status = "ACTIVE"
  BY DEF BeginFill, Running, ZoneCheck
<1>3. /\ d \in Storage /\ d.bids = chain.bids /\ d.filled = chain.filled \cup orders
      /\ d.paid = chain.paid /\ d.delivered = chain.delivered /\ d.refunds = chain.refunds
  BY <1>1 DEF Storage
<1> HIDE DEF d
<1>4. ASSUME NEW p \in Orders PROVE EndsOnce(d, orders, p)
  <2>1. EndsOnce(chain, {}, p)
    BY <1>1, <1>2
  <2>2. p \in orders => d.bids[p].status = "ACTIVE"
    BY <1>2, <1>3
  <2> QED
    BY <1>3, <2>1, <2>2 DEF EndsOnce
<1>5. Sound(d, orders)
  BY <1>3, <1>4 DEF Sound
<1>6. now \in Int /\ Sound(settled, {})
  BY DEF IInv
<1>7. Sound(chain', fill') /\ now' \in Int /\ Sound(settled', {})
  BY <1>2, <1>5, <1>6
<1> QED
  BY <1>7 DEF IInv, Sound, EndsOnce

LEMMA ValidateSound ==
    ASSUME IInv, NEW o \in Orders, ValidateOrder(o)
    PROVE  IInv'
<1> DEFINE d == WithStatus(chain, o, "SETTLED")
           g == fill \ {o}
<1>1. chain \in Storage /\ fill \subseteq chain.filled
      /\ \A p \in Orders : EndsOnce(chain, fill, p)
  BY DEF IInv, Sound
<1>2. /\ o \in fill /\ fill \subseteq chain.paid \cap chain.delivered
      /\ chain.bids[o].status = "ACTIVE"
      /\ chain' = d /\ fill' = g /\ now' = now
      /\ settled' = IF g = {} THEN d ELSE settled
  BY DEF ValidateOrder, ZoneCheck
<1>3. "SETTLED" \in Status
  BY DEF Status
<1>4. /\ d \in Storage /\ d.bids[o].status = "SETTLED"
      /\ \A p \in Orders \ {o} : d.bids[p] = chain.bids[p]
      /\ d.filled = chain.filled /\ d.paid = chain.paid
      /\ d.delivered = chain.delivered /\ d.refunds = chain.refunds
  BY <1>1, <1>3, StatusChanged
<1> HIDE DEF d
<1>5. EndsOnce(d, g, o)
  <2>1. EndsOnce(chain, fill, o)
    BY <1>1
  <2>2. o \in chain.paid \cap chain.delivered
    BY <1>2
  <2> QED
    BY <1>2, <1>4, <2>1, <2>2 DEF EndsOnce
<1>6. ASSUME NEW p \in Orders \ {o} PROVE EndsOnce(d, g, p)
  <2>1. EndsOnce(chain, fill, p) /\ (p \in g <=> p \in fill)
    BY <1>1
  <2> HIDE DEF g
  <2> QED
    BY <1>4, <2>1 DEF EndsOnce
<1>7. g \subseteq d.filled
  BY <1>1, <1>4
<1>8. Sound(d, g)
  BY <1>4, <1>5, <1>6, <1>7 DEF Sound
<1>9. now \in Int /\ Sound(settled, {})
  BY DEF IInv
<1> HIDE DEF g
<1>10. Sound(settled', {})
  BY <1>2, <1>8, <1>9
<1>11. Sound(chain', fill') /\ now' \in Int
  BY <1>2, <1>8, <1>9
<1> QED
  BY <1>10, <1>11 DEF IInv, Sound, EndsOnce

LEMMA RevertSound == ASSUME IInv, Revert PROVE IInv'
<1>1. /\ chain' = settled /\ fill' = {} /\ settled' = settled /\ now' = now
  BY DEF Revert
<1>2. Sound(settled, {}) /\ now \in Int
  BY DEF IInv
<1>3. Sound(chain', fill') /\ Sound(settled', {}) /\ now' \in Int
  BY <1>1, <1>2
<1> QED
  BY <1>3 DEF IInv, Sound, EndsOnce

LEMMA StepSound == IInv /\ [Next]_vars => IInv'
<1> SUFFICES ASSUME IInv, [Next]_vars PROVE IInv'
  OBVIOUS
<1>1. now \in Int /\ Sound(chain, fill) /\ Sound(settled, {})
  BY DEF IInv
<1>2. ASSUME NEW w \in Wallets, NEW p \in Prices, NEW d \in 1 .. now + MaxDuration,
             CreateBid(w, p, d)
      PROVE  IInv'
  <2>1. d \in Int
    OBVIOUS
  <2> QED
    BY <1>2, <2>1, CreateSound
<1>3. ASSUME NEW o \in Orders, SettleBid(o) \/ CancelFilled(o) PROVE IInv'
  <2>1. /\ Active(chain, o) /\ o \in chain.filled
        /\ Becomes(WithStatus(chain, o, "SETTLED"))
    BY <1>3 DEF SettleBid, CancelFilled, Active
  <2> QED
    BY <2>1, SettledSound, BecomesSound
<1>4. ASSUME NEW o \in Orders,
             CancelBid(o) \/ MoveItem(o) \/ Pay(o) \/ Deliver(o) \/ ValidateOrder(o)
      PROVE  IInv'
  BY <1>4, CancelSound, OutsideSound, PaySound, DeliverSound, ValidateSound
<1>5. ASSUME SendWeth \/ \E to \in Wallets \cup {Nobody} : TransferPunk(to) PROVE IInv'
  BY <1>5, OutsideSound
<1>6. ASSUME NEW orders \in SUBSET Orders \ {{}}, BeginFill(orders) PROVE IInv'
  BY <1>6, BeginSound
<1>7. CASE Revert
  BY <1>7, RevertSound
<1>8. CASE Tick
  <2>1. chain' = chain /\ settled' = settled /\ fill' = fill /\ now' \in Int
    BY <1>1, <1>8 DEF Tick
  <2> QED
    BY <1>1, <2>1 DEF IInv, Sound, EndsOnce
<1>9. CASE UNCHANGED vars
  BY <1>1, <1>9 DEF vars, IInv, Sound, EndsOnce
<1> QED
  BY <1>2, <1>3, <1>4, <1>5, <1>6, <1>7, <1>8, <1>9 DEF Next

(* Whatever the funders, the prices and the number of bids: a bid is paid  *)
(* against delivery, or refunded to its funder, never both, never twice.   *)
THEOREM BidsEndOnceAlways == Spec => []BidsEndOnce
<1>1. IInv => BidsEndOnce
  BY DEF IInv, Sound, BidsEndOnce
<1> QED
  BY <1>1, InitSound, StepSound, PTL DEF Spec

---------------------------------------------------------------------------
(* The pool.  A bid of the fill in progress is owed until it is paid, also *)
(* when a callback has reconciled it already: what the storage owes with   *)
(* the fill is at least what its open bids owe, and exactly what the pool  *)
(* holds beyond the gifts.                                                 *)

Due(c, filling, o) == o \notin c.paid /\ (c.bids[o].status = "ACTIVE" \/ o \in filling)
Debt(c, filling) == [o \in Orders |-> IF Due(c, filling, o) THEN c.bids[o].price ELSE 0]
Total(c, filling) == SumFunctionOnSet(Debt(c, filling), Orders)
Books(c, filling) ==
    /\ c.weth = Total(c, filling) + c.gifts
    /\ Total(c, filling) <= c.allowance
    /\ c.allowance <= c.weth
PoolInv ==
    /\ Books(chain, fill)
    /\ Books(settled, {})

LEMMA OrdersFinite == IsFiniteSet(Orders)
<1>1. IsFiniteSet(0 .. MaxBids - 1)
  BY MaxBidsAssumption, FS_Interval
<1> QED
  BY <1>1, WalletsAssumption, FS_Product DEF Orders

LEMMA DebtType ==
    ASSUME NEW c \in Storage, NEW filling
    PROVE  /\ \A o \in Orders : Debt(c, filling)[o] \in Nat
           /\ Total(c, filling) \in Nat
<1>1. \A o \in Orders : c.bids[o].price \in Nat
  BY DEF Storage, Bid
<1>2. \A o \in Orders : Debt(c, filling)[o] \in Nat
  BY <1>1 DEF Debt
<1>3. Total(c, filling) \in Nat
  BY <1>2, OrdersFinite, SumType DEF Total
<1> QED
  BY <1>2, <1>3

(* Nothing is owed more or less. *)
LEMMA DebtSame ==
    ASSUME NEW c, NEW d, NEW filling, NEW filling2,
           \A o \in Orders : Debt(d, filling2)[o] = Debt(c, filling)[o]
    PROVE  Total(d, filling2) = Total(c, filling)
  BY OrdersFinite, SumSame DEF Total

(* One bid is owed that was not, or the other way round. *)
LEMMA DebtChanges ==
    ASSUME NEW c \in Storage, NEW d \in Storage, NEW filling, NEW e \in Orders,
           \A o \in Orders \ {e} : Debt(d, filling)[o] = Debt(c, filling)[o]
    PROVE  Total(d, filling) = Total(c, filling) + (Debt(d, filling)[e] - Debt(c, filling)[e])
<1>1. \A o \in Orders : Debt(c, filling)[o] \in Int /\ Debt(d, filling)[o] \in Int
  BY DebtType
<1> QED
  BY <1>1, OrdersFinite, SumChanges DEF Total

(* The pool with every bid due in it is enough for the open ones. *)
LEMMA PoolSuffices == IInv /\ PoolInv => BidsAreBacked
<1> SUFFICES ASSUME IInv, PoolInv PROVE BidsAreBacked
  OBVIOUS
<1>1. chain \in Storage /\ \A o \in Orders : EndsOnce(chain, fill, o)
  BY DEF IInv, Sound
<1> DEFINE f == [o \in Orders |-> IF Owing(chain, o) THEN chain.bids[o].price ELSE 0]
<1>2. \A o \in Orders : chain.bids[o].price \in Nat
  BY <1>1 DEF Storage, Bid
<1>3. \A o \in Orders : f[o] \in Int /\ Debt(chain, fill)[o] \in Int /\ f[o] <= Debt(chain, fill)[o]
  BY <1>2 DEF Owing, Debt, Due
<1>4. Owed(chain) <= Total(chain, fill)
  <2> HIDE DEF f
  <2>1. SumFunctionOnSet(f, Orders) <= SumFunctionOnSet(Debt(chain, fill), Orders)
    BY <1>3, OrdersFinite, SumLess
  <2> QED
    BY <2>1 DEF Owed, Total, f
<1>5. Owed(chain) \in Int /\ Total(chain, fill) \in Int
  <2>1. SumFunctionOnSet(f, Orders) \in Int
    <3> HIDE DEF f
    <3> QED
      BY <1>3, OrdersFinite, SumType
  <2> QED
    BY <1>1, <2>1, DebtType DEF Owed
<1>6. ASSUME ~Running PROVE Owed(chain) = Total(chain, fill)
  <2>1. \A o \in Orders : f[o] = Debt(chain, fill)[o]
    BY <1>6 DEF Running, Owing, Debt, Due
  <2> HIDE DEF f
  <2>2. SumFunctionOnSet(f, Orders) = SumFunctionOnSet(Debt(chain, fill), Orders)
    BY <2>1, OrdersFinite, SumSame
  <2> QED
    BY <2>2 DEF Owed, Total, f
<1>7. chain.allowance \in Int
  BY <1>1 DEF Storage
<1> QED
  BY <1>4, <1>5, <1>6, <1>7 DEF PoolInv, Books, BidsAreBacked

LEMMA InitPool == Init => PoolInv
<1> SUFFICES ASSUME Init PROVE PoolInv
  OBVIOUS
<1>1. PICK w \in Wallets :
        chain = [holder |-> w, bids |-> [o \in Orders |-> NoBid],
                 nonces |-> [v \in Wallets |-> 0], weth |-> 0, allowance |-> 0,
                 filled |-> {}, cancelled |-> {}, held |-> {}, gifts |-> 0,
                 paid |-> {}, delivered |-> {}, refunds |-> [o \in Orders |-> 0]]
  BY DEF Init
<1>2. chain.weth = 0 /\ chain.allowance = 0 /\ chain.gifts = 0
      /\ \A o \in Orders : chain.bids[o].price = 0
  BY <1>1 DEF NoBid
<1>3. \A o \in Orders : Debt(chain, {})[o] = 0
  BY <1>2 DEF Debt
<1>4. Total(chain, {}) = 0
  BY <1>3, OrdersFinite, SumZero DEF Total
<1>5. Books(chain, {})
  BY <1>2, <1>4 DEF Books
<1>6. settled = chain /\ fill = {}
  BY DEF Init
<1> QED
  BY <1>5, <1>6 DEF PoolInv

LEMMA BecomesPool ==
    ASSUME PoolInv, NEW c, Becomes(c), Books(c, fill)
    PROVE  PoolInv'
<1>1. /\ fill' = fill /\ chain' = c
      /\ settled' = IF Running THEN settled ELSE c
  BY DEF Becomes
<1>2. ASSUME ~Running PROVE fill = {}
  BY <1>2 DEF Running
<1>3. Books(chain', fill') /\ Books(settled', {})
  BY <1>1, <1>2 DEF PoolInv
<1> QED
  BY <1>3 DEF PoolInv, Books, Total, Debt, Due

(* What leaves bids, payments and the pool alone. *)
LEMMA OthersPool ==
    ASSUME PoolInv, NEW d, Becomes(d),
           d.weth = chain.weth, d.allowance = chain.allowance, d.gifts = chain.gifts,
           \A o \in Orders : Debt(d, fill)[o] = Debt(chain, fill)[o]
    PROVE  PoolInv'
<1>1. Total(d, fill) = Total(chain, fill)
  BY DebtSame
<1>2. Books(d, fill)
  BY <1>1 DEF PoolInv, Books
<1> QED
  BY <1>2, BecomesPool

LEMMA CreatePool ==
    ASSUME IInv, PoolInv, NEW w \in Wallets, NEW price \in Prices, NEW deadline \in Int,
           CreateBid(w, price, deadline)
    PROVE  PoolInv'
<1> DEFINE o == <<w, chain.nonces[w]>>
           b == [price |-> price, deadline |-> deadline, status |-> "ACTIVE"]
           bs == [chain.bids EXCEPT ![o] = b]
           ns == [chain.nonces EXCEPT ![w] = @ + 1]
           balance == chain.weth + price
           d == [chain EXCEPT !.nonces = ns, !.bids = bs, !.weth = balance,
                              !.allowance = balance]
<1>1. chain \in Storage /\ fill \subseteq chain.filled /\ EndsOnce(chain, fill, o)
  BY DEF IInv, Sound, CreateBid
<1>2. o \in Orders /\ chain.bids[o].status = "EMPTY" /\ Becomes(d)
  BY DEF CreateBid, Approved
<1>3. b \in Bid /\ b.status = "ACTIVE" /\ b.price = price /\ price \in Nat
  BY PricesAssumption DEF Bid, Status
<1>4. /\ chain.bids \in [Orders -> Bid] /\ chain.nonces \in [Wallets -> Int]
      /\ chain.weth \in Int /\ chain.gifts \in Int
  BY <1>1 DEF Storage
<1>5. bs \in [Orders -> Bid] /\ bs[o] = b /\ \A p \in Orders \ {o} : bs[p] = chain.bids[p]
  BY <1>2, <1>3, <1>4
<1>6. ns \in [Wallets -> Int] /\ balance \in Int
  BY <1>4, PricesAssumption
<1>7. o \notin chain.paid /\ o \notin chain.filled
  BY <1>1, <1>2 DEF EndsOnce
<1> HIDE DEF o, b, bs, ns
<1>8. balance = chain.weth + price
  OBVIOUS
<1> HIDE DEF balance
<1>9. /\ d \in Storage /\ d.bids = bs /\ d.paid = chain.paid /\ d.gifts = chain.gifts
      /\ d.weth = balance /\ d.allowance = balance
  BY <1>1, <1>5, <1>6 DEF Storage
<1> HIDE DEF d
<1>10. Debt(chain, fill)[o] = 0 /\ Debt(d, fill)[o] = price
  BY <1>1, <1>2, <1>3, <1>5, <1>7, <1>9 DEF Debt, Due
<1>11. \A p \in Orders \ {o} : Debt(d, fill)[p] = Debt(chain, fill)[p]
  BY <1>5, <1>9 DEF Debt, Due
<1>12. Total(d, fill) = Total(chain, fill) + (price - 0)
  BY <1>1, <1>2, <1>9, <1>10, <1>11, DebtChanges
<1>13. Total(chain, fill) \in Nat
  BY <1>1, DebtType
<1>14. chain.weth = Total(chain, fill) + chain.gifts /\ Total(chain, fill) <= chain.weth
  BY <1>1, <1>4, <1>13 DEF PoolInv, Books, Storage
<1>15. Books(d, fill)
  BY <1>3, <1>4, <1>8, <1>9, <1>12, <1>13, <1>14 DEF Books
<1> QED
  BY <1>2, <1>15, BecomesPool

LEMMA CancelPool ==
    ASSUME IInv, PoolInv, NEW o \in Orders, CancelBid(o)
    PROVE  PoolInv'
<1> DEFINE c == WithStatus(chain, o, "CANCELLED")
           balance == chain.weth - chain.bids[o].price
           rs == [c.refunds EXCEPT ![o] = @ + 1]
           d == [c EXCEPT !.cancelled = @ \cup {o}, !.weth = balance,
                          !.allowance = balance, !.refunds = rs]
<1>1. chain \in Storage /\ fill \subseteq chain.filled /\ EndsOnce(chain, fill, o)
  BY DEF IInv, Sound
<1>2. chain.bids[o].status = "ACTIVE" /\ o \notin chain.filled /\ Becomes(d)
  BY DEF CancelBid, Approved, Active
<1>3. "CANCELLED" \in Status
  BY DEF Status
<1>4. /\ c \in Storage /\ c.bids[o].status = "CANCELLED"
      /\ \A p \in Orders \ {o} : c.bids[p] = chain.bids[p]
      /\ c.paid = chain.paid
  BY <1>1, <1>3, StatusChanged
<1>5. c.gifts = chain.gifts
  BY <1>1 DEF WithStatus, Storage
<1>6. /\ chain.bids[o].price \in Nat /\ chain.weth \in Int /\ chain.gifts \in Int
  BY <1>1 DEF Storage, Bid
<1>7. balance = chain.weth - chain.bids[o].price /\ balance \in Int
  BY <1>6
<1> HIDE DEF c, balance
<1>8. rs \in [Orders -> Int]
  BY <1>4 DEF Storage
<1> HIDE DEF rs
<1>9. /\ d \in Storage /\ d.bids = c.bids /\ d.paid = c.paid /\ d.gifts = c.gifts
      /\ d.weth = balance /\ d.allowance = balance
  BY <1>4, <1>7, <1>8 DEF Storage
<1> HIDE DEF d
<1>10. o \notin fill /\ o \notin chain.paid
  BY <1>1, <1>2 DEF EndsOnce
<1>11. Debt(chain, fill)[o] = chain.bids[o].price /\ Debt(d, fill)[o] = 0
  BY <1>2, <1>4, <1>9, <1>10 DEF Debt, Due
<1>12. \A p \in Orders \ {o} : Debt(d, fill)[p] = Debt(chain, fill)[p]
  BY <1>4, <1>9 DEF Debt, Due
<1>13. Total(d, fill) = Total(chain, fill) + (0 - chain.bids[o].price)
  BY <1>1, <1>9, <1>11, <1>12, DebtChanges
<1>14. Total(chain, fill) \in Nat
  BY <1>1, DebtType
<1>15. chain.weth = Total(chain, fill) + chain.gifts /\ Total(chain, fill) <= chain.weth
  BY <1>1, <1>6, <1>14 DEF PoolInv, Books, Storage
<1>16. Books(d, fill)
  BY <1>5, <1>6, <1>7, <1>9, <1>13, <1>14, <1>15 DEF Books
<1> QED
  BY <1>2, <1>16, BecomesPool

LEMMA PayPool ==
    ASSUME IInv, PoolInv, NEW o \in Orders, Pay(o)
    PROVE  PoolInv'
<1> DEFINE rest == chain.weth - chain.bids[o].price
           left == chain.allowance - chain.bids[o].price
           d == [chain EXCEPT !.weth = rest, !.allowance = left, !.paid = @ \cup {o}]
<1>1. chain \in Storage
  BY DEF IInv, Sound
<1>2. o \in fill /\ o \notin chain.paid /\ Becomes(d)
  BY DEF Pay
<1>3. /\ chain.bids[o].price \in Nat /\ chain.weth \in Int /\ chain.allowance \in Int
      /\ chain.gifts \in Int
  BY <1>1 DEF Storage, Bid
<1>4. /\ rest = chain.weth - chain.bids[o].price /\ rest \in Int
      /\ left = chain.allowance - chain.bids[o].price /\ left \in Int
  BY <1>3
<1> HIDE DEF rest, left
<1>5. /\ d \in Storage /\ d.bids = chain.bids /\ d.gifts = chain.gifts
      /\ d.paid = chain.paid \cup {o} /\ d.weth = rest /\ d.allowance = left
  BY <1>1, <1>4 DEF Storage
<1> HIDE DEF d
<1>6. Debt(chain, fill)[o] = chain.bids[o].price /\ Debt(d, fill)[o] = 0
  BY <1>2, <1>5 DEF Debt, Due
<1>7. \A p \in Orders \ {o} : Debt(d, fill)[p] = Debt(chain, fill)[p]
  BY <1>5 DEF Debt, Due
<1>8. Total(d, fill) = Total(chain, fill) + (0 - chain.bids[o].price)
  BY <1>1, <1>5, <1>6, <1>7, DebtChanges
<1>9. Total(chain, fill) \in Nat
  BY <1>1, DebtType
<1>10. Books(d, fill)
  BY <1>3, <1>4, <1>5, <1>8, <1>9 DEF PoolInv, Books
<1> QED
  BY <1>2, <1>10, BecomesPool

(* A bid reconciled inside its fill is due until the fill pays it. *)
LEMMA SettlePool ==
    ASSUME IInv, PoolInv, NEW o \in Orders, Active(chain, o), o \in chain.filled,
           Becomes(WithStatus(chain, o, "SETTLED"))
    PROVE  PoolInv'
<1> DEFINE d == WithStatus(chain, o, "SETTLED")
<1>1. chain \in Storage /\ EndsOnce(chain, fill, o)
  BY DEF IInv, Sound
<1>2. "SETTLED" \in Status
  BY DEF Status
<1>3. /\ d \in Storage /\ d.bids[o].status = "SETTLED"
      /\ \A p \in Orders \ {o} : d.bids[p] = chain.bids[p]
      /\ d.paid = chain.paid
  BY <1>1, <1>2, StatusChanged
<1>4. /\ d.weth = chain.weth /\ d.allowance = chain.allowance /\ d.gifts = chain.gifts
      /\ d.bids[o].price = chain.bids[o].price
  BY <1>1 DEF WithStatus, Storage, Bid
<1>5. Becomes(d)
  OBVIOUS
<1> HIDE DEF d
<1>6. o \in fill
  BY <1>1 DEF EndsOnce, Active
<1>7. \A p \in Orders : Debt(d, fill)[p] = Debt(chain, fill)[p]
  BY <1>3, <1>4, <1>6 DEF Debt, Due
<1> QED
  BY <1>4, <1>5, <1>7, OthersPool

LEMMA OutsidePool ==
    ASSUME IInv, PoolInv,
           \/ \E to \in Wallets \cup {Nobody} : TransferPunk(to)
           \/ \E o \in Orders : MoveItem(o) \/ Deliver(o)
    PROVE  PoolInv'
<1>1. chain \in Storage
  BY DEF IInv, Sound
<1>2. ASSUME NEW d, Becomes(d), d.bids = chain.bids, d.paid = chain.paid,
             d.weth = chain.weth, d.allowance = chain.allowance, d.gifts = chain.gifts
      PROVE  PoolInv'
  BY <1>2, OthersPool DEF Debt, Due
<1>3. ASSUME NEW to \in Wallets \cup {Nobody}, TransferPunk(to) PROVE PoolInv'
  BY <1>1, <1>2, <1>3 DEF TransferPunk, Storage
<1>4. ASSUME NEW o \in Orders, MoveItem(o) PROVE PoolInv'
  BY <1>1, <1>2, <1>4 DEF MoveItem, Storage
<1>5. ASSUME NEW o \in Orders, Deliver(o) PROVE PoolInv'
  BY <1>1, <1>2, <1>5 DEF Deliver, Storage
<1> QED
  BY <1>3, <1>4, <1>5

LEMMA GiftPool == ASSUME IInv, PoolInv, SendWeth PROVE PoolInv'
<1> DEFINE d == [chain EXCEPT !.gifts = @ + 1, !.weth = @ + 1]
<1>1. chain \in Storage
  BY DEF IInv, Sound
<1>2. Becomes(d)
  BY DEF SendWeth
<1>3. /\ d.bids = chain.bids /\ d.paid = chain.paid /\ d.allowance = chain.allowance
      /\ d.weth = chain.weth + 1 /\ d.gifts = chain.gifts + 1
  BY <1>1 DEF Storage
<1> HIDE DEF d
<1>4. Total(d, fill) = Total(chain, fill)
  BY <1>3, DebtSame DEF Debt, Due
<1>5. chain.weth \in Int /\ chain.gifts \in Int /\ chain.allowance \in Int
      /\ Total(chain, fill) \in Nat
  BY <1>1, DebtType DEF Storage
<1>6. Books(d, fill)
  BY <1>3, <1>4, <1>5 DEF PoolInv, Books
<1> QED
  BY <1>2, <1>6, BecomesPool

LEMMA BeginPool ==
    ASSUME IInv, PoolInv, NEW orders \in SUBSET Orders, BeginFill(orders)
    PROVE  PoolInv'
<1> DEFINE d == [chain EXCEPT !.filled = @ \cup orders]
<1>1. chain \in Storage /\ \A p \in Orders : EndsOnce(chain, fill, p)
  BY DEF IInv, Sound
<1>2. /\ fill = {} /\ chain' = d /\ fill' = orders /\ settled' = settled
      /\ \A o \in orders : chain.bids[o].status = "ACTIVE"
  BY DEF BeginFill, Running, ZoneCheck
<1>3. /\ d.bids = chain.bids /\ d.paid = chain.paid /\ d.gifts = chain.gifts
      /\ d.weth = chain.weth /\ d.allowance = chain.allowance
  BY <1>1 DEF Storage
<1> HIDE DEF d
<1>4. \A p \in Orders : Debt(d, orders)[p] = Debt(chain, fill)[p]
  BY <1>2, <1>3 DEF Debt, Due
<1>5. Total(d, orders) = Total(chain, fill)
  BY <1>4, DebtSame
<1>6. Books(d, orders)
  BY <1>3, <1>5 DEF PoolInv, Books
<1>7. Books(chain', fill') /\ Books(settled', {})
  BY <1>2, <1>6 DEF PoolInv
<1> QED
  BY <1>7 DEF PoolInv, Books, Total, Debt, Due

LEMMA ValidatePool ==
    ASSUME IInv, PoolInv, NEW o \in Orders, ValidateOrder(o)
    PROVE  PoolInv'
<1> DEFINE d == WithStatus(chain, o, "SETTLED")
           g == fill \ {o}
<1>1. chain \in Storage
  BY DEF IInv, Sound
<1>2. /\ o \in fill /\ fill \subseteq chain.paid
      /\ chain' = d /\ fill' = g
      /\ settled' = IF g = {} THEN d ELSE settled
  BY DEF ValidateOrder
<1>3. "SETTLED" \in Status
  BY DEF Status
<1>4. /\ d.bids[o].status = "SETTLED"
      /\ \A p \in Orders \ {o} : d.bids[p] = chain.bids[p]
      /\ d.paid = chain.paid
  BY <1>1, <1>3, StatusChanged
<1>5. d.weth = chain.weth /\ d.allowance = chain.allowance /\ d.gifts = chain.gifts
  BY <1>1 DEF WithStatus, Storage
<1> HIDE DEF d
<1>6. \A p \in Orders : Debt(d, g)[p] = Debt(chain, fill)[p]
  BY <1>2, <1>4 DEF Debt, Due
<1> HIDE DEF g
<1>7. Total(d, g) = Total(chain, fill)
  BY <1>6, DebtSame
<1>8. Books(d, g)
  BY <1>5, <1>7 DEF PoolInv, Books
<1>9. Books(chain', fill') /\ Books(settled', {})
  BY <1>2, <1>8 DEF PoolInv
<1> QED
  BY <1>9 DEF PoolInv, Books, Total, Debt, Due

LEMMA StepPool == IInv /\ PoolInv /\ [Next]_vars => PoolInv'
<1> SUFFICES ASSUME IInv, PoolInv, [Next]_vars PROVE PoolInv'
  OBVIOUS
<1>1. ASSUME NEW w \in Wallets, NEW p \in Prices, NEW d \in 1 .. now + MaxDuration,
             CreateBid(w, p, d)
      PROVE  PoolInv'
  <2>1. d \in Int
    OBVIOUS
  <2> QED
    BY <1>1, <2>1, CreatePool
<1>2. ASSUME NEW o \in Orders, SettleBid(o) \/ CancelFilled(o) PROVE PoolInv'
  <2>1. /\ Active(chain, o) /\ o \in chain.filled
        /\ Becomes(WithStatus(chain, o, "SETTLED"))
    BY <1>2 DEF SettleBid, CancelFilled, Active
  <2> QED
    BY <2>1, SettlePool
<1>3. ASSUME NEW o \in Orders,
             CancelBid(o) \/ MoveItem(o) \/ Pay(o) \/ Deliver(o) \/ ValidateOrder(o)
      PROVE  PoolInv'
  BY <1>3, CancelPool, OutsidePool, PayPool, ValidatePool
<1>4. ASSUME \E to \in Wallets \cup {Nobody} : TransferPunk(to) PROVE PoolInv'
  BY <1>4, OutsidePool
<1>5. ASSUME NEW orders \in SUBSET Orders \ {{}}, BeginFill(orders) PROVE PoolInv'
  BY <1>5, BeginPool
<1>6. CASE SendWeth
  BY <1>6, GiftPool
<1>7. CASE Revert
  <2>1. chain' = settled /\ fill' = {} /\ settled' = settled
    BY <1>7 DEF Revert
  <2>2. Books(chain', fill') /\ Books(settled', {})
    BY <2>1 DEF PoolInv
  <2> QED
    BY <2>2 DEF PoolInv, Books, Total, Debt, Due
<1>8. CASE Tick \/ UNCHANGED vars
  <2>1. chain' = chain /\ settled' = settled /\ fill' = fill
    BY <1>8 DEF Tick, vars
  <2>2. Books(chain', fill') /\ Books(settled', {})
    BY <2>1 DEF PoolInv
  <2> QED
    BY <2>2 DEF PoolInv, Books, Total, Debt, Due
<1> QED
  BY <1>1, <1>2, <1>3, <1>4, <1>5, <1>6, <1>7, <1>8 DEF Next

(* The balance covers the allowance and the allowance the sum of the       *)
(* prices of all open bids, inside a fill too.  A bid that an open fill    *)
(* reconciled early is no part of the sum: that fill cannot succeed.       *)
(* Outside a fill the balance is that sum and the gifts.                   *)
THEOREM OnePoolBacksAll == Spec => []BidsAreBacked
  BY InitSound, StepSound, InitPool, StepPool, PoolSuffices, PTL DEF Spec
=============================================================================
