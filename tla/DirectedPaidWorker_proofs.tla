----------------------- MODULE DirectedPaidWorker_proofs -----------------------
(***************************************************************************)
(* The vault, for every set of wallets, every set of prices and fees and   *)
(* every bound: it is solvent, nobody's money becomes anybody else's, its  *)
(* running total is the sum of the refunds, and it implements              *)
(* FunderEscrow.                                                           *)
(*                                                                         *)
(* The worker over that vault, for any number of invocations, reviews,     *)
(* free mints and faults: what was broadcast was saved first, the shared   *)
(* signer never uses a nonce twice, the journals say of the chain what is  *)
(* so, and an authorization whose Punk changed hands is never sent.        *)
(***************************************************************************)
EXTENDS DirectedPaidWorker, SumTheorems, TLAPS

---------------------------------------------------------------------------
(* The vault: its inductive invariant. *)

\* An active mission has a funder to give the escrow back to.
ActiveHasFunder ==
    mission.status = "ACTIVE" =>
        mission.authorizingOwner \in Accounts /\ MissionEscrow(mission) > 0

\* The inductive invariant.  Solvent needs the types; FunderMadeWhole needs
\* ActiveHasFunder, or cancelling could credit nobody.
Inv == TypeOK /\ ActiveHasFunder /\ Solvent /\ FunderMadeWhole

\* The vault starts empty.
LEMMA InitInv == Init => Inv
BY AmountsAssumption
   DEF Init, Inv, TypeOK, Mission, NoMission, Status, Nothing, ActiveHasFunder,
       Solvent, MissionEscrow, FunderMadeWhole, HeldFor

\* A funded mission: what was paid in is what is reserved.
LEMMA AuthorizeInv ==
    ASSUME Inv, NEW a \in Accounts, NEW e \in Accounts, NEW p \in Prices,
           NEW f \in Fees, NEW g \in Nat, NEW d \in Int,
           Authorize(a, e, p, f, g, d)
    PROVE  Inv'
<1> USE DEF Authorize, Quotable, environment
<1>0. p \in Nat \ {0} /\ f \in Nat
  BY AmountsAssumption
<1>1. d \in Nat
  BY DEF Inv, TypeOK
<1>2. TypeOK'
  BY <1>0, <1>1, SMTT(30) DEF Inv, TypeOK, Mission, Status
<1>3. ActiveHasFunder'
  BY <1>0 DEF ActiveHasFunder, MissionEscrow
<1>4. Solvent'
  BY <1>0 DEF Inv, TypeOK, Mission, Solvent, MissionEscrow
<1>5. FunderMadeWhole'
  BY <1>0, SMTT(30) DEF Inv, TypeOK, Mission, FunderMadeWhole, HeldFor
<1> QED BY <1>2, <1>3, <1>4, <1>5 DEF Inv

\* An executed mission: what was reserved is what was spent.
LEMMA ExecuteInv ==
    ASSUME Inv, NEW a \in Accounts, NEW g \in Nat, Execute(a, g)
    PROVE  Inv'
<1> USE DEF Execute, Running, environment
<1>t. /\ \A b \in Accounts :
            paidIn[b] \in Nat /\ spent[b] \in Nat /\ paidOut[b] \in Nat
            /\ refundable[b] \in Nat
      /\ mission.price \in Nat /\ mission.fee \in Nat
  BY DEF Inv, TypeOK, Mission
<1>1. TypeOK'
  <2>1. mission' \in Mission
    BY DEF Inv, TypeOK, Mission, Status
  <2>2. balance' \in Nat
    BY <1>t DEF Inv, TypeOK
  <2>3. spent' \in [Accounts -> Nat]
    BY <1>t DEF Inv, TypeOK, ActiveHasFunder
  <2> QED BY <2>1, <2>2, <2>3 DEF Inv, TypeOK
<1>2. ActiveHasFunder'
  BY DEF Inv, TypeOK, Mission, ActiveHasFunder
<1>3. Solvent'
  BY DEF Inv, TypeOK, Mission, Solvent, MissionEscrow
<1>4. ASSUME NEW b \in Accounts
      PROVE  (paidIn[b] = spent[b] + paidOut[b] + HeldFor(b))'
  <2> USE DEF HeldFor
  <2>1. /\ paidIn' = paidIn /\ paidOut' = paidOut /\ refundable' = refundable
        /\ mission'.status = "COMPLETED"
    BY DEF Inv, TypeOK, Mission
  <2>2. CASE b = mission.authorizingOwner
    <3>1. spent'[b] = spent[b] + mission.price + mission.fee
      BY <2>2 DEF Inv, TypeOK
    <3>2. HeldFor(b) = refundable[b] + (mission.price + mission.fee)
      BY <2>2
    <3>3. HeldFor(b)' = refundable[b]
      BY <2>1, <1>t
    <3> QED BY <1>t, <2>1, <3>1, <3>2, <3>3 DEF Inv, FunderMadeWhole
  <2>3. CASE b # mission.authorizingOwner
    <3>1. spent'[b] = spent[b]
      BY <2>3 DEF Inv, TypeOK
    <3> QED BY <2>1, <2>3, <3>1 DEF Inv, FunderMadeWhole
  <2> QED BY <2>2, <2>3
<1>5. FunderMadeWhole'
  <2> HIDE DEF Execute, Running, environment
  <2> QED BY <1>4 DEF FunderMadeWhole
<1> QED BY <1>1, <1>2, <1>3, <1>5 DEF Inv

\* A cancelled mission: what was reserved is owed to the one who paid it.
LEMMA CancelInv ==
    ASSUME Inv, NEW a \in Accounts, NEW g \in Nat, Cancel(a, g)
    PROVE  Inv'
<1> USE DEF Cancel, Running, CreditRefund, environment, ledger
<1>t. /\ \A b \in Accounts :
            paidIn[b] \in Nat /\ spent[b] \in Nat /\ paidOut[b] \in Nat
            /\ refundable[b] \in Nat
      /\ mission.price \in Nat /\ mission.fee \in Nat
  BY DEF Inv, TypeOK, Mission
<1>1. TypeOK'
  <2>1. mission' \in Mission
    BY DEF Inv, TypeOK, Mission, Status
  <2>2. refundLiability' \in Nat
    BY <1>t DEF Inv, TypeOK
  <2>3. refundable' \in [Accounts -> Nat]
    BY <1>t DEF Inv, TypeOK, ActiveHasFunder
  <2> QED BY <2>1, <2>2, <2>3 DEF Inv, TypeOK
<1>2. ActiveHasFunder'
  BY DEF Inv, TypeOK, Mission, ActiveHasFunder
<1>3. Solvent'
  BY DEF Inv, TypeOK, Mission, Solvent, MissionEscrow
<1>4. ASSUME NEW b \in Accounts
      PROVE  (paidIn[b] = spent[b] + paidOut[b] + HeldFor(b))'
  <2> USE DEF HeldFor
  <2>1. /\ paidIn' = paidIn /\ paidOut' = paidOut /\ spent' = spent
        /\ mission'.status = "CANCELLED"
    BY DEF Inv, TypeOK, Mission
  <2>2. CASE b = mission.authorizingOwner
    <3>1. refundable'[b] = refundable[b] + (mission.price + mission.fee)
      BY <2>2 DEF Inv, TypeOK
    <3>2. HeldFor(b) = refundable[b] + (mission.price + mission.fee)
      BY <2>2
    <3>3. HeldFor(b)' = refundable'[b]
      BY <2>1, <1>t, <3>1
    <3> QED BY <1>t, <2>1, <3>1, <3>2, <3>3 DEF Inv, FunderMadeWhole
  <2>3. CASE b # mission.authorizingOwner
    <3>1. refundable'[b] = refundable[b]
      BY <2>3 DEF Inv, TypeOK
    <3> QED BY <2>1, <2>3, <3>1 DEF Inv, FunderMadeWhole
  <2> QED BY <2>2, <2>3
<1>5. FunderMadeWhole'
  <2> HIDE DEF Cancel, Running, CreditRefund, environment, ledger
  <2> QED BY <1>4 DEF FunderMadeWhole
<1> QED BY <1>1, <1>2, <1>3, <1>5 DEF Inv

\* A withdrawal reduces the balance and the debt alike.
LEMMA WithdrawInv ==
    ASSUME Inv, NEW a \in Accounts, WithdrawRefund(a)
    PROVE  Inv'
<1> USE DEF WithdrawRefund, environment
<1>1. TypeOK'
  BY SMTT(30) DEF Inv, TypeOK
<1>2. ActiveHasFunder'
  BY DEF Inv, ActiveHasFunder
<1>3. Solvent'
  BY SMTT(30) DEF Inv, TypeOK, Mission, Solvent, MissionEscrow
<1>4. FunderMadeWhole'
  BY SMTT(30) DEF Inv, TypeOK, Mission, FunderMadeWhole, HeldFor
<1> QED BY <1>1, <1>2, <1>3, <1>4 DEF Inv

\* Recovery leaves exactly the debts and the escrow.
LEMMA RecoverInv ==
    ASSUME Inv, NEW a \in Accounts, RecoverNative(a)
    PROVE  Inv'
<1> USE DEF RecoverNative, Reserved, environment, ledger
<1>1. TypeOK'
  BY SMTT(30) DEF Inv, TypeOK, Mission, MissionEscrow
<1>2. ActiveHasFunder'
  BY DEF Inv, ActiveHasFunder
<1>3. Solvent'
  BY SMTT(30) DEF Inv, TypeOK, Mission, Solvent, MissionEscrow
<1>4. FunderMadeWhole'
  BY DEF Inv, FunderMadeWhole, HeldFor
<1> QED BY <1>1, <1>2, <1>3, <1>4 DEF Inv

\* Everything around the vault leaves its books alone.
LEMMA AroundInv ==
    ASSUME Inv,
           \/ \E to \in Accounts \cup {NoOne} : TransferPunk(to)
           \/ \E p \in Prices \cup {0} : ChangeDrop(p)
           \/ ForceEther
           \/ Tick
           \/ UNCHANGED vars
    PROVE  Inv'
<1> USE AmountsAssumption
    DEF TransferPunk, ChangeDrop, ForceEther, Tick, ledger, vars
<1>1. TypeOK'
  BY SMTT(30) DEF Inv, TypeOK
<1>2. UNCHANGED <<mission, refundable, refundLiability, paidIn, spent, paidOut>>
  OBVIOUS
<1>3. balance' \in Nat /\ balance' >= balance
  BY DEF Inv, TypeOK
<1>4. ActiveHasFunder'
  BY <1>2 DEF Inv, ActiveHasFunder
<1>5. Solvent'
  BY <1>2, <1>3, SMTT(30) DEF Inv, TypeOK, Mission, Solvent, MissionEscrow
<1>6. FunderMadeWhole'
  BY <1>2 DEF Inv, FunderMadeWhole, HeldFor
<1> QED BY <1>1, <1>4, <1>5, <1>6 DEF Inv

LEMMA NextInv == Inv /\ [Next]_vars => Inv'
<1> SUFFICES ASSUME Inv, [Next]_vars PROVE Inv'
  OBVIOUS
<1>0. MaxGeneration \in Nat /\ MaxDuration \in Nat /\ now \in Nat
  BY BoundsAssumption DEF Inv, TypeOK
<1>1. CASE AuthorizeSome
  <2>1. PICK a \in Accounts, e \in Accounts, p \in Prices, f \in Fees,
             g \in 0 .. MaxGeneration - 1,
             d \in now + 1 .. now + MaxDuration :
          Authorize(a, e, p, f, g, d)
    BY <1>1 DEF AuthorizeSome
  <2>2. g \in Nat /\ d \in Int
    BY <1>0
  <2> QED BY <2>1, <2>2, AuthorizeInv
<1>2. CASE \E a \in Accounts, g \in 1 .. MaxGeneration : Execute(a, g)
  BY <1>0, <1>2, ExecuteInv
<1>3. CASE \E a \in Accounts, g \in 1 .. MaxGeneration : Cancel(a, g)
  BY <1>0, <1>3, CancelInv
<1>4. CASE \E a \in Accounts : WithdrawRefund(a)
  BY <1>4, WithdrawInv
<1>5. CASE \E a \in Accounts : RecoverNative(a)
  BY <1>5, RecoverInv
<1>6. CASE \/ \E to \in Accounts \cup {NoOne} : TransferPunk(to)
           \/ \E p \in Prices \cup {0} : ChangeDrop(p)
           \/ ForceEther
           \/ Tick
           \/ UNCHANGED vars
  BY <1>6, AroundInv
<1> QED BY <1>1, <1>2, <1>3, <1>4, <1>5, <1>6 DEF Next

\* The state of every run has the types of the contract's storage.
THEOREM TypeCorrect == Spec => []TypeOK
<1>1. Inv => TypeOK
  BY DEF Inv
<1> QED BY InitInv, NextInv, <1>1, PTL DEF Spec

\* The vault can always pay its debts and run its mission.
THEOREM VaultSolvent == Spec => []Solvent
<1>1. Inv => Solvent
  BY DEF Inv
<1> QED BY InitInv, NextInv, <1>1, PTL DEF Spec

\* Nobody's money becomes anybody else's.
THEOREM MoneyStaysItsFunders == Spec => []FunderMadeWhole
<1>1. Inv => FunderMadeWhole
  BY DEF Inv
<1> QED BY InitInv, NextInv, <1>1, PTL DEF Spec

\* The total moves with the one refund that a cancel raises or a withdrawal
\* clears; nothing else touches either.
LEMMA LiabilityStep ==
    Inv /\ LiabilityIsTheSumOfRefunds /\ [Next]_vars => LiabilityIsTheSumOfRefunds'
<1> SUFFICES ASSUME Inv, LiabilityIsTheSumOfRefunds, [Next]_vars
             PROVE  LiabilityIsTheSumOfRefunds'
  OBVIOUS
<1>0. IsFiniteSet(Accounts)
  BY AccountsAssumption
<1>1. refundable \in [Accounts -> Nat] /\ refundable' \in [Accounts -> Nat]
  BY NextInv DEF Inv, TypeOK
<1>2. ASSUME NEW a \in Accounts, NEW n \in Int, refundable'[a] = refundable[a] + n,
             refundLiability' = refundLiability + n,
             \A b \in Accounts \ {a} : refundable'[b] = refundable[b]
      PROVE  LiabilityIsTheSumOfRefunds'
  <2>1. SumFunctionOnSet(refundable', Accounts)
          = SumFunctionOnSet(refundable, Accounts) + (refundable'[a] - refundable[a])
    BY <1>0, <1>1, <1>2, SumChanges
  <2>2. refundable'[a] - refundable[a] = n
    BY <1>1, <1>2
  <2> QED
    BY <1>2, <2>1, <2>2 DEF LiabilityIsTheSumOfRefunds
<1>3. ASSUME NEW c \in Accounts, NEW g \in 1 .. MaxGeneration, Cancel(c, g)
      PROVE  LiabilityIsTheSumOfRefunds'
  <2> DEFINE a == mission.authorizingOwner
             n == mission.price + mission.fee
  <2>1. a \in Accounts /\ n \in Int
    BY <1>3 DEF Cancel, Running, Inv, ActiveHasFunder, TypeOK, Mission
  <2>2. /\ refundable' = [refundable EXCEPT ![a] = @ + n]
        /\ refundLiability' = refundLiability + n
    BY <1>3 DEF Cancel, CreditRefund
  <2> HIDE DEF a, n
  <2>3. refundable'[a] = refundable[a] + n
        /\ \A b \in Accounts \ {a} : refundable'[b] = refundable[b]
    BY <1>1, <2>1, <2>2
  <2> QED
    BY <1>2, <2>1, <2>2, <2>3
<1>4. ASSUME NEW a \in Accounts, WithdrawRefund(a)
      PROVE  LiabilityIsTheSumOfRefunds'
  <2>1. /\ refundable' = [refundable EXCEPT ![a] = 0]
        /\ refundLiability' = refundLiability - refundable[a]
    BY <1>4 DEF WithdrawRefund
  <2>2. /\ refundable'[a] = refundable[a] + (0 - refundable[a])
        /\ refundLiability' = refundLiability + (0 - refundable[a])
        /\ 0 - refundable[a] \in Int
        /\ \A b \in Accounts \ {a} : refundable'[b] = refundable[b]
    BY <1>1, <2>1 DEF Inv, TypeOK
  <2> QED
    BY <1>2, <2>2
<1>5. CASE UNCHANGED <<refundable, refundLiability>>
  BY <1>5 DEF LiabilityIsTheSumOfRefunds
<1> QED
  BY <1>3, <1>4, <1>5
     DEF Next, AuthorizeSome, Authorize, Execute, RecoverNative, TransferPunk, ChangeDrop,
         ForceEther, Tick, ledger, vars

LEMMA InitLiability == Init => LiabilityIsTheSumOfRefunds
<1> SUFFICES ASSUME Init PROVE LiabilityIsTheSumOfRefunds
  OBVIOUS
<1>1. refundLiability = 0 /\ refundable = Nothing
  BY DEF Init
<1>2. \A a \in Accounts : Nothing[a] = 0
  BY DEF Nothing
<1> QED
  BY <1>1, <1>2, AccountsAssumption, SumZero DEF LiabilityIsTheSumOfRefunds

\* What the vault says it owes is the sum of what may be withdrawn.
THEOREM LiabilityAddsUp == Spec => []LiabilityIsTheSumOfRefunds
BY InitInv, NextInv, InitLiability, LiabilityStep, PTL DEF Spec

\* Every call of the vault is a step of the escrow, whoever makes it,
LEMMA AuthorizeDeposits ==
    ASSUME Inv, NEW a \in Accounts, NEW e \in Accounts, NEW p \in Prices,
           NEW f \in Fees, NEW g, NEW d, Authorize(a, e, p, f, g, d)
    PROVE  Escrow!Next
<1> USE DEF MissionEscrow
<1>1. p \in Nat \ {0} /\ f \in Nat /\ NoOne \notin Accounts
  BY AmountsAssumption, AccountsAssumption
<1>2. /\ mission.status # "ACTIVE"
      /\ mission'.status = "ACTIVE"
      /\ mission'.authorizingOwner = a
      /\ mission'.price = p /\ mission'.fee = f
      /\ paidIn' = [paidIn EXCEPT ![a] = @ + p + f]
      /\ UNCHANGED <<refundable, spent, paidOut>>
  BY DEF Authorize, environment
<1>3. p + f \in Nat \ {0} /\ paidIn[a] + p + f = paidIn[a] + (p + f)
  BY <1>1 DEF Inv, TypeOK
<1>4. Escrow!Deposit(a)
  BY <1>2, <1>3 DEF Escrow!Deposit
<1> QED
  BY <1>4 DEF Escrow!Next

LEMMA ExecuteSpends ==
    ASSUME Inv, NEW c, NEW g, Execute(c, g) PROVE Escrow!Next
<1> USE DEF MissionEscrow
<1> DEFINE a == mission.authorizingOwner
<1>0. NoOne \notin Accounts
  BY AccountsAssumption
<1>1. mission.status = "ACTIVE" /\ a \in Accounts
  BY DEF Execute, Running, Inv, ActiveHasFunder
<1>2. /\ mission'.status = "COMPLETED"
      /\ spent' = [spent EXCEPT ![a] = @ + mission.price + mission.fee]
      /\ UNCHANGED <<refundable, paidIn, paidOut>>
  BY DEF Execute, Inv, TypeOK, Mission
<1>3. spent[a] + mission.price + mission.fee
        = spent[a] + (mission.price + mission.fee)
  BY <1>1 DEF Inv, TypeOK, Mission
<1>4. Escrow!Spend(a)
  BY <1>1, <1>2, <1>3 DEF Escrow!Spend
<1> QED
  BY <1>1, <1>4 DEF Escrow!Next

LEMMA CancelReleases ==
    ASSUME Inv, NEW c, NEW g, Cancel(c, g) PROVE Escrow!Next
<1> USE DEF MissionEscrow
<1> DEFINE a == mission.authorizingOwner
<1>0. NoOne \notin Accounts
  BY AccountsAssumption
<1>1. mission.status = "ACTIVE" /\ a \in Accounts
  BY DEF Cancel, Running, Inv, ActiveHasFunder
<1>2. /\ mission'.status = "CANCELLED"
      /\ refundable' = [refundable EXCEPT ![a] = @ + (mission.price + mission.fee)]
      /\ UNCHANGED <<paidIn, spent, paidOut>>
  BY DEF Cancel, CreditRefund, Inv, TypeOK, Mission, ledger
<1>3. Escrow!Release(a)
  BY <1>1, <1>2 DEF Escrow!Release
<1> QED
  BY <1>1, <1>3 DEF Escrow!Next

LEMMA WithdrawPaysOut ==
    ASSUME NEW a \in Accounts, WithdrawRefund(a) PROVE Escrow!Next
<1>1. Escrow!PayOut(a)
  BY DEF WithdrawRefund, Escrow!PayOut, environment
<1> QED
  BY <1>1 DEF Escrow!Next

\* and what happens around it is none of its business.
LEMMA AroundTheEscrow ==
    ASSUME \/ \E a \in Accounts : RecoverNative(a)
           \/ \E to \in Accounts \cup {NoOne} : TransferPunk(to)
           \/ \E p \in Prices \cup {0} : ChangeDrop(p)
           \/ ForceEther
           \/ Tick
           \/ UNCHANGED vars
    PROVE  UNCHANGED Escrow!vars
BY DEF RecoverNative, TransferPunk, ChangeDrop, ForceEther, Tick, ledger, vars,
       Escrow!vars, MissionEscrow

LEMMA StepImplements ==
    Inv /\ [Next]_vars => [Escrow!Next]_(Escrow!vars)
<1> SUFFICES ASSUME Inv, [Next]_vars
             PROVE  Escrow!Next \/ UNCHANGED Escrow!vars
  OBVIOUS
<1>1. CASE AuthorizeSome
  BY <1>1, AuthorizeDeposits DEF AuthorizeSome
<1> QED
  BY <1>1, ExecuteSpends, CancelReleases, WithdrawPaysOut, AroundTheEscrow DEF Next

\* The vault implements the escrow its funders see.
THEOREM VaultImplementsEscrow == Spec => Implements
<1>1. Init => Escrow!Init
  BY DEF Init, Escrow!Init, NoMission, Nothing, MissionEscrow
<1> QED BY InitInv, NextInv, <1>1, StepImplements, PTL
        DEF Spec, Implements, Escrow!Spec

---------------------------------------------------------------------------
(* The worker: its inductive invariant, shapes first. *)

ReviewRows ==
    [status : Terminal \cup {"NONE", "PREPARED", "WALLET_REQUESTED"},
     action : {"AUTHORIZE", "CANCEL_MISSION", "WITHDRAW_REFUND"},
     revision : Nat, generation : Nat, price : Nat, fee : Nat, refund : Nat,
     deadline : Nat, expiresAt : Nat, nonce : Nat, reported : BOOLEAN, block : Nat]
ExecutionStates == OpenExecution \cup {"NONE", "STOPPED", "COMPLETED", "REVERTED"}
ExecutionRows == [status : ExecutionStates, revision : Nat, nonce : Nat]
Locals == [review : Nat, revision : Nat, status : ExecutionStates, nonce : Nat,
           setting : Settings]

RowsOK ==
    /\ reviews \in [Reviews -> ReviewRows]
    /\ wallet \in [Reviews -> {"IDLE", "ASKED", "SENT", "REJECTED"}]
    /\ executions \in [Reviews -> ExecutionRows]
    /\ freeOps \in [FreeOps -> OpenFree \cup {"NONE", "CONFIRMED", "REVERTED"}]

ProcessOK ==
    /\ lease \in Invocations \cup {"NONE"}
    /\ pc \in [Invocations -> Labels]
    /\ local \in [Invocations -> Locals]

OwnerKinds == {"AUTHORIZE", "CANCEL_MISSION", "WITHDRAW_REFUND"}
ShapeOK(tx) ==
    \/ tx.from = Owner /\ tx.kind \in OwnerKinds /\ tx.id \in Reviews
    \/ tx.from = Worker /\ tx.kind = "EXECUTE" /\ tx.id \in Reviews
    \/ tx.from = Worker /\ tx.kind = "FREE" /\ tx.id \in FreeOps

\* A mined transaction has used up its nonce.
NetworkOK ==
    /\ sent \subseteq Tx /\ \A tx \in sent : ShapeOK(tx)
    /\ mempool \subseteq sent /\ IsFiniteSet(mempool)
    /\ nonces \in [{Owner, Worker} -> Nat]
    /\ \A m \in mined : /\ m.tx \in sent /\ m.ok \in BOOLEAN /\ m.block \in Nat
                        /\ m.tx.nonce < nonces[m.tx.from]

ClockOK ==
    /\ setting \in Settings /\ removed \in {"NEVER", "RESOLVED", "EARLY"}
    /\ lastTransfer \in Nat \cup {-1} /\ lastTransfer <= now

---------------------------------------------------------------------------
(* The owner's reviews: one after the other, each with a later nonce than  *)
(* every transaction the wallet has sent.                                  *)

WalletOK(i) ==
    /\ reviews[i].status \in {"NONE", "PREPARED", "CANCELLED"} => wallet[i] = "IDLE"
    /\ reviews[i].status = "WALLET_REQUESTED" => wallet[i] # "IDLE"
    /\ reviews[i].status = "WALLET_REQUESTED" /\ reviews[i].reported => wallet[i] = "SENT"
    /\ reviews[i].status = "DECLINED" => wallet[i] = "REJECTED"
    /\ reviews[i].status \in {"CONFIRMED", "REVERTED"} => wallet[i] = "SENT"
    /\ reviews[i].status # "NONE" => reviews[i].price \in Prices /\ reviews[i].fee \in Fees

FollowsAll(i) ==
    reviews[i].status # "NONE" =>
        \A j \in 1 .. i - 1 :
            /\ reviews[j].status \in Terminal
            /\ wallet[j] = "SENT" => reviews[j].nonce < reviews[i].nonce

ReceiptOK(i) ==
    /\ reviews[i].status = "CONFIRMED" => \E m \in Receipt(OwnerTx(i)) : m.ok
    /\ reviews[i].status = "REVERTED" => \E m \in Receipt(OwnerTx(i)) : ~ m.ok

OwnerSentOK ==
    \A tx \in sent : tx.from = Owner => wallet[tx.id] = "SENT" /\ tx = OwnerTx(tx.id)

OwnerOK ==
    /\ \A i \in Reviews : WalletOK(i) /\ FollowsAll(i) /\ ReceiptOK(i)
    /\ OwnerSentOK

---------------------------------------------------------------------------
(* The signer's journals. *)

Closed(i) == executions[i].status \in {"COMPLETED", "REVERTED"}
FreeOpen(k) == freeOps[k] \in OpenFree

ExecutionsOK ==
    /\ \A i, j \in Reviews : Pending(i) /\ Pending(j) => i = j
    /\ SavedBeforeSent
    /\ \A i \in Reviews :
          LET executed == Receipt(ExecuteTx(i, executions[i].nonce))
          IN  /\ executions[i].status = "COMPLETED" => \E m \in executed : m.ok
              /\ executions[i].status = "REVERTED" => \E m \in executed : ~ m.ok

FreeOK ==
    /\ \A tx \in sent : tx.kind = "FREE" => freeOps[tx.id] # "NONE"
    /\ \A t, u \in sent : t.kind = "FREE" /\ u.kind = "FREE" /\ t.id = u.id => t = u
    /\ \A k \in FreeOps :
          freeOps[k] \in {"CONFIRMED", "REVERTED"} => FreeReceipt(k) # {}

---------------------------------------------------------------------------
(* What an invocation remembers. *)

Row == {"reconcile", "send", "mark"}
Free == {"freeCheck", "freeNonce", "freeSend", "freeMark"}

\* An update that finds the revision it read finds the row it read.
RemembersReview(w) ==
    LET i == local[w].review
    IN  /\ i \in Reviews
        /\ local[w].revision <= reviews[i].revision
        /\ reviews[i].status # "NONE"
        /\ local[w].revision = reviews[i].revision =>
              reviews[i].status = "WALLET_REQUESTED" /\ reviews[i].reported
RemembersExecution(w) ==
    LET i == local[w].review
    IN  /\ i \in Reviews
        /\ executions[i].status \notin {"NONE", "STOPPED"}
        /\ executions[i].nonce = local[w].nonce
        /\ local[w].revision <= executions[i].revision
        /\ local[w].status \in OpenExecution
        /\ local[w].revision = executions[i].revision => executions[i].status = local[w].status

RemembersFree(w) ==
    LET k == local[w].review
    IN  /\ k \in FreeOps
        /\ freeOps[k] = "SIGNED"
        /\ pc[w] # "freeMark" => \A tx \in sent : ~ (tx.kind = "FREE" /\ tx.id = k)

Remembers(w) ==
    /\ pc[w] = "record" => RemembersReview(w)
    /\ pc[w] \in {"stop", "sign", "insert"} => local[w].review \in Reviews
    /\ pc[w] \in {"sign", "insert"} => Sends(w)
    /\ pc[w] \in Row => RemembersExecution(w)
    /\ pc[w] \in Free => RemembersFree(w)

OneHolderOfAFree ==
    \A v, w \in Invocations :
        pc[v] \in Free /\ pc[w] \in Free /\ local[v].review = local[w].review => v = w

InvocationsOK == (\A w \in Invocations : Remembers(w)) /\ OneHolderOfAFree

---------------------------------------------------------------------------
(* The setting: while it was never missing no invocation runs without it;  *)
(* while it is, as the docs allow, no execution is open and none can come. *)

Never == removed = "NEVER"
Kept == removed # "EARLY"

FlagOK ==
    /\ setting = "unset" => ~ Never
    /\ Never => \A w \in Invocations : pc[w] = "IDLE" \/ local[w].setting # "unset"
    /\ setting = "unset" /\ Kept =>
          /\ \A i \in Reviews : ~ Pending(i)
          /\ \A w \in Invocations : ~ Sends(w)

---------------------------------------------------------------------------
(* Why the lease suffices although it can be lost: an open reservation is  *)
(* loose once its transaction is, or is about to be, out.  Only a holder   *)
(* of the lease lets one loose: a paid one after it found no free one, a   *)
(* free one when no paid one is, nor another free one unless the setting   *)
(* was missing.                                                            *)

Out == {"freeNonce", "freeSend"}
Loose(i) ==
    /\ Pending(i)
    /\ \/ \E tx \in sent : tx.kind = "EXECUTE" /\ tx.id = i
       \/ \E w \in Invocations : pc[w] = "send" /\ local[w].review = i
LooseFree(k) ==
    /\ FreeOpen(k)
    /\ \/ \E tx \in sent : tx.kind = "FREE" /\ tx.id = k
       \/ \E w \in Invocations : pc[w] \in Out /\ local[w].review = k

OneKindLoose == \A i \in Reviews, k \in FreeOps : ~ (Loose(i) /\ LooseFree(k))
OneFreeLoose == \A k, l \in FreeOps : LooseFree(k) /\ LooseFree(l) => k = l

PaidAt == {"record", "select", "stop", "sign", "insert"}
NoneLooseAt == PaidAt \cup {"reserve"} \cup Free
LeaseAt(label, job, own) ==
    /\ label \in NoneLooseAt \/ (label \in {"begin", "look"} /\ own = "unset") =>
          \A i \in Reviews : ~ Loose(i)
    /\ label \in PaidAt \cup Row => \A k \in FreeOps : ~ LooseFree(k)
    /\ label \in Free \cup {"reserve"} /\ Never =>
          \A k \in FreeOps : LooseFree(k) => label \in Out \cup {"freeMark"} /\ job = k
LeaseOK(w) == LeaseAt(pc[w], local[w].review, local[w].setting)

\* What is about to be sent for the first time has a nonce of its own, or one
\* it shares with free mints alone.
SendOK(w) ==
    pc[w] = "send" /\ SavedTx(w) \notin sent =>
        /\ Pending(local[w].review)
        /\ \A tx \in sent : tx.from = Worker => tx.nonce # local[w].nonce
FreshFree(nonce) ==
    \A tx \in sent : tx.from = Worker /\ tx.nonce = nonce => tx.kind = "FREE" /\ ~ Never
SendFreeOK(w) == pc[w] = "freeSend" => FreshFree(local[w].nonce)

LeasesOK ==
    /\ Never => OneFreeLoose
    /\ Kept =>
          /\ OneKindLoose
          /\ \A w \in Invocations :
                (Holds(w) => LeaseOK(w)) /\ SendOK(w) /\ SendFreeOK(w)

WInv ==
    /\ Inv
    /\ RowsOK /\ ProcessOK /\ NetworkOK /\ ClockOK
    /\ OwnerOK
    /\ ExecutionsOK /\ FreeOK
    /\ InvocationsOK /\ FlagOK /\ LeasesOK
    /\ OneTransactionPerNonce

---------------------------------------------------------------------------
(* Steps that let nothing loose: one invocation moves, or none; the rows   *)
(* of the journals move on; no transaction of the signer is sent.          *)

ReviewsMoveOn ==
    \A i \in Reviews :
        \/ reviews'[i] = reviews[i]
        \/ reviews[i].status = "NONE"
        \/ reviews'[i].revision > reviews[i].revision /\ reviews'[i].status # "NONE"
ExecutionsMoveOn ==
    \A i \in Reviews :
        \/ executions'[i] = executions[i]
        \/ executions[i].status = "NONE"
        \/ /\ executions'[i].revision > executions[i].revision
           /\ executions'[i].nonce = executions[i].nonce
           /\ executions'[i].status \notin {"NONE", "STOPPED"}
           /\ Pending(i)
           /\ ~ Pending(i)' => ExecuteTx(i, executions[i].nonce) \in sent
FreesMoveOn == \A k \in FreeOps : FreeOpen(k)' => FreeOpen(k) \/ freeOps[k] = "NONE"
SignerSendsNothing == sent \subseteq sent' /\ \A tx \in sent' \ sent : tx.from = Owner

Still(v) ==
    /\ pc'[v] = pc[v] /\ local'[v] = local[v]
    /\ lease' = v => lease = v
    /\ pc[v] \in Free => freeOps'[local[v].review] = freeOps[local[v].review]
SettingMoves(w) ==
    \/ pc'[w] = "IDLE" /\ local'[w].setting = "unset"
    \/ pc[w] # "IDLE" /\ local'[w].setting = local[w].setting
    \/ local'[w].setting = setting
MovesSafely(w) ==
    /\ lease' = w => LeaseAt(pc'[w], local'[w].review, local'[w].setting)
    /\ pc'[w] = "freeSend" => FreshFree(local'[w].nonce)
Moved(w) ==
    /\ Remembers(w)'
    /\ pc'[w] # "send"
    /\ pc'[w] \in Out => pc[w] = "freeNonce" /\ local'[w].review = local[w].review
    /\ pc'[w] \in Free => \/ pc[w] \in Free /\ local'[w].review = local[w].review
                          \/ freeOps[local'[w].review] = "NONE"
    /\ SettingMoves(w)
    /\ Kept => MovesSafely(w)

\* What the setting was is not forgotten, and no execution is opened without it.
RemovedMovesOn == (Kept' => Kept) /\ (Never' => Never)
NoneOpens == \A i \in Reviews : Pending(i)' => Pending(i)

LEMMA FlagStep ==
    ASSUME WInv, UNCHANGED <<setting, removed>>,
           NEW w, \A v \in Invocations : Still(v) \/ (v = w /\ Moved(v)),
           NoneOpens \/ (w \in Invocations /\ Sends(w))
    PROVE  FlagOK' /\ RemovedMovesOn
<1>1. RemovedMovesOn
  BY DEF RemovedMovesOn, Kept, Never
<1>2. (setting = "unset" => ~ Never)'
  BY DEF WInv, FlagOK, Never
<1>3. ASSUME NEW v \in Invocations
      PROVE  \/ pc'[v] = "IDLE" /\ local'[v].setting = "unset"
             \/ pc'[v] = pc[v] /\ local'[v] = local[v]
             \/ pc[v] # "IDLE" /\ local'[v].setting = local[v].setting
             \/ local'[v].setting = setting
  BY DEF Still, Moved, SettingMoves
<1>4. (Never => \A v \in Invocations : pc[v] = "IDLE" \/ local[v].setting # "unset")'
  BY <1>3 DEF WInv, FlagOK, Never
<1>5. ASSUME setting = "unset", Kept
      PROVE  (\A i \in Reviews : ~ Pending(i))' /\ (\A v \in Invocations : ~ Sends(v))'
  <2>1. (\A i \in Reviews : ~ Pending(i)) /\ (\A v \in Invocations : ~ Sends(v))
    BY <1>5 DEF WInv, FlagOK
  <2>2. (\A v \in Invocations : ~ Sends(v))'
    BY <1>3, <1>5, <2>1 DEF Sends
  <2> QED
    BY <2>1, <2>2 DEF NoneOpens
<1> QED
  BY <1>1, <1>2, <1>4, <1>5 DEF FlagOK, Kept

LEMMA StillRemembers ==
    ASSUME WInv, RowsOK', ReviewsMoveOn, ExecutionsMoveOn, NEW v \in Invocations, Still(v),
           \A tx \in sent' \ sent : pc[v] \in Free /\ tx.kind = "FREE" => tx.id # local[v].review
    PROVE  Remembers(v)'
<1> USE DEF Still
<1>1. Remembers(v)
  BY DEF WInv, InvocationsOK
<1>2. (pc[v] = "record" => RemembersReview(v))'
  <2> SUFFICES ASSUME pc[v] = "record" PROVE RemembersReview(v)'
    OBVIOUS
  <2>1. PICK i \in Reviews : i = local[v].review
    BY <1>1 DEF Remembers, RemembersReview
  <2>2. /\ reviews[i].status # "NONE" /\ local[v].revision <= reviews[i].revision
        /\ local[v].revision = reviews[i].revision =>
              reviews[i].status = "WALLET_REQUESTED" /\ reviews[i].reported
    BY <1>1, <2>1 DEF Remembers, RemembersReview
  <2>3. local[v].revision \in Nat /\ reviews[i].revision \in Nat /\ reviews'[i].revision \in Nat
    BY DEF WInv, ProcessOK, Locals, RowsOK, ReviewRows
  <2>4. \/ reviews'[i] = reviews[i]
        \/ reviews'[i].revision > reviews[i].revision /\ reviews'[i].status # "NONE"
    BY <2>2 DEF ReviewsMoveOn
  <2> QED
    BY <2>1, <2>2, <2>3, <2>4 DEF RemembersReview
<1>3. (pc[v] \in Row => RemembersExecution(v))'
  <2> SUFFICES ASSUME pc[v] \in Row PROVE RemembersExecution(v)'
    BY DEF Row
  <2>1. PICK i \in Reviews : i = local[v].review
    BY <1>1 DEF Remembers, RemembersExecution
  <2>2. /\ executions[i].status \notin {"NONE", "STOPPED"}
        /\ executions[i].nonce = local[v].nonce
        /\ local[v].revision <= executions[i].revision
        /\ local[v].status \in OpenExecution
        /\ local[v].revision = executions[i].revision => executions[i].status = local[v].status
    BY <1>1, <2>1 DEF Remembers, RemembersExecution
  <2>3. /\ local[v].revision \in Nat /\ executions[i].revision \in Nat
        /\ executions'[i].revision \in Nat
    BY DEF WInv, ProcessOK, Locals, RowsOK, ExecutionRows
  <2>4. \/ executions'[i] = executions[i]
        \/ /\ executions'[i].revision > executions[i].revision
           /\ executions'[i].nonce = executions[i].nonce
           /\ executions'[i].status \notin {"NONE", "STOPPED"}
    BY <2>2 DEF ExecutionsMoveOn
  <2> QED
    BY <2>1, <2>2, <2>3, <2>4 DEF RemembersExecution
<1>4. (pc[v] \in Free => RemembersFree(v))'
  <2> SUFFICES ASSUME pc[v] \in Free PROVE RemembersFree(v)'
    BY DEF Free
  <2>1. RemembersFree(v)
    BY <1>1 DEF Remembers
  <2> QED
    BY <2>1 DEF RemembersFree
<1>5. (pc[v] \in {"sign", "insert"} => Sends(v))'
  BY <1>1 DEF Remembers, Sends
<1> QED
  BY <1>1, <1>2, <1>3, <1>4, <1>5 DEF Remembers

LEMMA NothingGetsLoose ==
    ASSUME WInv, NetworkOK', ExecutionsMoveOn, FreesMoveOn, SignerSendsNothing,
           \A v \in Invocations : Still(v) \/ Moved(v)
    PROVE  /\ \A i \in Reviews : Loose(i)' => Loose(i)
           /\ \A k \in FreeOps : LooseFree(k)' => LooseFree(k)
<1>1. ASSUME NEW tx \in sent', tx \notin sent PROVE tx.kind \notin {"EXECUTE", "FREE"}
  BY <1>1, PartiesAssumption DEF NetworkOK, ShapeOK, SignerSendsNothing, OwnerKinds
<1>2. ASSUME NEW i \in Reviews, Loose(i)' PROVE Loose(i)
  <2>1. Pending(i)'
    BY <1>2 DEF Loose
  <2>2. ASSUME executions[i].status # "NONE" PROVE Pending(i)
    BY <2>1, <2>2 DEF ExecutionsMoveOn, Pending
  <2>3. CASE \E tx \in sent' : tx.kind = "EXECUTE" /\ tx.id = i
    <3>1. PICK tx \in sent : tx.kind = "EXECUTE" /\ tx.id = i
      BY <1>1, <2>3
    <3> QED
      BY <2>2, <3>1 DEF WInv, ExecutionsOK, SavedBeforeSent, Loose
  <2>4. CASE \E v \in Invocations : pc'[v] = "send" /\ local'[v].review = i
    <3>1. PICK v \in Invocations : pc[v] = "send" /\ local[v].review = i
      BY <2>4 DEF Still, Moved
    <3>2. executions[i].status # "NONE"
      BY <3>1 DEF WInv, InvocationsOK, Remembers, RemembersExecution, Row
    <3> QED
      BY <2>2, <3>1, <3>2 DEF Loose
  <2> QED
    BY <1>2, <2>3, <2>4 DEF Loose
<1>3. ASSUME NEW k \in FreeOps, LooseFree(k)' PROVE LooseFree(k)
  <2>1. FreeOpen(k) \/ freeOps[k] = "NONE"
    BY <1>3 DEF LooseFree, FreesMoveOn
  <2>3. CASE \E tx \in sent' : tx.kind = "FREE" /\ tx.id = k
    <3>1. PICK tx \in sent : tx.kind = "FREE" /\ tx.id = k
      BY <1>1, <2>3
    <3> QED
      BY <2>1, <3>1 DEF WInv, FreeOK, LooseFree
  <2>4. CASE \E v \in Invocations : pc'[v] \in Out /\ local'[v].review = k
    <3>1. PICK v \in Invocations : pc[v] \in Out /\ local[v].review = k
      BY <2>4 DEF Still, Moved, Out
    <3>2. freeOps[k] # "NONE"
      BY <3>1 DEF WInv, InvocationsOK, Remembers, RemembersFree, Free, Out
    <3> QED
      BY <2>1, <3>1, <3>2 DEF LooseFree
  <2> QED
    BY <1>3, <2>3, <2>4 DEF LooseFree
<1> QED
  BY <1>2, <1>3

\* Of the steps below at most one invocation moves; "NONE" is no invocation.
LEMMA CalmStep ==
    ASSUME WInv, NetworkOK', RowsOK', ReviewsMoveOn, ExecutionsMoveOn, FreesMoveOn,
           SignerSendsNothing, RemovedMovesOn,
           NEW w, \A v \in Invocations : Still(v) \/ (v = w /\ Moved(v))
    PROVE  InvocationsOK' /\ LeasesOK'
<1>1. /\ \A i \in Reviews : Loose(i)' => Loose(i)
      /\ \A k \in FreeOps : LooseFree(k)' => LooseFree(k)
  BY NothingGetsLoose
<1>2. ASSUME NEW v \in Invocations PROVE Remembers(v)'
  <2>1. ASSUME NEW tx \in sent' \ sent PROVE tx.kind # "FREE"
    BY PartiesAssumption DEF NetworkOK, ShapeOK, SignerSendsNothing, OwnerKinds
  <2> QED
    BY <2>1, StillRemembers DEF Moved
<1>3. OneHolderOfAFree'
  <2> SUFFICES ASSUME NEW v \in Invocations, NEW u \in Invocations, v # u,
                      pc'[v] \in Free, pc'[u] \in Free, local'[v].review = local'[u].review
               PROVE  FALSE
    BY DEF OneHolderOfAFree, Free
  <2>1. ASSUME NEW x \in Invocations, pc[x] \in Free
        PROVE  freeOps[local[x].review] = "SIGNED"
    BY <2>1 DEF WInv, InvocationsOK, Remembers, RemembersFree
  <2>2. \A x, y \in Invocations :
           pc[x] \in Free /\ pc[y] \in Free /\ local[x].review = local[y].review => x = y
    BY DEF WInv, InvocationsOK, OneHolderOfAFree
  <2>3. Still(v) \/ Still(u)
    OBVIOUS
  <2>4. ASSUME NEW x \in Invocations, pc'[x] \in Free
        PROVE  \/ pc[x] \in Free /\ local'[x].review = local[x].review
               \/ freeOps[local'[x].review] = "NONE"
    BY <2>4 DEF Still, Moved
  <2>5. ASSUME NEW x \in Invocations, pc'[x] \in Free, Still(x)
        PROVE  /\ pc[x] \in Free /\ local'[x].review = local[x].review
               /\ freeOps[local'[x].review] = "SIGNED"
    BY <2>1, <2>5 DEF Still
  <2> QED
    BY <2>2, <2>3, <2>4, <2>5
<1>4. ASSUME Never PROVE OneFreeLoose'
  BY <1>1, <1>4 DEF WInv, LeasesOK, OneFreeLoose
<1>5. ASSUME Kept PROVE OneKindLoose'
  BY <1>1, <1>5 DEF WInv, LeasesOK, OneKindLoose
<1>6. ASSUME Kept, NEW v \in Invocations, lease' = v PROVE LeaseOK(v)'
  <2>1. LeaseAt(pc'[v], local'[v].review, local'[v].setting)
    BY <1>6 DEF Still, Moved, MovesSafely, WInv, LeasesOK, Holds, LeaseOK
  <2>2. Never' => Never
    BY DEF RemovedMovesOn
  <2>3. ASSUME NEW i \in Reviews, ~ Loose(i) PROVE ~ Loose(i)'
    BY <1>1, <2>3
  <2>4. ASSUME NEW k \in FreeOps, ~ LooseFree(k) PROVE ~ LooseFree(k)'
    BY <1>1, <2>4
  <2> QED
    BY <2>1, <2>2, <2>3, <2>4 DEF LeaseOK, LeaseAt
<1>7. ASSUME Kept, NEW v \in Invocations PROVE SendOK(v)'
  <2> SUFFICES ASSUME pc'[v] = "send", SavedTx(v)' \notin sent'
               PROVE  /\ Pending(local[v].review)'
                      /\ \A tx \in sent' : tx.from = Worker => tx.nonce # local'[v].nonce
    BY DEF SendOK
  <2>1. pc[v] = "send" /\ local'[v] = local[v]
    BY DEF Still, Moved
  <2>2. SavedTx(v)' = SavedTx(v) /\ SavedTx(v) \notin sent
    BY <2>1 DEF SavedTx, ExecuteTx, SignerSendsNothing
  <2>3. /\ Pending(local[v].review)
        /\ \A tx \in sent : tx.from = Worker => tx.nonce # local[v].nonce
    BY <1>7, <2>1, <2>2 DEF WInv, LeasesOK, SendOK
  <2>4. PICK i \in Reviews : i = local[v].review /\ executions[i].nonce = local[v].nonce
    BY <2>1 DEF WInv, InvocationsOK, Remembers, RemembersExecution, Row
  <2>5. Pending(i)'
    BY <2>2, <2>3, <2>4 DEF ExecutionsMoveOn, Pending, SavedTx, OpenExecution
  <2>6. Pending(local[v].review)'
    BY <2>1, <2>4, <2>5 DEF Pending
  <2> QED
    BY <2>1, <2>3, <2>6, PartiesAssumption DEF SignerSendsNothing
<1>8. ASSUME Kept, NEW v \in Invocations PROVE SendFreeOK(v)'
  <2>1. pc'[v] = "freeSend" => FreshFree(local'[v].nonce)
    BY <1>8 DEF Still, Moved, MovesSafely, WInv, LeasesOK, SendFreeOK
  <2>2. ASSUME NEW n, FreshFree(n), NEW tx \in sent', tx.from = Worker, tx.nonce = n
        PROVE  tx.kind = "FREE" /\ ~ Never'
    BY <2>2, PartiesAssumption DEF FreshFree, SignerSendsNothing, RemovedMovesOn
  <2> QED
    BY <2>1, <2>2 DEF SendFreeOK, FreshFree
<1>9. LeasesOK'
  BY <1>4, <1>5, <1>6, <1>7, <1>8 DEF LeasesOK, Holds, RemovedMovesOn
<1> QED
  BY <1>2, <1>3, <1>9 DEF InvocationsOK
---------------------------------------------------------------------------
(* What a step that leaves a journal alone leaves true of it. *)

LEMMA OwnerFrame ==
    ASSUME WInv, UNCHANGED <<reviews, wallet>>, mined \subseteq mined',
           \A tx \in sent' \ sent : tx.from # Owner
    PROVE  OwnerOK'
<1>1. \A i \in Reviews : OwnerTx(i)' = OwnerTx(i)
  BY DEF OwnerTx
<1>2. ASSUME NEW i \in Reviews PROVE WalletOK(i)' /\ FollowsAll(i)' /\ ReceiptOK(i)'
  BY <1>1 DEF WInv, OwnerOK, WalletOK, FollowsAll, ReceiptOK, Receipt
<1>3. OwnerSentOK'
  <2> SUFFICES ASSUME NEW tx \in sent', tx.from = Owner
               PROVE  wallet'[tx.id] = "SENT" /\ tx = OwnerTx(tx.id)'
    BY DEF OwnerSentOK
  <2> QED
    BY DEF WInv, OwnerOK, OwnerSentOK, OwnerTx
<1> QED
  BY <1>2, <1>3 DEF OwnerOK

LEMMA ExecutionsFrame ==
    ASSUME WInv, executions' = executions, mined \subseteq mined',
           \A tx \in sent' \ sent : tx.kind # "EXECUTE"
    PROVE  ExecutionsOK'
BY DEF WInv, ExecutionsOK, SavedBeforeSent, Pending, Receipt, ExecuteTx

LEMMA FreeFrame ==
    ASSUME WInv, freeOps' = freeOps, mined \subseteq mined',
           \A tx \in sent' \ sent : tx.kind # "FREE"
    PROVE  FreeOK'
BY DEF WInv, FreeOK, FreeOpen, FreeReceipt

LEMMA VaultFrame == ASSUME Inv, UNCHANGED vars PROVE Inv'
BY NextInv

---------------------------------------------------------------------------
(* Steps of one invocation that write to no journal. *)

Elsewhere(w) ==
    \A v \in Invocations \ {w} :
        pc'[v] = pc[v] /\ local'[v] = local[v] /\ (lease' = v => lease = v)

LEMMA OnlyMoves ==
    ASSUME WInv, NEW w, UNCHANGED <<vars, journals, network, lastTransfer, setting, removed>>,
           ProcessOK', Elsewhere(w), w \in Invocations => Moved(w) \/ Still(w)
    PROVE  WInv'
<1> USE DEF journals, network, vars
<1>1. Inv'
  BY VaultFrame DEF WInv
<1>2. RowsOK' /\ NetworkOK' /\ ClockOK'
  BY DEF WInv, RowsOK, NetworkOK, ClockOK, ShapeOK
<1>3. OwnerOK' /\ ExecutionsOK' /\ FreeOK'
  BY OwnerFrame, ExecutionsFrame, FreeFrame
<1>4. ReviewsMoveOn /\ ExecutionsMoveOn /\ FreesMoveOn /\ SignerSendsNothing
  BY DEF ReviewsMoveOn, ExecutionsMoveOn, FreesMoveOn, SignerSendsNothing, FreeOpen
<1>5. ASSUME NEW v \in Invocations PROVE Still(v) \/ (v = w /\ Moved(v))
  BY DEF Elsewhere, Still
<1>6. FlagOK' /\ RemovedMovesOn
  BY <1>5, FlagStep DEF NoneOpens, Pending
<1>7. InvocationsOK' /\ LeasesOK'
  BY <1>2, <1>4, <1>5, <1>6, CalmStep
<1>8. OneTransactionPerNonce'
  BY DEF WInv, OneTransactionPerNonce
<1> QED
  BY <1>1, <1>2, <1>3, <1>6, <1>7, <1>8 DEF WInv

LEMMA NoLocalIsLocal == NoLocal \in Locals /\ NoLocal.setting = "unset"
BY DEF NoLocal, Locals, ExecutionStates, OpenExecution, Settings

LEMMA Idle ==
    ASSUME WInv, NEW w \in Invocations,
           pc' = [pc EXCEPT ![w] = "IDLE"], local' = [local EXCEPT ![w] = NoLocal],
           lease' \in {lease, "NONE"}
    PROVE  ProcessOK' /\ Elsewhere(w) /\ Moved(w)
<1>1. pc'[w] = "IDLE" /\ \A v \in Invocations \ {w} : pc'[v] = pc[v] /\ local'[v] = local[v]
  BY DEF WInv, ProcessOK
<1>2. ProcessOK'
  BY NoLocalIsLocal DEF WInv, ProcessOK, Labels
<1>3. Moved(w)
  <2>1. local'[w].setting = "unset"
    BY NoLocalIsLocal DEF WInv, ProcessOK
  <2>2. SettingMoves(w)
    BY <1>1, <2>1 DEF SettingMoves
  <2>3. MovesSafely(w)
    BY <1>1 DEF MovesSafely, Row, Free, LeaseAt, NoneLooseAt, PaidAt
  <2> QED
    BY <1>1, <2>2, <2>3 DEF Moved, Remembers, Row, Free, Out
<1>4. Elsewhere(w)
  BY <1>1, InvocationsAssumption DEF Elsewhere
<1> QED
  BY <1>2, <1>3, <1>4

LEMMA Finishes ==
    ASSUME WInv, NEW w \in Invocations, Finish(w)
    PROVE  ProcessOK' /\ Elsewhere(w) /\ Moved(w)
<1>1. lease' \in {lease, "NONE"}
  BY DEF Finish
<1> QED
  BY <1>1, Idle DEF Finish

\* A step to another label that keeps its hold on the lease, or has none.
LEMMA Goes ==
    ASSUME WInv, NEW w \in Invocations, NEW label \in Labels, Go(w, label),
           lease' = lease,
           NEW job, job \in Locals, local' = [local EXCEPT ![w] = job]
    PROVE  /\ ProcessOK' /\ Elsewhere(w)
           /\ pc'[w] = label /\ local'[w] = job
<1>1. ProcessOK'
  BY DEF WInv, ProcessOK, Go
<1>2. /\ pc'[w] = label /\ local'[w] = job
      /\ \A v \in Invocations \ {w} : pc'[v] = pc[v] /\ local'[v] = local[v]
  BY DEF WInv, ProcessOK, Go
<1> QED
  BY <1>1, <1>2 DEF Elsewhere

LEMMA LocalSame ==
    ASSUME WInv, NEW w \in Invocations, local' = local
    PROVE  local[w] \in Locals /\ local' = [local EXCEPT ![w] = local[w]]
BY DEF WInv, ProcessOK

\* Without the setting nothing paid is open, so none is loose.
LEMMA AcquireInv == ASSUME WInv, NEW w \in Invocations, Acquire(w) PROVE WInv'
<1>1. /\ pc' = [pc EXCEPT ![w] = "begin"] /\ lease' = w /\ pc[w] = "IDLE"
      /\ local' = [local EXCEPT ![w].setting = setting]
      /\ UNCHANGED <<vars, journals, network, lastTransfer, setting, removed>>
  BY DEF Acquire, Go, counters, At
<1>2. local[w] \in Locals /\ setting \in Settings
  BY DEF WInv, ProcessOK, ClockOK
<1>3. PICK job : job = [local[w] EXCEPT !.setting = setting]
  OBVIOUS
<1>4. job \in Locals /\ job.setting = setting
  BY <1>2, <1>3 DEF Locals
<1>5. local' = [local EXCEPT ![w] = job]
  BY <1>1, <1>2, <1>3 DEF WInv, ProcessOK, Locals
<1>6. ProcessOK'
  BY <1>1, <1>4, <1>5 DEF WInv, ProcessOK, Labels
<1>7. pc'[w] = "begin" /\ local'[w] = job /\ Elsewhere(w)
  BY <1>1, <1>5 DEF WInv, ProcessOK, Elsewhere
<1>8. ASSUME Kept, setting = "unset" PROVE \A i \in Reviews : ~ Loose(i)
  BY <1>8 DEF WInv, FlagOK, Loose
<1>9. Kept => MovesSafely(w)
  BY <1>4, <1>7, <1>8 DEF MovesSafely, LeaseAt, NoneLooseAt, PaidAt, Row, Free
<1>10. Moved(w)
  BY <1>4, <1>7, <1>9 DEF Moved, Remembers, Row, Free, Out, SettingMoves
<1> QED
  BY <1>1, <1>6, <1>7, <1>10, OnlyMoves

LEMMA StopsInv ==
    ASSUME WInv, NEW w \in Invocations, Die(w) \/ LeaseTimesOut(w) \/ LeaseIsLost(w)
    PROVE  WInv'
<1>0. UNCHANGED <<vars, journals, network, lastTransfer, setting, removed>>
  BY DEF Die, LeaseTimesOut, LeaseIsLost, KeepsOtherCounters, counters
<1>1. CASE Die(w)
  <2>1. ProcessOK' /\ Elsewhere(w) /\ Moved(w)
    BY <1>1, Idle DEF Die
  <2> QED
    BY <1>0, <2>1, OnlyMoves
<1>2. CASE LeaseTimesOut(w) \/ LeaseIsLost(w)
  <2>1. pc' = pc /\ local' = local /\ lease' = "NONE" /\ freeOps' = freeOps
    BY <1>2 DEF LeaseTimesOut, LeaseIsLost, journals
  <2>2. ProcessOK' /\ Elsewhere(w) /\ Still(w)
    BY <2>1, InvocationsAssumption DEF WInv, ProcessOK, Elsewhere, Still
  <2> QED
    BY <1>0, <2>2, OnlyMoves
<1> QED
  BY <1>1, <1>2

\* A step to a label at which nothing is loose, or none that matters.
LEMMA MovesOn ==
    ASSUME WInv, NEW w \in Invocations, pc[w] # "IDLE", NEW label, NEW job,
           pc'[w] = label, local'[w] = job, job.setting = local[w].setting, Remembers(w)',
           label \notin Free \cup {"send"},
           Kept => (lease' = w => LeaseAt(label, job.review, job.setting))
    PROVE  Moved(w)
BY DEF Moved, MovesSafely, SettingMoves, Free, Out

\* On to a free mint.
LEMMA FreeHalfMoves ==
    ASSUME WInv, NEW w \in Invocations, FreeHalf(w),
           pc[w] = "select" \/ (pc[w] \in {"begin", "look"} /\ local[w].setting = "unset"),
           UNCHANGED <<vars, journals, network, lastTransfer, setting, removed>>
    PROVE  WInv'
<1>1. CASE Finish(w)
  BY <1>1, Finishes, OnlyMoves
<1>2. CASE lease = w /\ Go(w, "reserve") /\ UNCHANGED <<lease, local>>
  <2>1. "reserve" \in Labels /\ lease' = lease /\ Go(w, "reserve")
    BY <1>2 DEF Labels
  <2>2. ProcessOK' /\ Elsewhere(w) /\ pc'[w] = "reserve" /\ local'[w] = local[w]
    BY <1>2, <2>1, LocalSame, Goes
  <2>3. Kept => LeaseAt(pc[w], local[w].review, local[w].setting)
    BY <1>2 DEF WInv, LeasesOK, Holds, LeaseOK
  <2>4. local[w].setting = "unset" => ~ Never
    BY DEF WInv, FlagOK
  <2>5. Kept => LeaseAt("reserve", local[w].review, local[w].setting)
    BY <2>3, <2>4 DEF LeaseAt, NoneLooseAt, PaidAt, Row, Free
  <2>6. Remembers(w)'
    BY <2>2 DEF Remembers, Row, Free
  <2>7. Moved(w)
    BY <2>2, <2>5, <2>6, MovesOn DEF Free
  <2> QED
    BY <2>2, <2>7, OnlyMoves
<1> QED
  BY <1>1, <1>2 DEF FreeHalf, Holds

\* What an invocation finds when it looks around.
LEMMA LookAroundMoves ==
    ASSUME WInv, NEW w \in Invocations, pc[w] \in {"begin", "look"}, LookAround(w),
           UNCHANGED <<vars, journals, network, counters>>
    PROVE  WInv'
<1>0. UNCHANGED <<vars, journals, network, lastTransfer, setting, removed>>
  BY DEF counters
<1> USE DEF journals
<1>1. CASE Finish(w)
  BY <1>0, <1>1, Finishes, OnlyMoves
<1>2. CASE local[w].setting = "unset"
  BY <1>0, <1>2, FreeHalfMoves DEF LookAround
<1>3. CASE ~ Finish(w) /\ local[w].setting # "unset"
  <2>0. PaidHalf(w)
    BY <1>3 DEF LookAround
  <2>1. lease' = lease /\ \A k \in FreeOps : ~ LooseFree(k)
    BY <1>3, <2>0 DEF PaidHalf, LooseFree, FreeOpen
  <2>2. ASSUME NEW i \in Reviews, Pending(i), Go(w, "reconcile"),
               local' = [local EXCEPT ![w] =
                  [local[w] EXCEPT !.review = i, !.revision = executions[i].revision,
                                   !.status = executions[i].status,
                                   !.nonce = executions[i].nonce]]
        PROVE  WInv'
    <3>1. executions[i] \in ExecutionRows /\ "reconcile" \in Labels /\ local[w] \in Locals
      BY DEF WInv, RowsOK, ProcessOK, Labels
    <3>2. PICK job : job = [local[w] EXCEPT !.review = i, !.revision = executions[i].revision,
                                            !.status = executions[i].status,
                                            !.nonce = executions[i].nonce]
      OBVIOUS
    <3>3. /\ job.review = i /\ job.revision = executions[i].revision
          /\ job.status = executions[i].status /\ job.nonce = executions[i].nonce
          /\ job.setting = local[w].setting
      BY <3>1, <3>2 DEF Locals
    <3>4. job \in Locals /\ local' = [local EXCEPT ![w] = job]
      <4>1. /\ i \in Nat /\ executions[i].revision \in Nat /\ executions[i].nonce \in Nat
            /\ executions[i].status \in ExecutionStates
        BY <3>1 DEF ExecutionRows, Reviews
      <4>2. job \in Locals
        BY <3>1, <3>2, <4>1 DEF Locals
      <4> QED
        BY <2>2, <3>2, <4>2
    <3>5. ProcessOK' /\ Elsewhere(w) /\ pc'[w] = "reconcile" /\ local'[w] = job
      <4>1. Go(w, "reconcile") /\ lease' = lease
        BY <2>1, <2>2
      <4> QED
        BY <3>1, <3>4, <4>1, Goes
    <3>6. RemembersExecution(w)'
      BY <2>2, <3>1, <3>3, <3>5 DEF RemembersExecution, Pending, OpenExecution, ExecutionRows
    <3>7. Remembers(w)' /\ LeaseAt("reconcile", job.review, job.setting)
      BY <2>1, <3>5, <3>6 DEF Remembers, Row, Free, LeaseAt, NoneLooseAt, PaidAt
    <3>8. Moved(w)
      BY <3>3, <3>5, <3>7, MovesOn DEF Free
    <3> QED
      BY <1>0, <3>5, <3>8, OnlyMoves
  <2>3. ASSUME \A i \in Reviews : ~ Pending(i), NEW i \in Reported, Go(w, "record"),
               local' = [local EXCEPT ![w].review = i, ![w].revision = reviews[i].revision]
        PROVE  WInv'
    <3>1. i \in Reviews /\ reviews[i] \in ReviewRows
          /\ reviews[i].status = "WALLET_REQUESTED" /\ reviews[i].reported
      BY DEF Reported, WInv, RowsOK
    <3>2. local[w] \in Locals /\ i \in Nat /\ reviews[i].revision \in Nat
      BY <3>1 DEF WInv, ProcessOK, ReviewRows, Reviews
    <3>3. PICK job : job = [local[w] EXCEPT !.review = i, !.revision = reviews[i].revision]
      OBVIOUS
    <3>4. /\ job \in Locals /\ job.review = i /\ job.revision = reviews[i].revision
          /\ job.setting = local[w].setting
      BY <3>2, <3>3 DEF Locals
    <3>5. local' = [local EXCEPT ![w] = job]
      BY <2>3, <3>2, <3>3 DEF WInv, ProcessOK, Locals
    <3>6. "record" \in Labels
      BY DEF Labels
    <3>7. ProcessOK' /\ Elsewhere(w) /\ pc'[w] = "record" /\ local'[w] = job
      <4>1. Go(w, "record") /\ lease' = lease /\ job \in Locals
        BY <2>1, <2>3, <3>4
      <4> QED
        BY <3>5, <3>6, <4>1, Goes
    <3>8. RemembersReview(w)'
      BY <3>1, <3>2, <3>4, <3>7 DEF RemembersReview
    <3>9. Remembers(w)'
      BY <3>7, <3>8 DEF Remembers, Row, Free
    <3>10. LeaseAt("record", job.review, job.setting)
      BY <2>1, <2>3 DEF LeaseAt, Loose, Free
    <3>11. Moved(w)
      BY <3>4, <3>7, <3>9, <3>10, MovesOn DEF Free
    <3> QED
      BY <1>0, <3>7, <3>11, OnlyMoves
  <2>4. ASSUME \A i \in Reviews : ~ Pending(i), Go(w, "select"), local' = local
        PROVE  WInv'
    <3>1. "select" \in Labels
      BY DEF Labels
    <3>2. ProcessOK' /\ Elsewhere(w) /\ pc'[w] = "select" /\ local'[w] = local[w]
      BY <2>1, <2>4, <3>1, LocalSame, Goes
    <3>3. Remembers(w)'
      BY <3>2 DEF Remembers, Row, Free
    <3>4. LeaseAt("select", local[w].review, local[w].setting)
      BY <2>1, <2>4 DEF LeaseAt, Loose, Free
    <3>5. Moved(w)
      BY <3>2, <3>3, <3>4, MovesOn DEF Free
    <3> QED
      BY <1>0, <3>2, <3>5, OnlyMoves
  <2> QED
    BY <1>3, <2>0, <2>2, <2>3, <2>4 DEF PaidHalf
<1> QED
  BY <1>1, <1>2, <1>3

LEMMA SelectInv == ASSUME WInv, NEW w \in Invocations, Select(w) PROVE WInv'
<1>0. UNCHANGED <<vars, journals, network, lastTransfer, setting, removed>> /\ pc[w] = "select"
  BY DEF Select, counters, At
<1>1. CASE FreeHalf(w)
  BY <1>0, <1>1, FreeHalfMoves
<1>2. CASE Finish(w)
  BY <1>0, <1>2, Finishes, OnlyMoves
<1>3. ASSUME NEW i \in Reviews, local' = [local EXCEPT ![w].review = i], lease' = lease,
             NEW label \in {"stop", "sign"}, Go(w, label), label = "sign" => Sends(w)
      PROVE  WInv'
  <2>1. local[w] \in Locals /\ i \in Nat /\ label \in Labels
    BY DEF WInv, ProcessOK, Reviews, Labels
  <2>2. PICK job : job = [local[w] EXCEPT !.review = i]
    OBVIOUS
  <2>3. job \in Locals /\ job.review = i /\ job.setting = local[w].setting
    BY <2>1, <2>2 DEF Locals
  <2>4. local' = [local EXCEPT ![w] = job]
    BY <1>3, <2>1, <2>2 DEF WInv, ProcessOK, Locals
  <2>5. ProcessOK' /\ Elsewhere(w) /\ pc'[w] = label /\ local'[w] = job
    BY <1>3, <2>1, <2>3, <2>4, Goes
  <2>6. Kept => (lease = w => LeaseAt("select", local[w].review, local[w].setting))
    BY <1>0 DEF WInv, LeasesOK, Holds, LeaseOK
  <2>7. Kept => (lease' = w => LeaseAt(label, job.review, job.setting))
    BY <1>3, <2>6 DEF LeaseAt, NoneLooseAt, PaidAt, Row, Free
  <2>8. Remembers(w)'
    BY <1>3, <2>3, <2>5 DEF Remembers, Row, Free, Sends
  <2>9. Moved(w)
    BY <1>0, <2>3, <2>5, <2>7, <2>8, MovesOn DEF Free
  <2> QED
    BY <1>0, <2>5, <2>9, OnlyMoves
<1>4. CASE \E i \in Reviews :
              /\ local' = [local EXCEPT ![w].review = i]
              /\ lease' = lease
              /\ Go(w, "stop") \/ (Go(w, "sign") /\ Sends(w))
  <2>1. PICK i \in Reviews :
           /\ local' = [local EXCEPT ![w].review = i]
           /\ lease' = lease
           /\ Go(w, "stop") \/ (Go(w, "sign") /\ Sends(w))
    BY <1>4
  <2>2. CASE Go(w, "stop")
    BY <1>3, <2>1, <2>2
  <2>3. CASE Go(w, "sign") /\ Sends(w)
    BY <1>3, <2>1, <2>3
  <2> QED
    BY <2>1, <2>2, <2>3
<1> QED
  BY <1>1, <1>2, <1>4 DEF Select

LEMMA SignInv == ASSUME WInv, NEW w \in Invocations, Sign(w) PROVE WInv'
<1>0. UNCHANGED <<vars, journals, network, lastTransfer, setting, removed>> /\ pc[w] = "sign"
  BY DEF Sign, counters, At
<1>1. CASE Finish(w)
  BY <1>0, <1>1, Finishes, OnlyMoves
<1>2. CASE /\ local' = [local EXCEPT ![w].nonce = SignerNonce]
           /\ Go(w, "insert") /\ lease' = lease
  <2>1. local[w] \in Locals /\ nonces[Worker] \in Nat /\ "insert" \in Labels
    BY DEF WInv, ProcessOK, NetworkOK, Labels
  <2>2. PICK job : job = [local[w] EXCEPT !.nonce = nonces[Worker]]
    OBVIOUS
  <2>3. /\ job \in Locals /\ job.review = local[w].review
        /\ job.setting = local[w].setting
    BY <2>1, <2>2 DEF Locals
  <2>4. local' = [local EXCEPT ![w] = job]
    BY <1>2, <2>1, <2>2 DEF WInv, ProcessOK, Locals, SignerNonce
  <2>5. ProcessOK' /\ Elsewhere(w) /\ pc'[w] = "insert" /\ local'[w] = job
    BY <1>2, <2>1, <2>3, <2>4, Goes
  <2>6. local[w].review \in Reviews /\ Sends(w)
    BY <1>0 DEF WInv, InvocationsOK, Remembers
  <2>7. Kept => (lease = w => LeaseAt("sign", local[w].review, local[w].setting))
    BY <1>0 DEF WInv, LeasesOK, Holds, LeaseOK
  <2>8. Kept => (lease' = w => LeaseAt("insert", job.review, job.setting))
    BY <1>2, <2>3, <2>7 DEF LeaseAt, NoneLooseAt, PaidAt, Row, Free
  <2>9. Remembers(w)'
    BY <2>3, <2>5, <2>6 DEF Remembers, Row, Free, Sends
  <2>10. Moved(w)
    BY <1>0, <2>3, <2>5, <2>8, <2>9, MovesOn DEF Free
  <2> QED
    BY <1>0, <2>5, <2>10, OnlyMoves
<1> QED
  BY <1>1, <1>2 DEF Sign

---------------------------------------------------------------------------
(* Steps that write to the journal of executions. *)

LEMMA RowMoves ==
    ASSUME WInv, NEW w \in Invocations,
           UNCHANGED <<vars, reviews, wallet, freeOps, network, lastTransfer, setting, removed>>,
           RowsOK', ProcessOK', ExecutionsOK', ExecutionsMoveOn, NoneOpens \/ Sends(w),
           Elsewhere(w), Moved(w)
    PROVE  WInv'
<1> USE DEF network, vars
<1>1. Inv'
  BY VaultFrame DEF WInv
<1>2. NetworkOK' /\ ClockOK'
  BY DEF WInv, NetworkOK, ClockOK, ShapeOK
<1>3. OwnerOK' /\ FreeOK'
  BY OwnerFrame, FreeFrame
<1>4. ReviewsMoveOn /\ FreesMoveOn /\ SignerSendsNothing
  BY DEF ReviewsMoveOn, FreesMoveOn, SignerSendsNothing, FreeOpen
<1>5. ASSUME NEW v \in Invocations PROVE Still(v) \/ (v = w /\ Moved(v))
  BY DEF Elsewhere, Still
<1>6. FlagOK' /\ RemovedMovesOn
  BY <1>5, FlagStep
<1>7. InvocationsOK' /\ LeasesOK'
  BY <1>2, <1>4, <1>5, <1>6, CalmStep
<1>8. OneTransactionPerNonce'
  BY DEF WInv, OneTransactionPerNonce
<1> QED
  BY <1>1, <1>2, <1>3, <1>6, <1>7, <1>8 DEF WInv

\* One row changes: a new one is signed or stopped, an open one goes on or,
\* on its receipt, is closed.
LEMMA OneRowMoves ==
    ASSUME WInv, NEW i \in Reviews, NEW row \in ExecutionRows,
           executions' = [executions EXCEPT ![i] = row],
           UNCHANGED <<reviews, wallet, freeOps, sent, mined>>,
           \/ executions[i].status = "NONE" /\ row.status = "STOPPED"
           \/ executions[i].status = "NONE" /\ row.status = "SIGNED" /\ Savable(i)
           \/ /\ Pending(i) /\ row.nonce = executions[i].nonce
              /\ row.revision > executions[i].revision
              /\ \/ row.status \in OpenExecution
                 \/ \E m \in Receipt(ExecuteTx(i, row.nonce)) : row.status = Outcome(m)
    PROVE  /\ RowsOK' /\ ExecutionsOK' /\ ExecutionsMoveOn
           /\ NoneOpens \/ (executions[i].status = "NONE" /\ row.status = "SIGNED")
<1>1. /\ executions'[i] = row
      /\ \A j \in Reviews : j # i => executions'[j] = executions[j]
  BY DEF WInv, RowsOK
<1>2. RowsOK'
  BY DEF WInv, RowsOK
<1>3. \A m \in Receipt(ExecuteTx(i, row.nonce)) : ExecuteTx(i, row.nonce) \in sent
  BY DEF WInv, NetworkOK, Receipt
<1>4. ExecutionsMoveOn
  BY <1>1, <1>3 DEF ExecutionsMoveOn, Pending, OpenExecution, Outcome
<1>5. /\ \A j, k \in Reviews : Pending(j) /\ Pending(k) => j = k
      /\ \A tx \in sent : tx.kind = "EXECUTE" => tx.id \in Reviews
      /\ SavedBeforeSent
    BY PartiesAssumption DEF WInv, ExecutionsOK, NetworkOK, ShapeOK, OwnerKinds
<1>6. (\A j, k \in Reviews : Pending(j) /\ Pending(k) => j = k)'
  BY <1>1, <1>5 DEF Pending, Savable, OpenExecution
<1>7. SavedBeforeSent'
  BY <1>1, <1>5 DEF SavedBeforeSent, Pending, OpenExecution, Outcome
<1>8. ASSUME NEW j \in Reviews
      PROVE  LET executed == Receipt(ExecuteTx(j, executions'[j].nonce))
             IN  /\ executions'[j].status = "COMPLETED" => \E m \in executed : m.ok
                 /\ executions'[j].status = "REVERTED" => \E m \in executed : ~ m.ok
  <2>1. CASE j # i
    BY <1>1, <2>1 DEF WInv, ExecutionsOK
  <2>2. CASE j = i
    BY <1>1, <2>2 DEF OpenExecution, Outcome
  <2> QED
    BY <2>1, <2>2
<1>9. (\A j \in Reviews :
          LET executed == Receipt(ExecuteTx(j, executions[j].nonce))
          IN  /\ executions[j].status = "COMPLETED" => \E m \in executed : m.ok
              /\ executions[j].status = "REVERTED" => \E m \in executed : ~ m.ok)'
  BY <1>8 DEF Receipt, ExecuteTx
<1>10. ExecutionsOK'
  BY <1>6, <1>7, <1>9 DEF ExecutionsOK
<1>11. NoneOpens \/ (executions[i].status = "NONE" /\ row.status = "SIGNED")
  BY <1>1 DEF NoneOpens, Pending, OpenExecution
<1> QED
  BY <1>2, <1>4, <1>10, <1>11

LEMMA StopInv == ASSUME WInv, NEW w \in Invocations, Stop(w) PROVE WInv'
<1>1. PICK i \in Reviews : i = local[w].review
  BY DEF Stop, At, WInv, InvocationsOK, Remembers
<1>2. /\ UNCHANGED <<vars, reviews, wallet, freeOps, network, lastTransfer, setting, removed>>
      /\ Finish(w)
  BY DEF Stop, counters
<1>3. ProcessOK' /\ Elsewhere(w) /\ Moved(w)
  BY <1>2, Finishes
<1>4. CASE executions[i].status = "NONE"
  <2>1. executions[i] \in ExecutionRows
    BY DEF WInv, RowsOK
  <2>2. PICK row : row = [executions[i] EXCEPT !.status = "STOPPED"]
    OBVIOUS
  <2>3. row \in ExecutionRows /\ row.status = "STOPPED"
    BY <2>1, <2>2 DEF ExecutionRows, ExecutionStates
  <2>4. executions' = [executions EXCEPT ![i] = row]
    BY <1>1, <1>4, <2>1, <2>2 DEF Stop, WInv, RowsOK, ExecutionRows
  <2>5. RowsOK' /\ ExecutionsOK' /\ ExecutionsMoveOn /\ NoneOpens
    BY <1>2, <1>4, <2>3, <2>4, OneRowMoves DEF network
  <2> QED
    BY <1>2, <1>3, <2>5, RowMoves
<1>5. CASE executions[i].status # "NONE"
  BY <1>1, <1>2, <1>3, <1>5, OnlyMoves DEF Stop, journals
<1> QED
  BY <1>4, <1>5

LEMMA InsertInv == ASSUME WInv, NEW w \in Invocations, Insert(w) PROVE WInv'
<1>1. PICK i \in Reviews : i = local[w].review /\ pc[w] = "insert" /\ Sends(w)
  BY DEF Insert, At, WInv, InvocationsOK, Remembers
<1>2. UNCHANGED <<vars, reviews, wallet, freeOps, network, lastTransfer, setting, removed>>
  BY DEF Insert, counters
<1>3. CASE Savable(i)
  <2>1. local[w] \in Locals /\ "reconcile" \in Labels
    BY DEF WInv, ProcessOK, Labels
  <2>2. PICK row : row = [status |-> "SIGNED", revision |-> 0, nonce |-> local[w].nonce]
    OBVIOUS
  <2>3. /\ row \in ExecutionRows /\ row.status = "SIGNED" /\ row.revision = 0
        /\ row.nonce = local[w].nonce
    BY <2>1, <2>2 DEF ExecutionRows, ExecutionStates, OpenExecution, Locals
  <2>4. executions' = [executions EXCEPT ![i] = row]
    BY <1>1, <1>3, <2>2 DEF Insert
  <2>5. RowsOK' /\ ExecutionsOK' /\ ExecutionsMoveOn
    BY <1>2, <1>3, <2>3, <2>4, OneRowMoves DEF network, Savable
  <2>6. PICK job : job = [local[w] EXCEPT !.revision = 0, !.status = "SIGNED"]
    OBVIOUS
  <2>7. /\ job \in Locals /\ job.review = i /\ job.revision = 0 /\ job.status = "SIGNED"
        /\ job.nonce = local[w].nonce /\ job.setting = local[w].setting
    BY <1>1, <2>1, <2>6 DEF Locals, ExecutionStates, OpenExecution
  <2>8. local' = [local EXCEPT ![w] = job] /\ Go(w, "reconcile") /\ lease' = lease
    BY <1>1, <1>3, <2>1, <2>6 DEF Insert, WInv, ProcessOK, Locals
  <2>9. ProcessOK' /\ Elsewhere(w) /\ pc'[w] = "reconcile" /\ local'[w] = job
    BY <2>1, <2>7, <2>8, Goes
  <2>10. RemembersExecution(w)'
    BY <2>3, <2>4, <2>7, <2>9 DEF RemembersExecution, OpenExecution, WInv, RowsOK
  <2>11. Kept => (lease = w => LeaseAt("insert", local[w].review, local[w].setting))
    BY <1>1 DEF WInv, LeasesOK, Holds, LeaseOK
  <2>12. Kept => (lease' = w => LeaseAt("reconcile", job.review, job.setting))
    BY <2>7, <2>8, <2>11 DEF LeaseAt, NoneLooseAt, PaidAt, Row, Free
  <2>13. Remembers(w)'
    BY <2>9, <2>10 DEF Remembers, Row, Free
  <2>14. Moved(w)
    BY <1>1, <2>7, <2>9, <2>12, <2>13, MovesOn DEF Free
  <2> QED
    BY <1>1, <1>2, <2>5, <2>9, <2>14, RowMoves
<1>4. CASE ~ Savable(i)
  BY <1>1, <1>2, <1>4, Finishes, OnlyMoves DEF Insert, journals
<1> QED
  BY <1>3, <1>4

\* An update that finds the revision it read finds an open row.
LEMMA Updates ==
    ASSUME WInv, NEW w \in Invocations, pc[w] \in Row, NEW status \in ExecutionStates,
           UpdateExecution(w, status), executions' # executions,
           UNCHANGED <<reviews, wallet, freeOps, sent, mined>>,
           \/ status \in OpenExecution
           \/ \E m \in Receipt(SavedTx(w)) : status = Outcome(m)
    PROVE  RowsOK' /\ ExecutionsOK' /\ ExecutionsMoveOn /\ NoneOpens
<1>1. PICK i \in Reviews : i = local[w].review /\ RemembersExecution(w)
  BY DEF WInv, InvocationsOK, Remembers, RemembersExecution
<1>2. /\ executions[i].revision = local[w].revision /\ Pending(i)
      /\ executions[i].nonce = local[w].nonce /\ executions[i] \in ExecutionRows
  BY <1>1 DEF UpdateExecution, RemembersExecution, Pending, WInv, RowsOK
<1>3. PICK row : row = [executions[i] EXCEPT !.status = status, !.revision = @ + 1]
  OBVIOUS
<1>4. /\ row \in ExecutionRows /\ row.status = status /\ row.nonce = local[w].nonce
      /\ row.revision > executions[i].revision
  <2>1. PICK old \in ExecutionRows, n \in Nat : old = executions[i] /\ n = old.revision + 1
    BY <1>2 DEF ExecutionRows
  <2>2. row = [old EXCEPT !.status = status, !.revision = n]
    BY <1>3, <2>1
  <2>3. /\ row \in ExecutionRows /\ row.status = status /\ row.revision = n
        /\ row.nonce = old.nonce
    BY <2>2 DEF ExecutionRows
  <2>4. old.revision \in Nat
    BY DEF ExecutionRows
  <2> QED
    BY <1>2, <2>1, <2>3, <2>4
<1>5. executions' = [executions EXCEPT ![i] = row]
  BY <1>1, <1>2, <1>3 DEF UpdateExecution, WInv, RowsOK, ExecutionRows
<1>6. SavedTx(w) = ExecuteTx(i, row.nonce)
  BY <1>1, <1>4 DEF SavedTx
<1>7. executions[i].status # "NONE"
  BY <1>2 DEF Pending, OpenExecution
<1> QED
  BY <1>2, <1>4, <1>5, <1>6, <1>7, OneRowMoves

LEMMA ReconcileReceiptInv ==
    ASSUME WInv, NEW w \in Invocations, ReconcileReceipt(w) PROVE WInv'
<1>1. /\ UNCHANGED <<vars, reviews, wallet, freeOps, network, lastTransfer, setting, removed>>
      /\ Finish(w) /\ pc[w] \in Row
  BY DEF ReconcileReceipt, counters, At, Row
<1>2. ProcessOK' /\ Elsewhere(w) /\ Moved(w)
  BY <1>1, Finishes
<1>3. PICK m \in Receipt(SavedTx(w)) : UpdateExecution(w, Outcome(m))
  BY DEF ReconcileReceipt
<1>4. Outcome(m) \in ExecutionStates
  BY DEF Outcome, ExecutionStates
<1>5. CASE executions' # executions
  <2>1. RowsOK' /\ ExecutionsOK' /\ ExecutionsMoveOn /\ NoneOpens
    BY <1>1, <1>3, <1>4, <1>5, Updates DEF network
  <2> QED
    BY <1>1, <1>2, <2>1, RowMoves
<1>6. CASE executions' = executions
  BY <1>1, <1>2, <1>6, OnlyMoves DEF journals
<1> QED
  BY <1>5, <1>6

LEMMA MarkSubmittedInv ==
    ASSUME WInv, NEW w \in Invocations, MarkSubmitted(w) PROVE WInv'
<1>1. /\ UNCHANGED <<vars, reviews, wallet, freeOps, network, lastTransfer, setting, removed>>
      /\ Finish(w) /\ pc[w] \in Row
  BY DEF MarkSubmitted, counters, At, Row
<1>2. ProcessOK' /\ Elsewhere(w) /\ Moved(w)
  BY <1>1, Finishes
<1>3. CASE executions' # executions
  <2>1. UpdateExecution(w, "SUBMITTED")
    BY <1>3 DEF MarkSubmitted
  <2>2. "SUBMITTED" \in OpenExecution /\ "SUBMITTED" \in ExecutionStates
    BY DEF OpenExecution, ExecutionStates
  <2>3. RowsOK' /\ ExecutionsOK' /\ ExecutionsMoveOn /\ NoneOpens
    BY <1>1, <1>3, <2>1, <2>2, Updates DEF network
  <2> QED
    BY <1>1, <1>2, <2>3, RowMoves
<1>4. CASE executions' = executions
  BY <1>1, <1>2, <1>4, OnlyMoves DEF journals
<1> QED
  BY <1>3, <1>4
---------------------------------------------------------------------------
(* Steps that write to the journal of free mints. *)

LEMMA FreeRowMoves ==
    ASSUME WInv, NEW w \in Invocations,
           UNCHANGED <<vars, reviews, wallet, executions, network, lastTransfer, setting, removed>>,
           NEW k \in FreeOps, NEW status, freeOps' = [freeOps EXCEPT ![k] = status],
           \/ freeOps[k] = "NONE" /\ status = "SIGNED"
           \/ FreeOpen(k) /\ status \in OpenFree
           \/ FreeOpen(k) /\ status \in {"CONFIRMED", "REVERTED"} /\ FreeReceipt(k) # {},
           freeOps[k] = "SIGNED" => pc[w] \in Free /\ local[w].review = k,
           ProcessOK', Elsewhere(w), Moved(w)
    PROVE  WInv'
<1> USE DEF network, vars
<1>1. /\ freeOps'[k] = status
      /\ \A j \in FreeOps : j # k => freeOps'[j] = freeOps[j]
  BY DEF WInv, RowsOK
<1>2. Inv'
  BY VaultFrame DEF WInv
<1>3. RowsOK' /\ NetworkOK' /\ ClockOK'
  BY DEF WInv, RowsOK, NetworkOK, ClockOK, ShapeOK, OpenFree
<1>4. OwnerOK' /\ ExecutionsOK'
  BY OwnerFrame, ExecutionsFrame
<1>5. FreeOK'
  <2>1. \A t, u \in sent : t.kind = "FREE" /\ u.kind = "FREE" /\ t.id = u.id => t = u
    BY DEF WInv, FreeOK
  <2>2. \A tx \in sent : tx.kind = "FREE" => tx.id \in FreeOps /\ freeOps[tx.id] # "NONE"
    BY PartiesAssumption DEF WInv, FreeOK, NetworkOK, ShapeOK, OwnerKinds
  <2>3. \A tx \in sent : tx.kind = "FREE" => freeOps'[tx.id] # "NONE"
    BY <1>1, <2>2 DEF OpenFree
  <2>4. \A j \in FreeOps : freeOps'[j] \in {"CONFIRMED", "REVERTED"} => FreeReceipt(j) # {}
    BY <1>1 DEF WInv, FreeOK, OpenFree
  <2> QED
    BY <2>1, <2>3, <2>4 DEF FreeOK, FreeReceipt
<1>6. ReviewsMoveOn /\ ExecutionsMoveOn /\ SignerSendsNothing
  BY DEF ReviewsMoveOn, ExecutionsMoveOn, SignerSendsNothing
<1>7. FreesMoveOn
  BY <1>1 DEF FreesMoveOn, FreeOpen
<1>8. ASSUME NEW v \in Invocations PROVE Still(v) \/ (v = w /\ Moved(v))
  <2>1. CASE v # w
    <3>1. pc[v] \in Free =>
             local[v].review \in FreeOps /\ freeOps[local[v].review] = "SIGNED"
      BY DEF WInv, InvocationsOK, Remembers, RemembersFree
    <3>2. pc[v] \in Free => local[v].review # k
      BY <2>1, <3>1 DEF WInv, InvocationsOK, OneHolderOfAFree
    <3> QED
      BY <1>1, <2>1, <3>1, <3>2 DEF Elsewhere, Still
  <2> QED
    BY <2>1
<1>9. FlagOK' /\ RemovedMovesOn
  BY <1>8, FlagStep DEF NoneOpens, Pending
<1>10. InvocationsOK' /\ LeasesOK'
  BY <1>3, <1>6, <1>7, <1>8, <1>9, CalmStep
<1>11. OneTransactionPerNonce'
  BY DEF WInv, OneTransactionPerNonce
<1> QED
  BY <1>2, <1>3, <1>4, <1>5, <1>9, <1>10, <1>11 DEF WInv

LEMMA FreeFailedInv ==
    ASSUME WInv, NEW w \in Invocations, pc[w] \in Free, FreeFailed(w),
           UNCHANGED <<vars, reviews, wallet, executions, network, lastTransfer, setting, removed>>
    PROVE  WInv'
<1>1. PICK k \in FreeOps : k = local[w].review /\ freeOps[k] = "SIGNED"
  BY DEF WInv, InvocationsOK, Remembers, RemembersFree
<1>2. freeOps' = [freeOps EXCEPT ![k] = "RECONCILIATION_REQUIRED"]
  BY <1>1 DEF FreeFailed
<1>3. ProcessOK' /\ Elsewhere(w) /\ Moved(w)
  BY Finishes DEF FreeFailed
<1>4. FreeOpen(k) /\ "RECONCILIATION_REQUIRED" \in OpenFree
  BY <1>1 DEF FreeOpen, OpenFree
<1> QED
  BY <1>1, <1>2, <1>3, <1>4, FreeRowMoves

LEMMA MarkFreeInv == ASSUME WInv, NEW w \in Invocations, MarkFree(w) PROVE WInv'
<1>0. /\ UNCHANGED <<vars, reviews, wallet, executions, network, lastTransfer, setting, removed>>
      /\ pc[w] \in Free
  BY DEF MarkFree, counters, At, Free
<1>1. PICK k \in FreeOps : k = local[w].review /\ freeOps[k] = "SIGNED"
  BY <1>0 DEF WInv, InvocationsOK, Remembers, RemembersFree
<1>2. freeOps' = [freeOps EXCEPT ![k] = "SUBMITTED"] /\ Finish(w)
  BY <1>1 DEF MarkFree
<1>3. ProcessOK' /\ Elsewhere(w) /\ Moved(w)
  BY <1>2, Finishes
<1>4. FreeOpen(k) /\ "SUBMITTED" \in OpenFree
  BY <1>1 DEF FreeOpen, OpenFree
<1> QED
  BY <1>0, <1>1, <1>2, <1>3, <1>4, FreeRowMoves

LEMMA ReserveFreeInv == ASSUME WInv, NEW w \in Invocations, ReserveFree(w) PROVE WInv'
<1>0. /\ UNCHANGED <<vars, reviews, wallet, executions, network, lastTransfer, setting, removed>>
      /\ pc[w] = "reserve"
  BY DEF ReserveFree, counters, At
<1>1. CASE Finish(w) /\ freeOps' = freeOps
  BY <1>0, <1>1, Finishes, OnlyMoves DEF journals
<1>2. ASSUME NEW k \in FreeOps, freeOps[k] = "NONE",
             freeOps' = [freeOps EXCEPT ![k] = "SIGNED"],
             local' = [local EXCEPT ![w].review = k], Go(w, "freeCheck"), lease' = lease
      PROVE  WInv'
  <2>1. local[w] \in Locals /\ k \in Nat /\ "freeCheck" \in Labels
    BY DEF WInv, ProcessOK, FreeOps, Labels
  <2>2. PICK job : job = [local[w] EXCEPT !.review = k]
    OBVIOUS
  <2>3. job \in Locals /\ job.review = k /\ job.setting = local[w].setting
    BY <2>1, <2>2 DEF Locals
  <2>4. local' = [local EXCEPT ![w] = job]
    BY <1>2, <2>1, <2>2 DEF WInv, ProcessOK, Locals
  <2>5. ProcessOK' /\ Elsewhere(w) /\ pc'[w] = "freeCheck" /\ local'[w] = job
    <3>1. Go(w, "freeCheck") /\ lease' = lease
      BY <1>2
    <3> QED
      BY <2>1, <2>3, <2>4, <3>1, Goes
  <2>6. freeOps'[k] = "SIGNED"
    BY <1>2 DEF WInv, RowsOK
  <2>7. \A tx \in sent' : ~ (tx.kind = "FREE" /\ tx.id = k)
    BY <1>0, <1>2 DEF WInv, FreeOK, network
  <2>8. RemembersFree(w)'
    BY <2>3, <2>5, <2>6, <2>7 DEF RemembersFree
  <2>9. Kept => (lease = w => LeaseAt("reserve", local[w].review, local[w].setting))
    BY <1>0 DEF WInv, LeasesOK, Holds, LeaseOK
  <2>10. Kept => (lease' = w => LeaseAt("freeCheck", k, local[w].setting))
    BY <1>2, <2>9 DEF LeaseAt, NoneLooseAt, PaidAt, Row, Free, Out
  <2>11. Kept => MovesSafely(w)
    BY <2>3, <2>5, <2>10 DEF MovesSafely
  <2>12. SettingMoves(w)
    BY <1>0, <2>3, <2>5 DEF SettingMoves
  <2>13. Moved(w)
    BY <1>2, <2>3, <2>5, <2>8, <2>11, <2>12 DEF Moved, Remembers, Row, Free, Out
  <2> QED
    BY <1>0, <1>2, <2>5, <2>13, FreeRowMoves
<1> QED
  BY <1>1, <1>2 DEF ReserveFree

LEMMA ReconcileFreeInv == ASSUME WInv, NEW w \in Invocations, ReconcileFree(w) PROVE WInv'
<1>0. /\ UNCHANGED <<vars, reviews, wallet, executions, network, lastTransfer, setting, removed>>
      /\ pc[w] = "begin" /\ UNCHANGED counters
  BY DEF ReconcileFree, counters, At
<1>1. CASE LookAround(w) /\ freeOps' = freeOps
  BY <1>0, <1>1, LookAroundMoves DEF journals
<1>2. CASE Finish(w) /\ freeOps' = freeOps
  BY <1>0, <1>2, Finishes, OnlyMoves DEF journals
<1>3. ASSUME NEW k \in Awaited, NEW m \in FreeReceipt(k), Go(w, "look"), UNCHANGED <<lease, local>>,
             freeOps' = [freeOps EXCEPT ![k] = IF m.ok THEN "CONFIRMED" ELSE "REVERTED"]
      PROVE  WInv'
  <2>1. k \in FreeOps /\ FreeOpen(k) /\ freeOps[k] # "SIGNED" /\ "look" \in Labels
    BY DEF Awaited, FreeOpen, OpenFree, Labels
  <2>2. PICK status \in {"CONFIRMED", "REVERTED"} :
            freeOps' = [freeOps EXCEPT ![k] = status]
    BY <1>3
  <2>3. ProcessOK' /\ Elsewhere(w) /\ pc'[w] = "look" /\ local'[w] = local[w]
    BY <1>3, <2>1, LocalSame, Goes
  <2>4. Kept => (lease = w => LeaseAt("begin", local[w].review, local[w].setting))
    BY <1>0 DEF WInv, LeasesOK, Holds, LeaseOK
  <2>5. Kept => (lease' = w => LeaseAt("look", local[w].review, local[w].setting))
    BY <1>3, <2>4 DEF LeaseAt, NoneLooseAt, PaidAt, Row, Free
  <2>6. Remembers(w)'
    BY <2>3 DEF Remembers, Row, Free
  <2>7. Moved(w)
    BY <1>0, <2>3, <2>5, <2>6, MovesOn DEF Free
  <2> QED
    BY <1>0, <1>3, <2>1, <2>2, <2>3, <2>7, FreeRowMoves
<1> QED
  BY <1>1, <1>2, <1>3 DEF ReconcileFree

LEMMA LookInv == ASSUME WInv, NEW w \in Invocations, Look(w) PROVE WInv'
BY LookAroundMoves DEF Look, At

LEMMA ThrowInv == ASSUME WInv, NEW w \in Invocations, Throw(w) PROVE WInv'
<1>1. UNCHANGED <<vars, reviews, wallet, executions, network, lastTransfer, setting, removed>>
  BY DEF Throw, KeepsOtherCounters
<1>2. CASE pc[w] \in Free
  BY <1>1, <1>2, FreeFailedInv DEF Throw, Free
<1>3. CASE pc[w] \notin Free
  BY <1>1, <1>3, Finishes, OnlyMoves DEF Throw, Free, journals
<1> QED
  BY <1>2, <1>3

---------------------------------------------------------------------------
(* The next nonce a node would give: some number within the mempool's size *)
(* is free, and there is a least one.                                      *)

LEMMA PendingIsNext ==
    ASSUME NetworkOK, NEW a \in {Owner, Worker}
    PROVE  PendingNonce(a) \in Nat /\ PendingNonce(a) >= nonces[a]
<1> DEFINE Taken(n) == \E tx \in mempool : tx.from = a /\ tx.nonce = n
<1>1. PICK N \in Nat, C \in Nat : N = nonces[a] /\ C = Cardinality(mempool)
  BY FS_CardinalityType DEF NetworkOK
<1> DEFINE Gap == {n \in N .. N + C : ~ Taken(n)}
<1>2. Gap # {}
  <2> SUFFICES ASSUME \A n \in N .. N + C : Taken(n) PROVE FALSE
    OBVIOUS
  <2> DEFINE f == [n \in N .. N + C |-> CHOOSE tx \in mempool : tx.from = a /\ tx.nonce = n]
  <2>1. \A n \in N .. N + C : f[n] \in mempool /\ f[n].nonce = n
    OBVIOUS
  <2>2. f \in [N .. N + C -> mempool]
    BY <2>1
  <2>3. IsFiniteSet(N .. N + C) /\ Cardinality(mempool) < Cardinality(N .. N + C)
    <3>1. IsFiniteSet(N .. N + C) /\ Cardinality(N .. N + C) = N + C - N + 1
      BY FS_Interval
    <3> QED
      BY <1>1, <3>1
  <2>4. IsFiniteSet(mempool)
    BY DEF NetworkOK
  <2> HIDE DEF f
  <2>5. \E x, y \in N .. N + C : x # y /\ f[x] = f[y]
    BY <2>2, <2>3, <2>4, FS_PigeonHole
  <2> QED
    BY <2>1, <2>5
<1>3. PICK n \in Gap : \A k \in Gap : ~ (k < n)
  <2>1. Gap \subseteq Nat
    OBVIOUS
  <2> HIDE DEF Gap
  <2>2. PICK n \in Gap : \A k \in Gap : ~ (<<k, n>> \in OpToRel(<, Nat))
    BY <1>2, <2>1, NatLessThanWellFounded, WFMin
  <2> QED
    BY <2>1, <2>2 DEF OpToRel
<1>4. /\ n \in N .. N + C /\ ~ Taken(n)
      /\ \A k \in N .. n - 1 : Taken(k)
  BY <1>3
<1>5. PendingNonce(a) \in N .. N + C
  BY <1>1, <1>4 DEF PendingNonce
<1> QED
  BY <1>1, <1>5
---------------------------------------------------------------------------
(* The owner's steps. *)

LEMMA EarlierReviews == \A i \in Reviews : i \in Nat /\ \A j \in 1 .. i - 1 : j \in Reviews
<1>1. MaxReviews \in Nat
  BY WorkerBoundsAssumption
<1> QED
  BY <1>1 DEF Reviews

\* What an update writes.
NextRow(i, row, status, reported) ==
    /\ reviews' = [reviews EXCEPT ![i] = row]
    /\ row.status = status /\ row.reported = reported
    /\ row.revision > reviews[i].revision
    /\ row.action = reviews[i].action /\ row.nonce = reviews[i].nonce
    /\ row.price = reviews[i].price /\ row.fee = reviews[i].fee

LEMMA SetsReview ==
    ASSUME WInv, NEW i \in Reviews, NEW status, NEW reported, NEW block,
           SetReview(i, status, reported, block),
           status \in Terminal \cup {"WALLET_REQUESTED"}, reported \in BOOLEAN, block \in Nat
    PROVE  \E row \in ReviewRows : NextRow(i, row, status, reported)
<1>1. PICK old \in ReviewRows, n \in Nat : old = reviews[i] /\ n = old.revision + 1
  BY DEF WInv, RowsOK, ReviewRows
<1>2. PICK row : row = [old EXCEPT !.status = status, !.revision = n,
                                   !.reported = reported, !.block = block]
  OBVIOUS
<1>3. /\ row \in ReviewRows /\ row.status = status /\ row.reported = reported
      /\ row.revision = n /\ row.action = old.action /\ row.nonce = old.nonce
      /\ row.price = old.price /\ row.fee = old.fee
  BY <1>2 DEF ReviewRows
<1>4. reviews' = [reviews EXCEPT ![i] = row]
  BY <1>1, <1>2 DEF SetReview, WInv, RowsOK, ReviewRows
<1>5. old.revision \in Nat
  BY DEF ReviewRows
<1>6. row.revision > reviews[i].revision
  BY <1>1, <1>3, <1>5
<1>7. NextRow(i, row, status, reported)
  BY <1>1, <1>3, <1>4, <1>6 DEF NextRow
<1> QED
  BY <1>3, <1>7

\* What the wallet did fits what the review is about to say of it.
Fits(i, status, reported, asked) ==
    /\ reviews[i].status \in {"PREPARED", "WALLET_REQUESTED"}
    /\ wallet[i] = "SENT" => asked = "SENT"
    /\ status = "CANCELLED" => asked = "IDLE"
    /\ status = "WALLET_REQUESTED" => asked # "IDLE" /\ (reported => asked = "SENT")
    /\ status = "DECLINED" => asked = "REJECTED"
    /\ status = "CONFIRMED" => asked = "SENT" /\ \E m \in Receipt(OwnerTx(i)) : m.ok
    /\ status = "REVERTED" => asked = "SENT" /\ \E m \in Receipt(OwnerTx(i)) : ~ m.ok

\* A review that is not over moves on.  The next one waits until it is.
LEMMA ReviewMoves ==
    ASSUME WInv, NEW i \in Reviews,
           NEW status \in Terminal \cup {"WALLET_REQUESTED"}, NEW reported \in BOOLEAN,
           NEW block \in Nat, SetReview(i, status, reported, block),
           NEW asked \in {"IDLE", "ASKED", "SENT", "REJECTED"},
           wallet' = [wallet EXCEPT ![i] = asked],
           Fits(i, status, reported, asked),
           UNCHANGED <<executions, freeOps, mined, sent>>
    PROVE  RowsOK' /\ OwnerOK' /\ ReviewsMoveOn
<1>0. PICK row \in ReviewRows : NextRow(i, row, status, reported)
  BY SetsReview
<1> USE DEF NextRow, Fits
<1>1. /\ reviews'[i] = row /\ wallet'[i] = asked
      /\ \A j \in Reviews : j # i => reviews'[j] = reviews[j] /\ wallet'[j] = wallet[j]
  BY <1>0 DEF WInv, RowsOK
<1>2. RowsOK' /\ ReviewsMoveOn
  BY <1>0, <1>1 DEF WInv, RowsOK, ReviewsMoveOn, Terminal
<1>3. \A j \in Reviews : OwnerTx(j)' = OwnerTx(j)
  BY <1>0, <1>1 DEF OwnerTx
<1>4. reviews[i].status \notin Terminal /\ reviews[i].status # "NONE"
  BY DEF Terminal
<1>5. ASSUME NEW j \in Reviews PROVE WalletOK(j)' /\ ReceiptOK(j)'
  <2>0. WalletOK(j) /\ ReceiptOK(j) /\ WalletOK(i)
    BY DEF WInv, OwnerOK
  <2>1. CASE j # i
    BY <1>1, <1>3, <2>0, <2>1 DEF WalletOK, ReceiptOK, Receipt
  <2>2. CASE j = i
    <3>1. WalletOK(i)'
      BY <1>0, <1>1, <1>4, <2>0 DEF WalletOK, Terminal
    <3>2. ReceiptOK(i)'
      BY <1>0, <1>1, <1>3 DEF ReceiptOK, Receipt
    <3> QED
      BY <2>2, <3>1, <3>2
  <2> QED
    BY <2>1, <2>2
<1>6. ASSUME NEW j \in Reviews PROVE FollowsAll(j)'
  <2>1. FollowsAll(j) /\ \A l \in 1 .. j - 1 : l \in Reviews
    BY EarlierReviews DEF WInv, OwnerOK
  <2>2. CASE reviews'[j].status = "NONE"
    BY <2>2 DEF FollowsAll
  <2>3. CASE reviews'[j].status # "NONE"
    <3>1. /\ reviews[j].status # "NONE" /\ reviews'[j].nonce = reviews[j].nonce
      BY <1>0, <1>1, <1>4, <2>3
    <3>2. i \notin 1 .. j - 1
      BY <1>4, <2>1, <3>1 DEF FollowsAll
    <3> QED
      BY <1>0, <1>1, <2>1, <3>1, <3>2 DEF FollowsAll
  <2> QED
    BY <2>2, <2>3
<1>7. OwnerSentOK'
  <2> SUFFICES ASSUME NEW tx \in sent, tx.from = Owner
               PROVE  wallet'[tx.id] = "SENT" /\ tx = OwnerTx(tx.id)'
    BY DEF OwnerSentOK
  <2>1. tx.id \in Reviews /\ wallet[tx.id] = "SENT" /\ tx = OwnerTx(tx.id)
    BY PartiesAssumption DEF WInv, OwnerOK, OwnerSentOK, NetworkOK, ShapeOK
  <2> QED
    BY <1>1, <1>3, <2>1
<1> QED
  BY <1>2, <1>5, <1>6, <1>7 DEF OwnerOK

\* A receipt is recorded.
LEMMA Records ==
    ASSUME WInv, NEW i \in Reviews, NEW m \in Receipt(OwnerTx(i)), RecordReceipt(i, m),
           reviews[i].status = "WALLET_REQUESTED", reviews[i].reported,
           UNCHANGED <<wallet, executions, freeOps, mined, sent>>
    PROVE  RowsOK' /\ OwnerOK' /\ ReviewsMoveOn
<1>1. wallet[i] = "SENT" /\ wallet' = [wallet EXCEPT ![i] = "SENT"]
  BY DEF WInv, OwnerOK, WalletOK, RowsOK
<1>2. PICK status \in {"CONFIRMED", "REVERTED"} :
          status = (IF m.ok THEN "CONFIRMED" ELSE "REVERTED")
  OBVIOUS
<1>3. m.ok \in BOOLEAN /\ m.block \in Nat /\ SetReview(i, status, TRUE, m.block)
  BY <1>2 DEF RecordReceipt, WInv, NetworkOK, Receipt
<1>4. Fits(i, status, TRUE, "SENT")
  BY <1>2, <1>3 DEF Fits
<1> QED
  BY <1>1, <1>3, <1>4, ReviewMoves DEF Terminal

\* The wallet answers.
LEMMA WalletMoves ==
    ASSUME WInv, NEW i \in Reviews, wallet[i] = "ASKED", NEW answer \in {"SENT", "REJECTED"},
           wallet' = [wallet EXCEPT ![i] = answer], reviews' = reviews,
           \A tx \in sent' \ sent : tx = OwnerTx(i) /\ answer = "SENT",
           UNCHANGED <<executions, freeOps, mined>>
    PROVE  RowsOK' /\ OwnerOK' /\ ReviewsMoveOn
<1>1. /\ wallet'[i] = answer
      /\ \A j \in Reviews : j # i => wallet'[j] = wallet[j]
  BY DEF WInv, RowsOK
<1>2. reviews[i].status = "WALLET_REQUESTED" /\ ~ reviews[i].reported
  <2>1. WalletOK(i) /\ reviews[i] \in ReviewRows
    BY DEF WInv, OwnerOK, RowsOK
  <2> QED
    BY <2>1 DEF WalletOK, ReviewRows, Terminal
<1>3. \A j \in Reviews : OwnerTx(j)' = OwnerTx(j)
  BY DEF OwnerTx
<1>4. ASSUME NEW j \in Reviews PROVE WalletOK(j)' /\ FollowsAll(j)' /\ ReceiptOK(j)'
  <2>0. WalletOK(j) /\ FollowsAll(j) /\ ReceiptOK(j) /\ \A l \in 1 .. j - 1 : l \in Reviews
    BY EarlierReviews DEF WInv, OwnerOK
  <2>1. WalletOK(j)'
    BY <1>1, <1>2, <2>0 DEF WalletOK
  <2>2. FollowsAll(j)'
    BY <1>1, <1>2, <2>0 DEF FollowsAll, Terminal
  <2>3. ReceiptOK(j)'
    BY <1>3, <2>0 DEF ReceiptOK, Receipt
  <2> QED
    BY <2>1, <2>2, <2>3
<1>5. OwnerSentOK'
  <2> SUFFICES ASSUME NEW tx \in sent', tx.from = Owner
               PROVE  wallet'[tx.id] = "SENT" /\ tx = OwnerTx(tx.id)'
    BY DEF OwnerSentOK
  <2>1. CASE tx \in sent
    <3>1. tx.id \in Reviews /\ wallet[tx.id] = "SENT" /\ tx = OwnerTx(tx.id)
      BY <2>1, PartiesAssumption DEF WInv, OwnerOK, OwnerSentOK, NetworkOK, ShapeOK
    <3> QED
      BY <1>1, <1>3, <3>1
  <2>2. CASE tx \notin sent
    BY <1>1, <1>3, <2>2 DEF OwnerTx
  <2> QED
    BY <2>1, <2>2
<1>6. RowsOK' /\ ReviewsMoveOn
  BY DEF WInv, RowsOK, ReviewsMoveOn
<1> QED
  BY <1>4, <1>5, <1>6 DEF OwnerOK

\* The signer's side of a step that changes reviews and sends nothing.
LEMMA ReviewStep ==
    ASSUME WInv, UNCHANGED <<vars, executions, freeOps, network, lastTransfer, setting, removed>>,
           RowsOK', OwnerOK', ReviewsMoveOn, ProcessOK',
           NEW w, \A v \in Invocations : Still(v) \/ (v = w /\ Moved(v))
    PROVE  WInv'
<1> USE DEF network, vars
<1>1. Inv'
  BY VaultFrame DEF WInv
<1>2. NetworkOK' /\ ClockOK'
  BY DEF WInv, NetworkOK, ClockOK, ShapeOK
<1>3. ExecutionsOK' /\ FreeOK'
  BY ExecutionsFrame, FreeFrame
<1>4. ExecutionsMoveOn /\ FreesMoveOn /\ SignerSendsNothing
  BY DEF ExecutionsMoveOn, FreesMoveOn, SignerSendsNothing, FreeOpen
<1>5. FlagOK' /\ RemovedMovesOn
  BY FlagStep DEF NoneOpens, Pending
<1>6. InvocationsOK' /\ LeasesOK'
  BY <1>2, <1>4, <1>5, CalmStep
<1>7. OneTransactionPerNonce'
  BY DEF WInv, OneTransactionPerNonce
<1> QED
  BY <1>1, <1>2, <1>3, <1>5, <1>6, <1>7 DEF WInv

LEMMA OwnerMoves ==
    ASSUME WInv, UNCHANGED <<vars, executions, freeOps, process, network, counters>>,
           RowsOK', OwnerOK', ReviewsMoveOn
    PROVE  WInv'
<1>1. ProcessOK' /\ \A v \in Invocations : Still(v)
  BY DEF WInv, ProcessOK, process, Still
<1> QED
  BY <1>1, ReviewStep DEF counters

LEMMA RecordReportedInv ==
    ASSUME WInv, NEW w \in Invocations, RecordReported(w) PROVE WInv'
<1>1. PICK i \in Reviews : i = local[w].review /\ RemembersReview(w) /\ pc[w] = "record"
  BY DEF RecordReported, At, WInv, InvocationsOK, Remembers, RemembersReview
<1>2. UNCHANGED <<vars, wallet, executions, freeOps, network, lastTransfer, setting, removed>>
  BY DEF RecordReported, counters
<1>3. CASE Finish(w) /\ reviews' = reviews
  BY <1>2, <1>3, Finishes, OnlyMoves DEF journals
<1>4. ASSUME NEW m \in Receipt(OwnerTx(i)), reviews[i].revision = local[w].revision,
             RecordReceipt(i, m), Go(w, "select"), UNCHANGED <<lease, local>>
      PROVE  WInv'
  <2>1. reviews[i].status = "WALLET_REQUESTED" /\ reviews[i].reported
    BY <1>1, <1>4 DEF RemembersReview
  <2>2. UNCHANGED <<wallet, executions, freeOps, mined, sent>>
    BY <1>2 DEF network
  <2>3. RowsOK' /\ OwnerOK' /\ ReviewsMoveOn
    BY <1>4, <2>1, <2>2, Records
  <2>4. "select" \in Labels /\ lease' = lease /\ Go(w, "select")
    BY <1>4 DEF Labels
  <2>5. ProcessOK' /\ Elsewhere(w) /\ pc'[w] = "select" /\ local'[w] = local[w]
    BY <1>4, <2>4, LocalSame, Goes
  <2>6. Kept => (lease = w => LeaseAt("record", local[w].review, local[w].setting))
    BY <1>1 DEF WInv, LeasesOK, Holds, LeaseOK
  <2>7. Kept => (lease' = w => LeaseAt("select", local[w].review, local[w].setting))
    BY <2>4, <2>6 DEF LeaseAt, NoneLooseAt, PaidAt, Row, Free
  <2>8. Remembers(w)'
    BY <2>5 DEF Remembers, Row, Free
  <2>9. Moved(w)
    BY <1>1, <2>5, <2>7, <2>8, MovesOn DEF Free
  <2>10. ASSUME NEW v \in Invocations PROVE Still(v) \/ (v = w /\ Moved(v))
    BY <1>2, <2>5, <2>9 DEF Elsewhere, Still
  <2> QED
    BY <1>2, <2>3, <2>5, <2>10, ReviewStep
<1> QED
  BY <1>1, <1>3, <1>4 DEF RecordReported

\* A review is prepared when nothing of the owner is under way.
LEMMA PrepareInv ==
    ASSUME WInv, NEW i \in Reviews, NEW action \in OwnerKinds, NEW price \in Prices,
           NEW fee \in Fees, Prepare(i, action, price, fee)
    PROVE  WInv'
<1>0. PICK r : r = [status |-> "PREPARED", action |-> action, revision |-> 0,
              generation |-> mission.generation, price |-> price, fee |-> fee,
              refund |-> refundable[Owner], deadline |-> now + Duration,
              expiresAt |-> now + ReviewLife, nonce |-> PendingNonce(Owner),
              reported |-> FALSE, block |-> 0]
  OBVIOUS
<1>1. /\ MaySucceed(i) /\ Preflight(r) /\ reviews' = [reviews EXCEPT ![i] = r]
      /\ UNCHANGED <<vars, wallet, executions, freeOps, process, network, counters>>
  BY <1>0 DEF Prepare
<1>2. r \in ReviewRows
  <2>1. /\ mission.generation \in Nat /\ refundable[Owner] \in Nat /\ now \in Nat
        /\ Duration \in Nat /\ ReviewLife \in Nat /\ price \in Nat /\ fee \in Nat
    BY PartiesAssumption, WorkerBoundsAssumption, AmountsAssumption
       DEF WInv, Inv, TypeOK, Mission
  <2>2. PendingNonce(Owner) \in Nat
    BY PendingIsNext DEF WInv
  <2>3. now + Duration \in Nat /\ now + ReviewLife \in Nat
    BY <2>1
  <2> QED
    BY <1>0, <2>1, <2>2, <2>3 DEF ReviewRows, OwnerKinds
<1>3. /\ r.status = "PREPARED" /\ r.price = price /\ r.fee = fee
      /\ r.nonce = nonces[Owner] /\ nonces[Owner] \in Nat
  BY <1>0, <1>1 DEF Preflight, WInv, NetworkOK
<1>4. /\ reviews'[i] = r /\ \A j \in Reviews : j # i => reviews'[j] = reviews[j]
      /\ reviews[i].status = "NONE" /\ wallet' = wallet
  BY <1>1 DEF MaySucceed, WInv, RowsOK
<1>5. RowsOK' /\ ReviewsMoveOn
  BY <1>1, <1>2, <1>4 DEF WInv, RowsOK, ReviewsMoveOn
<1>6. wallet[i] = "IDLE"
  BY <1>4 DEF WInv, OwnerOK, WalletOK
<1>7. \A j \in Reviews : j # i => OwnerTx(j)' = OwnerTx(j)
  BY <1>4 DEF OwnerTx
<1>8. ASSUME NEW j \in Reviews PROVE WalletOK(j)' /\ ReceiptOK(j)'
  <2>1. CASE j = i
    BY <1>3, <1>4, <1>6, <2>1 DEF WalletOK, ReceiptOK
  <2>2. CASE j # i
    BY <1>1, <1>4, <1>7, <2>2 DEF WInv, OwnerOK, WalletOK, ReceiptOK, Receipt, network
  <2> QED
    BY <2>1, <2>2
<1>9. FollowsAll(i)'
  <2> SUFFICES ASSUME NEW j \in 1 .. i - 1
               PROVE  /\ reviews[j].status \in Terminal
                      /\ wallet[j] = "SENT" => reviews[j].nonce < nonces[Owner]
    <3>1. i \notin 1 .. i - 1 /\ \A j \in 1 .. i - 1 : j \in Reviews
      BY EarlierReviews
    <3> QED
      BY <1>3, <1>4, <3>1 DEF FollowsAll
  <2>1. j \in Reviews /\ j \in Prepared /\ reviews[j].status \in Terminal
    BY <1>1, EarlierReviews DEF MaySucceed
  <2>2. ASSUME wallet[j] = "SENT" PROVE reviews[j].nonce < nonces[Owner]
    <3>1. reviews[j].status \in {"CONFIRMED", "REVERTED"}
      BY <2>1, <2>2 DEF WInv, OwnerOK, WalletOK, Terminal
    <3>2. PICK m \in Receipt(OwnerTx(j)) : TRUE
      BY <2>1, <3>1 DEF WInv, OwnerOK, ReceiptOK
    <3>3. m \in mined /\ m.tx.from = Owner /\ m.tx.nonce = reviews[j].nonce
      BY <3>2 DEF Receipt, OwnerTx
    <3> QED
      BY <3>3 DEF WInv, NetworkOK
  <2> QED
    BY <2>1, <2>2
<1>10. ASSUME NEW j \in Reviews, j # i PROVE FollowsAll(j)'
  <2>1. FollowsAll(j) /\ \A l \in 1 .. j - 1 : l \in Reviews
    BY EarlierReviews DEF WInv, OwnerOK
  <2>2. reviews[j].status # "NONE" => i \notin 1 .. j - 1
    BY <1>4, <2>1 DEF FollowsAll, Terminal
  <2> QED
    BY <1>4, <1>10, <2>1, <2>2 DEF FollowsAll
<1>11. OwnerSentOK'
  <2> SUFFICES ASSUME NEW tx \in sent, tx.from = Owner
               PROVE  wallet'[tx.id] = "SENT" /\ tx = OwnerTx(tx.id)'
    BY <1>1 DEF OwnerSentOK, network
  <2>1. tx.id \in Reviews /\ wallet[tx.id] = "SENT" /\ tx = OwnerTx(tx.id)
    BY PartiesAssumption DEF WInv, OwnerOK, OwnerSentOK, NetworkOK, ShapeOK
  <2> QED
    BY <1>4, <1>6, <1>7, <2>1
<1>12. OwnerOK'
  BY <1>8, <1>9, <1>10, <1>11 DEF OwnerOK
<1> QED
  BY <1>1, <1>5, <1>12, OwnerMoves

\* Of the owner's transactions only this review's has this nonce: the earlier
\* ones have lower ones, and no later review was prepared yet.
LEMMA WalletSendsInv ==
    ASSUME WInv, NEW i \in Reviews, WalletSends(i) PROVE WInv'
<1>0. PICK tx : tx = OwnerTx(i)
  OBVIOUS
<1>1. /\ wallet[i] = "ASKED" /\ wallet' = [wallet EXCEPT ![i] = "SENT"]
      /\ sent' = sent \cup {tx} /\ mempool' = mempool \cup {tx}
      /\ UNCHANGED <<reviews, executions, freeOps, lease, pc, local, mined, nonces,
                     lastTransfer, setting, removed>>
      /\ UNCHANGED vars
  BY <1>0 DEF WalletSends, counters, process
<1>2. /\ tx.from = Owner /\ tx.kind \in OwnerKinds /\ tx.id = i
      /\ tx.nonce = reviews[i].nonce /\ tx \in Tx
  <2>1. reviews[i] \in ReviewRows /\ i \in Nat
    BY EarlierReviews DEF WInv, RowsOK
  <2>2. reviews[i].action \in OwnerKinds /\ reviews[i].nonce \in Nat
    BY <2>1 DEF ReviewRows, OwnerKinds
  <2> QED
    BY <1>0, <2>1, <2>2 DEF OwnerTx, Tx, OwnerKinds
<1>3. tx.kind \notin {"EXECUTE", "FREE"} /\ ShapeOK(tx)
  BY <1>2 DEF OwnerKinds, ShapeOK
<1>4. NetworkOK'
  <2>1. IsFiniteSet(mempool')
    BY <1>1, FS_AddElement DEF WInv, NetworkOK
  <2> QED
    BY <1>1, <1>2, <1>3, <2>1 DEF WInv, NetworkOK, ShapeOK
<1>5. RowsOK' /\ OwnerOK' /\ ReviewsMoveOn
  BY <1>0, <1>1, WalletMoves
<1>6. Inv' /\ ClockOK'
  BY <1>1, VaultFrame DEF WInv, ClockOK, vars
<1>7. ExecutionsOK' /\ FreeOK'
  BY <1>1, <1>3, ExecutionsFrame, FreeFrame
<1>8. ExecutionsMoveOn /\ FreesMoveOn /\ SignerSendsNothing
  BY <1>1, <1>2 DEF ExecutionsMoveOn, FreesMoveOn, SignerSendsNothing, FreeOpen
<1>9. ProcessOK' /\ \A v \in Invocations : Still(v)
  BY <1>1 DEF WInv, ProcessOK, Still
<1>10. FlagOK' /\ InvocationsOK' /\ LeasesOK'
  <2>1. NoneOpens
    BY <1>1 DEF NoneOpens, Pending
  <2>2. FlagOK' /\ RemovedMovesOn
    BY <1>1, <1>9, <2>1, FlagStep
  <2> QED
    BY <1>4, <1>5, <1>8, <1>9, <2>2, CalmStep
<1>11. reviews[i].status = "WALLET_REQUESTED"
  BY <1>1 DEF WInv, OwnerOK, WalletOK, RowsOK, ReviewRows, Terminal
<1>12. ASSUME NEW t \in sent, t.from = Owner, t.nonce = tx.nonce PROVE FALSE
  <2>1. PICK j \in Reviews : j = t.id /\ wallet[j] = "SENT" /\ t = OwnerTx(j)
    BY <1>12, PartiesAssumption DEF WInv, OwnerOK, OwnerSentOK, NetworkOK, ShapeOK
  <2>2. /\ j # i /\ t.nonce = reviews[j].nonce /\ reviews[j].status # "NONE"
        /\ reviews[j].nonce \in Nat /\ reviews[i].nonce \in Nat
    BY <1>1, <2>1 DEF OwnerTx, WInv, OwnerOK, WalletOK, RowsOK, ReviewRows
  <2>3. CASE j \in 1 .. i - 1
    BY <1>2, <1>11, <1>12, <2>1, <2>2, <2>3 DEF WInv, OwnerOK, FollowsAll
  <2>4. CASE i \in 1 .. j - 1
    BY <1>11, <2>2, <2>4 DEF WInv, OwnerOK, FollowsAll, Terminal
  <2>5. j \in 1 .. i - 1 \/ i \in 1 .. j - 1
    BY <2>2, WorkerBoundsAssumption DEF Reviews
  <2> QED
    BY <2>3, <2>4, <2>5
<1>13. OneTransactionPerNonce'
  BY <1>1, <1>2, <1>12 DEF WInv, OneTransactionPerNonce
<1> QED
  BY <1>4, <1>5, <1>6, <1>7, <1>9, <1>10, <1>13 DEF WInv

LEMMA OwnerStepsInv ==
    ASSUME WInv, NEW i \in Reviews,
           \/ Claim(i) \/ CancelReview(i) \/ WalletRejects(i) \/ Decline(i)
           \/ ReportHash(i) \/ RecoverInBrowser(i)
    PROVE  WInv'
<1>0. PICK unreported \in BOOLEAN : unreported = FALSE
  OBVIOUS
<1>a. unreported \in BOOLEAN
  BY <1>0
<1>1. /\ UNCHANGED <<vars, executions, freeOps, process, network, counters>>
      /\ UNCHANGED <<mined, sent>>
  BY DEF Claim, CancelReview, WalletRejects, Decline, ReportHash, RecoverInBrowser, network
<1>2. /\ WalletOK(i) /\ wallet[i] \in {"IDLE", "ASKED", "SENT", "REJECTED"}
      /\ reviews[i] \in ReviewRows
  BY DEF WInv, OwnerOK, RowsOK
<1>3. ASSUME wallet' = wallet PROVE wallet' = [wallet EXCEPT ![i] = wallet[i]]
  BY <1>3 DEF WInv, RowsOK
<1> USE DEF Terminal
<1>4. ASSUME RowsOK', OwnerOK', ReviewsMoveOn PROVE WInv'
  BY <1>1, <1>4, OwnerMoves
<1>5. CASE Claim(i)
  <2>0. PICK asked \in {"IDLE", "ASKED", "SENT", "REJECTED"} : asked = "ASKED"
    OBVIOUS
  <2>1. /\ asked \in {"IDLE", "ASKED", "SENT", "REJECTED"}
        /\ reviews[i].status = "PREPARED" /\ wallet[i] = "IDLE"
        /\ SetReview(i, "WALLET_REQUESTED", unreported, 0)
        /\ wallet' = [wallet EXCEPT ![i] = asked]
        /\ Fits(i, "WALLET_REQUESTED", unreported, asked)
    BY <1>0, <1>2, <1>5, <2>0 DEF Claim, WalletOK, Fits
  <2>2. RowsOK' /\ OwnerOK' /\ ReviewsMoveOn
    BY <1>1, <1>a, <2>1, ReviewMoves
  <2> QED
    BY <1>4, <2>2
<1>6. CASE CancelReview(i)
  <2>1. /\ reviews[i].status = "PREPARED" /\ wallet[i] = "IDLE"
        /\ wallet' = [wallet EXCEPT ![i] = "IDLE"] /\ SetReview(i, "CANCELLED", unreported, 0)
        /\ Fits(i, "CANCELLED", unreported, "IDLE")
    BY <1>0, <1>2, <1>3, <1>6 DEF CancelReview, WalletOK, Fits
  <2>2. RowsOK' /\ OwnerOK' /\ ReviewsMoveOn
    BY <1>1, <1>a, <2>1, ReviewMoves
  <2> QED
    BY <1>4, <2>2
<1>7. CASE Decline(i)
  <2>1. /\ reviews[i].status = "WALLET_REQUESTED" /\ wallet[i] = "REJECTED"
        /\ wallet' = [wallet EXCEPT ![i] = "REJECTED"] /\ SetReview(i, "DECLINED", unreported, 0)
        /\ Fits(i, "DECLINED", unreported, "REJECTED")
    BY <1>0, <1>3, <1>7 DEF Decline, Fits
  <2>2. RowsOK' /\ OwnerOK' /\ ReviewsMoveOn
    BY <1>1, <1>a, <2>1, ReviewMoves
  <2> QED
    BY <1>4, <2>2
<1>8. CASE ReportHash(i)
  <2>1. /\ reviews[i].status = "WALLET_REQUESTED" /\ wallet[i] = "SENT"
        /\ wallet' = [wallet EXCEPT ![i] = "SENT"] /\ SetReview(i, "WALLET_REQUESTED", TRUE, 0)
        /\ Fits(i, "WALLET_REQUESTED", TRUE, "SENT")
    BY <1>3, <1>8 DEF ReportHash, Fits
  <2>2. RowsOK' /\ OwnerOK' /\ ReviewsMoveOn
    BY <1>1, <1>a, <2>1, ReviewMoves
  <2> QED
    BY <1>4, <2>2
<1>9. CASE RecoverInBrowser(i)
  <2>1. /\ reviews[i].status = "WALLET_REQUESTED" /\ reviews[i].reported /\ wallet' = wallet
        /\ \E m \in Receipt(OwnerTx(i)) : RecordReceipt(i, m)
    BY <1>9 DEF RecoverInBrowser
  <2> QED
    BY <1>1, <1>4, <2>1, Records
<1>10. CASE WalletRejects(i)
  <2>1. /\ wallet[i] = "ASKED" /\ reviews[i].status = "WALLET_REQUESTED" /\ ~ reviews[i].reported
        /\ wallet' = [wallet EXCEPT ![i] = "REJECTED"] /\ reviews' = reviews
    BY <1>2, <1>10 DEF WalletRejects, WalletOK, ReviewRows, Terminal
  <2> QED
    BY <1>1, <1>4, <2>1, WalletMoves
<1> QED
  BY <1>5, <1>6, <1>7, <1>8, <1>9, <1>10
---------------------------------------------------------------------------
(* The four steps that let something loose. *)

\* A transaction of the signer whose nonce is not used up has its reservation
\* open: a closed one was closed on its receipt.
LEMMA UnusedIsOpen ==
    ASSUME WInv, NEW tx \in sent, tx.from = Worker, nonces[Worker] <= tx.nonce
    PROVE  \/ /\ tx.kind = "EXECUTE" /\ tx.id \in Reviews /\ Loose(tx.id)
              /\ executions[tx.id].nonce = tx.nonce /\ tx = ExecuteTx(tx.id, tx.nonce)
           \/ tx.kind = "FREE" /\ tx.id \in FreeOps /\ LooseFree(tx.id)
<1>1. tx \in Tx /\ nonces[Worker] \in Nat /\ tx.nonce \in Nat
  BY DEF WInv, NetworkOK, Tx
<1>2. ASSUME NEW m \in mined PROVE m.tx # tx
  BY <1>1, <1>2 DEF WInv, NetworkOK
<1>3. CASE tx.kind = "EXECUTE"
  <2>1. tx.id \in Reviews
    BY <1>3, PartiesAssumption DEF WInv, NetworkOK, ShapeOK, OwnerKinds
  <2>2. /\ executions[tx.id].nonce = tx.nonce
        /\ executions[tx.id].status \notin {"NONE", "STOPPED"}
    BY <1>3 DEF WInv, ExecutionsOK, SavedBeforeSent
  <2>3. tx = ExecuteTx(tx.id, tx.nonce)
    BY <1>1, <1>3 DEF Tx, ExecuteTx
  <2>4. Receipt(tx) = {}
    BY <1>2 DEF Receipt
  <2>5. executions[tx.id].status \notin {"COMPLETED", "REVERTED"}
    BY <2>1, <2>2, <2>3, <2>4 DEF WInv, ExecutionsOK
  <2>6. Pending(tx.id)
    BY <2>1, <2>2, <2>5 DEF Pending, WInv, RowsOK, ExecutionRows, ExecutionStates
  <2> QED
    BY <1>3, <2>1, <2>2, <2>3, <2>6 DEF Loose
<1>4. CASE tx.kind = "FREE"
  <2>1. tx.id \in FreeOps
    BY <1>4, PartiesAssumption DEF WInv, NetworkOK, ShapeOK, OwnerKinds
  <2>2. FreeReceipt(tx.id) = {}
    BY <1>2, <1>4 DEF FreeReceipt, WInv, FreeOK, NetworkOK
  <2>3. freeOps[tx.id] \notin {"NONE", "CONFIRMED", "REVERTED"}
    BY <1>4, <2>1, <2>2 DEF WInv, FreeOK
  <2> QED
    BY <1>4, <2>1, <2>3 DEF FreeOpen, LooseFree, WInv, RowsOK
<1> QED
  BY <1>3, <1>4, PartiesAssumption DEF WInv, NetworkOK, ShapeOK

\* What these steps leave alone.
LEMMA SignerFrame ==
    ASSUME WInv, UNCHANGED <<vars, journals, mined, nonces, lastTransfer, setting, removed>>,
           NEW w \in Invocations, NEW label \in Labels, Go(w, label), UNCHANGED <<lease, local>>,
           pc[w] # "IDLE",
           \/ UNCHANGED <<mempool, sent>>
           \/ \E tx \in Tx : tx.from = Worker /\ ShapeOK(tx) /\ Broadcast(tx)
    PROVE  /\ Inv' /\ RowsOK' /\ ProcessOK' /\ NetworkOK' /\ ClockOK' /\ OwnerOK' /\ FlagOK'
           /\ pc'[w] = label /\ \A v \in Invocations : v # w => pc'[v] = pc[v]
<1> USE DEF journals
<1>1. ProcessOK' /\ Elsewhere(w) /\ pc'[w] = label
  <2>1. lease' = lease
    OBVIOUS
  <2> QED
    BY <2>1, LocalSame, Goes
<1>2. Inv' /\ RowsOK' /\ ClockOK'
  BY VaultFrame DEF WInv, RowsOK, ClockOK, vars
<1>3. NetworkOK'
  <2>1. CASE UNCHANGED <<mempool, sent>>
    BY <2>1 DEF WInv, NetworkOK, ShapeOK
  <2>2. ASSUME NEW tx \in Tx, ShapeOK(tx), Broadcast(tx) PROVE NetworkOK'
    <3>1. sent' = sent \cup {tx} /\ mempool' \in {mempool, mempool \cup {tx}}
      BY <2>2 DEF Broadcast
    <3>2. IsFiniteSet(mempool')
      BY <3>1, FS_AddElement DEF WInv, NetworkOK
    <3> QED
      BY <2>2, <3>1, <3>2 DEF WInv, NetworkOK, ShapeOK
  <2> QED
    BY <2>1, <2>2
<1>4. OwnerOK'
  <2>1. \A tx \in sent' \ sent : tx.from # Owner
    BY PartiesAssumption DEF Broadcast
  <2> QED
    BY <2>1, OwnerFrame
<1>5. FlagOK'
  <2>1. \A v \in Invocations : pc[v] = "IDLE" => pc'[v] = "IDLE"
    BY <1>1 DEF Elsewhere
  <2> QED
    BY <2>1 DEF WInv, FlagOK, Never, Kept, Pending, Sends
<1> QED
  BY <1>1, <1>2, <1>3, <1>4, <1>5 DEF Elsewhere

LEMMA ReconcileSendInv == ASSUME WInv, NEW w \in Invocations, ReconcileSend(w) PROVE WInv'
<1>1. /\ UNCHANGED <<vars, journals, network, lastTransfer, setting, removed>>
      /\ UNCHANGED <<reviews, wallet, executions, freeOps, mempool, mined, nonces, sent>>
      /\ pc[w] = "reconcile"
  BY DEF ReconcileSend, counters, At, journals, network
<1>2. CASE Finish(w)
  BY <1>1, <1>2, Finishes, OnlyMoves
<1>3. CASE MayResend(w) /\ Go(w, "send") /\ UNCHANGED <<lease, local>>
  <2>1. PICK i \in Reviews, n \in Nat : i = local[w].review /\ n = local[w].nonce
    BY <1>1 DEF WInv, InvocationsOK, Remembers, RemembersExecution, Row, ProcessOK, Locals
  <2>2. /\ RemembersExecution(w) /\ executions[i].nonce = n
        /\ executions[i].status \notin {"NONE", "STOPPED"}
    BY <1>1, <2>1 DEF WInv, InvocationsOK, Remembers, RemembersExecution, Row
  <2>3. /\ Receipt(ExecuteTx(i, n)) = {} /\ nonces[Worker] <= n /\ lease = w
    BY <1>3, <2>1 DEF MayResend, Visible, SavedTx, Holds
  <2>4. Pending(i)
    BY <2>2, <2>3 DEF WInv, ExecutionsOK, Pending, RowsOK, ExecutionRows, ExecutionStates
  <2>5. Kept => \A k \in FreeOps : ~ LooseFree(k)
    BY <1>1, <2>3 DEF WInv, LeasesOK, Holds, LeaseOK, LeaseAt, Row
  <2>6. /\ Inv' /\ RowsOK' /\ ProcessOK' /\ NetworkOK' /\ ClockOK' /\ OwnerOK'
        /\ FlagOK' /\ pc'[w] = "send" /\ \A v \in Invocations : v # w => pc'[v] = pc[v]
    <3>1. "send" \in Labels /\ Go(w, "send")
      BY <1>3 DEF Labels
    <3> QED
      BY <1>1, <1>3, <3>1, SignerFrame
  <2>7. ExecutionsOK' /\ FreeOK'
    BY <1>1, ExecutionsFrame, FreeFrame
  <2>8. InvocationsOK'
    <3>1. ASSUME NEW v \in Invocations, v # w PROVE Remembers(v)'
      BY <1>1, <1>3, <2>6, <3>1 DEF WInv, InvocationsOK, Remembers, RemembersReview,
         RemembersExecution, RemembersFree, Row, Free, Sends
    <3>2. Remembers(w)'
      BY <1>1, <1>3, <2>2, <2>6 DEF Remembers, RemembersExecution, Row, Free
    <3>3. OneHolderOfAFree'
      BY <1>3, <2>6 DEF WInv, InvocationsOK, OneHolderOfAFree, Free
    <3> QED
      BY <3>1, <3>2, <3>3 DEF InvocationsOK
  <2>9. ASSUME NEW k \in FreeOps, LooseFree(k)' PROVE LooseFree(k)
    BY <1>1, <1>3, <2>6, <2>9 DEF LooseFree, FreeOpen, Out
  <2>10. ASSUME Kept, NEW tx \in sent, tx.from = Worker, tx.nonce = n, ExecuteTx(i, n) \notin sent
         PROVE  FALSE
    <3>1. /\ tx.kind = "EXECUTE" /\ tx.id \in Reviews /\ Loose(tx.id)
          /\ tx = ExecuteTx(tx.id, n)
      BY <2>3, <2>5, <2>10, UnusedIsOpen
    <3>2. tx.id = i
      BY <2>4, <3>1 DEF Loose, WInv, ExecutionsOK
    <3> QED
      BY <2>10, <3>1, <3>2
  <2>11. ASSUME Kept, NEW v \in Invocations PROVE SendOK(v)'
    <3>1. CASE v = w
      <4>1. SavedTx(v)' = ExecuteTx(i, n) /\ Pending(local[v].review)'
        BY <1>1, <1>3, <2>1, <2>4, <3>1 DEF SavedTx, ExecuteTx, Pending
      <4> QED
        BY <1>1, <1>3, <2>1, <2>10, <2>11, <3>1, <4>1 DEF SendOK
    <3>2. CASE v # w
      BY <1>1, <1>3, <2>6, <2>11, <3>2 DEF WInv, LeasesOK, SendOK, SavedTx, ExecuteTx, Pending
    <3> QED
      BY <3>1, <3>2
  <2>12. ASSUME Kept, NEW v \in Invocations PROVE SendFreeOK(v)'
    BY <1>1, <1>3, <2>6, <2>12 DEF WInv, LeasesOK, SendFreeOK, FreshFree, Never
  <2>13. ASSUME Kept, NEW v \in Invocations, lease' = v PROVE LeaseOK(v)'
    <3>1. v = w
      BY <1>3, <2>3, <2>13
    <3>2. \A k \in FreeOps : ~ LooseFree(k)'
      BY <2>5, <2>9, <2>13
    <3> QED
      BY <2>6, <3>1, <3>2 DEF LeaseOK, LeaseAt, NoneLooseAt, PaidAt, Free, Row
  <2>14. Kept => OneKindLoose'
    BY <2>5, <2>9 DEF OneKindLoose
  <2>15. Never => OneFreeLoose'
    BY <2>9 DEF WInv, LeasesOK, OneFreeLoose
  <2>16. LeasesOK'
    BY <1>1, <2>11, <2>12, <2>13, <2>14, <2>15 DEF LeasesOK, Kept, Never, Holds
  <2>17. OneTransactionPerNonce'
    BY <1>1 DEF WInv, OneTransactionPerNonce
  <2> QED
    BY <2>6, <2>7, <2>8, <2>16, <2>17 DEF WInv
<1> QED
  BY <1>2, <1>3 DEF ReconcileSend

\* Two invocations about to send the same reservation send the same transaction.
LEMMA SendInv == ASSUME WInv, NEW w \in Invocations, Send(w) PROVE WInv'
<1>1. PICK i \in Reviews, n \in Nat : i = local[w].review /\ n = local[w].nonce
  BY DEF Send, At, WInv, InvocationsOK, Remembers, RemembersExecution, Row, ProcessOK, Locals
<1>2. PICK tx : tx = SavedTx(w)
  OBVIOUS
<1>3. /\ tx.from = Worker /\ tx.kind = "EXECUTE" /\ tx.id = i /\ tx.nonce = n
      /\ tx = ExecuteTx(i, n) /\ tx \in Tx /\ ShapeOK(tx)
  BY <1>1, <1>2, EarlierReviews DEF SavedTx, ExecuteTx, Tx, ShapeOK
<1>4. /\ UNCHANGED <<vars, journals, mined, nonces, lastTransfer, setting, removed>>
      /\ UNCHANGED <<reviews, wallet, executions, freeOps, mined, nonces>>
      /\ pc[w] = "send" /\ Go(w, "mark") /\ UNCHANGED <<lease, local>>
      /\ Broadcast(tx) /\ sent' = sent \cup {tx}
  BY <1>2 DEF Send, counters, At, journals, Broadcast
<1>5. /\ Inv' /\ RowsOK' /\ ProcessOK' /\ NetworkOK' /\ ClockOK' /\ OwnerOK'
      /\ FlagOK' /\ pc'[w] = "mark" /\ \A v \in Invocations : v # w => pc'[v] = pc[v]
  <2>1. "mark" \in Labels /\ Go(w, "mark")
    BY <1>4 DEF Labels
  <2> QED
    BY <1>3, <1>4, <2>1, SignerFrame
<1>6. /\ RemembersExecution(w) /\ executions[i].nonce = n
      /\ executions[i].status \notin {"NONE", "STOPPED"}
  BY <1>1, <1>4 DEF WInv, InvocationsOK, Remembers, RemembersExecution, Row
<1>7. ExecutionsOK'
  <2>1. SavedBeforeSent'
    BY <1>3, <1>4, <1>6 DEF WInv, ExecutionsOK, SavedBeforeSent
  <2> QED
    BY <1>4, <2>1 DEF WInv, ExecutionsOK, Pending, Receipt, ExecuteTx
<1>8. FreeOK'
  BY <1>3, <1>4, FreeFrame
<1>9. InvocationsOK'
  <2>1. ASSUME NEW v \in Invocations, v # w PROVE Remembers(v)'
    BY <1>3, <1>4, <1>5, <2>1 DEF WInv, InvocationsOK, Remembers, RemembersReview,
       RemembersExecution, RemembersFree, Row, Free, Sends
  <2>2. Remembers(w)'
    BY <1>4, <1>5, <1>6 DEF Remembers, RemembersExecution, Row, Free
  <2>3. OneHolderOfAFree'
    BY <1>4, <1>5 DEF WInv, InvocationsOK, OneHolderOfAFree, Free
  <2> QED
    BY <2>1, <2>2, <2>3 DEF InvocationsOK
<1>10. ASSUME NEW j \in Reviews, Loose(j)' PROVE Loose(j)
  BY <1>1, <1>3, <1>4, <1>5, <1>10 DEF Loose, Pending
<1>11. ASSUME NEW k \in FreeOps, LooseFree(k)' PROVE LooseFree(k)
  BY <1>3, <1>4, <1>5, <1>11 DEF LooseFree, FreeOpen, Out
<1>12. (Kept => OneKindLoose') /\ (Never => OneFreeLoose')
  BY <1>10, <1>11 DEF WInv, LeasesOK, OneKindLoose, OneFreeLoose
<1>13. ASSUME Kept, NEW v \in Invocations, lease = v PROVE LeaseOK(v)'
  <2>1. LeaseAt(pc[v], local[v].review, local[v].setting)
    BY <1>13 DEF WInv, LeasesOK, Holds, LeaseOK
  <2>2. LeaseAt(pc'[v], local'[v].review, local'[v].setting)
    BY <1>4, <1>5, <2>1 DEF LeaseAt, NoneLooseAt, PaidAt, Free, Row
  <2>3. Never' = Never
    BY <1>4 DEF Never
  <2> QED
    BY <1>10, <1>11, <2>2, <2>3 DEF LeaseOK, LeaseAt
<1>14. ASSUME Kept, NEW v \in Invocations PROVE SendOK(v)'
  <2> SUFFICES ASSUME pc[v] = "send", v # w, SavedTx(v)' \notin sent'
               PROVE  /\ Pending(local[v].review)'
                      /\ \A t \in sent' : t.from = Worker => t.nonce # local'[v].nonce
    BY <1>5 DEF SendOK
  <2>1. SavedTx(v)' = SavedTx(v)
    BY <1>4 DEF SavedTx, ExecuteTx
  <2>2. /\ Pending(local[v].review)
        /\ \A t \in sent : t.from = Worker => t.nonce # local[v].nonce
    BY <1>4, <1>14, <2>1 DEF WInv, LeasesOK, SendOK
  <2>3. Pending(local[v].review)'
    BY <1>4, <2>2 DEF Pending
  <2>4. ASSUME tx \notin sent, n = local[v].nonce PROVE FALSE
    <3>1. Pending(i)
      BY <1>1, <1>2, <1>4, <1>14, <2>4 DEF WInv, LeasesOK, SendOK
    <3>2. local[v].review \in Reviews
      BY DEF WInv, InvocationsOK, Remembers, RemembersExecution, Row
    <3>3. local[v].review = i
      BY <2>2, <3>1, <3>2 DEF WInv, ExecutionsOK
    <3>4. SavedTx(v) = tx
      BY <1>3, <2>4, <3>3 DEF SavedTx
    <3> QED
      BY <1>4, <2>1, <3>4
  <2>5. CASE tx \in sent
    BY <1>4, <2>2, <2>3, <2>5
  <2>6. CASE tx \notin sent
    BY <1>3, <1>4, <2>2, <2>3, <2>4, <2>6
  <2> QED
    BY <2>5, <2>6
<1>15. ASSUME Kept, NEW v \in Invocations PROVE SendFreeOK(v)'
  <2> SUFFICES ASSUME pc'[v] = "freeSend", NEW t \in sent', t.from = Worker,
                      t.nonce = local[v].nonce
               PROVE  t.kind = "FREE" /\ ~ Never
    BY <1>4 DEF SendFreeOK, FreshFree, Never
  <2>1. v # w /\ pc[v] = "freeSend"
    BY <1>5
  <2>2. ASSUME t \in sent PROVE t.kind = "FREE" /\ ~ Never
    BY <1>15, <2>1, <2>2 DEF WInv, LeasesOK, SendFreeOK, FreshFree
  <2>3. ASSUME t \notin sent PROVE FALSE
    <3>1. tx \notin sent
      BY <1>4, <2>3
    <3>2. Pending(i) /\ i \in Reviews
      BY <1>1, <1>2, <1>4, <1>15, <3>1 DEF WInv, LeasesOK, SendOK
    <3>3. Loose(i)
      BY <1>1, <1>4, <3>2 DEF Loose
    <3>4. local[v].review \in FreeOps /\ freeOps[local[v].review] = "SIGNED"
      BY <2>1 DEF WInv, InvocationsOK, Remembers, RemembersFree, Free
    <3>5. LooseFree(local[v].review)
      BY <2>1, <3>4 DEF LooseFree, FreeOpen, OpenFree, Out
    <3> QED
      BY <1>15, <3>2, <3>3, <3>4, <3>5 DEF WInv, LeasesOK, OneKindLoose
  <2> QED
    BY <2>2, <2>3
<1>16. LeasesOK'
  BY <1>4, <1>12, <1>13, <1>14, <1>15 DEF LeasesOK, Holds, Kept, Never
<1>17. OneTransactionPerNonce'
  <2>1. Kept /\ tx \notin sent => \A t \in sent : t.from = Worker => t.nonce # n
    BY <1>1, <1>2, <1>4 DEF WInv, LeasesOK, SendOK
  <2> QED
    BY <1>3, <1>4, <2>1 DEF WInv, OneTransactionPerNonce, Kept
<1> QED
  BY <1>5, <1>7, <1>8, <1>9, <1>16, <1>17 DEF WInv

LEMMA CheckFreeInv == ASSUME WInv, NEW w \in Invocations, CheckFree(w) PROVE WInv'
<1>1. /\ UNCHANGED <<vars, reviews, wallet, executions, network, lastTransfer, setting, removed>>
      /\ UNCHANGED <<mempool, mined, nonces, sent>>
      /\ pc[w] = "freeCheck" /\ pc[w] \in Free
  BY DEF CheckFree, counters, At, network, Free
<1>2. CASE FreeFailed(w)
  BY <1>1, <1>2, FreeFailedInv
<1>3. CASE /\ Go(w, "freeNonce") /\ UNCHANGED <<lease, local>>
           /\ freeOps' = freeOps /\ lease = w
  <2>1. /\ Inv' /\ RowsOK' /\ ProcessOK' /\ NetworkOK' /\ ClockOK' /\ OwnerOK'
        /\ FlagOK' /\ pc'[w] = "freeNonce" /\ \A v \in Invocations : v # w => pc'[v] = pc[v]
    <3>1. "freeNonce" \in Labels /\ Go(w, "freeNonce")
      BY <1>3 DEF Labels
    <3> QED
      BY <1>1, <1>3, <3>1, SignerFrame DEF journals
  <2>2. ExecutionsOK' /\ FreeOK'
    BY <1>1, <1>3, ExecutionsFrame, FreeFrame
  <2>3. InvocationsOK'
    <3>1. ASSUME NEW v \in Invocations, v # w PROVE Remembers(v)'
      BY <1>1, <1>3, <2>1, <3>1 DEF WInv, InvocationsOK, Remembers, RemembersReview,
         RemembersExecution, RemembersFree, Row, Free, Sends
    <3>2. Remembers(w)'
      BY <1>1, <1>3, <2>1 DEF WInv, InvocationsOK, Remembers, RemembersFree, Row, Free
    <3>3. OneHolderOfAFree'
      BY <1>1, <1>3, <2>1 DEF WInv, InvocationsOK, OneHolderOfAFree, Free
    <3> QED
      BY <3>1, <3>2, <3>3 DEF InvocationsOK
  <2>4. /\ Kept => \A i \in Reviews : ~ Loose(i)
        /\ Kept /\ Never => \A k \in FreeOps : ~ LooseFree(k)
    BY <1>1, <1>3 DEF WInv, LeasesOK, Holds, LeaseOK, LeaseAt, NoneLooseAt, Free, Out
  <2>5. ASSUME NEW i \in Reviews, Loose(i)' PROVE Loose(i)
    BY <1>1, <1>3, <2>1, <2>5 DEF Loose, Pending
  <2>6. ASSUME NEW k \in FreeOps, LooseFree(k)' PROVE LooseFree(k) \/ k = local[w].review
    BY <1>1, <1>3, <2>1, <2>6 DEF LooseFree, FreeOpen, Out
  <2>7. Never => Kept
    BY DEF Never, Kept
  <2>8. ASSUME Kept, NEW v \in Invocations PROVE SendOK(v)' /\ SendFreeOK(v)'
    BY <1>1, <1>3, <2>1, <2>8 DEF WInv, LeasesOK, SendOK, SavedTx, ExecuteTx, Pending,
       SendFreeOK, FreshFree, Never
  <2>9. ASSUME Kept PROVE LeaseOK(w)'
    <3>1. \A i \in Reviews : ~ Loose(i)'
      BY <2>4, <2>5, <2>9
    <3>2. Never' => \A k \in FreeOps : LooseFree(k)' => k = local'[w].review
      BY <1>1, <1>3, <2>4, <2>6, <2>9 DEF Never
    <3> QED
      BY <2>1, <3>1, <3>2 DEF LeaseOK, LeaseAt, NoneLooseAt, PaidAt, Free, Row, Out
  <2>10. (Kept => OneKindLoose') /\ (Never => OneFreeLoose')
    BY <2>4, <2>5, <2>6, <2>7 DEF OneKindLoose, OneFreeLoose
  <2>11. Kept' = Kept /\ Never' = Never
    BY <1>1 DEF Kept, Never
  <2>12. LeasesOK'
    BY <1>3, <2>8, <2>9, <2>10, <2>11 DEF LeasesOK, Holds
  <2>13. OneTransactionPerNonce'
    BY <1>1 DEF WInv, OneTransactionPerNonce
  <2> QED
    BY <2>1, <2>2, <2>3, <2>12, <2>13 DEF WInv
<1> QED
  BY <1>2, <1>3 DEF CheckFree, MaySendFree, Holds

\* An invocation that is about to send a free mint made it loose.
LEMMA AtOut ==
    ASSUME WInv, NEW w \in Invocations, pc[w] \in Out
    PROVE  /\ local[w].review \in FreeOps /\ LooseFree(local[w].review)
           /\ freeOps[local[w].review] = "SIGNED"
           /\ \A t \in sent : ~ (t.kind = "FREE" /\ t.id = local[w].review)
           /\ Kept => \A i \in Reviews : ~ Loose(i)
           /\ Never => \A k \in FreeOps : LooseFree(k) => k = local[w].review
<1>1. RemembersFree(w) /\ pc[w] # "freeMark"
  BY DEF WInv, InvocationsOK, Remembers, Free, Out
<1>2. /\ local[w].review \in FreeOps /\ freeOps[local[w].review] = "SIGNED"
      /\ \A t \in sent : ~ (t.kind = "FREE" /\ t.id = local[w].review)
  BY <1>1 DEF RemembersFree
<1>3. LooseFree(local[w].review)
  BY <1>2 DEF LooseFree, FreeOpen, OpenFree
<1> QED
  BY <1>2, <1>3 DEF WInv, LeasesOK, OneKindLoose, OneFreeLoose

\* While a free mint is loose no execution is, so nothing of the signer is
\* under way but other free mints: the next nonce is nobody's, or theirs.
LEMMA TakeNonceInv == ASSUME WInv, NEW w \in Invocations, TakeNonce(w) PROVE WInv'
<1>0. /\ UNCHANGED <<vars, journals, network, lastTransfer, setting, removed>>
      /\ pc[w] = "freeNonce" /\ Go(w, "freeSend") /\ lease' = lease /\ "freeSend" \in Labels
  BY DEF TakeNonce, counters, At, Labels
<1>1. PICK n \in Nat : n = PendingNonce(Worker) /\ n >= nonces[Worker]
  BY PendingIsNext DEF WInv
<1>2. local[w] \in Locals
  BY DEF WInv, ProcessOK
<1>3. PICK job : job = [local[w] EXCEPT !.nonce = n]
  OBVIOUS
<1>4. /\ job \in Locals /\ job.review = local[w].review /\ job.nonce = n
      /\ job.setting = local[w].setting
  BY <1>2, <1>3 DEF Locals
<1>5. local' = [local EXCEPT ![w] = job]
  BY <1>1, <1>2, <1>3 DEF TakeNonce, WInv, ProcessOK, Locals
<1>6. ProcessOK' /\ Elsewhere(w) /\ pc'[w] = "freeSend" /\ local'[w] = job
  BY <1>0, <1>4, <1>5, Goes
<1>7. ASSUME Kept PROVE FreshFree(n)
  <2> SUFFICES ASSUME NEW t \in sent, t.from = Worker, t.nonce = n
               PROVE  t.kind = "FREE" /\ ~ Never
    BY DEF FreshFree
  <2>1. nonces[Worker] <= t.nonce
    BY <1>1 DEF WInv, NetworkOK
  <2>2. /\ \A i \in Reviews : ~ Loose(i)
        /\ \A k \in FreeOps : Never /\ LooseFree(k) => k = local[w].review
        /\ ~ (t.kind = "FREE" /\ t.id = local[w].review)
    BY <1>0, <1>7, AtOut DEF Out
  <2>3. t.kind = "FREE" /\ t.id \in FreeOps /\ LooseFree(t.id)
    BY <2>1, <2>2, UnusedIsOpen
  <2> QED
    BY <2>2, <2>3
<1>8. Kept => (lease = w => LeaseAt("freeNonce", local[w].review, local[w].setting))
  BY <1>0 DEF WInv, LeasesOK, Holds, LeaseOK
<1>9. Kept => (lease' = w => LeaseAt("freeSend", job.review, job.setting))
  BY <1>0, <1>4, <1>8 DEF LeaseAt, NoneLooseAt, PaidAt, Row, Free, Out
<1>10. Kept => MovesSafely(w)
  BY <1>4, <1>6, <1>7, <1>9 DEF MovesSafely
<1>11. RemembersFree(w)'
  <2>1. local[w].review \in FreeOps /\ freeOps[local[w].review] = "SIGNED"
        /\ \A t \in sent : ~ (t.kind = "FREE" /\ t.id = local[w].review)
    BY <1>0, AtOut DEF Out
  <2> QED
    BY <1>0, <1>4, <1>6, <2>1 DEF RemembersFree, journals, network
<1>12. Moved(w)
  BY <1>0, <1>4, <1>6, <1>10, <1>11 DEF Moved, Remembers, Row, Free, Out, SettingMoves
<1> QED
  BY <1>0, <1>6, <1>12, OnlyMoves

LEMMA SendFreeInv == ASSUME WInv, NEW w \in Invocations, SendFree(w) PROVE WInv'
<1>0. /\ UNCHANGED <<vars, journals, mined, nonces, lastTransfer, setting, removed>>
      /\ UNCHANGED <<reviews, wallet, executions, freeOps, mined, nonces>>
      /\ pc[w] = "freeSend" /\ Go(w, "freeMark") /\ UNCHANGED <<lease, local>>
  BY DEF SendFree, counters, At, journals, Broadcast
<1>1. PICK k \in FreeOps, n \in Nat : k = local[w].review /\ n = local[w].nonce
  BY <1>0, AtOut DEF Out, WInv, ProcessOK, Locals
<1>2. PICK tx : tx = FreeTx(k, n)
  OBVIOUS
<1>3. /\ tx.from = Worker /\ tx.kind = "FREE" /\ tx.id = k /\ tx.nonce = n
      /\ tx \in Tx /\ ShapeOK(tx)
  BY <1>2 DEF FreeTx, Tx, ShapeOK, FreeOps
<1>4. Broadcast(tx) /\ sent' = sent \cup {tx}
  BY <1>1, <1>2 DEF SendFree, Broadcast
<1>5. /\ Inv' /\ RowsOK' /\ ProcessOK' /\ NetworkOK' /\ ClockOK' /\ OwnerOK'
      /\ FlagOK' /\ pc'[w] = "freeMark" /\ \A v \in Invocations : v # w => pc'[v] = pc[v]
  <2>1. "freeMark" \in Labels /\ Go(w, "freeMark")
    BY <1>0 DEF Labels
  <2> QED
    BY <1>0, <1>3, <1>4, <2>1, SignerFrame
<1>6. /\ freeOps[k] = "SIGNED" /\ \A t \in sent : ~ (t.kind = "FREE" /\ t.id = k)
  BY <1>0, <1>1 DEF WInv, InvocationsOK, Remembers, RemembersFree, Free
<1>7. ExecutionsOK'
  BY <1>0, <1>3, <1>4, ExecutionsFrame
<1>8. FreeOK'
  BY <1>0, <1>3, <1>4, <1>6 DEF WInv, FreeOK, FreeOpen, FreeReceipt
<1>9. InvocationsOK'
  <2>1. ASSUME NEW v \in Invocations, v # w PROVE Remembers(v)'
    <3>1. pc[v] \in Free => local[v].review # k
      BY <1>0, <1>1, <2>1 DEF WInv, InvocationsOK, OneHolderOfAFree, Free
    <3> QED
      BY <1>0, <1>3, <1>4, <1>5, <2>1, <3>1 DEF WInv, InvocationsOK, Remembers,
         RemembersReview, RemembersExecution, RemembersFree, Row, Free, Sends
  <2>2. Remembers(w)'
    BY <1>0, <1>1, <1>5, <1>6 DEF Remembers, RemembersFree, Row, Free
  <2>3. OneHolderOfAFree'
    BY <1>0, <1>5 DEF WInv, InvocationsOK, OneHolderOfAFree, Free
  <2> QED
    BY <2>1, <2>2, <2>3 DEF InvocationsOK
<1>10. /\ LooseFree(k) /\ (Kept => \A i \in Reviews : ~ Loose(i))
       /\ Never => \A l \in FreeOps : LooseFree(l) => l = k
  BY <1>0, <1>1, AtOut DEF Out
<1>11. ASSUME NEW i \in Reviews, Loose(i)' PROVE Loose(i)
  BY <1>0, <1>3, <1>4, <1>5, <1>11 DEF Loose, Pending
<1>12. ASSUME NEW l \in FreeOps, LooseFree(l)' PROVE LooseFree(l)
  BY <1>0, <1>3, <1>4, <1>5, <1>10, <1>12 DEF LooseFree, FreeOpen, Out
<1>13. ASSUME Kept, NEW v \in Invocations, lease = v PROVE LeaseOK(v)'
  <2>1. LeaseAt(pc[v], local[v].review, local[v].setting)
    BY <1>13 DEF WInv, LeasesOK, Holds, LeaseOK
  <2>2. LeaseAt(pc'[v], local'[v].review, local'[v].setting)
    BY <1>0, <1>5, <2>1 DEF LeaseAt, NoneLooseAt, PaidAt, Free, Row, Out
  <2>3. Never' = Never
    BY <1>0 DEF Never
  <2> QED
    BY <1>11, <1>12, <2>2, <2>3 DEF LeaseOK, LeaseAt
<1>14. ASSUME Kept, NEW v \in Invocations PROVE SendOK(v)'
  <2> SUFFICES ASSUME pc[v] = "send", v # w, SavedTx(v)' \notin sent' PROVE FALSE
    BY <1>5 DEF SendOK
  <2>1. SavedTx(v) \notin sent
    BY <1>0, <1>4 DEF SavedTx, ExecuteTx
  <2>2. Pending(local[v].review) /\ local[v].review \in Reviews
    BY <1>14, <2>1 DEF WInv, LeasesOK, SendOK, InvocationsOK, Remembers, RemembersExecution, Row
  <2> QED
    BY <1>10, <1>14, <2>2 DEF Loose
<1>15. ASSUME Kept, NEW v \in Invocations PROVE SendFreeOK(v)'
  <2> SUFFICES ASSUME pc'[v] = "freeSend", NEW t \in sent', t.from = Worker,
                      t.nonce = local[v].nonce
               PROVE  t.kind = "FREE" /\ ~ Never
    BY <1>0 DEF SendFreeOK, FreshFree, Never
  <2>1. v # w /\ pc[v] = "freeSend"
    BY <1>5
  <2>2. ASSUME t \in sent PROVE t.kind = "FREE" /\ ~ Never
    BY <1>15, <2>1, <2>2 DEF WInv, LeasesOK, SendFreeOK, FreshFree
  <2>3. ASSUME Never PROVE FALSE
    <3>1. local[v].review \in FreeOps /\ LooseFree(local[v].review)
      BY <2>1, AtOut DEF Out
    <3>2. local[v].review = k
      BY <1>10, <2>3, <3>1
    <3> QED
      BY <1>0, <1>1, <2>1, <3>2 DEF WInv, InvocationsOK, OneHolderOfAFree, Free
  <2> QED
    BY <1>3, <1>4, <2>2, <2>3
<1>16. (Kept => OneKindLoose') /\ (Never => OneFreeLoose')
  BY <1>11, <1>12 DEF WInv, LeasesOK, OneKindLoose, OneFreeLoose
<1>17. LeasesOK'
  BY <1>0, <1>13, <1>14, <1>15, <1>16 DEF LeasesOK, Holds, Kept, Never
<1>18. ASSUME NEW t \in sent, t.from = Worker, t.nonce = n
       PROVE  removed = "EARLY" \/ (removed = "RESOLVED" /\ t.kind = "FREE")
  <2>1. Kept => t.kind = "FREE" /\ ~ Never
    BY <1>0, <1>1, <1>18 DEF WInv, LeasesOK, SendFreeOK, FreshFree
  <2> QED
    BY <2>1 DEF Kept, Never, WInv, ClockOK
<1>19. OneTransactionPerNonce'
  BY <1>0, <1>3, <1>4, <1>18 DEF WInv, OneTransactionPerNonce
<1> QED
  BY <1>5, <1>7, <1>8, <1>9, <1>17, <1>19 DEF WInv
---------------------------------------------------------------------------
(* The chain, the clock and everybody else. *)

LEMMA ChainStep ==
    ASSUME WInv, Inv', NetworkOK', ClockOK', FlagOK', OneTransactionPerNonce', RemovedMovesOn,
           UNCHANGED <<journals, process, sent>>, mined \subseteq mined'
    PROVE  WInv'
<1>1. UNCHANGED <<reviews, wallet, executions, freeOps, lease, pc, local, sent>>
  BY DEF journals, process
<1>2. RowsOK' /\ ProcessOK'
  BY <1>1 DEF WInv, RowsOK, ProcessOK
<1>3. OwnerOK' /\ ExecutionsOK' /\ FreeOK'
  BY <1>1, OwnerFrame, ExecutionsFrame, FreeFrame
<1>4. ReviewsMoveOn /\ ExecutionsMoveOn /\ FreesMoveOn /\ SignerSendsNothing
  BY <1>1 DEF ReviewsMoveOn, ExecutionsMoveOn, FreesMoveOn, SignerSendsNothing, FreeOpen
<1>5. ASSUME NEW v \in Invocations PROVE Still(v)
  BY <1>1 DEF Still
<1>6. InvocationsOK' /\ LeasesOK'
  BY <1>2, <1>4, <1>5, CalmStep
<1> QED
  BY <1>2, <1>3, <1>6 DEF WInv

LEMMA SettingStays ==
    ASSUME WInv, UNCHANGED <<journals, process, sent, setting, removed>>
    PROVE  FlagOK' /\ OneTransactionPerNonce' /\ RemovedMovesOn
BY DEF WInv, FlagOK, OneTransactionPerNonce, RemovedMovesOn, Never, Kept, Pending, Sends,
       journals, process

\* What a transaction does to the vault, the vault's own invariant bears.
LEMMA VaultCallInv ==
    ASSUME WInv, NEW tx \in sent, VaultCall(tx) PROVE Inv' /\ now' = now
<1>1. Inv /\ Owner \in Accounts /\ Worker \in Accounts /\ Owner # Worker
  BY PartiesAssumption DEF WInv
<1>2. CASE tx.from = Owner
  <2>1. /\ tx.kind \in OwnerKinds /\ tx.id \in Reviews /\ reviews[tx.id] \in ReviewRows
        /\ reviews[tx.id].status # "NONE"
    BY <1>1, <1>2 DEF WInv, NetworkOK, ShapeOK, RowsOK, OwnerOK, OwnerSentOK, WalletOK
  <2>2. PICK price \in Prices, fee \in Fees, g \in Nat, d \in Int :
           /\ price = reviews[tx.id].price /\ fee = reviews[tx.id].fee
           /\ g = reviews[tx.id].generation /\ d = reviews[tx.id].deadline
    BY <2>1 DEF WInv, OwnerOK, WalletOK, ReviewRows
  <2>3. CASE Authorize(Owner, Worker, price, fee, g, d)
    BY <1>1, <2>3, AuthorizeInv DEF Authorize, environment
  <2>4. CASE Cancel(Owner, g)
    BY <1>1, <2>4, CancelInv DEF Cancel, environment
  <2>5. CASE WithdrawRefund(Owner)
    BY <1>1, <2>5, WithdrawInv DEF WithdrawRefund, environment
  <2> QED
    BY <2>1, <2>2, <2>3, <2>4, <2>5 DEF VaultCall, OwnerKinds
<1>3. CASE tx.from = Worker /\ tx.kind = "EXECUTE"
  <2>1. PICK g \in Nat : g = reviews[tx.id].generation + 1
    BY <1>1, <1>3 DEF WInv, NetworkOK, ShapeOK, RowsOK, ReviewRows
  <2>2. Execute(Worker, g)
    BY <1>3, <2>1 DEF VaultCall
  <2> QED
    BY <1>1, <2>2, ExecuteInv DEF Execute, environment
<1>4. CASE tx.from = Worker /\ tx.kind = "FREE"
  BY <1>1, <1>4, VaultFrame DEF VaultCall, vars, environment
<1> QED
  BY <1>2, <1>3, <1>4 DEF WInv, NetworkOK, ShapeOK

LEMMA MineInv == ASSUME WInv, NEW tx \in mempool, Mine(tx) PROVE WInv'
<1>1. /\ tx \in sent /\ tx \in Tx /\ tx.from \in {Owner, Worker} /\ tx.nonce \in Nat
      /\ tx.nonce = nonces[tx.from] /\ now \in Nat
  BY DEF WInv, NetworkOK, Tx, Mine, Inv, TypeOK
<1>2. /\ UNCHANGED <<journals, process, sent, lastTransfer, setting, removed>>
      /\ mempool' \subseteq mempool /\ nonces' = [nonces EXCEPT ![tx.from] = @ + 1]
  BY DEF Mine, counters
<1>3. Inv' /\ now' = now
  <2>1. CASE UNCHANGED vars
    BY <2>1, VaultFrame DEF WInv, vars, environment
  <2> QED
    BY <1>1, <2>1, VaultCallInv DEF Mine
<1>4. PICK ok, block, refund :
         /\ ok \in BOOLEAN /\ block \in Nat
         /\ mined' = mined \cup {[tx |-> tx, ok |-> ok, block |-> block, refund |-> refund]}
  BY <1>1 DEF Mine
<1>5. NetworkOK'
  <2>1. /\ nonces' \in [{Owner, Worker} -> Nat] /\ nonces'[tx.from] = tx.nonce + 1
        /\ \A a \in {Owner, Worker} : nonces[a] \in Nat /\ nonces'[a] >= nonces[a]
    BY <1>1, <1>2 DEF WInv, NetworkOK
  <2>2. IsFiniteSet(mempool')
    BY <1>2, FS_Subset DEF WInv, NetworkOK
  <2>3. ASSUME NEW m \in mined'
        PROVE  /\ m.tx \in sent /\ m.ok \in BOOLEAN /\ m.block \in Nat
               /\ m.tx.nonce < nonces'[m.tx.from]
    <3>1. CASE m \in mined
      <4>1. /\ m.tx \in sent /\ m.ok \in BOOLEAN /\ m.block \in Nat
            /\ m.tx.nonce < nonces[m.tx.from] /\ m.tx.from \in {Owner, Worker}
            /\ m.tx.nonce \in Nat
        BY <3>1 DEF WInv, NetworkOK, Tx
      <4> QED
        BY <2>1, <4>1
    <3>2. CASE m \notin mined
      <4>1. m = [tx |-> tx, ok |-> ok, block |-> block, refund |-> refund]
        BY <1>4, <3>2
      <4>2. m.tx = tx /\ m.ok = ok /\ m.block = block
        BY <4>1
      <4> QED
        BY <1>1, <1>4, <2>1, <4>2
    <3> QED
      BY <3>1, <3>2
  <2> QED
    BY <1>2, <2>1, <2>2, <2>3 DEF WInv, NetworkOK, ShapeOK
<1>6. ClockOK'
  BY <1>2, <1>3 DEF WInv, ClockOK
<1> QED
  BY <1>2, <1>3, <1>4, <1>5, <1>6, SettingStays, ChainStep

LEMMA SurroundingsInv ==
    ASSUME WInv,
           \/ \E tx \in mempool : Drop(tx)
           \/ ChangeSetting \/ Sell \/ Others \/ Reprice \/ TimePasses
           \/ UNCHANGED allVars
    PROVE  WInv'
<1>1. now \in Nat /\ Inv /\ Owner \in Accounts
  BY PartiesAssumption DEF WInv, Inv, TypeOK
<1>2. CASE \E tx \in mempool : Drop(tx)
  <2>1. /\ UNCHANGED <<journals, process, mined, nonces, sent, lastTransfer, setting, removed>>
        /\ mempool' \subseteq mempool
    BY <1>2 DEF Drop, KeepsOtherCounters
  <2>2. UNCHANGED vars
    BY <1>2 DEF Drop
  <2>3. Inv' /\ ClockOK'
    BY <1>1, <2>1, <2>2, VaultFrame DEF WInv, ClockOK, vars, environment
  <2>4. NetworkOK'
    BY <2>1, FS_Subset DEF WInv, NetworkOK, ShapeOK
  <2> QED
    BY <2>1, <2>3, <2>4, SettingStays, ChainStep
<1>3. ASSUME UNCHANGED <<journals, process, network>>, Inv', ClockOK',
             \/ FlagOK' /\ OneTransactionPerNonce' /\ RemovedMovesOn
             \/ UNCHANGED <<setting, removed>>
      PROVE  WInv'
  <2>1. UNCHANGED <<mempool, mined, nonces, sent>>
    BY <1>3 DEF network
  <2>2. NetworkOK'
    BY <2>1 DEF WInv, NetworkOK, ShapeOK
  <2> QED
    BY <1>3, <2>1, <2>2, SettingStays, ChainStep
<1>4. CASE ChangeSetting
  <2>1. /\ UNCHANGED <<vars, journals, process, network, lastTransfer>>
        /\ UNCHANGED <<executions, pc, local, sent>>
        /\ setting' \in Settings
        /\ removed' = IF setting' # "unset" THEN removed
                      ELSE IF Resolved /\ removed # "EARLY" THEN "RESOLVED" ELSE "EARLY"
    BY <1>4 DEF ChangeSetting, journals, process, network
  <2>2. removed \in {"NEVER", "RESOLVED", "EARLY"}
    BY DEF WInv, ClockOK
  <2>3. Inv' /\ ClockOK'
    BY <1>1, <2>1, <2>2, VaultFrame DEF WInv, ClockOK, vars, environment
  <2>4. RemovedMovesOn
    BY <2>1 DEF RemovedMovesOn, Kept, Never
  <2>5. setting' = "unset" /\ Kept' => Resolved
    BY <2>1 DEF Kept
  <2>6. Never' => setting' # "unset" /\ Never
    BY <2>1 DEF Never
  <2>7. FlagOK'
    BY <2>1, <2>5, <2>6 DEF WInv, FlagOK, Resolved, Pending, Sends
  <2>8. OneTransactionPerNonce'
    BY <2>1, <2>2 DEF WInv, OneTransactionPerNonce
  <2> QED
    BY <1>3, <2>1, <2>3, <2>4, <2>7, <2>8
<1>5. CASE Sell
  <2>1. Inv' /\ now' = now
    BY <1>1, <1>5, AroundInv DEF Sell, TransferPunk
  <2>2. ClockOK'
    BY <1>1, <1>5, <2>1 DEF Sell, WInv, ClockOK
  <2> QED
    BY <1>3, <1>5, <2>1, <2>2 DEF Sell
<1>6. CASE Others
  <2>0. UNCHANGED <<journals, process, network, lastTransfer, setting, removed>>
    BY <1>6 DEF Others, workerVars, counters
  <2>1. /\ \A g \in 1 .. MaxGeneration : g \in Nat
        /\ \A g \in 0 .. MaxGeneration - 1 : g \in Nat
        /\ now + Duration \in Int
    BY <1>1, BoundsAssumption, WorkerBoundsAssumption
  <2>2. CASE \E a \in Accounts, g \in 1 .. MaxGeneration : Cancel(a, g)
    <3>1. Inv' /\ now' = now
      BY <1>1, <2>1, <2>2, CancelInv DEF Cancel, environment
    <3> QED
      BY <1>3, <2>0, <3>1 DEF WInv, ClockOK
  <2>3. CASE \E a \in Accounts, price \in Prices, fee \in Fees, g \in 0 .. MaxGeneration - 1 :
                Authorize(a, Worker, price, fee, g, now + Duration)
    <3>1. PICK a \in Accounts, price \in Prices, fee \in Fees, g \in Nat, d \in Int :
              Authorize(a, Worker, price, fee, g, d)
      BY <2>1, <2>3
    <3>2. Inv' /\ now' = now
      BY <1>1, <3>1, PartiesAssumption, AuthorizeInv DEF Authorize, environment
    <3> QED
      BY <1>3, <2>0, <3>2 DEF WInv, ClockOK
  <2> QED
    BY <1>6, <2>2, <2>3 DEF Others
<1>7. CASE Reprice
  <2>1. Inv' /\ now' = now
    BY <1>1, <1>7, AroundInv DEF Reprice, ChangeDrop
  <2> QED
    BY <1>3, <1>7, <2>1 DEF Reprice, WInv, ClockOK
<1>8. CASE TimePasses
  <2>1. Inv' /\ now' = now + 1
    BY <1>1, <1>8, AroundInv DEF TimePasses, Tick
  <2>2. UNCHANGED <<journals, process, network, lastTransfer, setting, removed>>
    BY <1>8 DEF TimePasses, workerVars, counters
  <2>3. ClockOK'
    BY <1>1, <2>1, <2>2 DEF WInv, ClockOK
  <2> QED
    BY <1>3, <2>1, <2>2, <2>3
<1>9. CASE UNCHANGED allVars
  <2>1. UNCHANGED <<vars, journals, process, network, lastTransfer, setting, removed>>
    BY <1>9 DEF allVars, workerVars, counters
  <2>2. Inv' /\ ClockOK'
    BY <1>1, <2>1, VaultFrame DEF WInv, ClockOK, vars, environment
  <2> QED
    BY <1>3, <2>1, <2>2
<1> QED
  BY <1>2, <1>4, <1>5, <1>6, <1>7, <1>8, <1>9

---------------------------------------------------------------------------
(* The theorems. *)

LEMMA WorkerInitInv == WorkerInit => WInv
<1> SUFFICES ASSUME WorkerInit PROVE WInv
  OBVIOUS
<1> USE DEF WorkerInit
<1>1. Inv /\ now = 0
  BY InitInv DEF Init
<1>2. NoReview \in ReviewRows /\ NoReview.status = "NONE"
  BY DEF NoReview, ReviewRows, Terminal
<1>3. NoExecution \in ExecutionRows /\ NoExecution.status = "NONE"
  BY DEF NoExecution, ExecutionRows, ExecutionStates
<1>4. RowsOK
  BY <1>2, <1>3 DEF RowsOK
<1>5. ProcessOK
  BY NoLocalIsLocal DEF ProcessOK, Labels
<1>6. NetworkOK
  BY FS_EmptySet DEF NetworkOK
<1>7. ClockOK
  BY <1>1 DEF ClockOK
<1>8. OwnerOK
  BY <1>2 DEF OwnerOK, WalletOK, FollowsAll, ReceiptOK, OwnerSentOK
<1>9. ExecutionsOK
  BY <1>3 DEF ExecutionsOK, Pending, OpenExecution, SavedBeforeSent
<1>10. FreeOK
  BY DEF FreeOK
<1>11. InvocationsOK
  BY DEF InvocationsOK, Remembers, OneHolderOfAFree, Row, Free
<1>12. \A i \in Reviews : ~ Pending(i)
  BY <1>3 DEF Pending, OpenExecution
<1>13. LeasesOK
  BY InvocationsAssumption, <1>12
     DEF LeasesOK, OneKindLoose, OneFreeLoose, Loose, LooseFree, FreeOpen, OpenFree, Holds,
         SendOK, SendFreeOK
<1>14. FlagOK
  BY NoLocalIsLocal, <1>12 DEF FlagOK, Never, Sends
<1>15. OneTransactionPerNonce
  BY DEF OneTransactionPerNonce
<1> QED
  BY <1>1, <1>4, <1>5, <1>6, <1>7, <1>8, <1>9, <1>10, <1>11, <1>13, <1>14, <1>15 DEF WInv

LEMMA WorkerStepInv == ASSUME WInv, NEW w \in Invocations, WorkerStep(w) PROVE WInv'
BY ReconcileFreeInv, LookInv, RecordReportedInv, SelectInv, StopInv, SignInv, InsertInv,
   ReconcileReceiptInv, ReconcileSendInv, SendInv, MarkSubmittedInv, ReserveFreeInv,
   CheckFreeInv, TakeNonceInv, SendFreeInv, MarkFreeInv DEF WorkerStep

LEMMA WorkerNextInv == WInv /\ [WorkerNext]_allVars => WInv'
<1> SUFFICES ASSUME WInv, [WorkerNext]_allVars PROVE WInv'
  OBVIOUS
<1>1. CASE OwnerStep
  BY <1>1, PrepareInv, OwnerStepsInv, WalletSendsInv DEF OwnerStep, OwnerKinds
<1>2. ASSUME NEW w \in Invocations,
             \/ Acquire(w) \/ WorkerStep(w)
             \/ Throw(w) \/ Die(w) \/ LeaseTimesOut(w) \/ LeaseIsLost(w)
      PROVE  WInv'
  BY <1>2, AcquireInv, WorkerStepInv, ThrowInv, StopsInv
<1>3. CASE \E tx \in mempool : Mine(tx)
  BY <1>3, MineInv
<1> QED
  BY <1>1, <1>2, <1>3, SurroundingsInv DEF WorkerNext

LEMMA WorkerInvariant == WorkerSpec => []WInv
BY WorkerInitInv, WorkerNextInv, PTL DEF WorkerSpec

\* The rows, the invocations and the network have the shapes that the stores,
\* the worker and the nodes give them.
THEOREM WorkerTypes == WorkerSpec => []WorkerTypeOK
<1>1. WInv => WorkerTypeOK
  <2> SUFFICES ASSUME WInv PROVE WorkerTypeOK
    OBVIOUS
  <2>1. ASSUME NEW i \in Reviews
        PROVE  /\ reviews[i].status \in Terminal \cup {"NONE", "PREPARED", "WALLET_REQUESTED"}
               /\ {reviews[i].revision, reviews[i].generation, reviews[i].nonce,
                   reviews[i].refund, reviews[i].block} \subseteq Nat
               /\ executions[i].status \in OpenExecution
                     \cup {"NONE", "STOPPED", "COMPLETED", "REVERTED"}
               /\ {executions[i].revision, executions[i].nonce} \subseteq Nat
    BY DEF WInv, RowsOK, ReviewRows, ExecutionRows, ExecutionStates
  <2>2. \A w \in Invocations :
           /\ {local[w].review, local[w].revision, local[w].nonce} \subseteq Nat
           /\ local[w].setting \in Settings
    BY DEF WInv, ProcessOK, Locals
  <2> QED
    BY <2>1, <2>2 DEF WInv, Inv, RowsOK, ProcessOK, NetworkOK, ClockOK, WorkerTypeOK
<1> QED
  BY <1>1, WorkerInvariant, PTL

\* insertExecution comes before the broadcast, and every retry sends the bytes
\* of the row, whoever makes it.
THEOREM SavedFirst == WorkerSpec => []SavedBeforeSent
<1>1. WInv => SavedBeforeSent
  BY DEF WInv, ExecutionsOK
<1> QED
  BY <1>1, WorkerInvariant, PTL

\* Paid mints, free mints and the owner's wallet never have two transactions
\* with one nonce under way, for any number of sessions.  Excepted are two free
\* mints once the setting was missing, and everything once it was removed before
\* the saved transactions were resolved.
THEOREM NoncesAreUsedOnce == WorkerSpec => []OneTransactionPerNonce
<1>1. WInv => OneTransactionPerNonce
  BY DEF WInv
<1> QED
  BY <1>1, WorkerInvariant, PTL

\* A row that says finished was mined so, and a stopped one is never sent.
THEOREM JournalsTellTheTruth == WorkerSpec => []JournalsAreTrue
<1>1. WInv => JournalsAreTrue
  <2> SUFFICES ASSUME WInv, NEW i \in Reviews
               PROVE  LET authorized == Receipt(OwnerTx(i))
                          executed == Receipt(ExecuteTx(i, executions[i].nonce))
                      IN  /\ reviews[i].status = "CONFIRMED" => \E m \in authorized : m.ok
                          /\ reviews[i].status = "REVERTED" => \E m \in authorized : ~ m.ok
                          /\ executions[i].status = "COMPLETED" => \E m \in executed : m.ok
                          /\ executions[i].status = "REVERTED" => \E m \in executed : ~ m.ok
                          /\ executions[i].status = "STOPPED" =>
                                \A tx \in sent : ~ (tx.kind = "EXECUTE" /\ tx.id = i)
    BY DEF JournalsAreTrue
  <2>1. /\ reviews[i].status = "CONFIRMED" => \E m \in Receipt(OwnerTx(i)) : m.ok
        /\ reviews[i].status = "REVERTED" => \E m \in Receipt(OwnerTx(i)) : ~ m.ok
    BY DEF WInv, OwnerOK, ReceiptOK
  <2>2. LET executed == Receipt(ExecuteTx(i, executions[i].nonce))
        IN  /\ executions[i].status = "COMPLETED" => \E m \in executed : m.ok
            /\ executions[i].status = "REVERTED" => \E m \in executed : ~ m.ok
    BY DEF WInv, ExecutionsOK
  <2>3. executions[i].status = "STOPPED" =>
           \A tx \in sent : ~ (tx.kind = "EXECUTE" /\ tx.id = i)
    BY DEF WInv, ExecutionsOK, SavedBeforeSent
  <2> QED
    BY <2>1, <2>2, <2>3
<1> QED
  BY <1>1, WorkerInvariant, PTL

\* Whatever the worker, the wallet, the relays and the chain do, the vault they
\* share is solvent and every funder's money is accounted for.
THEOREM VaultIsSafeInService == WorkerSpec => [](Solvent /\ FunderMadeWhole)
<1>1. WInv => Solvent /\ FunderMadeWhole
  BY DEF WInv, Inv
<1> QED
  BY <1>1, WorkerInvariant, PTL

\* What a step of the service is to the vault: nothing, one of its calls, or
\* what happens around it.
VaultRests == UNCHANGED vars
VaultIsCalled ==
    \/ \E a \in Accounts, e \in Accounts, p \in Prices, f \in Fees, g \in Int, d \in Int :
          Authorize(a, e, p, f, g, d)
    \/ \E g \in Int : Execute(Worker, g)
    \/ \E a \in Accounts, g \in Int : Cancel(a, g)
    \/ WithdrawRefund(Owner)
AroundTheVault ==
    \/ \E to \in Accounts : TransferPunk(to)
    \/ \E p \in Prices \cup {0} : ChangeDrop(p)
    \/ Tick

LEMMA MinedCalls ==
    ASSUME WInv, NEW tx \in sent, VaultCall(tx) PROVE VaultRests \/ VaultIsCalled
<1>1. /\ tx.id \in Reviews => reviews[tx.id] \in ReviewRows
      /\ Owner \in Accounts /\ Worker \in Accounts
  BY PartiesAssumption DEF WInv, RowsOK
<1>2. ShapeOK(tx)
  BY DEF WInv, NetworkOK
<1>3. CASE tx.from = Owner
  <2>1. /\ tx.kind \in OwnerKinds /\ tx.id \in Reviews
        /\ reviews[tx.id].status # "NONE"
    BY <1>1, <1>3, PartiesAssumption
       DEF WInv, NetworkOK, ShapeOK, OwnerOK, OwnerSentOK, WalletOK
  <2>2. PICK price \in Prices, fee \in Fees, g \in Int, d \in Int :
           /\ price = reviews[tx.id].price /\ fee = reviews[tx.id].fee
           /\ g = reviews[tx.id].generation /\ d = reviews[tx.id].deadline
    BY <1>1, <2>1 DEF WInv, OwnerOK, WalletOK, ReviewRows
  <2>3. \/ Authorize(Owner, Worker, price, fee, g, d)
        \/ Cancel(Owner, g)
        \/ WithdrawRefund(Owner)
    BY <2>1, <2>2 DEF VaultCall, OwnerKinds
  <2> QED
    BY <1>1, <2>3 DEF VaultIsCalled
<1>4. CASE tx.from = Worker /\ tx.kind = "EXECUTE" /\ tx.id \in Reviews
  <2>1. PICK g \in Int : g = reviews[tx.id].generation + 1
    BY <1>1, <1>4 DEF ReviewRows
  <2> QED
    BY <1>4, <2>1 DEF VaultCall, VaultIsCalled
<1>5. CASE tx.from = Worker /\ tx.kind = "FREE"
  BY <1>5 DEF VaultCall, VaultRests
<1> QED
  BY <1>2, <1>3, <1>4, <1>5 DEF ShapeOK

LEMMA ServiceStep ==
    ASSUME WInv, [WorkerNext]_allVars PROVE VaultRests \/ VaultIsCalled \/ AroundTheVault
<1>1. CASE OwnerStep \/ (\E tx \in mempool : Drop(tx)) \/ ChangeSetting \/ UNCHANGED allVars
  BY <1>1 DEF OwnerStep, Prepare, Claim, CancelReview, WalletSends, WalletRejects, Decline,
     ReportHash, RecoverInBrowser, Drop, ChangeSetting, allVars, VaultRests
<1>2. ASSUME NEW w \in Invocations,
             \/ Acquire(w) \/ WorkerStep(w)
             \/ Throw(w) \/ Die(w) \/ LeaseTimesOut(w) \/ LeaseIsLost(w)
      PROVE  VaultRests
  <2>1. CASE Acquire(w) \/ Throw(w) \/ Die(w) \/ LeaseTimesOut(w) \/ LeaseIsLost(w)
    BY <2>1 DEF Acquire, Throw, Die, LeaseTimesOut, LeaseIsLost, VaultRests
  <2>2. CASE WorkerStep(w)
    BY <2>2 DEF WorkerStep, ReconcileFree, Look, RecordReported, Select, Stop,
       Sign, Insert, ReconcileReceipt, ReconcileSend, Send, MarkSubmitted, ReserveFree,
       CheckFree, TakeNonce, SendFree, MarkFree, VaultRests
  <2> QED
    BY <1>2, <2>1, <2>2
<1>3. ASSUME NEW tx \in mempool, Mine(tx) PROVE VaultRests \/ VaultIsCalled
  <2>1. tx \in sent
    BY DEF WInv, NetworkOK
  <2> QED
    BY <1>3, <2>1, MinedCalls DEF Mine, VaultRests
<1>4. CASE Sell \/ Reprice \/ TimePasses
  BY <1>4 DEF Sell, Reprice, TimePasses, AroundTheVault
<1>5. CASE Others
  <2>1. now + Duration \in Int /\ Worker \in Accounts
    BY WorkerBoundsAssumption, PartiesAssumption DEF WInv, Inv, TypeOK
  <2>2. MaxGeneration \in Nat
    BY BoundsAssumption
  <2> QED
    BY <1>5, <2>1, <2>2 DEF Others, VaultIsCalled
<1> QED
  BY <1>1, <1>2, <1>3, <1>4, <1>5 DEF WorkerNext

\* The service with its journals, invocations, signer, relays and faults
\* implements the escrow its funders see: a row that is stale, a call that is
\* sent twice or lost, or a lease that is not held, is no step of the escrow.
THEOREM ServiceImplementsEscrow == WorkerSpec => Implements
<1>1. WorkerInit => Escrow!Init
  BY DEF WorkerInit, Init, Escrow!Init, NoMission, Nothing, MissionEscrow
<1>2. WInv /\ [WorkerNext]_allVars => [Escrow!Next]_(Escrow!vars)
  <2> SUFFICES ASSUME WInv, [WorkerNext]_allVars
               PROVE  Escrow!Next \/ UNCHANGED Escrow!vars
    OBVIOUS
  <2>1. Inv /\ Owner \in Accounts
    BY PartiesAssumption DEF WInv
  <2>2. CASE VaultIsCalled
    BY <2>1, <2>2, AuthorizeDeposits, ExecuteSpends, CancelReleases, WithdrawPaysOut
       DEF VaultIsCalled
  <2>3. CASE VaultRests \/ AroundTheVault
    BY <2>3, AroundTheEscrow DEF VaultRests, AroundTheVault
  <2> QED
    BY <2>2, <2>3, ServiceStep
<1> QED
  BY <1>1, <1>2, WorkerInvariant, PTL DEF WorkerSpec, Implements, Escrow!Spec

---------------------------------------------------------------------------
(* A forsaken authorization stays forsaken. *)

\* Only the reconciler takes an invocation to its broadcast, after MayResend.
LEMMA WhoSends ==
    ASSUME WInv, NEW w \in Invocations, NEW v \in Invocations,
           \/ Acquire(w) \/ WorkerStep(w)
           \/ Throw(w) \/ Die(w) \/ LeaseTimesOut(w) \/ LeaseIsLost(w),
           pc'[v] = "send"
    PROVE  /\ local'[v] = local[v]
           /\ pc[v] = "send" \/ MayResend(v)
<1> USE DEF Finish, Go
<1>0. pc \in [Invocations -> Labels] /\ local \in [Invocations -> Locals]
  BY DEF WInv, ProcessOK
<1>1. CASE Acquire(w) \/ Look(w) \/ ReconcileFree(w)
  BY <1>0, <1>1 DEF Acquire, Look, ReconcileFree, LookAround, FreeHalf, PaidHalf
<1>2. CASE RecordReported(w) \/ Select(w) \/ Stop(w) \/ Sign(w) \/ Insert(w)
  BY <1>0, <1>2 DEF RecordReported, Select, FreeHalf, Stop, Sign, Insert
<1>3. CASE ReconcileReceipt(w) \/ ReconcileSend(w) \/ Send(w) \/ MarkSubmitted(w)
  BY <1>0, <1>3 DEF ReconcileReceipt, ReconcileSend, Send, MarkSubmitted
<1>4. CASE ReserveFree(w) \/ CheckFree(w) \/ TakeNonce(w) \/ SendFree(w) \/ MarkFree(w)
  BY <1>0, <1>4 DEF ReserveFree, CheckFree, TakeNonce, SendFree, MarkFree, FreeFailed
<1>5. CASE Throw(w) \/ Die(w) \/ LeaseTimesOut(w) \/ LeaseIsLost(w)
  BY <1>0, <1>5 DEF Throw, Die, LeaseTimesOut, LeaseIsLost, FreeFailed
<1> QED
  BY <1>1, <1>2, <1>3, <1>4, <1>5 DEF WorkerStep

LEMMA OtherReviewsStay ==
    ASSUME WInv, NEW i \in Reviews, NEW j \in Reviews, i # j,
           NEW status, NEW reported, NEW block, SetReview(j, status, reported, block)
    PROVE  reviews'[i] = reviews[i]
BY DEF SetReview, WInv, RowsOK

\* A confirmed review is final.
LEMMA ConfirmedStays ==
    ASSUME WInv, [WorkerNext]_allVars, NEW i \in Reviews, reviews[i].status = "CONFIRMED"
    PROVE  reviews'[i] = reviews[i]
<1>1. CASE OwnerStep
  <2>1. PICK j \in Reviews :
           \/ \E action \in OwnerKinds, price \in Prices, fee \in Fees :
                 Prepare(j, action, price, fee)
           \/ Claim(j) \/ CancelReview(j) \/ WalletSends(j) \/ WalletRejects(j)
           \/ Decline(j) \/ ReportHash(j) \/ RecoverInBrowser(j)
    BY <1>1 DEF OwnerStep, OwnerKinds
  <2>2. CASE \E action \in OwnerKinds, price \in Prices, fee \in Fees :
                Prepare(j, action, price, fee)
    BY <2>2 DEF Prepare, MaySucceed, WInv, RowsOK
  <2>3. CASE Claim(j) \/ CancelReview(j) \/ Decline(j) \/ ReportHash(j)
    <3>1. j # i
      BY <2>3 DEF Claim, CancelReview, Decline, ReportHash
    <3> QED
      BY <2>3, <3>1, OtherReviewsStay DEF Claim, CancelReview, Decline, ReportHash
  <2>4. CASE WalletSends(j) \/ WalletRejects(j)
    BY <2>4 DEF WalletSends, WalletRejects
  <2>5. CASE RecoverInBrowser(j)
    BY <2>5, OtherReviewsStay DEF RecoverInBrowser, RecordReceipt
  <2> QED
    BY <2>1, <2>2, <2>3, <2>4, <2>5
<1>2. ASSUME NEW w \in Invocations, WorkerStep(w) PROVE reviews'[i] = reviews[i]
  <2>1. CASE RecordReported(w)
    <3>1. RemembersReview(w)
      BY <2>1 DEF RecordReported, At, WInv, InvocationsOK, Remembers
    <3>2. PICK j \in Reviews : j = local[w].review
      BY <3>1 DEF RemembersReview
    <3>3. CASE reviews' = reviews
      BY <3>3
    <3>4. CASE reviews' # reviews
      <4>1. /\ \E m : RecordReceipt(j, m)
            /\ reviews[j].status = "WALLET_REQUESTED"
        BY <2>1, <3>1, <3>2, <3>4 DEF RecordReported, RemembersReview
      <4> QED
        BY <4>1, OtherReviewsStay DEF RecordReceipt
    <3> QED
      BY <3>3, <3>4
  <2>2. CASE ~ RecordReported(w)
    BY <1>2, <2>2 DEF WorkerStep, ReconcileFree, Look, Select, Stop, Sign, Insert,
       ReconcileReceipt, ReconcileSend, Send, MarkSubmitted, ReserveFree, CheckFree,
       TakeNonce, SendFree, MarkFree, journals
  <2> QED
    BY <2>1, <2>2
<1>3. ASSUME NEW w \in Invocations,
             \/ Acquire(w) \/ Throw(w) \/ Die(w) \/ LeaseTimesOut(w) \/ LeaseIsLost(w)
      PROVE  reviews'[i] = reviews[i]
  BY <1>3 DEF Acquire, Throw, Die, LeaseTimesOut, LeaseIsLost, journals
<1>4. ASSUME \/ \E tx \in mempool : Mine(tx) \/ Drop(tx)
             \/ ChangeSetting \/ Sell \/ Others \/ Reprice \/ TimePasses
             \/ UNCHANGED allVars
      PROVE  reviews'[i] = reviews[i]
  BY <1>4 DEF Mine, Drop, ChangeSetting, Sell, Others, Reprice, TimePasses, allVars,
     workerVars, journals
<1> QED
  BY <1>1, <1>2, <1>3, <1>4 DEF WorkerNext

\* What one invocation sends for an execution, it was about to send.
LEMMA WhatIsSent ==
    ASSUME WInv, [WorkerNext]_allVars, NEW tx \in sent' \ sent, tx.kind = "EXECUTE"
    PROVE  \E w \in Invocations : pc[w] = "send" /\ local[w].review = tx.id
<1>1. CASE OwnerStep
  <2>1. \E i \in Reviews : tx = OwnerTx(i)
    BY <1>1 DEF OwnerStep, Prepare, Claim, CancelReview, WalletSends, WalletRejects,
       Decline, ReportHash, RecoverInBrowser, network
  <2> QED
    BY <2>1 DEF OwnerTx, WInv, RowsOK, ReviewRows
<1>2. ASSUME NEW w \in Invocations, WorkerStep(w)
      PROVE  pc[w] = "send" /\ local[w].review = tx.id
  <2>1. CASE Send(w)
    BY <2>1 DEF Send, Broadcast, At, SavedTx, ExecuteTx
  <2>2. CASE SendFree(w)
    BY <2>2 DEF SendFree, Broadcast, FreeTx
  <2>3. CASE ~ Send(w) /\ ~ SendFree(w)
    BY <1>2, <2>3 DEF WorkerStep, ReconcileFree, Look, RecordReported, Select, Stop, Sign,
       Insert, ReconcileReceipt, ReconcileSend, MarkSubmitted, ReserveFree, CheckFree,
       TakeNonce, MarkFree, network
  <2> QED
    BY <2>1, <2>2, <2>3
<1>3. ASSUME NEW w \in Invocations,
             \/ Acquire(w) \/ Throw(w) \/ Die(w) \/ LeaseTimesOut(w) \/ LeaseIsLost(w)
      PROVE  FALSE
  BY <1>3 DEF Acquire, Throw, Die, LeaseTimesOut, LeaseIsLost, network
<1>4. ASSUME \/ \E t \in mempool : Mine(t) \/ Drop(t)
             \/ ChangeSetting \/ Sell \/ Others \/ Reprice \/ TimePasses
             \/ UNCHANGED allVars
      PROVE  FALSE
  BY <1>4 DEF Mine, Drop, ChangeSetting, Sell, Others, Reprice, TimePasses, allVars,
     workerVars, network
<1> QED
  BY <1>1, <1>2, <1>3, <1>4 DEF WorkerNext

LEMMA TransfersGoOn ==
    ASSUME WInv, [WorkerNext]_allVars
    PROVE  lastTransfer' \in Int /\ lastTransfer' >= lastTransfer
<1>0. lastTransfer \in Int /\ now \in Int /\ lastTransfer <= now
  BY DEF WInv, ClockOK, Inv, TypeOK
<1>1. lastTransfer' \in {lastTransfer, now}
  <2>1. CASE OwnerStep
    BY <2>1 DEF OwnerStep, Prepare, Claim, CancelReview, WalletSends, WalletRejects,
       Decline, ReportHash, RecoverInBrowser, counters
  <2>2. ASSUME NEW w \in Invocations, WorkerStep(w) PROVE lastTransfer' = lastTransfer
    BY <2>2 DEF WorkerStep, ReconcileFree, Look, RecordReported, Select, Stop, Sign, Insert,
       ReconcileReceipt, ReconcileSend, Send, MarkSubmitted, ReserveFree, CheckFree,
       TakeNonce, SendFree, MarkFree, counters
  <2>3. ASSUME NEW w \in Invocations,
               \/ Acquire(w) \/ Throw(w) \/ Die(w) \/ LeaseTimesOut(w) \/ LeaseIsLost(w)
        PROVE  lastTransfer' = lastTransfer
    BY <2>3 DEF Acquire, Throw, Die, LeaseTimesOut, LeaseIsLost, KeepsOtherCounters, counters
  <2>4. ASSUME \/ \E tx \in mempool : Mine(tx) \/ Drop(tx)
               \/ ChangeSetting \/ Sell \/ Others \/ Reprice \/ TimePasses
               \/ UNCHANGED allVars
        PROVE  lastTransfer' \in {lastTransfer, now}
    BY <2>4 DEF Mine, Drop, ChangeSetting, Sell, Others, Reprice, TimePasses, allVars,
       workerVars, counters, KeepsOtherCounters
  <2> QED
    BY <2>1, <2>2, <2>3, <2>4 DEF WorkerNext
<1> QED
  BY <1>0, <1>1

\* No invocation comes to its broadcast: the last check of one that would reads
\* the Transfer log from the authorization's block on.
LEMMA ForsakenStep ==
    ASSUME WInv, [WorkerNext]_allVars, NEW i \in Reviews, Forsaken(i)
    PROVE  Forsaken(i)'
<1>1. reviews'[i] = reviews[i] /\ reviews[i].status = "CONFIRMED"
  BY ConfirmedStays DEF Forsaken
<1>2. /\ lastTransfer >= reviews[i].block /\ lastTransfer' >= lastTransfer
      /\ lastTransfer \in Int /\ lastTransfer' \in Int /\ reviews[i].block \in Int
  BY TransfersGoOn DEF Forsaken, WInv, ClockOK, RowsOK, ReviewRows
<1>3. ASSUME NEW tx \in sent' PROVE ~ (tx.kind = "EXECUTE" /\ tx.id = i)
  BY WhatIsSent DEF Forsaken, At
<1>4. ASSUME NEW v \in Invocations, pc'[v] = "send", local'[v].review = i PROVE FALSE
  <2>1. local'[v] = local[v] /\ (pc[v] = "send" \/ MayResend(v))
    <3>1. CASE \E w \in Invocations :
                  \/ Acquire(w) \/ WorkerStep(w)
                  \/ Throw(w) \/ Die(w) \/ LeaseTimesOut(w) \/ LeaseIsLost(w)
      BY <1>4, <3>1, WhoSends
    <3>2. CASE UNCHANGED process
      BY <1>4, <3>2 DEF process
    <3>3. CASE OwnerStep
      BY <3>2, <3>3 DEF OwnerStep, Prepare, Claim, CancelReview, WalletSends, WalletRejects,
         Decline, ReportHash, RecoverInBrowser
    <3>4. CASE \/ \E tx \in mempool : Mine(tx) \/ Drop(tx)
               \/ ChangeSetting \/ Sell \/ Others \/ Reprice \/ TimePasses
               \/ UNCHANGED allVars
      BY <3>2, <3>4 DEF Mine, Drop, ChangeSetting, Sell, Others, Reprice, TimePasses,
         allVars, workerVars
    <3> QED
      BY <3>1, <3>3, <3>4 DEF WorkerNext
  <2>2. ~ (pc[v] = "send" /\ local[v].review = i)
    BY DEF Forsaken, At
  <2>3. lastTransfer < reviews[i].block
    BY <1>4, <2>1, <2>2 DEF MayResend, Continuous
  <2> QED
    BY <1>2, <2>3
<1> QED
  BY <1>1, <1>2, <1>3, <1>4 DEF Forsaken, At

\* Once the Punk has moved and no invocation stands at its broadcast, the
\* authorization is never used, wherever the Punk goes next.
THEOREM ForsakenForGood == WorkerSpec => ForsakenStays
<1>1. WInv /\ [WorkerNext]_allVars => [\A i \in Reviews : Forsaken(i) => Forsaken(i)']_allVars
  BY ForsakenStep
<1> QED
  BY <1>1, WorkerInvariant, PTL DEF WorkerSpec, ForsakenStays

=============================================================================
