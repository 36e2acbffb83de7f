------------------------- MODULE DirectedPaidWorker -------------------------
(***************************************************************************)
(* The off-chain half of a directed paid mint, around the vault of         *)
(* DirectedPaidMint:                                                       *)
(*   - the owner's review journal (broker/src/v4/directed-paid-            *)
(*     coordinator.mjs over directed-paid-store.mjs), driven by a browser  *)
(*     and a wallet that may stop at any point;                            *)
(*   - invocations of the scheduled worker (netlify/functions/             *)
(*     broker-punk-agent-worker.mjs), which share one database lease and   *)
(*     one signer between the paid mint (directed-paid-worker.mjs) and the *)
(*     free mints of agent sessions (agent-account/punk-agent-worker.mjs); *)
(*   - the two journals' rows, with the database's unique indexes;         *)
(*   - the transactions of the owner and of the signer: broadcast, dropped *)
(*     by a relay, mined in nonce order, confirmed some blocks later.      *)
(*                                                                         *)
(* A worker step ends before each write and each broadcast, so everything  *)
(* a write rests on may be stale by then; reads that follow one another    *)
(* are one step.                                                           *)
(*                                                                         *)
(* An invocation can throw or die at any step, and can be frozen so long   *)
(* that its lease is gone when it resumes: these faults are bounded.       *)
(*                                                                         *)
(* Blocks and seconds are one clock.  The two RPC providers agree or the   *)
(* read throws, and a mined block is not reorganised away.                 *)
(***************************************************************************)
EXTENDS DirectedPaidMint, FiniteSets

CONSTANTS
    Owner,          \* release.owner: the one wallet the release is for
    Worker,         \* release.executor: the shared signer
    Invocations,    \* worker invocations that may be alive at once
    SessionOf,      \* the agent session each free-mint operation belongs to
    Confirmations,  \* blocks on top of a receipt before it is believed (12)
    DeadlineMargin, \* a mission this close to its deadline is expired (15 s)
    Duration,       \* deadline of a review, from its anchor (540 s)
    ReviewLife,     \* expiresAt of a review, from its preparation (90 s)
    MaxReviews,     \* bound: reviews ever prepared
    MaxChanges,     \* bound: sales of the Punk, drop and setting changes
    MaxFree,        \* bound: free-mint operations ever reserved
    MaxFaults       \* bound: throws, deaths, freezes and dropped broadcasts

ASSUME PartiesAssumption == Owner \in Accounts /\ Worker \in Accounts /\ Owner # Worker
ASSUME InvocationsAssumption == "NONE" \notin Invocations
ASSUME SessionsAssumption == DOMAIN SessionOf = 1 .. MaxFree
ASSUME WorkerBoundsAssumption ==
    {Confirmations, DeadlineMargin, Duration, ReviewLife, MaxReviews, MaxChanges,
     MaxFree, MaxFaults} \subseteq Nat

VARIABLES
    reviews,        \* broker_selected_paid_reviews
    wallet,         \* what the owner's wallet did with each review's request
    executions,     \* broker_selected_paid_executions
    freeOps,        \* broker_v2_agent_user_operations
    lease,          \* the invocation whose transaction holds the advisory lock
    pc,             \* where each invocation is
    local,          \* what each invocation remembers from its earlier reads
    setting,        \* PUNK_AGENT_DIRECTED_PAID_MINT_ENABLED of the deployment
    removed,        \* history: was that setting ever missing, and since when
    mempool,        \* transactions some node still holds
    mined,          \* transactions in blocks, with their outcome
    nonces,         \* the next nonce of each account
    sent,           \* history: every transaction ever broadcast
    lastTransfer,   \* block of the Punk's last Transfer log
    changes, faults \* counters for the bounds

journals == <<reviews, wallet, executions, freeOps>>
process == <<lease, pc, local>>
network == <<mempool, mined, nonces, sent>>
counters == <<lastTransfer, changes, faults, setting, removed>>
workerVars == <<journals, process, network, counters>>
allVars == <<vars, workerVars>>

Reviews == 1 .. MaxReviews
FreeOps == 1 .. MaxFree
Settings == {"true", "false", "unset"}

NoReview == [status |-> "NONE", action |-> "AUTHORIZE", revision |-> 0,
             generation |-> 0, price |-> 0, fee |-> 0, refund |-> 0,
             deadline |-> 0, expiresAt |-> 0, nonce |-> 0, reported |-> FALSE,
             block |-> 0]
NoExecution == [status |-> "NONE", revision |-> 0, nonce |-> 0]
NoLocal == [review |-> 0, revision |-> 0, status |-> "NONE", nonce |-> 0,
            setting |-> "unset"]

Terminal == {"CONFIRMED", "REVERTED", "CANCELLED", "DECLINED"}
OpenExecution == {"SIGNED", "SUBMITTED"}
OpenFree == {"SIGNED", "SUBMITTED", "RECONCILIATION_REQUIRED"}

\* The transaction a review asks the wallet for, the one a saved execution
\* holds, and the outer transaction of a free-mint operation.
OwnerTx(i) == [from |-> Owner, kind |-> reviews[i].action, id |-> i,
               nonce |-> reviews[i].nonce]
ExecuteTx(i, nonce) == [from |-> Worker, kind |-> "EXECUTE", id |-> i,
                        nonce |-> nonce]
FreeTx(k, nonce) == [from |-> Worker, kind |-> "FREE", id |-> k,
                     nonce |-> nonce]

PendingNonce(account) ==
    CHOOSE n \in nonces[account] .. nonces[account] + Cardinality(mempool) :
        /\ ~ \E tx \in mempool : tx.from = account /\ tx.nonce = n
        /\ \A k \in nonces[account] .. n - 1 :
              \E tx \in mempool : tx.from = account /\ tx.nonce = k

\* verifyPaidTransaction: mined, and enough blocks on top of it.
Receipt(tx) == {m \in mined : m.tx = tx}
Confirmed(tx) == \E m \in Receipt(tx) : now >= m.block + Confirmations
Visible(tx) == tx \in mempool \/ Receipt(tx) # {}

WorkerInit ==
    /\ Init
    /\ punkOwner = Owner
    /\ drop # 0
    /\ reviews = [i \in Reviews |-> NoReview]
    /\ wallet = [i \in Reviews |-> "IDLE"]
    /\ executions = [i \in Reviews |-> NoExecution]
    /\ freeOps = [k \in FreeOps |-> "NONE"]
    /\ lease = "NONE"
    /\ pc = [w \in Invocations |-> "IDLE"]
    /\ local = [w \in Invocations |-> NoLocal]
    /\ setting \in Settings
    /\ removed = IF setting = "unset" THEN "RESOLVED" ELSE "NEVER"
    /\ mempool = {} /\ mined = {} /\ sent = {}
    /\ nonces = [a \in {Owner, Worker} |-> 0]
    /\ lastTransfer = -1
    /\ changes = 0 /\ faults = 0

-----------------------------------------------------------------------------
(* The owner's browser and wallet: directed-paid-coordinator.mjs           *)

\* store.current(): the newest review.
Prepared == {i \in Reviews : reviews[i].status # "NONE"}
MaySucceed(i) == \* every earlier review is over, and the row is new
    /\ reviews[i].status = "NONE"
    /\ \A j \in Prepared : j < i /\ reviews[j].status \in Terminal
    /\ \A j \in 1 .. i - 1 : j \in Prepared

\* preflight of the live state, by action.
Preflight(r) ==
    /\ now < r.expiresAt
    /\ nonces[Owner] = r.nonce /\ PendingNonce(Owner) = r.nonce
    /\ \/ /\ r.action = "AUTHORIZE"
          /\ punkOwner = Owner
          /\ mission.status # "ACTIVE"
          /\ mission.generation = r.generation
          /\ drop = r.price
          /\ r.deadline > now + DeadlineMargin
       \/ /\ r.action = "CANCEL_MISSION"
          /\ mission.status = "ACTIVE"
          /\ mission.generation = r.generation
          /\ mission.authorizingOwner = Owner
       \/ /\ r.action = "WITHDRAW_REFUND"
          /\ refundable[Owner] > 0
          /\ refundable[Owner] = r.refund

\* No new authorization (PAID_WORKER_PAUSED) unless the worker may send.
Prepare(i, action, price, fee) ==
    LET r == [status |-> "PREPARED", action |-> action, revision |-> 0,
              generation |-> mission.generation, price |-> price, fee |-> fee,
              refund |-> refundable[Owner], deadline |-> now + Duration, expiresAt |-> now + ReviewLife,
              nonce |-> PendingNonce(Owner), reported |-> FALSE, block |-> 0]
    IN  /\ MaySucceed(i)
        /\ action = "AUTHORIZE" => setting = "true"
        /\ Preflight(r)
        /\ reviews' = [reviews EXCEPT ![i] = r]
        /\ UNCHANGED <<vars, wallet, executions, freeOps, process, network,
                       counters>>

\* Every update is UPDATE ... WHERE revision = $2: the next revision or nothing.
SetReview(i, status, reported, block) ==
    reviews' = [reviews EXCEPT ![i].status = status, ![i].revision = @ + 1,
                               ![i].reported = reported, ![i].block = block]

Claim(i) ==
    /\ reviews[i].status = "PREPARED"
    /\ Preflight(reviews[i])
    /\ SetReview(i, "WALLET_REQUESTED", FALSE, 0)
    /\ wallet' = [wallet EXCEPT ![i] = "ASKED"]
    /\ UNCHANGED <<vars, executions, freeOps, process, network, counters>>

CancelReview(i) ==
    /\ reviews[i].status = "PREPARED"
    /\ SetReview(i, "CANCELLED", FALSE, 0)
    /\ UNCHANGED <<vars, wallet, executions, freeOps, process, network, counters>>

WalletSends(i) ==
    /\ wallet[i] = "ASKED"
    /\ wallet' = [wallet EXCEPT ![i] = "SENT"]
    /\ mempool' = mempool \cup {OwnerTx(i)}
    /\ sent' = sent \cup {OwnerTx(i)}
    /\ UNCHANGED <<vars, reviews, executions, freeOps, process, mined, nonces,
                   counters>>

WalletRejects(i) ==
    /\ wallet[i] = "ASKED"
    /\ wallet' = [wallet EXCEPT ![i] = "REJECTED"]
    /\ UNCHANGED <<vars, reviews, executions, freeOps, process, network, counters>>

Decline(i) ==
    /\ reviews[i].status = "WALLET_REQUESTED"
    /\ ~ reviews[i].reported
    /\ wallet[i] = "REJECTED"
    /\ nonces[Owner] = reviews[i].nonce
    /\ PendingNonce(Owner) = reviews[i].nonce
    /\ SetReview(i, "DECLINED", FALSE, 0)
    /\ UNCHANGED <<vars, wallet, executions, freeOps, process, network, counters>>

\* recover saves the hash before it looks for the receipt.
ReportHash(i) ==
    /\ reviews[i].status = "WALLET_REQUESTED"
    /\ ~ reviews[i].reported
    /\ wallet[i] = "SENT"
    /\ SetReview(i, "WALLET_REQUESTED", TRUE, 0)
    /\ UNCHANGED <<vars, wallet, executions, freeOps, process, network, counters>>

\* verifyOwnerReceipt: the receipt must show what the review announced.
AsAnnounced(i, m) ==
    m.ok /\ reviews[i].action = "WITHDRAW_REFUND" => m.refund = reviews[i].refund

RecordReceipt(i, m) ==
    SetReview(i, IF m.ok THEN "CONFIRMED" ELSE "REVERTED", TRUE, m.block)

\* The browser finishes a review itself; a worker may be finishing it too.
RecoverInBrowser(i) ==
    /\ reviews[i].status = "WALLET_REQUESTED"
    /\ reviews[i].reported
    /\ Confirmed(OwnerTx(i))
    /\ \E m \in Receipt(OwnerTx(i)) : AsAnnounced(i, m) /\ RecordReceipt(i, m)
    /\ UNCHANGED <<vars, wallet, executions, freeOps, process, network, counters>>

OwnerStep ==
    \E i \in Reviews :
        \/ \E action \in {"AUTHORIZE", "CANCEL_MISSION", "WITHDRAW_REFUND"},
              price \in Prices, fee \in Fees : Prepare(i, action, price, fee)
        \/ Claim(i)
        \/ CancelReview(i)
        \/ WalletSends(i)
        \/ WalletRejects(i)
        \/ Decline(i)
        \/ ReportHash(i)
        \/ RecoverInBrowser(i)

-----------------------------------------------------------------------------
(* One invocation of the worker.  An assertLease is part of the step before *)
(* the effect it protects: what it cannot exclude is that the lease is lost *)
(* between the two.                                                         *)

At(w, label) == pc[w] = label
Go(w, label) == pc' = [pc EXCEPT ![w] = label]
Holds(w) == lease = w

\* The finally of runScheduledPunkAgentWorker, after a return or a throw.
Finish(w) ==
    /\ pc' = [pc EXCEPT ![w] = "IDLE"]
    /\ local' = [local EXCEPT ![w] = NoLocal]
    /\ lease' = IF Holds(w) THEN "NONE" ELSE lease

\* An invocation runs with the environment of the deployment it started from.
Acquire(w) ==
    /\ At(w, "IDLE")
    /\ lease = "NONE"
    /\ lease' = w
    /\ local' = [local EXCEPT ![w].setting = setting]
    /\ Go(w, "begin")
    /\ UNCHANGED <<vars, journals, network, counters>>

\* allowBroadcast: 'false' pauses what is new and keeps the rest going.
Sends(w) == local[w].setting = "true"

FreeReceipt(k) == {m \in mined : m.tx.kind = "FREE" /\ m.tx.id = k}
Awaited == {k \in FreeOps : freeOps[k] \in {"SUBMITTED", "RECONCILIATION_REQUIRED"}}
Reported == {i \in Reviews : reviews[i].status = "WALLET_REQUESTED"
                             /\ reviews[i].reported}

OnlySigned(i) == executions[i].status = "SIGNED"                     \* mutant
Pending(i) == executions[i].status \in OpenExecution

\* No mission for a free mint, or on to the reservation of one.
FreeHalf(w) ==
    \/ Finish(w)
    \/ Holds(w) /\ Go(w, "reserve") /\ UNCHANGED <<lease, local>>

\* From SHARED_SIGNER_RECONCILIATION_PENDING to the end of the recoveries: an
\* open free operation, of any session, ends the invocation, an open execution
\* is reconciled, a reported owner transaction that is confirmed is recorded
\* first.
PaidHalf(w) ==
    LET open == {i \in Reviews : Pending(i)}
        confirmed == {i \in Reported : Confirmed(OwnerTx(i))}
    IN  \/ /\ \E k \in FreeOps : freeOps[k] \in OpenFree
           /\ Finish(w)
        \/ /\ \A k \in FreeOps : freeOps[k] \notin OpenFree
           /\ UNCHANGED lease
           /\ \/ \E i \in open :
                    /\ local' = [local EXCEPT ![w] =
                          [@ EXCEPT !.review = i,
                                    !.revision = executions[i].revision,
                                    !.status = executions[i].status,
                                    !.nonce = executions[i].nonce]]
                    /\ Go(w, "reconcile")
              \/ /\ open = {}
                 /\ \E i \in confirmed :
                       /\ local' = [local EXCEPT ![w].review = i,
                                                 ![w].revision = reviews[i].revision]
                       /\ Go(w, "record")
              \/ /\ open = {} /\ confirmed = {}
                 /\ Go(w, "select")
                 /\ UNCHANGED local

\* Without the setting neither the look at the free operations nor the paid
\* half takes place.
LookAround(w) ==
    IF local[w].setting = "unset" THEN FreeHalf(w) ELSE PaidHalf(w)

\* An owner's run for one mission asks for no other session's operation.
NothingInScope ==
    \/ Awaited = {}
    \/ \E k \in FreeOps : \A j \in Awaited : SessionOf[j] # SessionOf[k]

\* reconcileOne asks for the operation that was submitted first, whichever that
\* is: invocations stamp it with the time they started.
ReconcileFree(w) ==
    /\ At(w, "begin")
    /\ \/ /\ NothingInScope
          /\ LookAround(w)
          /\ UNCHANGED freeOps
       \/ \E k \in Awaited :
             /\ \/ /\ FreeReceipt(k) = {}
                   /\ Finish(w)
                   /\ UNCHANGED freeOps
                \/ \E m \in FreeReceipt(k) :
                      /\ freeOps' = [freeOps EXCEPT ![k] =
                            IF m.ok THEN "CONFIRMED" ELSE "REVERTED"]
                      /\ Go(w, "look")
                      /\ UNCHANGED <<lease, local>>
    /\ UNCHANGED <<vars, reviews, wallet, executions, network, counters>>

Look(w) ==
    /\ At(w, "look")
    /\ LookAround(w)
    /\ UNCHANGED <<vars, journals, network, counters>>

\* coordinator.recover(..., {worker: true}), after its reads.
RecordReported(w) ==
    LET i == local[w].review IN
    /\ At(w, "record")
    /\ \E m \in Receipt(OwnerTx(i)) :
          IF AsAnnounced(i, m) /\ reviews[i].revision = local[w].revision
          THEN RecordReceipt(i, m) /\ Go(w, "select") /\ UNCHANGED <<lease, local>>
          ELSE Finish(w) /\ UNCHANGED reviews
    /\ UNCHANGED <<vars, wallet, executions, freeOps, network, counters>>

\* verifyCurrentMission, and verifyContinuity on top of it: no Transfer log of
\* the Punk from the authorization's block on, away and back included.
StillTheMission(i) ==
    LET r == reviews[i] IN
    /\ punkOwner = Owner
    /\ mission = [authorizingOwner |-> Owner, executor |-> Worker,
                  price |-> r.price, fee |-> r.fee,
                  generation |-> r.generation + 1, deadline |-> r.deadline,
                  status |-> "ACTIVE"]
    /\ now + DeadlineMargin < r.deadline
    /\ drop = r.price

OwnerIsBackAgain(i) == StillTheMission(i)                            \* mutant
Continuous(i) == StillTheMission(i) /\ lastTransfer < reviews[i].block

Selectable(i) ==
    /\ reviews[i].status = "CONFIRMED"
    /\ reviews[i].action = "AUTHORIZE"
    /\ executions[i].status = "NONE"

\* What has changed on chain stops it even while sending is paused; the history
\* is not read then.
PausedFirst(w, i) == Sends(w) /\ ~ Continuous(i)                     \* mutant
MustStop(w, i) == ~ StillTheMission(i) \/ (Sends(w) /\ ~ Continuous(i))

Select(w) ==
    /\ At(w, "select")
    /\ \/ /\ \A i \in Reviews : ~ Selectable(i)
          /\ FreeHalf(w)               \* PAID_NO_MISSION
       \/ \E i \in Reviews :
             /\ Selectable(i) /\ \A j \in 1 .. i - 1 : ~ Selectable(j)
             /\ \/ /\ MustStop(w, i) /\ Holds(w)
                   /\ local' = [local EXCEPT ![w].review = i]
                   /\ Go(w, "stop") /\ UNCHANGED lease
                \/ /\ IF MustStop(w, i) THEN ~ Holds(w) ELSE ~ Sends(w)
                   /\ Finish(w)          \* WORKER_LEASE_LOST, PAID_WORKER_PAUSED
                \/ /\ ~ MustStop(w, i) /\ Sends(w)
                   /\ local' = [local EXCEPT ![w].review = i]
                   /\ Go(w, "sign") /\ UNCHANGED lease
    /\ UNCHANGED <<vars, journals, network, counters>>

\* The primary key: one execution row of a review, ever.
Stop(w) ==
    LET i == local[w].review IN
    /\ At(w, "stop")
    /\ executions' = IF executions[i].status = "NONE"
                     THEN [executions EXCEPT ![i].status = "STOPPED"]
                     ELSE executions
    /\ Finish(w)
    /\ UNCHANGED <<vars, reviews, wallet, freeOps, network, counters>>

LastUsedNonce == nonces[Worker] - 1                                  \* mutant
SignerNonce == nonces[Worker]

\* PAID_SIGNER_BUSY unless nothing of the signer is under way; then the last
\* checks and the signature, which touches nothing shared.
Sign(w) ==
    /\ At(w, "sign")
    /\ IF /\ PendingNonce(Worker) = nonces[Worker]
          /\ Continuous(local[w].review)
          /\ Holds(w)
       THEN /\ local' = [local EXCEPT ![w].nonce = SignerNonce]
            /\ Go(w, "insert") /\ UNCHANGED lease
       ELSE Finish(w)
    /\ UNCHANGED <<vars, journals, network, counters>>

\* The primary key, and one open execution at most (..._signer_hold).
Savable(i) ==
    /\ executions[i].status = "NONE"
    /\ \A j \in Reviews : executions[j].status \notin OpenExecution

Insert(w) ==
    LET i == local[w].review IN
    /\ At(w, "insert")
    /\ IF Savable(i)
       THEN /\ executions' = [executions EXCEPT ![i] =
                   [status |-> "SIGNED", revision |-> 0, nonce |-> local[w].nonce]]
            /\ local' = [local EXCEPT ![w].revision = 0, ![w].status = "SIGNED"]
            /\ Go(w, "reconcile") /\ UNCHANGED lease
       ELSE Finish(w) /\ UNCHANGED executions
    /\ UNCHANGED <<vars, reviews, wallet, freeOps, network, counters>>

\* reconcile(job): the receipt first, and a fresh send only when no node knows
\* the transaction and every check still passes.  updateExecution compares the
\* revision it read.
SignedAfresh(w) ==                                                   \* mutant
    ExecuteTx(local[w].review, PendingNonce(Worker))
SavedTx(w) == ExecuteTx(local[w].review, local[w].nonce)

UpdateExecution(w, status) ==
    LET i == local[w].review IN
    executions' = IF executions[i].revision = local[w].revision
                  THEN [executions EXCEPT ![i].status = status,
                                          ![i].revision = @ + 1]
                  ELSE executions

FoundIsCompleted(m) == "COMPLETED"                                   \* mutant
Outcome(m) == IF m.ok THEN "COMPLETED" ELSE "REVERTED"

ReconcileReceipt(w) ==
    /\ At(w, "reconcile")
    /\ Confirmed(SavedTx(w))
    /\ \E m \in Receipt(SavedTx(w)) : UpdateExecution(w, Outcome(m))
    /\ Finish(w)
    /\ UNCHANGED <<vars, reviews, wallet, freeOps, network, counters>>

MayResend(w) ==
    /\ ~ Visible(SavedTx(w))
    /\ Sends(w)
    /\ Continuous(local[w].review)
    /\ nonces[Worker] <= local[w].nonce
    /\ Holds(w)

ReconcileSend(w) ==
    /\ At(w, "reconcile")
    /\ ~ Confirmed(SavedTx(w))
    /\ IF MayResend(w)
       THEN Go(w, "send") /\ UNCHANGED <<lease, local>>
       ELSE Finish(w)
    /\ UNCHANGED <<vars, journals, network, counters>>

\* A transaction whose nonce is used is refused; one already known is the same.
Broadcast(tx) ==
    /\ mempool' = IF Receipt(tx) = {} /\ tx.nonce >= nonces[tx.from]
                  THEN mempool \cup {tx} ELSE mempool
    /\ sent' = sent \cup {tx}
    /\ UNCHANGED <<mined, nonces>>

Send(w) ==
    /\ At(w, "send")
    /\ Broadcast(SavedTx(w))
    /\ Go(w, "mark")
    /\ UNCHANGED <<vars, journals, lease, local, counters>>

MarkSubmitted(w) ==
    /\ At(w, "mark")
    /\ IF local[w].status = "SIGNED" THEN UpdateExecution(w, "SUBMITTED")
       ELSE UNCHANGED executions
    /\ Finish(w)
    /\ UNCHANGED <<vars, reviews, wallet, freeOps, network, counters>>

-----------------------------------------------------------------------------
(* The free mint of an agent session.  Whether there is a mission and a     *)
(* candidate, and whether the session's owner is still the same, is open:   *)
(* it concerns other Punks.                                                 *)

\* Refused when an operation of the same session is open
\* (OPERATION_ALREADY_OPEN), whatever other sessions of the signer have open,
\* and for reasons of the session, such as SESSION_STATE_MISMATCH.
SessionIsFree(k) ==
    \A j \in FreeOps : SessionOf[j] = SessionOf[k] => freeOps[j] \notin OpenFree

ReserveFree(w) ==
    /\ At(w, "reserve")
    /\ \/ \E k \in FreeOps :
             /\ freeOps[k] = "NONE"
             /\ SessionIsFree(k)
             /\ freeOps' = [freeOps EXCEPT ![k] = "SIGNED"]
             /\ local' = [local EXCEPT ![w].review = k]
             /\ Go(w, "freeCheck") /\ UNCHANGED lease
       \/ Finish(w) /\ UNCHANGED freeOps
    /\ UNCHANGED <<vars, reviews, wallet, executions, network, counters>>

FreeFailed(w) ==
    LET k == local[w].review IN
    /\ freeOps' = [freeOps EXCEPT ![k] =
          IF @ \in {"SIGNED", "SUBMITTED"} THEN "RECONCILIATION_REQUIRED" ELSE @]
    /\ Finish(w)

\* Continuity of the session, then assertLease in the worker and in the relay.
LeaseUnchecked(w) == TRUE                                            \* mutant
MaySendFree(w) == Holds(w)

CheckFree(w) ==
    /\ At(w, "freeCheck")
    /\ \/ MaySendFree(w) /\ Go(w, "freeNonce") /\ UNCHANGED <<freeOps, lease, local>>
       \/ FreeFailed(w)
    /\ UNCHANGED <<vars, reviews, wallet, executions, network, counters>>

\* writer.sendTransaction asks for the next nonce by itself, then signs and sends.
TakeNonce(w) ==
    /\ At(w, "freeNonce")
    /\ local' = [local EXCEPT ![w].nonce = PendingNonce(Worker)]
    /\ Go(w, "freeSend")
    /\ UNCHANGED <<vars, journals, lease, network, counters>>

SendFree(w) ==
    /\ At(w, "freeSend")
    /\ Broadcast(FreeTx(local[w].review, local[w].nonce))
    /\ Go(w, "freeMark")
    /\ UNCHANGED <<vars, journals, lease, local, counters>>

MarkFree(w) ==
    LET k == local[w].review IN
    /\ At(w, "freeMark")
    /\ IF freeOps[k] = "SIGNED"
       THEN freeOps' = [freeOps EXCEPT ![k] = "SUBMITTED"] /\ Finish(w)
       ELSE FreeFailed(w)
    /\ UNCHANGED <<vars, reviews, wallet, executions, network, counters>>

WorkerStep(w) ==
    \/ ReconcileFree(w) \/ Look(w) \/ RecordReported(w) \/ Select(w) \/ Stop(w)
    \/ Sign(w) \/ Insert(w)
    \/ ReconcileReceipt(w) \/ ReconcileSend(w) \/ Send(w) \/ MarkSubmitted(w)
    \/ ReserveFree(w) \/ CheckFree(w) \/ TakeNonce(w) \/ SendFree(w) \/ MarkFree(w)

-----------------------------------------------------------------------------
(* What can go wrong with an invocation, and what the chain does.           *)

Fault == faults < MaxFaults /\ faults' = faults + 1
KeepsOtherCounters == UNCHANGED <<lastTransfer, changes, setting, removed>>

\* An await throws: the finally runs, and markFailed once a free operation is
\* reserved (its catch, or blocked).
Throw(w) ==
    /\ Fault
    /\ pc[w] # "IDLE"
    /\ IF pc[w] \in {"freeCheck", "freeNonce", "freeSend", "freeMark"} THEN FreeFailed(w)
       ELSE Finish(w) /\ UNCHANGED freeOps
    /\ KeepsOtherCounters
    /\ UNCHANGED <<vars, reviews, wallet, executions, network>>

\* The process dies: nothing runs, and its connection holds the lock a while.
Die(w) ==
    /\ Fault
    /\ pc[w] # "IDLE"
    /\ pc' = [pc EXCEPT ![w] = "IDLE"]
    /\ local' = [local EXCEPT ![w] = NoLocal]
    /\ KeepsOtherCounters
    /\ UNCHANGED <<vars, journals, lease, network>>

\* idle_in_transaction_session_timeout ends a dead invocation's transaction...
LeaseTimesOut(w) ==
    /\ Holds(w) /\ pc[w] = "IDLE"
    /\ lease' = "NONE"
    /\ UNCHANGED <<vars, journals, pc, local, network, counters>>

\* ... and a frozen one's, or its connection breaks, while it will run on.
LeaseIsLost(w) ==
    /\ Fault
    /\ Holds(w) /\ pc[w] # "IDLE"
    /\ lease' = "NONE"
    /\ KeepsOtherCounters
    /\ UNCHANGED <<vars, journals, pc, local, network>>

\* A node forgets a transaction it had accepted.
Drop(tx) ==
    /\ Fault
    /\ mempool' = mempool \ {tx}
    /\ KeepsOtherCounters
    /\ UNCHANGED <<vars, journals, process, mined, nonces, sent>>

Change == changes < MaxChanges /\ changes' = changes + 1

\* The release's operator deploys with another setting.  It is missing as the
\* docs allow ("keep the flag present until all saved transactions are
\* resolved") when no execution is open and no invocation that could add one is
\* still running.
Resolved ==
    /\ \A i \in Reviews : ~ Pending(i)
    /\ \A w \in Invocations : ~ Sends(w)

ChangeSetting ==
    /\ Change
    /\ setting' \in Settings \ {setting}
    /\ removed' = IF setting' # "unset" THEN removed
                  ELSE IF Resolved /\ removed # "EARLY" THEN "RESOLVED" ELSE "EARLY"
    /\ UNCHANGED <<vars, journals, process, network, lastTransfer, faults>>

\* The vault call of a transaction.
VaultCall(tx) ==
    \/ /\ tx.kind = "AUTHORIZE"
       /\ LET r == reviews[tx.id] IN
          Authorize(Owner, Worker, r.price, r.fee, r.generation, r.deadline)
    \/ tx.kind = "CANCEL_MISSION" /\ Cancel(Owner, reviews[tx.id].generation)
    \/ tx.kind = "WITHDRAW_REFUND" /\ WithdrawRefund(Owner)
    \/ tx.kind = "EXECUTE" /\ Execute(Worker, reviews[tx.id].generation + 1)
    \/ tx.kind = "FREE" /\ UNCHANGED vars

\* Included in nonce order; it may revert for reasons outside the vault.
Mine(tx) ==
    /\ tx.nonce = nonces[tx.from]
    /\ \E ok \in BOOLEAN :
          /\ IF ok THEN VaultCall(tx) ELSE UNCHANGED vars
          /\ mined' = mined \cup {[tx |-> tx, ok |-> ok, block |-> now,
                refund |-> IF tx.kind = "WITHDRAW_REFUND"
                           THEN refundable[Owner] ELSE 0]}
    /\ mempool' = {t \in mempool : t.from # tx.from \/ t.nonce # tx.nonce}
    /\ nonces' = [nonces EXCEPT ![tx.from] = @ + 1]
    /\ UNCHANGED <<journals, process, counters, sent>>

Sell ==
    /\ Change
    /\ \E to \in Accounts \ {Worker} : TransferPunk(to)
    /\ lastTransfer' = now
    /\ UNCHANGED <<journals, process, network, faults, setting, removed>>

\* The Punk's next owner, or anybody once anybody may, at the vault.
Others ==
    /\ \E a \in Accounts \ {Owner, Worker} :
          \/ \E g \in 1 .. MaxGeneration : Cancel(a, g)
          \/ \E price \in Prices, fee \in Fees, g \in 0 .. MaxGeneration - 1 :
                Authorize(a, Worker, price, fee, g, now + Duration)
    /\ UNCHANGED workerVars

Reprice ==
    /\ Change
    /\ \E price \in (Prices \cup {0}) \ {drop} : ChangeDrop(price)
    /\ UNCHANGED <<journals, process, network, lastTransfer, faults, setting, removed>>

TimePasses == Tick /\ UNCHANGED workerVars

WorkerNext ==
    \/ OwnerStep
    \/ \E w \in Invocations :
          \/ Acquire(w) \/ WorkerStep(w)
          \/ Throw(w) \/ Die(w) \/ LeaseTimesOut(w) \/ LeaseIsLost(w)
    \/ \E tx \in mempool : Mine(tx) \/ Drop(tx)
    \/ ChangeSetting
    \/ Sell
    \/ Others
    \/ Reprice
    \/ TimePasses

WorkerSpec == WorkerInit /\ [][WorkerNext]_allVars

\* Cron starts invocations, an invocation runs on, the database ends a dead
\* one's transaction, and time passes.  Nothing is asked of the owner, of a
\* relay or of the miners.
FairWorker ==
    /\ \A w \in Invocations :
          /\ WF_allVars(Acquire(w))
          /\ WF_allVars(WorkerStep(w))
          /\ WF_allVars(LeaseTimesOut(w))
    /\ WF_allVars(TimePasses)

FairWorkerSpec == WorkerSpec /\ FairWorker

\* An owner who keeps pressing recheck, too.
FairOwnerSpec ==
    FairWorkerSpec /\ \A i \in Reviews : WF_allVars(RecoverInBrowser(i))

-----------------------------------------------------------------------------
(* Properties *)

Tx == [from : {Owner, Worker},
       kind : {"AUTHORIZE", "CANCEL_MISSION", "WITHDRAW_REFUND", "EXECUTE", "FREE"},
       id : Nat, nonce : Nat]
Labels == {"IDLE", "begin", "look", "record", "select", "stop", "sign", "insert",
           "reconcile", "send", "mark", "reserve", "freeCheck", "freeNonce",
           "freeSend", "freeMark"}

WorkerTypeOK ==
    /\ TypeOK
    /\ \A i \in Reviews :
          /\ reviews[i].status \in Terminal \cup {"NONE", "PREPARED", "WALLET_REQUESTED"}
          /\ {reviews[i].revision, reviews[i].generation, reviews[i].nonce,
              reviews[i].refund, reviews[i].block} \subseteq Nat
          /\ executions[i].status \in OpenExecution
                \cup {"NONE", "STOPPED", "COMPLETED", "REVERTED"}
          /\ {executions[i].revision, executions[i].nonce} \subseteq Nat
    /\ wallet \in [Reviews -> {"IDLE", "ASKED", "SENT", "REJECTED"}]
    /\ freeOps \in [FreeOps -> OpenFree \cup {"NONE", "CONFIRMED", "REVERTED"}]
    /\ lease \in Invocations \cup {"NONE"}
    /\ pc \in [Invocations -> Labels]
    /\ \A w \in Invocations :
          /\ {local[w].review, local[w].revision, local[w].nonce} \subseteq Nat
          /\ local[w].setting \in Settings
    /\ setting \in Settings /\ removed \in {"NEVER", "RESOLVED", "EARLY"}
    /\ mempool \subseteq sent
    /\ sent \subseteq Tx
    /\ \A m \in mined : m.tx \in sent /\ m.ok \in BOOLEAN /\ m.block \in Nat
    /\ nonces \in [{Owner, Worker} -> Nat]
    /\ lastTransfer \in Nat \cup {-1}

\* Whatever was broadcast for a review is exactly what its execution row holds:
\* the bytes were saved first, and every retry, by any invocation with or
\* without the lease, sends the same nonce again.
SavedBeforeSent ==
    \A tx \in sent : tx.kind = "EXECUTE" =>
        /\ executions[tx.id].status \notin {"NONE", "STOPPED"}
        /\ executions[tx.id].nonce = tx.nonce

\* The signer shared by paid and free mints never has two transactions with
\* one nonce under way, of which one would silently replace the other:
\* although neither the lease nor either journal alone rules that out.  Once
\* the setting was missing, two free mints of different sessions may share one,
\* a paid mint still shares none; that it was taken away before the saved
\* transactions were resolved is excluded, as the docs ask.
OneTransactionPerNonce ==
    \A t, u \in sent : t.from = u.from /\ t.nonce = u.nonce =>
        \/ t = u
        \/ removed = "RESOLVED" /\ t.kind = "FREE" /\ u.kind = "FREE"
        \/ removed = "EARLY"

\* An authorization is worth nothing once the Punk changed hands, even if it is
\* back with its owner at the same price: from the moment no invocation stands
\* between its last check and the broadcast, nothing is ever sent for it.
Forsaken(i) ==
    /\ reviews[i].status = "CONFIRMED"
    /\ lastTransfer >= reviews[i].block
    /\ \A tx \in sent : ~ (tx.kind = "EXECUTE" /\ tx.id = i)
    /\ \A w \in Invocations : ~ (At(w, "send") /\ local[w].review = i)
ForsakenStays == [][\A i \in Reviews : Forsaken(i) => Forsaken(i)']_allVars

\* Both journals say of the chain what is so: no review or execution is
\* reported finished that was not mined with that outcome, and none that is
\* stopped was or will be sent.
JournalsAreTrue ==
    \A i \in Reviews :
        LET authorized == Receipt(OwnerTx(i))
            executed == Receipt(ExecuteTx(i, executions[i].nonce))
        IN  /\ reviews[i].status = "CONFIRMED" => \E m \in authorized : m.ok
            /\ reviews[i].status = "REVERTED" => \E m \in authorized : ~ m.ok
            /\ executions[i].status = "COMPLETED" => \E m \in executed : m.ok
            /\ executions[i].status = "REVERTED" => \E m \in executed : ~ m.ok
            /\ executions[i].status = "STOPPED" =>
                  \A tx \in sent : ~ (tx.kind = "EXECUTE" /\ tx.id = i)

\* A confirmed authorization never lies in the queue for good: some invocation
\* signs it or, once expired, sold or repriced, stops it; also when sending was
\* paused and whatever invocation threw or died on the way, unless the setting
\* is missing.  (The bounded clock must reach its deadline.)
AuthorizationIsTakenUp ==
    \A i \in Reviews :
        (Selectable(i) /\ reviews[i].deadline <= MaxTime)
        ~> (~ Selectable(i) \/ setting = "unset")

\* A confirmed mint is found and recorded, although the invocation that sent it
\* is long gone, never learned whether it was sent, or lost its lease; paused or
\* not, unless the setting is missing.
MintIsRecorded ==
    \A i \in Reviews :
        (executions[i].status \in OpenExecution
            /\ Confirmed(ExecuteTx(i, executions[i].nonce)))
        ~> (executions[i].status \in {"COMPLETED", "REVERTED"} \/ setting = "unset")

\* "Reconciliation happens before a paid EOA reservation": the paid and the
\* free journal never both hold an unsettled reservation of the signer.
OneReservationOfTheSigner ==
    ~ /\ \E i \in Reviews : executions[i].status \in OpenExecution
      /\ \E k \in FreeOps : freeOps[k] \in OpenFree

\* "The refund balance changed.  Recheck and prepare a fresh refund review": an
\* owner transaction that was reported and is confirmed is recorded, by the
\* worker or by the owner's recheck, which is what frees the journal.
RecheckFreesTheJournal ==
    \A i \in Reviews :
        (i \in Reported /\ Confirmed(OwnerTx(i))) ~> i \notin Reported
=============================================================================
