# Gogh Punks: a TLA+ model of the Art Broker

Gogh Punks is an NFT collection whose tokens own accounts. Software buys art for
those accounts: sometimes because the owner signed this very purchase, sometimes
because the owner once allowed an agent to buy within limits. Everything that
can go wrong has the same root: **authority belongs to whoever holds the Punk at
this moment**, but it is written down earlier, read later, and carried by
databases, worker processes, signatures and contract storage that outlive the
moment. This directory models the parts that carry it, checks them with TLC, and
proves their safety with TLAPS.

Contents: [the system](#1-the-system) · [the modules](#2-the-modules) ·
[what the runs show](#3-the-runs) · [fairness](#4-fairness) ·
[what is proved](#5-what-is-proved) · [disagreements found](#6-disagreements-with-the-text) ·
[not modelled](#7-what-is-not-modelled) · [the plan](#8-the-plan)

To run: `tlc -config MCDirectedPaidMint.cfg MCDirectedPaidMint` and so on for
each `.cfg` (the module is the name of the file up to `Stories`, `Live`, `Life`,
...); `tlapm DirectedPaidWorker_proofs.tla` and so on for the proofs.

---

## 1. The system

### 1.1 Parts, their state, and how they meet

```
   owner's wallet ──signs──► chain ◄──sends── scheduled worker (one signer, one lease)
        │  ▲                   │                   │        │
        │  │ request           │ receipts, logs    │        └─ free mints (sessions) ─► EntryPoint
        ▼  │                   ▼                   ▼                                        │
   browser ─► broker API ─► review journal ◄── execution journal                            ▼
                            (Netlify DB, unique indexes)                  epoch agent account ─► venue
                                                                              │      ▲ callbacks
   Punk owner ─► policy module, agent registry ─► Punk Account V1             wrapper, epoch registry
```

| Part | State it keeps | Operations | Talks to |
| --- | --- | --- | --- |
| **Directed paid-mint vault** (`GoghPunkDirectedPaidMint.sol`) | one mission slot with a generation, `refundable` per wallet, `refundLiability`, its balance | `authorize`, `execute`, `cancel`, `withdrawRefund`, `recoverNative` | the Punk (`ownerOf`), the SeaDrop adapter, the mint, the executor's reimbursement |
| **Review journal** (`broker/src/v4/directed-paid-coordinator.mjs`, `-store.mjs`, migration `20260913050000`) | one row per review with a revision; unique indexes hold the owner, the vault and the transaction hash | prepare, claim, decline, cancel, recover | browser and wallet; the worker reads and finishes the same rows |
| **Paid worker** (`directed-paid-worker.mjs`) | one row per execution: the signed bytes and their nonce | reconcile, stop, sign, save, broadcast, record | vault, two RPC providers, review journal |
| **Scheduled agent worker** (`netlify/functions/broker-punk-agent-worker.mjs`, `punk-agent-worker.mjs`, `-direct-relay.mjs`) | operation rows; the advisory lease of one database transaction | reconcile the open operation, give the paid worker its turn, reserve and send one free mint | shares **one signer** with the paid worker |
| **Owner policy** (`BrokerPolicyModule.sol`, `BrokerPolicyModuleV2.sol`) | config, version, permission generation, stamped permissions, currency limits, mint switches, usage buckets | every `set…`/`configure…`, `consume…` | read and consumed by the account |
| **Punk Account V1** (`GoghPunkAccountV1.sol`) | `acquisitionNonce` | approved and autonomous purchases, cancel | policy, agent and adapter registries, venues |
| **Agent registry** (`ArtAgentRegistry.sol`) | authorizations per account with a generation, global approvals | authorize, revoke one, revoke all, guardian's approval and pause | read by the account |
| **Adapter registry** (`ArtAdapterRegistry.sol`) | registrations, active flags, pause | register, activate, pause | read by the account |
| **Epoch agent account** (`GoghEpochAgentAccount.sol` on `GoghPunkAgentAccount.sol`) | one session with its limits, its generation, the intent nonce, the epochs the session was bound to | configure and revoke, `validateUserOp`, `executeSessionAcquisition` | EntryPoint, wrapper, epoch registry, skill progression, venue |
| **Priority sessions** (migrations `20260831233000`, `20260902013000`, `netlify/functions/broker-autonomy-v3-priority-worker.mjs`, `_shared/supabase-operational-store.mjs`) | sessions, attempts with a lease token, the prepaid gas account and its charges | deposit, choose, begin, reserve, note, record, retire | one scheduled worker a minute, a lane leased by time, the chain |
| **Training reviews** (`broker/src/v4/skill-forge`) | one row per review with a revision, one hold per Punk, job leases | prepare, claim, cancel, unknown, recover; receipt, observe, settle, release | the owner's wallet, one provider for receipts and two for finality |
| **Chain indexer** (`broker/src/indexer/reorg-indexer.mjs`, `netlify/functions/broker/indexer-repository.mjs`) | a checkpoint per stream, logs, and what is derived from them: owners, accounts, acquisitions, opportunities | read, rewind, insert a batch with its checkpoint | a chain that may drop blocks; one job at a time |
| **Marketplace bids** (`GoghPunkMarketplaceBid.sol`) | one WETH balance and one allowance, a row per bid, a nonce per funder | `createBid`, `cancelBid`, `settleBid`, `authorizeOrder`, `validateOrder` | Seaport, WETH, the Punk, whatever the sold token calls |
| **Session wrapper, epoch registry** (`GoghPunkSessionWrapper.sol`, `GoghOwnershipEpochRegistry.sol`) | who holds a receipt; epoch per Punk; security generation per Punk | wrap, unwrap, transfers, pause | read by the epoch account |

The parts without a module (swarm gas vault, marketplace journal, discovery, web
site, …) are in section 7.

### 1.2 What is hard here

* **Sales between any two steps.** A Punk can be sold, bought back, burned or
  wrapped between authorize and execute, check and broadcast, validation and
  execution, or from within a mint that calls its receiver. "Is the owner the
  same?" is not the question; "was it the same all along?" is.
* **Two journals, one signer.** Paid and free mints take nonces of one wallet. A
  lease can be lost between its check and the write it protects; an invocation
  can die between saving and sending, or not learn whether a relay took its
  bytes.
* **One storage slot under successive owners.** Permissions, authorizations and
  sessions stay in storage when their author is gone. Four counters (version,
  permission generation, agent generation, nonce) and two epochs decide what
  still counts.
* **Lazy buckets.** Days and weeks of a budget roll over only when something is
  bought.
* **Leases that only time ends.** A priority lane, a claimed attempt and a
  reconciler's job are leased for seconds; their holder may wait longer for a
  provider and go on as if nothing had happened.
* **A chain that changes its mind.** A receipt may vanish and come back in another
  block; a row that was released must not need it any more, and an index must
  forget what it read, in every stream, without losing what it will not read again.
* **One pool behind many promises.** One balance and one allowance back every bid,
  and the code that changes them runs in the middle of Seaport's fill.
* **Validated is not executed.** The EntryPoint validates a whole bundle before
  executing any of it.

### 1.3 What makes each part correct

| Part | Correct means | Where |
| --- | --- | --- |
| Vault | it can pay what it owes; a wallet's money buys only what that wallet's Punk gets, or returns to it; nobody's money is stuck for ever | `Solvent`, `FunderMadeWhole`, `LiabilityIsTheSumOfRefunds`, `Implements`, `FunderGetsOut` |
| Journals and worker | saved before sent; one transaction per nonce; rows say what the chain says; an authorization that lapsed stays lapsed; work gets done | `SavedBeforeSent`, `OneTransactionPerNonce`, `JournalsAreTrue`, `ForsakenStays`, `AuthorizationIsTakenUp`, `MintIsRecorded` |
| Policy, account, registries | the present holder's own words, unexpired and not taken back, decide; no intent twice; budgets by the calendar | `NoInheritedPermission`, `SignaturesDieWithTheirTerms`, `AgentsAreLet`, `EachIntentOnce`, `BudgetsHold`, `AutomatedSpendsNothing` |
| Epoch account, wrapper | a session is one grant that ends for good; callbacks cannot change what was checked; a receipt is backed | `Implements` (of `OwnerGrant`), `CallbacksChangeNothing`, `ReceiptsAreBacked` |
| Priority sessions | an attempt sends once and is not forgotten; charges are receipts; what is over sends nothing | `NothingSentIsForgotten`, `LedgerIsReceipts`, `CountIsMints`, `OverMeansQuiet` |
| Training reviews | a hold ends only when the chain cannot change its mind, and then it ends; settled rows are true | `ReleasedIsOver`, `SettledIsTrue`, `HoldsAreReleased` |
| Indexer | what is kept is the chain's and complete up to the checkpoint; what is derived follows; it catches up | `RowsAreTheChains`, `ProjectionsFollow`, `IndexCatchesUp` |
| Marketplace bids | the pool and the allowance cover every open bid; a bid is paid or refunded, once | `BidsAreBacked`, `BidsEndOnce` |

`PROJECT.json` lists the hazards one by one, at their lines, with the properties
that answer to each.

---

## 2. The modules

```
FunderEscrow  ◄─implements─  DirectedPaidMint  ◄─EXTENDS─  DirectedPaidWorker
                              ▲           ▲                    ▲         ▲
        MCDirectedPaidMint ───┘           │                    │    MCDirectedPaidWorker
                              DirectedPaidWorker_proofs           (4 configurations)
                              (the vault's theorems, then the worker's)

OwnerGrant    ◄─implements─  EpochAgentAccount ◄─ EpochAgentAccount_proofs, MCEpochAgentAccount

PunkAcquisition  ◄─ PunkAcquisition_proofs,  MCPunkAcquisition (2 configurations)
PrioritySessions ◄─ PrioritySessions_proofs, MCPrioritySessions
ChainIndexer     ◄─ ChainIndexer_proofs,     MCChainIndexer
MarketplaceBid   ◄─ MarketplaceBid_proofs,   MCMarketplaceBid
TrainingJournal  ◄─ TrainingJournal_proofs,  MCTrainingJournal

SumTheorems: sums over finite sets, used by the proofs of the vault, the policy,
the priority sessions and the marketplace bids.
```

Conventions: one action per external call, with the code's checks as conjuncts
in the code's order; a revert is no step. Names are the source's where TLA+
allows. An amount of money, a day, a block are small numbers. Histories
(`paidIn`, `spent`, `sent`, `bought`, `consent`, `retracted`, …) are variables no
guard reads: they record what the properties speak of. Definitions marked
`\* mutant` are wrong variants of the definition they stand next to; each
property is known to fail when one of them takes its place, so no property holds
by the shape of the model.

Where one definition is used by TLC and by a proof it is written so that both can
read it: the order in which sessions wait is a relation and not a sorted sequence,
sums are `SumFunctionOnSet`, and sets that a sum runs over are assumed finite
(`AccountsAssumption`, `WalletsAssumption`, `PriorityAssumption`). No assumption
bounds a constant from above.

### 2.1 `DirectedPaidMint` — the vault

| Model | Code |
| --- | --- |
| `mission`, `refundable`, `refundLiability`, `balance` | the contract's storage and balance |
| `Authorize` | the factory's `authorize` and the vault's: the caller owns the Punk, the expected generation is the stored one, the deadline is ahead and not too far, no mission is active, price plus fee is what was sent |
| `Execute` | the executor, the generation, the deadline, **the funder still owns the Punk**, the adapter still builds this mint at this price; price spent, fee reimbursed |
| `Cancel` | its funder at any time; anybody once the Punk is no longer the funder's (sold, or burned: `ownerOf` is tried, not required) or the deadline has passed; the whole escrow is credited to the funder |
| `WithdrawRefund`, `RecoverNative` | all of one's refund; all of the balance above the debts and the open escrow, to the owner |
| `TransferPunk`, `ChangeDrop`, `ForceEther`, `Tick` | environment: sales and burns, price changes and removals of the drop, ether from elsewhere, time |

`FunderEscrow` is what a funder is promised, with no Punk, deadline or generation
in it: one open escrow, spent for its funder or owed to that same funder; debts
are paid whole to whom they are owed. `DirectedPaidMint` implements it under
`holder ↦` the funder of the active mission, `owed ↦ refundable`.

### 2.2 `DirectedPaidWorker` — journals, wallet, invocations, signer

EXTENDS the vault: its transactions call the vault's actions when they are mined.

* **Owner.** `Prepare`, `Claim`, `CancelReview`, `Decline`, `ReportHash`,
  `RecoverInBrowser` are the coordinator's handlers with their revision checks
  and unique holds; `WalletSends` and `WalletRejects` are the wallet, whose
  answer may never reach the journal.
* **Invocation.** `Acquire`, then `ReconcileFree` (the free row first) and
  `Look`, `RecordReported` (a review the browser left), `Select`, `Stop`,
  `Sign`, `Insert`, `ReconcileReceipt`, `ReconcileSend`, `Send`, `MarkSubmitted`
  (`PaidHalf`), `ReserveFree`, `CheckFree`, `TakeNonce`, `SendFree`, `MarkFree`
  (`FreeHalf`). A step ends before each write and each broadcast; consecutive reads are
  one step; what was read lives in `local[w]` and may be stale when it is used.
  An `assertHeld` of the lease sits in the step before the effect it protects,
  as in the code.
* **Sessions.** A free operation belongs to an agent session (`SessionOf`).
  `ReserveFree` is refused by an open operation of the **same** session only
  (`SessionIsFree`), so after a lost lease operations of several sessions can be
  open on the one signer. A run that an owner starts reconciles nothing of
  other sessions (`NothingInScope`).
* **Setting.** `PUNK_AGENT_DIRECTED_PAID_MINT_ENABLED` is true, false or missing
  (`setting`); an invocation keeps the value it started with. With `false`
  nothing new is sent and the rest goes on. When it is missing, `LookAround` goes
  straight to the free half: neither the open free operations nor the paid rows
  are looked at. `removed` is the history of that.
* **Faults.** `Throw`, `Die`, `LeaseIsLost` (a freeze longer than the
  transaction's timeout), `Drop` (a node forgets a transaction), bounded together
  by `MaxFaults`; `LeaseTimesOut` ends a dead invocation's lease.
* **Chain.** `Mine` in nonce order, with the outcome the vault gives; `Sell`,
  `Reprice`, `ChangeSetting` (another deployment), `Others` (the next owner or,
  after the deadline, anyone cancels), `TimePasses`.

Abstracted: blocks and seconds are one clock; no reorganisation of mined blocks
(12 confirmations stand between a receipt and a record); the two providers agree
or the read throws; preflight's 60 s and the worker's 15 s margin are one
`DeadlineMargin`; balances, gas and the 20 000-block window are enough; the owner
does not replace journalled transactions or call the vault outside the journal.
An authorize and a cancel in the same block are not told apart by the transfer
history.

### 2.3 `PunkAcquisition` — account, policy and registries

One account and the three contracts it asks. `PolicyAllows` is
`_validateAcquisition` with the V2 overrides, `Consume` its bookkeeping,
`Envelope` the account's checks of owner, version and nonce. Every call that
writes the policy is an action (`ConfigurePolicy`, `SetAccountPaused`,
`SetPermission`, `SetCurrencyPolicy`, `SetMintControls`,
`ConfigureAutomatedSeaDrop`, `DisableAutomatedSeaDrop`), as are the registry's
(`AuthorizeAgent`, `RevokeAgent`, `RevokeAllAgents`), the guardian's
(`SetFeatureFlags`, `SetGloballyPaused`, `ConfigureGlobalAgent`,
`SetAdapterActive`), the account's (`Sign`, `ExecuteApprovedAcquisition`,
`ExecuteAutonomousAcquisition`, `CancelPendingAcquisitions`) and `Sell`.

The point is the stamps. A permission is written with the generation of that
moment (`Stamp`) and counts only while its generation is current (`IsCurrent`);
a new configurator starts a new generation (`NextGeneration`); every word of the
owner moves the version that signatures carry. The field `by` of a permission, a
currency policy and the mint switches is a history: who said it, which the code
does not store and no guard reads. `NoInheritedPermission` asks of everything a
purchase rests on (`Grounds`: route, maximum of a payment, collection unless
`UnknownAllowed`; the currency with its limits; the switch of its kind of mint)
that the present holder said it.

Abstracted: an adapter stands for its venue and selector (three permissions
remain); the caps on a single purchase are one number; a venue's maximum is none
or no obstacle; reserve and balance suffice; a failing purchase is rolled back
and so is no step; the owner's own call is his signature used at once; a start in
the future is an approval given then; registration and code hashes are fixed.
What the docs accept is in the model too: when a Punk returns to the holder who
configured it and nobody configured in between, his permissions are current again
(`docs/GOGH_PUNK_ACCOUNTS.md:65`, `docs/BROKER_POLICY.md:45`).

### 2.4 `EpochAgentAccount` — sessions through the EntryPoint

`chain` is one record: account, wrapper, epoch registry and collection.
`settled` is what a failing mint restores; outside a mint it equals `chain`.
`ValidateUserOp` collects a bundle in `validated`; `Begin` (checks, daily roll,
nonce) opens a mint, and from then on **every other call of the system may
happen as a callback** until `Finish` (`AuthorityUnchanged`, counters) or
`RollBack`; `Refuse` is an operation of the bundle whose execution reverts at the
checks. Owners configure, revoke, wrap, unwrap, transfer receipt or Punk; the
guardian pauses; the skill that gives Free Mint comes and goes freely; the key's
holder may sign any intent at any time.

`OwnerGrant` is the promise: one grant at a time, limits, each intent once, and an
end by `Move` or `TakeAway` that nothing undoes. The refinement maps the grant to
the session while `InForce(settled)` (wrapped, epoch and security generation equal
those the session was bound to), its number to the session's generation and
`bought` to the executed intents. The pause flag itself need not be consulted: a
pause moves the security generation, so the resume brings nothing back.

Left out: the owner's own `execute`, deposits, gas and reserve limits, constants
of adapter and venue, `validAfter` (a session configured then), the intent's own
expiry (it only restrains its signer), the refusal of token-bound receipt holders.
`Wrap` and `Unwrap` are one step each, so the order of burn and callback within
`unwrap` is not what `ReceiptsAreBacked` tests.

### 2.5 `PrioritySessions` — prepaid sessions and their ledger

`Start` is a confirmed deposit: it credits the Punk's gas account and replaces
the Punk's active session. A worker goes through `NextSession`, `Begin` (claim a
new attempt or resume one whose lease ran out), `Reconcile` (a submission whose
receipt is there), `Run`, `Reserve`, `Send`, `Note` (the hash), `Await` and
`Record` (charge, count, end the session); one database function is one step,
because its row locks make it so. `Die` and `CallFails` may strike between or at
any of them; `CallFails` is also what the database does to one of two functions
that lock session and attempt in opposite order. The lane's lease and the
attempt's are clocks: a holder that is late does not know it. `Retire` is the
migration that ended V1, `Cutoff` the moment its code stops executing.

Abstracted: which mint is tried on which state of the chain (a run may end
without one), prices and the fee estimate, heartbeats and diagnostics. Left out
are two functions of the migrations: `gogh_broker_credit_punk_agent_gas`
(`20260831220000_add_punk_agent_gas_credits.sql:43`), which credited a deposit
before there were sessions, and the older overload of
`gogh_broker_record_punk_priority_attempt`
(`20260902013000_repair_priority_attempt_reliability.sql:445`), the rolling
compatibility function of the deployed workers. Submitted attempts of a session
that has ended are settled by the migrations' reconciler, which the code calls
for the next attempt of the same Punk only: **that every submission is settled in
the end is not guaranteed** (`docs/V1_SHUTDOWN_RUNBOOK.md:14` and `:48` leave it
to an operator) and no property claims it. Nor does one claim progress of the
line: `nextSession` takes the first session, and one whose attempt is stuck after
its reservation stays first, since `last_attempt_at` does not move. A reservation
followed by the cutoff or by a failed send stays for ever.

### 2.6 `TrainingJournal` — a hold on a Punk until the chain has decided

`rows` are the reviews in the order of their requests. `Prepare` takes the Punk's
hold if nobody has it, `Check` and `Claim` are the coordinator's reads and its
compare-and-swap (two steps), `MarkUnknown` and `Recover` what a browser reports.
The reconciler's slots go through `Lease`, `Get`, `Receipt`, `Observe`, `Settle`,
`Record` and `Finish`; between them rows, owners and chain may change, and
`Unchanged` is the revision check of every write. `chain` is the list of mined
transactions; `Reorganise` drops any that are not final, and dropped ones may be
mined again; `Mine` with the reviewed nonce, at the reviewed or at a higher fee
(`Repriced`: another hash); `OtherTransaction` uses the nonce for something else,
or sells the Punk. `Settlement` is the decision table of
`training-settlement.mjs`.

Abstracted: skills, slots, credits; block times are the clock; the worker's time
budget and `next_attempt_at`; the invalidation of reviews by other code (a review
that fails). Preparation's reads and its insert are one step. A weakness the model
shows, accepted in `docs/V2_REVIEW_CANDIDATE_2026-09-11.md:62`: once the anchor
block of a review is reorganised away, the receipt of its bound transaction is
refused for ever (`training-receipt-verifier.mjs:129`) and the hold never ends;
`HoldsAreReleased` names exactly this exception.

### 2.7 `ChainIndexer` — checkpoints under reorganisations

A job runs its streams in turn: `Read` compares the checkpoint with the chain,
`Rewind` deletes above the rewind block in every stream and forgets all
checkpoints, `Insert` saves a batch with its checkpoint and derives owners,
accounts, acquisitions and opportunities in one database transaction, `Fail` ends
the job between transactions. The chain grows and drops blocks. Scores and
evidence of a collection, its snapshots and cancelled proposals are left out, as
are log indexes; one lock per deployment is one job at a time. A deployment keeps
the one sequence of streams it starts with: that two schedules with different
streams take turns on one database (`docs/NFT_DISCOVERY.md:188`) is not modelled,
nor are the account bindings the Scout derives from RPC reads (`:175`).

`Recoverable` names what the code cannot repair, so that the properties hold
under it and under nothing weaker: (a) only the hash of the last checkpoint is
compared, so a replaced block below `Window` blocks of it, or one between a
batch and the next, or between the logs and the headers of one batch, is not
noticed; (b) after a rewind or a crash there are kept rows below the start with
no checkpoint above them, so a second reorganisation before the streams have
caught up is not noticed either; (c) the rewind starts at the start block of the
stream that noticed, while others may start lower (`reorg-indexer.mjs:45`,
`docs/NFT_DISCOVERY.md:169`; the model's streams start together). Two more weak
spots are in the properties: after a rewind the owner is NULL and the activation,
read again, may fill in an owner older than transfers that were kept
(`indexer-repository.mjs:261`, `:399`; the history `cleared` excludes this state),
and an acquisition may stay listed though the binding of its account was cleared
(`ProjectionsFollow` asks for the row, not for the binding).

### 2.8 `MarketplaceBid` — one pool behind many bids

The same pattern as in 2.4: `chain` is the storage of the escrow, Seaport, WETH
and the collections, `settled` what a failing fill restores, `fill` the orders of
the fill in progress. `BeginFill` is `authorizeOrder` for each order and Seaport's
marking of them as filled; then payments and deliveries in any order, with
**every other call in between** (a new bid, a cancel, a reconciliation, a sale of
the Punk, the recipient moving the item on); then `ValidateOrder` for each.
`CreateBid` and `CancelBid` approve Seaport for the whole balance. An order is
named by funder and nonce, which is what makes its hash unique.

The model relies on less than the contracts have: a fill never asks
`isValidSignature` (Seaport may have cached it), and `cancel` is not refused
inside a fill (Seaport's own guard would). Left out: code hashes, the Seaport
counter (the escrow never increments it), criteria and token ids, and that a Punk
that leaves and returns revives its owner's bids, a known limitation
(`docs/v2-marketplace/weth-release-readiness.md`). Payment and delivery are
Seaport's; they are modelled from what the escrow's callbacks expect of them.

---

## 3. The runs

| Run (configuration) | Question | Properties |
| --- | --- | --- |
| `vault_books` (`MCDirectedPaidMint`) | Do the books balance in every order of calls and sales? | `TypeOK Solvent FunderMadeWhole LiabilityIsTheSumOfRefunds Implements FunderGetsOut` |
| `worker_stories` (`MCDirectedPaidWorkerStories`) | Can overlapping invocations, with a paid mint and free mints of two sessions, misuse the signer, also while the setting changes; does an authorization survive a sale and return; do the rows stay true through three reviews? | `WorkerTypeOK SavedBeforeSent OneTransactionPerNonce JournalsAreTrue ForsakenStays` |
| `work_gets_done` (`…Live`) | Is every authorization taken up and every mint recorded? | `AuthorizationIsTakenUp MintIsRecorded` |
| `two_reservations` (`…Stale`), violation | Is the signer reserved once? | `OneReservationOfTheSigner` |
| `refund_changed` (`…Refund`), violation | Does recheck free the journal? | `RecheckFreesTheJournal` |
| `policy_words` (`MCPunkAcquisitionLife`) | Whose words does a purchase rest on, when does a signature die, do lazy buckets keep to the calendar? | `AcquisitionTypeOK AgentsAreLet NoInheritedPermission AutomatedSpendsNothing BudgetsHold EachIntentOnce SignaturesDieWithTheirTerms` |
| `deny_erased` (`…Denied`), violation | Does a denial win? | `DenialStands` |
| `epoch_sessions` (`MCEpochAgentAccount`) | Is a session one grant, with callbacks and bundles? | `TypeOK ReceiptsAreBacked CallbacksChangeNothing Implements` |
| `priority_ledger` (`MCPrioritySessions`) | Can late, dead and overlapping workers send twice, forget or overcharge? | `PriorityTypeOK NothingSentIsForgotten LedgerIsReceipts CountIsMints OverMeansQuiet` |
| `training_holds` (`MCTrainingJournal`) | Is a Punk's hold released when, and only when, the chain has decided? | `TrainingTypeOK SettledIsTrue ReleasedIsOver HoldsAreReleased` |
| `index_follows_chain` (`MCChainIndexer`) | Does the index follow a chain that is reorganised? | `IndexerTypeOK RowsAreTheChains ProjectionsFollow IndexCatchesUp` |
| `bids_are_backed` (`MCMarketplaceBid`) | Is one pool enough for all bids, and does each end once? | `BidsAreBacked BidsEndOnce` |

### 3.1 Bounds, and why they are enough

* **`vault_books`**: two wallets (each can be funder, buyer, executor), two
  prices and fees 0 and 1 (so equal and unequal sums occur), two missions (the
  second reuses the slot while the first's refund is outstanding), one unit of
  stray ether, a deadline that passes. A third wallet would only repeat a role.
* Three runs tell **stories**: their initial states are those of a system that
  has part of the bounds behind it (a review already withdrawn, an authorization
  already mined, a free mint already reverted), so that one run asks several
  questions without the product of all bounds. Each such state is one the
  program reaches.
* **`worker_stories`**: two invocations are what one lost lease yields. Three of
  its stories begin when the owner's authorization is mined but not confirmed: a
  first invocation may still find no mission and reserve a free mint, and one paid
  mint and the free mints of two sessions compete for one nonce. *Shared signer*:
  two faults allow "die, and then lose the lease". *The setting comes*: it was
  missing and may come, with one fault left, so invocations with and without it
  overlap. *The setting goes*: it may go, early or as the docs ask, without a
  fault. *Away and back*: two changes are a sale and the return, or a sale and a
  price change. *Three reviews*: authorize, cancel, withdraw is the longest chain
  of reviews that can still have one owner and vault on hold; then the next
  authorization reuses the slot (`MaxGeneration` 2). Invocations are
  interchangeable (symmetry; the run has no liveness).
* **`policy_words`**. *Tenure*: two sales are away and back; the account starts
  set up in full, three words are left, enough to sell, reconfigure, switch the
  route and restore it. *Renewing*: the buyer has renewed all but one permission,
  or the currencies, or the switches, so each stale stamp is alone on the way of
  a purchase (dropping the generation's check from any one of them breaks
  `NoInheritedPermission`). *Budget*: prices 0 and 1, days of one tick in weeks of
  two, so that a week turns with and without the day's bucket having been used,
  and the mandate changes between wide and narrow. *Signature*: intents for this
  nonce and the next, the one case where cancelling the first must not revive the
  second; the owner changes his mind twice or the guardian acts once.
* **`epoch_sessions`**: two wallets, three transfers (away, back and once more),
  three sessions, two pauses, bundles of two from two EntryPoint keys (two
  operations with one intent nonce, or one more than the day allows), days of two
  ticks. Deadlock is not checked since all its counters are bounded and run out;
  so in the runs of the other modules except the vault's and the worker's.
* **`priority_ledger`**: two deposits of one Punk are a session and its
  replacement; two workers what one expired lane yields; four attempts and two
  transactions let a session be tried again after a failure; one death or failed
  call at any point; leases of one tick in a clock of two, with the cutoff at its
  end, so that every lease may end under its holder. Costs equal the first
  deposit and exceed the second.
* **`training_holds`**: two reviews are the seller's and the buyer's, or a first
  and the next; one reorganisation, one fault, one transaction besides the
  reviewed one. *One review* follows a review from its request to its end,
  *overlap* starts with two workers at a submitted review, *next review* with one
  that has expired, prepared or submitted.
* **`index_follows_chain`**: five transactions in up to four blocks, a batch of one
  block, two per run, a window of one and one confirmation: checkpoints differ,
  a rewind can reach the first block, and a run needs more than one batch. One
  reorganisation and one death; safety was also checked with two
  reorganisations (no error), too slow to keep.
* **`bids_are_backed`**: two owners in turn, two bids each, prices one and two (so
  that an approval for the wrong bid is too small), one gift of WETH, bids that
  expire while the clock runs, fills of one or two bids (only the present
  holder's may be filled).

Every action and every disjunct of the next-state relations fires in some run.

### 3.2 What they show beyond unit tests

* Neither the lease nor either journal alone gives one nonce to one transaction:
  an invocation that lost its lease can still insert its row. What saves the
  signer is all of it together: reconcile the other journal first, save before
  send, the unique indexes, and the lease check right before a free mint goes out
  (without that one check `OneTransactionPerNonce` fails). Nothing else keeps the
  free mints of two sessions apart. `worker_stories` covers it with every
  interleaving and two faults.
* `ForsakenStays` speaks of the history, not of the present owner: dropping the
  check of the transfer log from `Continuous` breaks it with a Punk that left and
  returned between confirmation and selection.
* `CallbacksChangeNothing` needs the comparison of both epochs **and** the session
  generation after the venue's call; leaving out the session alone lets a callback
  put a fresh session in place of the one that was charged.
* In `PrioritySessions` the row is what protects the money, not the leases: a
  worker that overslept both lane and attempt is stopped by the fresh token at
  `Reserve`, and a resumed attempt must not be one that was
  reserved (`Resumable`), or the first transaction would be forgotten.
* A release in `TrainingJournal` has to wait for the **finalized** deadline: with
  the provider's latest block in its place (`DeadlineReached`) a transaction of the
  seller may still be applied while the buyer holds the Punk.
* A rewind must forget the checkpoints of every stream, its own is not enough, and
  an owner written by the later of two events of one block depends on the
  comparison being `>=`.
* A cancel from inside a fill is harmless even without Seaport's own guard: the
  order is already marked filled, so the escrow settles it instead of refunding
  it, and `validateOrder`, which asks for the status again, then undoes the fill.

---

## 4. Fairness

`FairWorkerSpec` asks for weak fairness of `Acquire` (the scheduled function is
started again and again, and the advisory lock is free when nobody holds it), of
each invocation's `WorkerStep` (a process that neither throws nor dies runs on),
of `LeaseTimesOut` (the database ends the transaction of a dead client) and of
`TimePasses`. Nothing is asked of the owner, of a relay or of a miner.
`FairOwnerSpec` adds an owner who keeps pressing *recheck* (`RecoverInBrowser`);
only the run `refund_changed` uses it, where it makes the counterexample
stronger: even then the journal stays closed. `FunderSpec` asks of each funder
that he keeps cancelling when he may and withdrawing what he is owed; the vault
and its environment owe nothing.

`AuthorizationIsTakenUp` is about authorizations whose deadline lies within the
bounded clock. It and `MintIsRecorded` end where the setting is missing, since
the code then does not look at the paid rows at all. The liveness run has no free
mints: a free operation whose process dies between reservation and marking stays
`SIGNED` and is never looked at again (a hazard in `PROJECT.json`), and nothing
behind it would progress. Likewise no liveness is claimed for a transaction that
was saved and never mined: the docs hand it to an operator.

`TrainingJournal` asks for weak fairness of each worker's next step, of the end of
a lease, of finality and of the clock: the reconciler is scheduled every minute
and a chain's finality goes on. Nothing is asked of owners, wallets or miners: a
hold ends without any of them. `ChainIndexer` asks that the job is scheduled for
ever (`Work`) and that the chain goes on (`Grow`); failures are bounded by
`MaxFaults` and reorganisations by `MaxReorgs`, as an index cannot catch up with a
chain that never settles. `PrioritySessions` and `MarketplaceBid` state no
liveness; for the former see 2.5, in the latter a funder's way out is one call
that `BidsAreBacked` shows to be covered.

---

## 5. What is proved

All theorems hold for **every** value of the constants that meets the module's
named assumptions: any number of wallets, missions, purchases, sales, sessions,
any prices and times. The bounds of section 3 are no assumption of theirs.

| Theorem | Statement | Run that shows it |
| --- | --- | --- |
| `DirectedPaidWorker_proofs!TypeCorrect` | `Spec => []TypeOK`; no subtraction goes below zero | `vault_books` |
| `…!VaultSolvent` | the balance covers all debts and the open escrow | `vault_books` |
| `…!MoneyStaysItsFunders` | paid in = spent + paid out + still held, per wallet | `vault_books` |
| `…!VaultImplementsEscrow` | the vault implements `FunderEscrow` | `vault_books` |
| `PunkAcquisition_proofs!IntentsRunOnce` | nonces of purchases rise strictly | `policy_words` |
| `…!SignaturesDie` | only signatures not taken back are executed | `policy_words` |
| `…!AgentsHaveConsent` | an agent buys only under the present holder's live consent | `policy_words` |
| `…!PermissionsAreTheHolders` | mandate, permissions, currency limits and mint switch are the present holder's | `policy_words` |
| `…!AutomationIsFree` | the automated route alone buys only free mints | `policy_words` |
| `EpochAgentAccount_proofs!TypeCorrect` | types, and the daily count within its limit | `epoch_sessions` |
| `…!ReceiptsBacked` | every receipt is backed by its Punk | `epoch_sessions` |
| `…!CallbacksAreHarmless` | a mint that succeeds leaves its authority as it was checked | `epoch_sessions` |
| `…!SessionIsAGrant` | the account implements `OwnerGrant` | `epoch_sessions` |
| `MarketplaceBid_proofs!BidsEndOnceAlways` | a bid is paid against delivery or refunded, once | `bids_are_backed` |
| `…!OnePoolBacksAll` | the balance covers the allowance, and the allowance the sum of all open bids' prices, inside a fill too | `bids_are_backed` |
| `DirectedPaidWorker_proofs!LiabilityAddsUp` | the liability is the sum of what each wallet may withdraw | `vault_books` |
| `…!WorkerTypes` | types of rows, invocations and network | `worker_stories` |
| `…!SavedFirst` | every broadcast of the worker was saved first, byte for byte | `worker_stories` |
| `…!NoncesAreUsedOnce` | the shared signer never has two transactions of one nonce out, for any number of sessions; but two free mints once the setting was missing, and all if it was removed too early | `worker_stories` |
| `…!JournalsTellTheTruth` | what either journal says of the chain is so | `worker_stories` |
| `…!ForsakenForGood` | an authorization whose Punk changed hands is never sent | `worker_stories` |
| `…!VaultIsSafeInService` | the vault is solvent and each funder made whole, driven by journals, worker and faults | – |
| `…!ServiceImplementsEscrow` | vault, journals, invocations, signer and faults together implement `FunderEscrow` | – |
| `PunkAcquisition_proofs!BudgetsAreKept` | per day and week no currency is spent, nor a purchase made, beyond the limits in force | `policy_words` |
| `…!AcquisitionTypes` | types of account, policy and registries | `policy_words` |
| `PrioritySessions_proofs!PriorityTypes` | types; one active session per Punk, one open attempt per session | `priority_ledger` |
| `…!NothingIsForgotten` | at most one transaction per attempt, and its row leads back to it | `priority_ledger` |
| `…!OverIsQuiet` | what has been sent for a session that is over does not grow | `priority_ledger` |
| `…!MintsAreCounted` | a session counts its mints, and never more than it asked for | `priority_ledger` |
| `…!ChargesAreReceipts` | each charge is of a receipt, once, and within the Punk's deposits | `priority_ledger` |
| `ChainIndexer_proofs!IndexTypes` | types of checkpoints, rows and what is derived | `index_follows_chain` |
| `…!RowsAreTrue` | rows are the chain's, and complete up to the checkpoint | `index_follows_chain` |
| `…!ProjectionsAreTrue` | owners, accounts, acquisitions and opportunities follow the rows | `index_follows_chain` |
| `TrainingJournal_proofs!TrainingTypes` | types; one review holds the Punk; hash, observation and lease fit the status | `training_holds` |
| `…!SettledStaysTrue` | a settled row says what the finalized chain holds, for good | `training_holds` |
| `…!ReleasedForGood` | after a release neither the row nor what it says of the chain changes | `training_holds` |

**Arguments.**

*Vault.* None of the invariants is inductive alone: a cancel credits the
mission's funder, so the funder of an active mission must be a wallet
(`ActiveHasFunder`), a withdrawal keeps solvency only if no refund exceeds the
liability, and the per-wallet account closes only against the mission's escrow.
`Inv` is their conjunction with the types. The refinement needs of it that an
active mission has a funder and an escrow above zero.

*Sums.* A sum over a finite set is a fold over any order of it; `SumTheorems` says
of it what the books need: one term taken out, one changed, two functions
compared, a part against the whole. The fold unfolds to a recursive function on
the subsets of a finite set. Where one would use induction on the size, the
lemmas take a *least* subset for which the claim fails, which a finite set has,
and take one element out of it: an argument the provers can follow without an
induction principle. `LiabilityAddsUp` is then one term of the sum per call.

*Account.* `IInv` has three independent groups. (1) `OneAuthor`: a stamp of the
current generation was written by the policy's configurator, because a new
configurator moves the generation first; with the account's check that the
configurator is the holder, and with `SettingsHaveOneAuthor`, the same of the
currencies and the mint switches, this gives `PermissionsAreTheHolders`. (2)
`LiveIsLet`: an authorization that is active in the current generation is a
consent nobody took back. (3) `TakenBackIsDead`: an intent taken back is behind
the version or the nonce, both of which only rise; with `BelowTheNonce` it gives
the two theorems on signatures. `AutomationIsFree` has an invariant of its own,
`RouteAlone`: while the route is all its owner set up, every stamp outside it is
older than the generation that opened it.

*Budgets.* Buckets roll over lazily, so a bucket alone says nothing of the
calendar. `Books` says that the bucket of a day (a week) holds exactly what
the history paid in that day (week), and that no purchase is later than the
day its bucket names. `BucketsAreBooks` then gives what the code compares: the
bucket if its day is today's and zero otherwise is the sum over today's
purchases. So a week that turns while the day's bucket was not touched, and a
configuration changed in the middle of a day, are covered for every length of
day and week.

*Epoch account.* `Sound(c)` holds of the storage before **and inside** a mint: the
numbers a session was bound to never exceed the counters, and where the epoch
still agrees the receipt's holder is the session's author. Inside a mint,
`Follows(chain)` relates the current storage to `settled`: equal epochs mean
that nothing moved, equal generations that the session is the one that was
checked. That is the reason three comparisons at the end of a mint suffice,
whatever the venue did in between.

*Bids.* `BidsEndOnce` is inductive only together with two facts: the orders of the
fill in progress are marked filled (so a cancel of one of them finds it filled),
and the storage a failure would restore satisfies the same with no fill in
progress. `Sound(c, filling)` is that statement of either storage; calls from
inside and outside a fill preserve it by one lemma (`BecomesSound`).

*One pool.* The bid whose fill is in progress is the hard case: it is filled for
Seaport, active for the escrow, and its price leaves the pool between the two. A
bid is *due* while it is active and, when in the fill, not yet paid; the pool and
the allowance cover the sum of what is due, in the storage of the moment and in
the one a failure restores. A payment takes one term out of the sum, a new bid
puts one in, and an approval is for the whole balance.

*Priority sessions.* The token is what protects the money: the worker that is
about to send (`pc = "send"`) is the one its row is reserved for, and nothing was
sent of that attempt (`WorkerHolds`). Who holds the lane appears nowhere in the
invariant. The books add that an open attempt is always of a session that wants
one more mint (`CountOK`) and that the gas spent is the sum of a Punk's charges
(`LedgerOK`).

*Journals and signer.* `WInv` contains the vault's `Inv`, the shapes, and four
groups.

1. *The owner's reviews* (`OwnerOK`) come one after the other with growing nonces:
   a review is prepared only when all before it are terminal, and the
   wallet's next nonce is above what it sent.
2. *The rows* (`ExecutionsOK`, `FreeOK`): one open execution (but any number of
   open free operations), one transaction per operation, and what is in `sent` is
   in a row, an execution with the row's nonce.
3. *What an invocation remembers* (`Remembers`): its copy may be old, but a
   compare-and-swap that finds the revision it read finds the row it read.
4. *Why the lease is enough although it can be lost* (`LeasesOK`). A reservation
   that lost its lease stays in its table, so "only one is open" is false (it is
   what the run `two_reservations` shows). A reservation is **loose** once its
   transaction is out or about to be. Only a holder of the lease lets one loose:
   a paid one after it found no free one, a free one when no paid one is loose.
   So one kind is loose at a time (`OneKindLoose`), and as long as the setting was
   never missing one free operation is, of whatever session (`OneFreeLoose`): the
   paid half comes first and ends the invocation at any open free operation. With
   the setting missing, the second fails: an invocation then does not look, and
   what is left is `FreshFree`, that a free mint shares its nonce with free mints
   at most. And the first rests on the operator: a setting removed while
   a paid transaction is saved lets a free mint out beside it. `FlagOK` says what
   remains true of the setting in each of the three cases (`Never`, `Kept`, and
   neither). Two invocations may be about to send the same row, but then they
   send the same bytes; and a transaction sent for the first time has a nonce
   nobody used, because the next nonce is the first one that is neither mined nor
   in the pool (a pigeonhole argument on the finite pool).

`ForsakenForGood` needs of the invariant only that a confirmed review stays as it
is: whoever newly comes to stand at a broadcast has just found no transfer since
the confirmation (`MayResend`), and the last transfer never gets earlier. Since
every step of the composition that touches the vault is one of the vault's,
`VaultIsSafeInService` comes with it. `ServiceStep` says what a step of the
composition can be to the vault: nothing, one of its calls with the arguments of
a row, or a sale, a price or the clock. With it each step of the whole service is
a step of `FunderEscrow` or a stutter, so the funders' view of their escrow does
not depend on anything the worker does. (No run asks this of the composition; TLC
was given it once, on the instance of `worker_stories`, and found no error.)

*Indexer.* While some checkpoint names a dropped block a rewind has to come.
`Doomed(k)` is what it will forget: every block not below the window of a
replaced checkpoint. The invariant says of each row that it is the chain's, or it
is doomed together with what the chain has of its transaction; that nothing is
missing up to where a stream has read (`ReadTo`, which is ahead of the checkpoint
in a run that has rewound) unless it is doomed; and the same of each projection.
When nothing is doomed, this is `RowsAreTheChains`. `OldForks` is why a new
block is never taken for the one it replaces. The owner is the delicate one: with
`TransfersCounted` (no transfer that was read is later than the owner's block)
the comparison `>=` is enough, whichever stream comes first.

*Training.* Everything rests on two facts about the chain. An owner's nonces count
up along it (`Counted`), so no two places have the same (`OneUse`), and a nonce that
the finalized count has passed is found at a final place: the first up to which
the count exceeds it (`NonceFound`, by a least element). And block times never go
down (`InOrder`), so the final places are a prefix, which a reorganisation keeps
(`FinalStays`). Hence two ways to be sure: a final place has the nonce, and decides
for good whether the review was applied (`Decided`); or the deadline is final and
nobody may apply the review any more (`TooLate`). `Proven` says which one a
settlement stands on. It is of the worker's memory while it is about to record
(`WorkersOK`), and of the row from then on (`SettledOK`); it survives every step
(`ProvenStays`), so it does not matter how long a worker waits between reading
and writing. The revision check has its usual part: a row at the revision that
was read is the row that was read. A hold released without a settlement was
never shown to a wallet, so no entry of it can exist.

**Method.** TLC checks each of the inductive invariants (`IInv`,
`SettingsHaveOneAuthor`, `WInv`, `Books`, `CountOK`, `LedgerOK`, `PoolInv`,
`TInv`) without an error as an invariant of the run of its module; they are not
kept as runs, since the theorems say the same for all values.

**Not proved, model-checked only.** Liveness under fairness and ENABLED are beyond
the prover: `FunderGetsOut`, `AuthorizationIsTakenUp`, `MintIsRecorded`,
`HoldsAreReleased`, `IndexCatchesUp`. Every other property of a passing run has a
theorem. What the three runs that expect a violation show is by its nature an example and no
theorem. No module declares a RECURSIVE operator.

---

## 6. Disagreements with the text

| Run | Text | Code |
| --- | --- | --- |
| `two_reservations` | "Reconciliation happens before a paid EOA reservation" (`broker-punk-agent-worker.mjs:371`) | the lease is checked before the insert (`:393`), so a lease lost in between lets a free operation be saved after the next invocation looked for one. It is never sent; but it becomes `RECONCILIATION_REQUIRED`, is reported pending for ever, and the paid transaction behind it is not reconciled either. `OneTransactionPerNonce` still holds. |
| `refund_changed` | "The refund balance changed. Recheck and prepare a fresh refund review." (`broker-v2-directed-paid-mint.mjs:17`) | when a third party's cancel raises the refund before a claimed withdrawal is mined, the amount differs from the review, `verifyOwnerReceipt` throws at every recheck (`directed-paid-coordinator.mjs:100`), and the review's hold refuses a fresh one. The money did arrive; the journal is what stays closed. |
| `deny_erased` | "Explicit collection denials still win" (`BrokerPolicyModuleV2.sol:9`, `docs/AUTOMATED_SEADROP_V2.md:52`) | configuring the automated route again (another daily cap, say) starts a permission generation that makes the denial stale (`:71`); the agent may then mint from the collection. Within one generation denials do win. |

Observed, with no run: while the setting is missing, two free mints of different
sessions can take one nonce of the signer after a lost lease (`worker_stories`
has such states, `OneTransactionPerNonce` excepts them); and with the setting
removed while a paid transaction is saved, a free mint can take its nonce, if its
sender lost the lease (TLC finds it in *the setting goes* once a fault is left),
which is why the docs ask to keep it
(`docs/directed-paid-mint-and-rarity-eye-test.md:44`). `effectiveMode` (a view)
reports SCOUT while the guardian's flags are off, although approved intents still
run; a free operation left `SIGNED` by a dead process is not looked at by
`reconcileOne`.

---

## 7. What is not modelled

Of the modelled parts, section 2 names what is abstracted. Whole parts:

| Part | Why, or when |
| --- | --- |
| Swarm gas vault (`SwarmGasVault.sol`) | plan: a batch of payments with hooks |
| Purchase guard (`GoghPunkMarketplaceGuard.sol`) | a view that compares before and after; no state |
| Skill progression, burns, paid training | `TrainingJournal` has the guards and the nonce of `applyTrainingReview`, `EpochAgentAccount` one bit that changes freely; credits, slots and burns are left out |
| Automation V3: ordinary batch, heartbeats, job queue | the lane and the submission are in `PrioritySessions`; the rest moves no money of an owner |
| Marketplace review journal | plan; same discipline as `DirectedPaidWorker` |
| Account factories, token-bound registries | no state of their own |
| Venue adapters | views; the models keep their answer: this call can be built or not |
| Discovery, analysis, scoring, recommendation | pure functions and upserts; contracts do not trust their results |
| Public paid flow, paid history | read models and a second entry to the same journal |
| Chat, MCP tools | no authority |
| API sessions, sign-in | edge checks; behind them each call is modelled as its wallet's |
| Discord services | apart from the broker |
| Web site | the wallet and browser part is in `DirectedPaidWorker` |
| Operator scripts, canary contract | one-off tooling |

---

## 8. The plan

Modules in order of what can go wrong and for whom. Each entry: modules · abstract
specification · runs · theorems.

1. **Vault** (done): `DirectedPaidMint` · `FunderEscrow` · `vault_books` · five theorems.
2. **Journals and shared signer** (done): `DirectedPaidWorker` · four runs · seven
   theorems. Left: one-block reorganisations of a receipt.
3. **Account and policy** (done): `PunkAcquisition` · two runs · seven theorems.
4. **Epoch account** (done): `EpochAgentAccount` · `OwnerGrant` · `epoch_sessions` ·
   four theorems including the refinement.
5. **Priority sessions** (done): `PrioritySessions` · `priority_ledger` · five theorems.
6. **Training reviews** (done): `TrainingJournal` · `training_holds` · three theorems.
7. **Indexer** (done): `ChainIndexer` · `index_follows_chain` · three theorems.
   Left: two schedules on one database.
8. **Marketplace bids** (done): `MarketplaceBid` · `bids_are_backed` · two theorems.
9. **Swarm gas vault**: batch, nonce, deadline, hooks that sell Punks of the batch.
10. **Marketplace review journal** on the pattern of 2, and the skill contracts:
    credits, reviewed burns and their nonces.

Parameters stay CONSTANTS with named assumptions, one action per operation,
invariants as conjunctions of named parts and no RECURSIVE operator, so that each
of these can be proved about after it has been checked.
