---------------------------- MODULE TrainingJournal ----------------------------
(***************************************************************************)
(* Training reviews of a Punk: what broker/src/v4/skill-forge keeps about  *)
(* a reviewed call of applyTrainingReview, from the moment it is prepared  *)
(* until the chain has decided it for good.  One row holds the Punk: while *)
(* it does, neither its owner nor a buyer can prepare another review.      *)
(*                                                                         *)
(* Owners prepare, claim, cancel and report over HTTP (the coordinator);   *)
(* a row that was claimed is then the scheduled worker's, which reads      *)
(* receipts from one provider and finality from two and writes what it saw *)
(* when the row is still at the revision it read.  Workers overlap once a  *)
(* lease is over.  The chain may drop every block that is not final.       *)
(*                                                                         *)
(* The owner's wallet sends what it was asked to, whenever it likes, with  *)
(* the reviewed nonce; it may raise the fee, which makes another hash.     *)
(* Skills, slots and credits are left out: a review applies, or fails for  *)
(* a reason that is not modelled.                                          *)
(***************************************************************************)
EXTENDS Integers, Sequences, FiniteSets, Functions

CONSTANTS
    MaxReviews,     \* bound: the requests of owners, in the order they are saved
    MaxWorkers,     \* bound: invocations of the reconciler alive at once
    Life,           \* from a review to its deadline (45 s)
    MaxTime, MaxReorgs, MaxOthers, MaxFaults    \* bounds

ASSUME TrainingAssumption ==
    /\ {MaxReviews, MaxWorkers, Life, MaxTime, MaxReorgs, MaxOthers, MaxFaults} \subseteq Nat
    /\ MaxTime >= 1

VARIABLES
    rows,           \* broker_forge_training_intents
    jobs,           \* whose lease a review's job is under, while it lasts
    checked,        \* reviews whose claim has passed its reads
    asked,          \* reviews whose transaction a wallet was given
    chain,          \* the transactions of the canonical blocks, oldest first
    final,          \* the finalized block's timestamp
    now,
    fork,           \* how many times the chain was reorganised
    orphaned,       \* reviews whose anchor block was dropped
    pc, local,      \* where each worker is and what it remembers
    faults

journal == <<rows, jobs>>
chainVars == <<chain, final, now, fork>>
workerVars == <<pc, local>>
vars == <<journal, checked, asked, chainVars, orphaned, workerVars, faults>>

None == "none"
Reviews == 1 .. MaxReviews
Workers == 1 .. MaxWorkers
Settled == {"SETTLED_SUCCESS", "SETTLED_REVERT", "NONCE_CONSUMED", "REVIEW_EXPIRED"}
Released == {"CANCELLED", "EXPIRED"} \cup Settled
AfterPrompt == {"SUBMITTED", "REORGED", "INCLUDED_SUCCESS", "INCLUDED_REVERT"}  \* mutant
Included == {"INCLUDED_SUCCESS", "INCLUDED_REVERT"}
Claimed == {"WALLET_REQUESTED", "SUBMISSION_UNKNOWN", "SUBMITTED", "REORGED"} \cup Included

Other(o, n) == [by |-> o, nonce |-> n, review |-> 0, exact |-> FALSE]
NoEntry == [tx |-> Other(None, 0), time |-> 0, ok |-> FALSE, fork |-> 0]
NoRow == [status |-> "NONE", revision |-> 0, owner |-> None, nonce |-> 0, guard |-> 0,
          anchor |-> 0, hash |-> FALSE, observation |-> NoEntry]
NoLocal == [review |-> 0, row |-> NoRow, sees |-> None, observation |-> NoEntry]

Deadline(r) == rows[r].anchor + Life
Expired(r) == Deadline(r) <= now
Holds(r) == rows[r].status \notin {"NONE"} \cup Released

(***************************************************************************)
(* The chain.                                                              *)
(***************************************************************************)
Exact(r) == [by |-> rows[r].owner, nonce |-> rows[r].nonce, review |-> r, exact |-> TRUE]
Repriced(r) == [Exact(r) EXCEPT !.exact = FALSE]
Sale == Other("market", 0)

Entries == Range(chain)
Final == {i \in DOMAIN chain : chain[i].time <= final}
OwnerNow == IF \E e \in Entries : e.tx = Sale THEN "buyer" ELSE "seller"
NonceIn(places, o) == Cardinality({i \in places : chain[i].tx.by = o})
NextNonce(o) == NonceIn(DOMAIN chain, o)
Applied == {e.tx.review : e \in {f \in Entries : f.ok}}
ReviewNonce == Cardinality(Applied)
EntryOf(tx) == CHOOSE e \in Entries : e.tx = tx
Mined(tx) == \E e \in Entries : e.tx = tx

Init ==
    /\ rows = [r \in Reviews |-> NoRow]
    /\ jobs = [r \in Reviews |-> 0]
    /\ checked = {} /\ asked = {} /\ chain = <<>>
    /\ final = 0 /\ now = 1 /\ fork = 0 /\ orphaned = {}
    /\ pc = [w \in Workers |-> "idle"]
    /\ local = [w \in Workers |-> NoLocal]
    /\ faults = 0

\* A block's time is the clock's; one that replaces a dropped block may be older,
\* but not than its parent, and it is not yet final.
Times ==
    {t \in final + 1 .. now : /\ t < now => fork > 0
                              /\ \A i \in DOMAIN chain : t >= chain[i].time}
Add(tx, t, ok) == chain' = Append(chain, [tx |-> tx, time |-> t, ok |-> ok, fork |-> fork])

\* What applyTrainingReview requires: the owner, the deadline, the state reviewed.
Applies(tx, t) ==
    LET r == tx.review IN
    /\ r # 0 /\ OwnerNow = tx.by /\ t <= Deadline(r) /\ rows[r].guard = ReviewNonce

\* A transaction the wallet was given may be sent, known to a node or forgotten by
\* it at any time: it can be mined as long as its nonce is the next.
Mine ==
    \E r \in asked, t \in Times : \E tx \in {Exact(r), Repriced(r)} :
        /\ tx.nonce = NextNonce(tx.by)
        /\ \E ok \in {FALSE, Applies(tx, t)} : Add(tx, t, ok)
        /\ UNCHANGED <<journal, checked, asked, final, now, fork, orphaned, workerVars, faults>>

\* An owner uses a reviewed nonce for something else; the Punk is sold.
OtherTransaction ==
    /\ Cardinality({e \in Entries : e.tx.review = 0}) < MaxOthers
    /\ \E tx \in {Sale} \cup {Other(rows[r].owner, rows[r].nonce) : r \in asked}, t \in Times :
          /\ tx # Sale => tx.nonce = NextNonce(tx.by)
          /\ ~ Mined(tx) /\ Add(tx, t, FALSE)
    /\ UNCHANGED <<journal, checked, asked, final, now, fork, orphaned, workerVars, faults>>

Reorganise ==
    /\ fork < MaxReorgs
    /\ \E cut \in final .. now - 1, n \in 0 .. Len(chain) :
          /\ \A i \in DOMAIN chain : i <= n <=> chain[i].time <= cut
          /\ chain' = SubSeq(chain, 1, n)
          /\ orphaned' = orphaned \cup {r \in Reviews : rows[r].status # "NONE"
                                                        /\ rows[r].anchor > cut}
    /\ fork' = fork + 1
    /\ UNCHANGED <<journal, checked, asked, final, now, workerVars, faults>>

Finalize ==
    /\ final < now
    /\ final' = final + 1
    /\ UNCHANGED <<journal, checked, asked, chain, now, fork, orphaned, workerVars, faults>>

Tick ==
    /\ now < MaxTime
    /\ now' = now + 1
    /\ UNCHANGED <<journal, checked, asked, chain, final, fork, orphaned, workerVars, faults>>

(***************************************************************************)
(* The coordinator: requests of the Punk's current owner.                  *)
(***************************************************************************)
Set(r, status) ==
    rows' = [rows EXCEPT ![r].status = status, ![r].revision = @ + 1]

\* Lapsed reviews that never reached a wallet make room; any other holds the Punk.
AnyExpired(r) == Expired(r)                                                  \* mutant
Lapsed(r) == rows[r].status = "PREPARED" /\ Expired(r)
Prepare(r) ==
    /\ rows[r].status = "NONE" /\ \A q \in 1 .. r - 1 : rows[q].status # "NONE"
    /\ now + Life < MaxTime                    \* bound: its deadline can become final
    /\ \A q \in Reviews : Holds(q) => Lapsed(q)
    /\ rows' = [q \in Reviews |->
          IF q = r THEN [status |-> "PREPARED", revision |-> 0, owner |-> OwnerNow,
                         nonce |-> NextNonce(OwnerNow), guard |-> ReviewNonce,
                         anchor |-> now, hash |-> FALSE, observation |-> NoEntry]
          ELSE IF Lapsed(q) THEN [rows[q] EXCEPT !.status = "EXPIRED", !.revision = @ + 1]
          ELSE rows[q]]
    /\ UNCHANGED <<jobs, checked, asked, chainVars, orphaned, workerVars, faults>>

CancelPrepared(r) ==
    /\ rows[r].status = "PREPARED" /\ OwnerNow = rows[r].owner
    /\ Set(r, IF Expired(r) THEN "EXPIRED" ELSE "CANCELLED")
    /\ UNCHANGED <<jobs, checked, asked, chainVars, orphaned, workerVars, faults>>

Continuous(r) == OwnerNow = rows[r].owner /\ r \notin orphaned

\* Everything claim and preflight read before the row is locked.
Check(r) ==
    /\ rows[r].status = "PREPARED" /\ r \notin checked
    /\ Continuous(r) /\ ~ Expired(r)
    /\ rows[r].guard = ReviewNonce
    /\ rows[r].nonce = NextNonce(rows[r].owner)
    /\ checked' = checked \cup {r}
    /\ UNCHANGED <<journal, asked, chainVars, orphaned, workerVars, faults>>

\* The wallet is asked when the claim is saved, the owner still the same, and
\* the answer arrives.
Claim(r) ==
    /\ r \in checked /\ checked' = checked \ {r}
    /\ IF rows[r].status # "PREPARED" THEN UNCHANGED <<rows, asked>>
       ELSE IF Expired(r) THEN Set(r, "EXPIRED") /\ UNCHANGED asked
       ELSE /\ Set(r, "WALLET_REQUESTED")
            /\ asked' \in {asked} \cup (IF Continuous(r) THEN {asked \cup {r}} ELSE {})
    /\ UNCHANGED <<jobs, chainVars, orphaned, workerVars, faults>>

\* readDurableTrainingReceipt refuses a receipt whose review's anchor block is no
\* longer canonical.
Unverifiable(r) == Mined(Exact(r)) /\ r \in orphaned

MarkUnknown(r) ==
    /\ rows[r].status = "WALLET_REQUESTED" /\ OwnerNow = rows[r].owner
    /\ Set(r, "SUBMISSION_UNKNOWN")
    /\ UNCHANGED <<jobs, checked, asked, chainVars, orphaned, workerVars, faults>>

\* A hash is bound when the provider shows the reviewed bytes behind it.
Recover(r) ==
    /\ rows[r].status \in {"WALLET_REQUESTED", "SUBMISSION_UNKNOWN"}
    /\ OwnerNow = rows[r].owner
    /\ r \in asked /\ ~ Unverifiable(r)
    /\ rows' = [rows EXCEPT ![r].status = "SUBMITTED", ![r].hash = TRUE, ![r].revision = @ + 1]
    /\ UNCHANGED <<jobs, checked, asked, chainVars, orphaned, workerVars, faults>>

OwnerStep(r) ==
    \/ Prepare(r) \/ CancelPrepared(r) \/ Check(r) \/ Claim(r)
    \/ MarkUnknown(r) \/ Recover(r)

(***************************************************************************)
(* The reconciler.                                                         *)
(***************************************************************************)
At(w, label) == pc[w] = label
Go(w, label) == pc' = [pc EXCEPT ![w] = label]
Job(w) == local[w].review
Read(w) == local[w].row
\* Where a step of the worker ends; its error, if any, only changes the schedule.
Finishing(w) == Go(w, "finish") /\ UNCHANGED local

Lease(w) ==
    /\ At(w, "idle")
    /\ \E r \in Reviews :
          /\ rows[r].status \in Claimed /\ jobs[r] = 0
          /\ jobs' = [jobs EXCEPT ![r] = w]
          /\ local' = [local EXCEPT ![w].review = r]
    /\ Go(w, "get")
    /\ UNCHANGED <<rows, checked, asked, chainVars, orphaned, faults>>

Get(w) ==
    /\ At(w, "get")
    /\ IF ~ Holds(Job(w)) THEN Finishing(w)         \* ALREADY_RESOLVED
       ELSE /\ local' = [local EXCEPT ![w].row = rows[Job(w)]]
            /\ Go(w, IF rows[Job(w)].hash THEN "receipt" ELSE "settle")
    /\ UNCHANGED <<journal, checked, asked, chainVars, orphaned, faults>>

(***************************************************************************)
(* readDurableTrainingReceipt: what one provider shows of a bound hash.    *)
(* A transaction that is not mined may be known or not.  An inclusion seen *)
(* before is first looked for where it was.  The receipt counts only while *)
(* the review's anchor is canonical; else the read throws, here and at the *)
(* settlement.                                                             *)
(***************************************************************************)
Outcome(e, success, revert) == IF e.ok THEN success ELSE revert
Moved(w) == Read(w).status \in Included /\ Read(w).observation \notin Entries

Receipt(w) ==
    LET tx == Exact(Job(w))
        See(status, e) ==
            IF status = Read(w).status THEN Go(w, "settle") /\ UNCHANGED local
            ELSE /\ local' = [local EXCEPT ![w].sees = status, ![w].observation = e]
                 /\ Go(w, "observe")
    IN  /\ At(w, "receipt")
        /\ \E known \in {TRUE, Mined(tx)} :
           IF known /\ Moved(w) THEN See("REORGED", NoEntry)
           ELSE IF Mined(tx) /\ ~ Unverifiable(Job(w))
           THEN See(Outcome(EntryOf(tx), "INCLUDED_SUCCESS", "INCLUDED_REVERT"), EntryOf(tx))
           ELSE Go(w, "settle") /\ UNCHANGED local
        /\ UNCHANGED <<journal, checked, asked, chainVars, orphaned, faults>>

\* The row as recordVerifiedObservation leaves it, when it is as it was read.
Observed(w) == [rows[Job(w)] EXCEPT !.status = local[w].sees, !.revision = @ + 1,
                                    !.observation = local[w].observation]
AnyRevision(w) == TRUE                                                       \* mutant
Unchanged(w) == rows[Job(w)].revision = Read(w).revision
AlreadyObserved(w) == /\ rows[Job(w)].status = local[w].sees
                      /\ rows[Job(w)].observation = local[w].observation

Observe(w) ==
    /\ At(w, "observe")
    /\ \/ /\ Unchanged(w)
          /\ rows' = [rows EXCEPT ![Job(w)] = Observed(w)]
          /\ local' = [local EXCEPT ![w].row = Observed(w)]
          /\ Go(w, "settle")
       \/ /\ AlreadyObserved(w)
          /\ local' = [local EXCEPT ![w].row = rows[Job(w)]]
          /\ Go(w, "settle") /\ UNCHANGED rows
       \/ /\ ~ Unchanged(w)
          /\ Finishing(w) /\ UNCHANGED rows
    /\ UNCHANGED <<jobs, checked, asked, chainVars, orphaned, faults>>

(***************************************************************************)
(* readTrainingSettlement: what two providers agree is final.              *)
(***************************************************************************)
NonceUsed(r) == NonceIn(Final, rows[r].owner) > rows[r].nonce
DeadlineReached(r) == Expired(r)                                             \* mutant
DeadlineFinal(r) == final > Deadline(r)

Wait == "WAIT"
Settlement(r, bound) ==
    IF ~ NonceUsed(r) THEN IF DeadlineFinal(r) THEN "REVIEW_EXPIRED" ELSE Wait
    ELSE IF bound /\ Mined(Exact(r))
    THEN IF EntryOf(Exact(r)).time > final THEN Wait
         ELSE Outcome(EntryOf(Exact(r)), "SETTLED_SUCCESS", "SETTLED_REVERT")
    ELSE IF DeadlineFinal(r) THEN "NONCE_CONSUMED" ELSE Wait

Settle(w) ==
    LET r == Job(w)
        proof == Settlement(r, Read(w).hash)
        throws == NonceUsed(r) /\ Read(w).hash /\ Unverifiable(r)
    IN  /\ At(w, "settle")
        /\ IF throws \/ proof = Wait THEN Finishing(w)
           ELSE /\ local' = [local EXCEPT ![w].sees = proof]
                /\ Go(w, "record")
        /\ UNCHANGED <<journal, checked, asked, chainVars, orphaned, faults>>

MayEndWithoutReceipt == Claimed
MaySettle(from, to) ==
    CASE to = "SETTLED_SUCCESS" -> from \in {"SUBMITTED", "REORGED", "INCLUDED_SUCCESS"}
      [] to = "SETTLED_REVERT"  -> from \in {"SUBMITTED", "REORGED", "INCLUDED_REVERT"}
      [] OTHER                  -> from \in MayEndWithoutReceipt

\* The job goes with the row it was for.
Record(w) ==
    LET r == Job(w) IN
    /\ At(w, "record")
    /\ IF /\ rows[r].hash = Read(w).hash /\ Unchanged(w)
          /\ MaySettle(rows[r].status, local[w].sees)
       THEN Set(r, local[w].sees) /\ jobs' = [jobs EXCEPT ![r] = 0]
       ELSE UNCHANGED journal
    /\ Finishing(w)
    /\ UNCHANGED <<checked, asked, chainVars, orphaned, faults>>

Finish(w) ==
    /\ At(w, "finish")
    /\ jobs' = IF jobs[Job(w)] = w THEN [jobs EXCEPT ![Job(w)] = 0] ELSE jobs
    /\ Go(w, "idle") /\ local' = [local EXCEPT ![w] = NoLocal]
    /\ UNCHANGED <<rows, checked, asked, chainVars, orphaned, faults>>

\* A lease is over after 120 s, wherever its worker is by then.
LeaseEnds(r) ==
    /\ jobs[r] # 0
    /\ jobs' = [jobs EXCEPT ![r] = 0]
    /\ UNCHANGED <<rows, checked, asked, chainVars, orphaned, workerVars, faults>>

WorkerStep(w) ==
    \/ Lease(w) \/ Get(w) \/ Receipt(w) \/ Observe(w) \/ Settle(w) \/ Record(w) \/ Finish(w)

Fault == faults < MaxFaults /\ faults' = faults + 1

\* A read fails: of the receipt, which the settlement does without, or another;
\* or a commit whose answer is lost.
CallFails(w) ==
    /\ Fault
    /\ \/ At(w, "receipt") /\ Go(w, "settle") /\ UNCHANGED <<journal, local>>
       \/ pc[w] \in {"get", "observe", "settle", "record"} /\ Finishing(w) /\ UNCHANGED journal
       \/ /\ At(w, "observe") /\ Unchanged(w)
          /\ rows' = [rows EXCEPT ![Job(w)] = Observed(w)]
          /\ Finishing(w) /\ UNCHANGED jobs
    /\ UNCHANGED <<checked, asked, chainVars, orphaned>>

Die(w) ==
    /\ Fault
    /\ pc[w] \notin {"idle", "gone"}
    /\ Go(w, "idle") /\ local' = [local EXCEPT ![w] = NoLocal]
    /\ UNCHANGED <<journal, checked, asked, chainVars, orphaned>>

Next ==
    \/ \E r \in Reviews : OwnerStep(r) \/ LeaseEnds(r)
    \/ \E w \in Workers : WorkerStep(w) \/ CallFails(w) \/ Die(w)
    \/ Mine \/ OtherTransaction \/ Reorganise \/ Finalize \/ Tick

Spec == Init /\ [][Next]_vars

\* The worker is scheduled every minute, and the chain's finality and clock go on.
Fairness ==
    /\ \A w \in Workers : WF_vars(WorkerStep(w))
    /\ \A r \in Reviews : WF_vars(LeaseEnds(r))
    /\ WF_vars(Finalize) /\ WF_vars(Tick)

(***************************************************************************)
(* Properties.                                                             *)
(***************************************************************************)
(* Rows keep their shape; one review holds the Punk, whoever owns it, and  *)
(* a row carries a hash and an observation in the states that have one.    *)
TrainingTypeOK ==
    /\ DOMAIN rows = Reviews /\ DOMAIN jobs = Reviews
    /\ \A q, r \in Reviews : Holds(q) /\ Holds(r) => q = r
    /\ \A r \in Reviews :
          /\ rows[r].status \in {"NONE", "PREPARED"} \cup Claimed \cup Released
          /\ rows[r].status \in {"SUBMITTED", "REORGED", "SETTLED_SUCCESS", "SETTLED_REVERT"}
                                \cup Included => rows[r].hash
          /\ rows[r].status \in Included => rows[r].observation # NoEntry
          /\ jobs[r] # 0 => rows[r].status \in Claimed
    /\ checked \subseteq Reviews /\ asked \subseteq Reviews
    /\ final <= now /\ now <= MaxTime

(* A hold that is released is over: no late worker changes its row, and    *)
(* whether that review was applied will not change again, whatever the     *)
(* wallet sends, a node still knows or a reorganisation drops, so a        *)
(* buyer's review cannot meet the seller's.                                *)
HasApplied(r) == r \in Applied
ReleasedIsOver ==
    [][\A r \in Reviews : rows[r].status \in Released =>
            rows'[r] = rows[r] /\ HasApplied(r)' = HasApplied(r)]_vars

(* What a settled row says is what the finalized chain holds: the bound    *)
(* transaction succeeded or reverted there, or the nonce went to another,  *)
(* or no block up to the deadline has one.                                 *)
SettledIsTrue ==
    \A r \in Reviews :
        LET status == rows[r].status
            bound == {i \in Final : chain[i].tx = Exact(r)}
        IN  /\ status = "SETTLED_SUCCESS" => \E i \in bound : chain[i].ok
            /\ status = "SETTLED_REVERT"  => \E i \in bound : ~ chain[i].ok
            /\ status = "NONCE_CONSUMED" /\ rows[r].hash => bound = {}
            /\ status = "REVIEW_EXPIRED"  => r \notin Applied

(* A claimed review does not hold its Punk for ever: with a lost answer, a *)
(* prompt never answered, a hash never reported, a repriced or dropped     *)
(* transaction, a dying worker and a reorganisation it is released in the  *)
(* end.  The one exception: its bound transaction is mined and its anchor  *)
(* block was dropped; that receipt is refused for ever.                    *)
HoldsAreReleased ==
    []<>(\A r \in Reviews : rows[r].status \in Claimed => rows[r].hash /\ Unverifiable(r))
=============================================================================
