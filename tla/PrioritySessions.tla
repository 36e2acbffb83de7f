--------------------------- MODULE PrioritySessions ---------------------------
(***************************************************************************)
(* Priority sessions: a Punk's owner prepays gas, and for some days one    *)
(* scheduled worker a minute tries to mint for the Punk that waited        *)
(* longest, until the mints he asked for are done.  Three things share the *)
(* work: the tables with the functions that lock their rows (supabase/     *)
(* migrations/20260902013000 and the store in front of them), the          *)
(* priority worker that calls these one after the other, and the runner of *)
(* a lane, whose lease only time ends.                                     *)
(*                                                                         *)
(* A worker may be slower than any lease, die between any two calls, or    *)
(* lose the answer of one.  A database function is one step: its row locks *)
(* make it so, and where the order of the locks (begin takes session then  *)
(* attempt, the others attempt then session) makes the database abort one  *)
(* of two calls, that call fails without effect, which is a fault here.    *)
(*                                                                         *)
(* Which mint is worth trying, on which chain state, is open: a run may    *)
(* end without one at will, and a transaction may succeed or revert.       *)
(***************************************************************************)
EXTENDS Integers, Sequences, FiniteSets, FiniteSetsExt, Functions

CONSTANTS
    Deposits,       \* confirmed deposits, each of which starts one session
    PunkOf,         \* the Punk a deposit is for
    Amount,         \* its value, in units of gas cost
    Life,           \* for how long its session lasts
    Requested,      \* the mints its session asks for
    Workers,        \* invocations that may be alive at once
    LeaseTerm,      \* of a claimed attempt (120 s)
    LaneTerm,       \* of the runner's lane (90 s)
    Cutoff,         \* from then on V1 no longer executes
    Costs,          \* what a mined transaction may cost
    MaxAttempts, MaxSends, MaxTime, MaxFaults   \* bounds

ASSUME PriorityAssumption ==
    /\ Amount \in [Deposits -> Nat \ {0}] /\ Life \in [Deposits -> Nat \ {0}]
    /\ Requested \in [Deposits -> Nat \ {0}]
    /\ Costs \subseteq Nat \ {0}
    /\ {LeaseTerm, LaneTerm, Cutoff, MaxAttempts, MaxSends, MaxTime, MaxFaults} \subseteq Nat

VARIABLES
    sessions,       \* gogh_broker_punk_priority_sessions
    line,           \* who goes ahead of whom: by last attempt, never tried ones first
    attempts,       \* gogh_broker_punk_priority_attempts
    gas,            \* gogh_broker_punk_agent_gas_accounts
    usage,          \* gogh_broker_punk_agent_gas_usage
    lane,           \* the lane's row in broker_automation_v3_worker_leases
    pc, local,      \* where each worker is and what it remembers
    sent, mined,    \* transactions broadcast, and their receipts
    now, faults

ledger == <<gas, usage>>
rows == <<sessions, line, attempts, ledger>>
worker == <<pc, local>>
vars == <<rows, lane, worker, sent, mined, now, faults>>

Punks == {PunkOf[d] : d \in Deposits}
Attempts == 1 .. MaxAttempts
None == "none"
NoAttempt == [session |-> None, state |-> "NONE", token |-> None, until |-> 0,
              hash |-> <<>>, minted |-> FALSE]
NoResult == [hash |-> <<>>, gas |-> FALSE, terminal |-> None]
NoLocal == [session |-> None, attempt |-> 0, token |-> None, result |-> NoResult]

Open(a) == attempts[a].state \notin {"NONE", "RECORDED"}
Sends(a) == {tx \in sent : tx[1] = a}
Receipts(tx) == {m \in mined : m.tx = tx}
Executing == now < Cutoff      \* hostedExecutionEnabled

Init ==
    /\ sessions = [d \in Deposits |-> [state |-> "NONE", done |-> 0, expires |-> 0]]
    /\ line = [tried |-> {}, ahead |-> {}]
    /\ attempts = [a \in Attempts |-> NoAttempt]
    /\ gas = [p \in Punks |-> [credited |-> 0, spent |-> 0]]
    /\ usage = {}
    /\ lane = [holder |-> None, until |-> 0]
    /\ pc = [w \in Workers |-> "idle"]
    /\ local = [w \in Workers |-> NoLocal]
    /\ sent = {} /\ mined = {} /\ now = 0 /\ faults = 0

\* Only an active session is ever picked, and none becomes active again.
ActiveOnes == {d \in Deposits : sessions[d].state = "ACTIVE"}
Active(l) == [tried |-> l.tried \cap ActiveOnes',
              ahead |-> l.ahead \cap (ActiveOnes' \X ActiveOnes')]

(***************************************************************************)
(* A confirmed deposit credits its Punk once and replaces the session that *)
(* is active.  The same deposit again changes nothing.                     *)
(***************************************************************************)
NoneReplaced(d, e) == FALSE                                          \* mutant
Replaced(d, e) == PunkOf[e] = PunkOf[d] /\ sessions[e].state = "ACTIVE"

Start(d) ==
    /\ sessions[d].state = "NONE"
    /\ sessions' = [e \in Deposits |->
          IF e = d THEN [state |-> "ACTIVE", done |-> 0, expires |-> now + Life[d]]
          ELSE IF Replaced(d, e) THEN [sessions[e] EXCEPT !.state = "CANCELLED"]
          ELSE sessions[e]]
    /\ line' = Active([line EXCEPT !.ahead = @ \cup ((ActiveOnes \ line.tried) \X {d})
                                               \cup ({d} \X line.tried)])
    /\ gas' = [gas EXCEPT ![PunkOf[d]].credited = @ + Amount[d]]
    /\ UNCHANGED <<attempts, usage, lane, worker, sent, mined, now, faults>>

(***************************************************************************)
(* One invocation of the priority worker.                                  *)
(***************************************************************************)
At(w, label) == pc[w] = label
Go(w, label) == pc' = [pc EXCEPT ![w] = label]
Finish(w) == Go(w, "idle") /\ local' = [local EXCEPT ![w] = NoLocal]

Due(d) == /\ sessions[d].state = "ACTIVE" /\ sessions[d].expires > now
          /\ sessions[d].done < Requested[d]
Expire(d) == IF sessions[d].state = "ACTIVE" /\ sessions[d].expires <= now
             THEN [sessions[d] EXCEPT !.state = "EXPIRED"] ELSE sessions[d]

NextSession(w) ==
    LET due == {d \in Deposits : Due(d)} IN
    /\ At(w, "idle")
    /\ due # {} \/ \E d \in Deposits : Expire(d) # sessions[d]
    /\ sessions' = [d \in Deposits |-> Expire(d)]
    /\ line' = Active(line)
    /\ IF due = {} THEN UNCHANGED worker
       ELSE \E d \in due :
            /\ \A e \in due : <<e, d>> \notin line.ahead
            /\ local' = [local EXCEPT ![w].session = d]
            /\ Go(w, "begin")
    /\ UNCHANGED <<attempts, ledger, lane, sent, mined, now, faults>>

Begun(d) ==
    IF sessions[d].state = "ACTIVE" /\ sessions[d].expires <= now THEN "EXPIRED"
    ELSE IF sessions[d].state = "ACTIVE" /\ sessions[d].done >= Requested[d] THEN "COMPLETE"
    ELSE sessions[d].state

ReservedToo(a) == attempts[a].state \in {"CLAIMED", "SUBMISSION_RESERVED"} /\ attempts[a].until <= now  \* mutant
Resumable(a) == attempts[a].state = "CLAIMED" /\ attempts[a].until <= now

ClaimRow(w, a, d) ==
    /\ attempts' = [attempts EXCEPT ![a] =
          [session |-> d, state |-> "CLAIMED", token |-> w, until |-> now + LeaseTerm,
           hash |-> <<>>, minted |-> FALSE]]
    /\ local' = [local EXCEPT ![w].attempt = a, ![w].token = w]
    /\ Go(w, "run")

Begin(w) ==
    LET d == local[w].session
        open == {a \in Attempts : attempts[a].session = d /\ Open(a)}
    IN  /\ At(w, "begin")
        /\ sessions' = [sessions EXCEPT ![d].state = Begun(d)]
        /\ line' = Active(line)
        /\ \/ /\ Begun(d) # "ACTIVE"             \* SESSION_TERMINAL
              /\ Finish(w) /\ UNCHANGED attempts
           \/ /\ Begun(d) = "ACTIVE" /\ open = {}
              /\ \E a \in Attempts :
                    /\ attempts[a] = NoAttempt /\ \A b \in 1 .. a - 1 : attempts[b] # NoAttempt
                    /\ ClaimRow(w, a, d)
           \/ /\ Begun(d) = "ACTIVE"
              /\ \E a \in open :
                    \/ Resumable(a) /\ ClaimRow(w, a, d)
                    \/ /\ attempts[a].state = "SUBMITTED"
                       /\ local' = [local EXCEPT ![w].attempt = a,
                                                 ![w].token = attempts[a].token]
                       /\ Go(w, "reconcile") /\ UNCHANGED attempts
                    \/ /\ ~ Resumable(a) /\ attempts[a].state # "SUBMITTED"
                       /\ Finish(w) /\ UNCHANGED attempts
        /\ UNCHANGED <<ledger, lane, sent, mined, now, faults>>

\* Both providers must show the same receipt.
Reconcile(w) ==
    LET tx == attempts[local[w].attempt].hash IN
    /\ At(w, "reconcile")
    /\ IF Receipts(tx) = {} THEN Finish(w)
       ELSE /\ local' = [local EXCEPT ![w].result =
                  [hash |-> tx, gas |-> TRUE, terminal |-> None]]
            /\ Go(w, "record")
    /\ UNCHANGED <<rows, lane, sent, mined, now, faults>>

\* The run is over, however it ended: the lane is given back, then recorded.
Ends(w, result) ==
    /\ local' = [local EXCEPT ![w].result = result]
    /\ Go(w, "record")
    /\ lane' = IF lane.holder = w THEN [holder |-> None, until |-> 0] ELSE lane
Nothing(terminal) == [hash |-> <<>>, gas |-> FALSE, terminal |-> terminal]

\* runAutomationV3Once: retired, another run in the lane, or nothing to mint;
\* else the lane is taken and the mint prepared up to its submission.
Run(w) ==
    /\ At(w, "run")
    /\ \/ /\ ~ Executing
          /\ Ends(w, Nothing("CANCELLED"))
       \/ /\ Executing
          /\ \E terminal \in {None, "OWNER_CHANGED"} : Ends(w, Nothing(terminal))
       \/ /\ Executing /\ lane.until <= now /\ Cardinality(sent) < MaxSends
          /\ lane' = [holder |-> w, until |-> now + LaneTerm]
          /\ Go(w, "reserve") /\ UNCHANGED local
    /\ UNCHANGED <<rows, sent, mined, now, faults>>

(***************************************************************************)
(* The submission: reserved, broadcast, noted.                             *)
(***************************************************************************)
AttemptOnly(w) == attempts[local[w].attempt].state = "CLAIMED" /\ attempts[local[w].attempt].token = local[w].token /\ attempts[local[w].attempt].until > now  \* mutant
Reservable(w) ==
    LET row == attempts[local[w].attempt] IN
    /\ sessions[row.session].state = "ACTIVE" /\ sessions[row.session].expires > now
    /\ row.state = "CLAIMED" /\ row.token = local[w].token /\ row.until > now

ReserveRow(w) ==
    LET a == local[w].attempt
        d == attempts[a].session
    IN  /\ sessions' = [sessions EXCEPT ![d] = Expire(d)]
        /\ line' = Active(line)
        /\ attempts' = IF Reservable(w)
                       THEN [attempts EXCEPT ![a].state = "SUBMISSION_RESERVED",
                                             ![a].until = 0]
                       ELSE attempts

Reserve(w) ==
    /\ At(w, "reserve")
    /\ ReserveRow(w)
    /\ IF Reservable(w) THEN Go(w, "send") /\ UNCHANGED <<local, lane>>
       ELSE Ends(w, Nothing(None))
    /\ UNCHANGED <<ledger, sent, mined, now, faults>>

Hash(w) == <<local[w].attempt, Cardinality(Sends(local[w].attempt))>>

\* The cutoff is checked once more before the wallet sends.
Send(w) ==
    /\ At(w, "send")
    /\ IF Executing
       THEN /\ sent' = sent \cup {Hash(w)}
            /\ local' = [local EXCEPT ![w].result.hash = Hash(w)]
            /\ Go(w, "note") /\ UNCHANGED lane
       ELSE Ends(w, Nothing(None)) /\ UNCHANGED sent
    /\ UNCHANGED <<rows, mined, now, faults>>

NoteRow(w) ==
    LET a == local[w].attempt IN
    attempts' = IF attempts[a].state = "SUBMISSION_RESERVED"
                   /\ attempts[a].token = local[w].token
                THEN [attempts EXCEPT ![a].state = "SUBMITTED",
                                      ![a].hash = local[w].result.hash]
                ELSE attempts

Note(w) ==
    /\ At(w, "note")
    /\ NoteRow(w)
    /\ Go(w, "await")
    /\ UNCHANGED <<sessions, line, ledger, lane, local, sent, mined, now, faults>>

\* A few seconds for the receipt; without it the result has no cost.
Await(w) ==
    LET tx == local[w].result.hash IN
    /\ At(w, "await")
    /\ Ends(w, [hash |-> tx, gas |-> Receipts(tx) # {}, terminal |-> None])
    /\ UNCHANGED <<rows, sent, mined, now, faults>>

(***************************************************************************)
(* The result is recorded, once, against the session and its Punk's gas.   *)
(***************************************************************************)
WholeCost(p, cost) == cost                                           \* mutant
Charge(p, cost) == Min({cost, gas[p].credited - gas[p].spent})

Raises(row, w) ==
    LET r == local[w].result IN
    \/ row.token # local[w].token
    \/ row.state = "SUBMISSION_RESERVED" /\ r.hash = <<>>
    \/ r.hash # <<>> /\ row.state \notin {"SUBMISSION_RESERVED", "SUBMITTED"}
    \/ row.state = "SUBMITTED" /\ row.hash # r.hash
    \/ r.hash # <<>> /\ ~ r.gas

SessionAfter(d, minted, terminal) ==
    LET s == sessions[d]
        done == s.done + IF minted THEN 1 ELSE 0
    IN  IF s.state \notin {"ACTIVE", "COMPLETE", "EXPIRED"} THEN s
        ELSE [s EXCEPT !.done = done,
                       !.state = IF terminal # None THEN terminal
                                 ELSE IF done >= Requested[d] THEN "COMPLETE"
                                 ELSE IF s.expires <= now THEN "EXPIRED" ELSE @]

AnyReceipt(m) == TRUE                                                \* mutant
Minted(m) == m.ok

\* A recorded row's lease is never read again; a row without transaction that none
\* of the others remembers is forgotten, so that the bound on attempts is none on
\* retries.
Recorded(a, tx, minted, others) ==
    IF tx = <<>> /\ \A w \in others : local[w].attempt # a
    THEN NoAttempt
    ELSE [attempts[a] EXCEPT !.state = "RECORDED", !.minted = minted, !.hash = tx,
                             !.token = None, !.until = 0]

\* The usage row of a transaction is inserted once, ON CONFLICT DO NOTHING.
Settle(w, a, tx, terminal) ==
    LET d == attempts[a].session
        p == PunkOf[d]
        known == \E u \in usage : u.tx = tx
        receipt == CHOOSE m \in Receipts(tx) : TRUE
        charged == tx # <<>> /\ ~ known
        minted == charged /\ Minted(receipt)
    IN  /\ IF charged
           THEN /\ usage' = usage \cup {[tx |-> tx, session |-> d,
                                          charge |-> Charge(p, receipt.cost)]}
                /\ gas' = [gas EXCEPT ![p].spent = @ + Charge(p, receipt.cost)]
           ELSE UNCHANGED ledger
        /\ sessions' = [sessions EXCEPT ![d] = SessionAfter(d, minted, terminal)]
        /\ line' = Active([tried |-> line.tried \cup {d},
                           ahead |-> {pair \in line.ahead : pair[1] # d}
                                     \cup ((ActiveOnes \ {d}) \X {d})])
        /\ attempts' = [attempts EXCEPT ![a] = Recorded(a, tx, minted, Workers \ {w})]

Record(w) ==
    LET row == attempts[local[w].attempt]
        result == local[w].result
    IN  /\ At(w, "record")
        /\ IF row.state = "RECORDED" \/ Raises(row, w) THEN UNCHANGED rows
           ELSE Settle(w, local[w].attempt, result.hash, result.terminal)
        /\ Finish(w)
        /\ UNCHANGED <<lane, sent, mined, now, faults>>

WorkerStep(w) ==
    \/ NextSession(w) \/ Begin(w) \/ Reconcile(w) \/ Run(w) \/ Reserve(w)
    \/ Send(w) \/ Note(w) \/ Await(w) \/ Record(w)

(***************************************************************************)
(* Faults, the retirement of V1, the chain and the clock.                  *)
(***************************************************************************)
Fault == faults < MaxFaults /\ faults' = faults + 1

\* The process ends, or a call outside the run throws: nothing more is done, and
\* a lane it held stays taken until its time is over.
Die(w) ==
    /\ Fault
    /\ pc[w] # "idle"
    /\ Finish(w)
    /\ lane' = IF lane.holder = w THEN [lane EXCEPT !.holder = None] ELSE lane
    /\ UNCHANGED <<rows, sent, mined, now>>

\* A call of the submission throws, done or not: the run ends with an error
\* that knows the hash once there is one.
CallFails(w) ==
    /\ Fault
    /\ \/ /\ At(w, "reserve")
          /\ ReserveRow(w) \/ UNCHANGED <<sessions, line, attempts>>
          /\ UNCHANGED sent
       \/ /\ At(w, "send")
          /\ sent' \in {sent, sent \cup {Hash(w)}}
          /\ UNCHANGED <<sessions, line, attempts>>
       \/ /\ At(w, "note")
          /\ NoteRow(w) \/ UNCHANGED attempts
          /\ UNCHANGED <<sessions, line, sent>>
    /\ Ends(w, [hash |-> local[w].result.hash, gas |-> FALSE, terminal |-> None])
    /\ UNCHANGED <<ledger, mined, now>>

\* gogh_broker_finalize_v1_retirement.
Retire ==
    LET held == {attempts[a].session : a \in {b \in Attempts :
                    attempts[b].state \in {"SUBMISSION_RESERVED", "SUBMITTED"}}}
    IN  /\ ~ Executing
        /\ attempts' = [a \in Attempts |->
              IF attempts[a].state = "CLAIMED"
              THEN Recorded(a, <<>>, FALSE, Workers) ELSE attempts[a]]
        /\ sessions' = [d \in Deposits |->
              IF sessions[d].state = "ACTIVE" /\ d \notin held
              THEN [sessions[d] EXCEPT !.state = "CANCELLED"] ELSE sessions[d]]
        /\ line' = Active(line)
        /\ UNCHANGED <<ledger, lane, worker, sent, mined, now, faults>>

Mine(tx) ==
    /\ Receipts(tx) = {}
    /\ \E ok \in BOOLEAN, cost \in Costs :
          mined' = mined \cup {[tx |-> tx, ok |-> ok, cost |-> cost]}
    /\ UNCHANGED <<rows, lane, worker, sent, now, faults>>

Tick ==
    /\ now < MaxTime
    /\ now' = now + 1
    /\ UNCHANGED <<rows, lane, worker, sent, mined, faults>>

Next ==
    \/ \E d \in Deposits : Start(d)
    \/ \E w \in Workers : WorkerStep(w) \/ Die(w) \/ CallFails(w)
    \/ Retire
    \/ \E tx \in sent : Mine(tx)
    \/ Tick

Spec == Init /\ [][Next]_vars

(***************************************************************************)
(* Properties.                                                             *)
(***************************************************************************)
SessionStates == {"NONE", "ACTIVE", "COMPLETE", "EXPIRED", "CANCELLED", "OWNER_CHANGED"}
Hashes == {<<>>} \cup (Attempts \X Nat)
Results == [hash : Hashes, gas : BOOLEAN, terminal : {None, "CANCELLED", "OWNER_CHANGED"}]

(* Every row keeps its shape, a Punk has at most one active session and a  *)
(* session at most one open attempt (the two unique indexes).              *)
PriorityTypeOK ==
    /\ sessions \in [Deposits -> [state : SessionStates, done : Nat, expires : Nat]]
    /\ \A d, e \in Deposits : sessions[d].state = "ACTIVE" /\ sessions[e].state = "ACTIVE"
                              /\ PunkOf[d] = PunkOf[e] => d = e
    /\ attempts \in [Attempts ->
          [session : Deposits \cup {None}, token : Workers \cup {None}, until : Nat,
           state : {"NONE", "CLAIMED", "SUBMISSION_RESERVED", "SUBMITTED", "RECORDED"},
           hash : Hashes, minted : BOOLEAN]]
    /\ \A a, b \in Attempts : Open(a) /\ Open(b)
                              /\ attempts[a].session = attempts[b].session => a = b
    /\ gas \in [Punks -> [credited : Nat, spent : Nat]]
    /\ lane \in [holder : Workers \cup {None}, until : Nat]
    /\ pc \in [Workers -> {"idle", "begin", "reconcile", "run", "reserve", "send", "note",
                           "await", "record"}]
    /\ local \in [Workers -> [session : Deposits \cup {None}, attempt : Nat,
                              token : Workers \cup {None}, result : Results]]

(* "Once reserved, automatic retries cannot submit": an attempt sends one  *)
(* transaction at most, and as long as its row does not carry the hash it  *)
(* stays reserved for whoever settles it; no attempt is recorded, and no   *)
(* next one claimed, over a transaction nobody wrote down.                 *)
NothingSentIsForgotten ==
    \A tx \in sent :
        /\ Cardinality(Sends(tx[1])) = 1
        /\ \/ attempts[tx[1]].state = "SUBMISSION_RESERVED"
           \/ attempts[tx[1]].state \in {"SUBMITTED", "RECORDED"} /\ attempts[tx[1]].hash = tx

(* The ledger is what the receipts of the recorded transactions say: each  *)
(* is charged once and to the session it was sent for, at most at its      *)
(* cost, and a Punk never spends more than was deposited for it.           *)
LedgerIsReceipts ==
    /\ \A u \in usage :
          /\ \E m \in Receipts(u.tx) : u.charge <= m.cost
          /\ attempts[u.tx[1]].state = "RECORDED" /\ attempts[u.tx[1]].session = u.session
          /\ \A v \in usage : u.tx = v.tx => u = v
    /\ \A p \in Punks :
          LET mine == {u \in usage : PunkOf[u.session] = p}
          IN  /\ gas[p].spent = SumFunctionOnSet([u \in usage |-> u.charge], mine)
              /\ gas[p].spent <= gas[p].credited

(* A session counts the mints of its recorded transactions that really     *)
(* succeeded, those that arrived after it was replaced or cancelled        *)
(* excepted, and never more than its owner asked for.                      *)
MintsOf(d) == {a \in Attempts : attempts[a].session = d /\ attempts[a].state = "RECORDED"
                                /\ attempts[a].minted}
CountIsMints ==
    \A d \in Deposits :
        /\ sessions[d].done <= Requested[d]
        /\ sessions[d].done <= Cardinality(MintsOf(d))
        /\ sessions[d].state \in {"ACTIVE", "COMPLETE", "EXPIRED"} =>
              sessions[d].done = Cardinality(MintsOf(d))
        /\ \A a \in MintsOf(d) : \E m \in Receipts(attempts[a].hash) : m.ok

(* A session that is over, replaced by a new deposit, cancelled, expired   *)
(* or complete, sends nothing more once no submission of it is reserved,   *)
(* however late the workers are that claimed its attempts.                 *)
Over(d) == /\ sessions[d].state \notin {"NONE", "ACTIVE"}
           /\ \A a \in Attempts : attempts[a].session = d =>
                 attempts[a].state # "SUBMISSION_RESERVED"
SentFor(d) == {tx \in sent : attempts[tx[1]].session = d}
OverMeansQuiet ==
    [][\A d \in Deposits : Over(d) => Over(d)' /\ SentFor(d)' = SentFor(d)]_vars
=============================================================================
