----------------------- MODULE PrioritySessions_proofs -----------------------
(***************************************************************************)
(* No worker loses a transaction of a priority session, and a session that *)
(* is over stays quiet, for any number of deposits, workers, attempts,     *)
(* faults, and any leases.                                                 *)
(***************************************************************************)
EXTENDS PrioritySessions, FiniteSetTheorems, SumTheorems, TLAPS

(* The type invariant in parts, each with what the others need of it:      *)
(* sessions, at most one of a Punk active;                                 *)
SessionRows == [state : SessionStates, done : Nat, expires : Nat]
SessionsOK ==
    /\ sessions \in [Deposits -> SessionRows]
    /\ \A d, e \in Deposits : sessions[d].state = "ACTIVE" /\ sessions[e].state = "ACTIVE"
                              /\ PunkOf[d] = PunkOf[e] => d = e

(* attempts, at most one of a session open, each with a hash only of a     *)
(* transaction that was sent for it;                                       *)
AttemptRows == [session : Deposits \cup {None}, token : Workers \cup {None}, until : Nat,
                state : {"NONE", "CLAIMED", "SUBMISSION_RESERVED", "SUBMITTED", "RECORDED"},
                hash : Hashes, minted : BOOLEAN]
RowHolds(a) ==
    /\ attempts[a].state # "NONE" => attempts[a].session \in Deposits
    /\ attempts[a].state = "SUBMITTED" => attempts[a].hash # <<>>
    /\ attempts[a].hash # <<>> => attempts[a].hash \in sent /\ attempts[a].hash[1] = a
AttemptsOK ==
    /\ attempts \in [Attempts -> AttemptRows]
    /\ \A a, b \in Attempts : Open(a) /\ Open(b)
                              /\ attempts[a].session = attempts[b].session => a = b
    /\ \A a \in Attempts : RowHolds(a)

(* transactions, one of an attempt at most, which its row does not forget; *)
SentOK ==
    /\ sent \subseteq Attempts \X Nat
    /\ \A tx \in sent :
        /\ Sends(tx[1]) = {tx}
        /\ \/ attempts[tx[1]].state = "SUBMISSION_RESERVED"
           \/ attempts[tx[1]].state \in {"SUBMITTED", "RECORDED"} /\ attempts[tx[1]].hash = tx

(* the gas accounts, the lane, the receipts and the clock;                 *)
RestOK ==
    /\ gas \in [Punks -> [credited : Nat, spent : Nat]]
    /\ \A p \in Punks : gas[p].spent <= gas[p].credited
    /\ lane \in [holder : Workers \cup {None}, until : Nat]
    /\ mined \subseteq [tx : Attempts \X Nat, ok : BOOLEAN, cost : Costs]
    /\ now \in Nat

(* and the workers: one that remembers an attempt has a row to find, what  *)
(* it reports was sent, and the one about to send is the one the row is    *)
(* reserved for, while nothing was sent of that attempt.                   *)
Labels == {"idle", "begin", "reconcile", "run", "reserve", "send", "note", "await", "record"}
Locals == [session : Deposits \cup {None}, attempt : Nat, token : Workers \cup {None},
           result : Results]
Remembers(w) == pc[w] \notin {"idle", "begin"}
WorkerHolds(w) ==
    /\ pc[w] = "begin" => local[w].session \in Deposits
    /\ Remembers(w) => /\ local[w].attempt \in Attempts
                       /\ attempts[local[w].attempt].state # "NONE"
    /\ pc[w] \notin {"note", "await", "record"} => local[w].result.hash = <<>>
    /\ pc[w] \in {"note", "await"} => local[w].result.hash # <<>>
    /\ local[w].result.hash # <<>> => /\ local[w].result.hash \in sent
                                      /\ local[w].result.hash[1] = local[w].attempt
    /\ local[w].result.gas => Receipts(local[w].result.hash) # {}
    /\ pc[w] \in {"run", "reserve", "send"} => local[w].token = w
    /\ pc[w] = "send" => /\ attempts[local[w].attempt].state = "SUBMISSION_RESERVED"
                         /\ attempts[local[w].attempt].token = w
                         /\ Sends(local[w].attempt) = {}
    /\ pc[w] = "reconcile" => /\ attempts[local[w].attempt].state \in {"SUBMITTED", "RECORDED"}
                              /\ attempts[local[w].attempt].hash # <<>>
WorkersOK ==
    /\ pc \in [Workers -> Labels]
    /\ local \in [Workers -> Locals]
    /\ \A w \in Workers : WorkerHolds(w)

IInv == SessionsOK /\ AttemptsOK /\ SentOK /\ RestOK /\ WorkersOK

---------------------------------------------------------------------------
(* The inductive invariant contains the two that are checked. *)
LEMMA IInvSuffices == IInv => PriorityTypeOK /\ NothingSentIsForgotten
<1> SUFFICES ASSUME IInv PROVE PriorityTypeOK /\ NothingSentIsForgotten
  OBVIOUS
<1>1. PriorityTypeOK
  BY DEF IInv, PriorityTypeOK, SessionsOK, SessionRows, AttemptsOK, AttemptRows, RestOK,
      WorkersOK, Labels, Locals
<1>2. ASSUME NEW tx \in sent PROVE Cardinality(Sends(tx[1])) = 1
  BY FS_Singleton DEF IInv, SentOK
<1> QED
  BY <1>1, <1>2 DEF IInv, SentOK, NothingSentIsForgotten

LEMMA InitHolds == Init => IInv
<1> SUFFICES ASSUME Init PROVE IInv
  OBVIOUS
<1>1. SessionsOK
  BY DEF Init, SessionsOK, SessionRows, SessionStates
<1>2. AttemptsOK
  BY DEF Init, AttemptsOK, AttemptRows, NoAttempt, Hashes, Open, RowHolds
<1>3. SentOK
  BY DEF Init, SentOK
<1>4. RestOK
  BY DEF Init, RestOK
<1>5. WorkersOK
  BY DEF Init, WorkersOK, WorkerHolds, NoLocal, NoResult, Labels, Locals, Results, Hashes,
      Remembers
<1> QED
  BY <1>1, <1>2, <1>3, <1>4, <1>5 DEF IInv

---------------------------------------------------------------------------
(* What a step has to show of the part it changes.  Sessions: none becomes *)
(* active that was not.                                                    *)
LEMMA SessionsChange ==
    ASSUME IInv, sessions' \in [Deposits -> SessionRows],
           \A d \in Deposits : sessions'[d].state = "ACTIVE" => sessions[d].state = "ACTIVE"
    PROVE  SessionsOK'
  BY DEF IInv, SessionsOK

LEMMA ExpireChanges ==
    ASSUME IInv, NEW d \in Deposits
    PROVE  /\ Expire(d) \in SessionRows
           /\ Expire(d).state = "ACTIVE" => Expire(d) = sessions[d]
  BY DEF IInv, SessionsOK, SessionRows, SessionStates, Expire

(* One row of attempts. *)
LEMMA RowChanges ==
    ASSUME IInv, NEW a \in Attempts, NEW row \in AttemptRows,
           attempts' = [attempts EXCEPT ![a] = row], sent' = sent,
           row.state # "NONE" => row.session \in Deposits,
           row.state = "SUBMITTED" => row.hash # <<>>,
           row.hash # <<>> => row.hash \in sent /\ row.hash[1] = a,
           row.state \notin {"NONE", "RECORDED"} =>
               \A b \in Attempts \ {a} : Open(b) => attempts[b].session # row.session,
           \A tx \in sent : tx[1] = a =>
               \/ row.state = "SUBMISSION_RESERVED"
               \/ row.state \in {"SUBMITTED", "RECORDED"} /\ row.hash = tx
    PROVE  AttemptsOK' /\ SentOK'
<1>1. attempts' \in [Attempts -> AttemptRows] /\ \A b \in Attempts : RowHolds(b)'
  BY DEF IInv, AttemptsOK, RowHolds
<1>2. ASSUME NEW b \in Attempts, NEW c \in Attempts, Open(b)', Open(c)',
             attempts'[b].session = attempts'[c].session
      PROVE  b = c
  BY <1>2 DEF IInv, AttemptsOK, Open
<1>3. SentOK'
  BY DEF IInv, AttemptsOK, SentOK, Sends
<1> QED
  BY <1>1, <1>2, <1>3 DEF AttemptsOK

LEMMA NoRowChanges ==
    ASSUME IInv, UNCHANGED <<attempts, sent>>
    PROVE  AttemptsOK' /\ SentOK'
  BY DEF IInv, AttemptsOK, SentOK, RowHolds, Open, Sends

(* A worker that does nothing: the row it remembers stays, and is exactly  *)
(* as it was while the worker is about to send.                            *)
LEMMA WorkerWaits ==
    ASSUME IInv, NEW w \in Workers, pc'[w] = pc[w], local'[w] = local[w],
           sent \subseteq sent', mined \subseteq mined',
           Remembers(w) => attempts'[local[w].attempt].state # "NONE",
           pc[w] = "send" => /\ attempts'[local[w].attempt] = attempts[local[w].attempt]
                             /\ Sends(local[w].attempt)' = {},
           pc[w] = "reconcile" => /\ attempts'[local[w].attempt].state \in {"SUBMITTED", "RECORDED"}
                                  /\ attempts'[local[w].attempt].hash # <<>>
    PROVE  WorkerHolds(w)'
  BY DEF IInv, WorkersOK, WorkerHolds, Remembers, Receipts, Sends

LEMMA OthersWait ==
    ASSUME IInv, UNCHANGED <<attempts, sent>>, mined \subseteq mined',
           NEW w \in Workers, pc'[w] = pc[w], local'[w] = local[w]
    PROVE  WorkerHolds(w)'
  BY DEF IInv, WorkersOK, WorkerHolds, Remembers, Receipts, Sends

LEMMA WorkersWait ==
    ASSUME IInv, UNCHANGED <<pc, local, attempts, sent>>, mined \subseteq mined'
    PROVE  WorkersOK'
  BY OthersWait DEF IInv, WorkersOK

---------------------------------------------------------------------------
(* The steps, one by one. *)
LEMMA StartHolds == ASSUME IInv, NEW d \in Deposits, Start(d) PROVE IInv'
<1>1. SessionsOK'
  <2>1. now + Life[d] \in Nat
    BY PriorityAssumption DEF IInv, RestOK
  <2>2. \A e \in Deposits : sessions'[e] \in SessionRows
    BY <2>1 DEF IInv, SessionsOK, SessionRows, SessionStates, Start
  <2>3. sessions' \in [Deposits -> SessionRows]
    BY <2>2 DEF Start
  <2> QED
    BY <2>3 DEF IInv, SessionsOK, Start, Replaced
<1>2. AttemptsOK' /\ SentOK'
  BY NoRowChanges DEF Start
<1>3. WorkersOK'
  BY WorkersWait DEF Start, worker
<1>4. RestOK'
  <2>1. PunkOf[d] \in Punks /\ Amount[d] \in Nat
    BY PriorityAssumption DEF Punks
  <2> QED
    BY <2>1 DEF IInv, RestOK, Start
<1> QED
  BY <1>1, <1>2, <1>3, <1>4 DEF IInv

LEMMA NextSessionHolds == ASSUME IInv, NEW w \in Workers, NextSession(w) PROVE IInv'
<1>1. SessionsOK'
  BY SessionsChange, ExpireChanges DEF NextSession
<1>2. AttemptsOK' /\ SentOK'
  BY NoRowChanges DEF NextSession
<1>3. RestOK'
  BY DEF IInv, RestOK, NextSession, ledger
<1>4. WorkersOK'
  <2>1. CASE UNCHANGED worker
    BY <2>1, WorkersWait DEF NextSession, worker
  <2>2. CASE \E d \in Deposits : /\ local' = [local EXCEPT ![w].session = d]
                                 /\ Go(w, "begin")
    <3>1. PICK d \in Deposits : /\ local' = [local EXCEPT ![w].session = d]
                                /\ pc' = [pc EXCEPT ![w] = "begin"]
      BY <2>2 DEF Go
    <3>2. pc' \in [Workers -> Labels] /\ local' \in [Workers -> Locals]
      BY <3>1 DEF IInv, WorkersOK, Labels, Locals
    <3>3. WorkerHolds(w)'
      BY <3>1 DEF IInv, WorkersOK, WorkerHolds, Remembers, NextSession, At, Locals, Labels, Receipts
    <3>4. ASSUME NEW v \in Workers, v # w PROVE WorkerHolds(v)'
      BY <3>1, <3>4, OthersWait DEF NextSession, IInv, WorkersOK
    <3> QED
      BY <3>2, <3>3, <3>4 DEF WorkersOK
  <2> QED
    BY <2>1, <2>2 DEF NextSession
<1> QED
  BY <1>1, <1>2, <1>3, <1>4 DEF IInv

LEMMA AttemptsAreNumbers == \A a \in Attempts : a \in Nat
  BY PriorityAssumption DEF Attempts

(* Every receipt is of a transaction. *)
LEMMA NoHashNoReceipt == ASSUME IInv PROVE Receipts(<<>>) = {}
<1>1. \A tx \in Attempts \X Nat : tx # <<>>
  OBVIOUS
<1>2. \A m \in mined : m.tx \in Attempts \X Nat
  BY DEF IInv, RestOK
<1> QED
  BY <1>1, <1>2 DEF Receipts

(* A worker that gives up remembers nothing; one whose run ends reports    *)
(* what it knows.                                                          *)
LEMMA Finishes ==
    ASSUME IInv, NEW w \in Workers, Finish(w)
    PROVE  /\ pc' \in [Workers -> Labels] /\ local' \in [Workers -> Locals]
           /\ WorkerHolds(w)'
           /\ \A v \in Workers \ {w} : pc'[v] = pc[v] /\ local'[v] = local[v]
  BY DEF IInv, WorkersOK, Finish, Go, Labels, Locals, Results, Hashes, NoLocal, NoResult,
      WorkerHolds, Remembers

LEMMA RunEnds ==
    ASSUME IInv, NEW w \in Workers, NEW result \in Results, Ends(w, result), Remembers(w),
           attempts'[local[w].attempt].state # "NONE",
           result.hash # <<>> => result.hash \in sent' /\ result.hash[1] = local[w].attempt,
           result.gas => Receipts(result.hash)' # {}
    PROVE  /\ pc' \in [Workers -> Labels] /\ local' \in [Workers -> Locals]
           /\ WorkerHolds(w)'
           /\ lane' \in [holder : Workers \cup {None}, until : Nat]
           /\ \A v \in Workers \ {w} : pc'[v] = pc[v] /\ local'[v] = local[v]
<1>1. pc' \in [Workers -> Labels] /\ local' \in [Workers -> Locals]
  BY DEF IInv, WorkersOK, Ends, Go, Labels, Locals
<1>2. /\ pc'[w] = "record" /\ local'[w].result = result
      /\ local'[w].attempt = local[w].attempt
  BY DEF IInv, WorkersOK, Ends, Go, Labels, Locals
<1>3. WorkerHolds(w)'
  BY <1>2 DEF IInv, WorkersOK, WorkerHolds, Remembers, Receipts
<1>4. lane' \in [holder : Workers \cup {None}, until : Nat]
  BY DEF IInv, RestOK, Ends
<1> QED
  BY <1>1, <1>3, <1>4 DEF Ends, Go, IInv, WorkersOK

LEMMA NothingIsAResult == Nothing(None) \in Results /\ Nothing("CANCELLED") \in Results
                          /\ Nothing("OWNER_CHANGED") \in Results
  BY DEF Nothing, Results, Hashes

(* A claim takes a row that nothing was sent for. *)
LEMMA Claims ==
    ASSUME IInv, NEW w \in Workers, NEW a \in Attempts, NEW d \in Deposits,
           At(w, "begin"), ClaimRow(w, a, d), UNCHANGED <<sent, mined>>,
           attempts[a].state \in {"NONE", "CLAIMED"},
           \A b \in Attempts \ {a} : Open(b) => attempts[b].session # d
    PROVE  AttemptsOK' /\ SentOK' /\ WorkersOK'
<1> DEFINE row == [session |-> d, state |-> "CLAIMED", token |-> w, until |-> now + LeaseTerm,
                   hash |-> <<>>, minted |-> FALSE]
<1>1. row \in AttemptRows
  <2>1. now + LeaseTerm \in Nat
    BY PriorityAssumption DEF IInv, RestOK
  <2> QED
    BY <2>1 DEF AttemptRows, Hashes
<1>2. attempts' = [attempts EXCEPT ![a] = row]
  BY DEF ClaimRow
<1>3. \A tx \in sent : tx[1] # a
  BY DEF IInv, SentOK
<1>4. /\ row.session = d /\ row.state = "CLAIMED" /\ row.hash = <<>>
  OBVIOUS
<1> HIDE DEF row
<1>5. AttemptsOK' /\ SentOK'
  BY <1>1, <1>2, <1>3, <1>4, RowChanges
<1>6. attempts'[a].state = "CLAIMED" /\ \A b \in Attempts \ {a} : attempts'[b] = attempts[b]
  BY <1>2, <1>4 DEF IInv, AttemptsOK
<1>7. pc' \in [Workers -> Labels] /\ local' \in [Workers -> Locals]
  BY AttemptsAreNumbers DEF IInv, WorkersOK, Labels, Locals, ClaimRow, Go
<1>8. WorkerHolds(w)'
  <2>1. pc'[w] = "run" /\ local'[w].attempt = a /\ local'[w].token = w
        /\ local'[w].result = local[w].result
    BY DEF ClaimRow, Go, IInv, WorkersOK, Locals
  <2> QED
    BY <2>1, <1>6 DEF WorkerHolds, IInv, WorkersOK, Remembers, At, Receipts
<1>9. ASSUME NEW v \in Workers, v # w PROVE WorkerHolds(v)'
  <2>1. pc'[v] = pc[v] /\ local'[v] = local[v]
    BY <1>9 DEF ClaimRow, Go, IInv, WorkersOK
  <2>2. Remembers(v) => attempts'[local[v].attempt].state # "NONE"
    BY <1>6 DEF IInv, WorkersOK, WorkerHolds, Remembers
  <2>3. pc[v] \in {"send", "reconcile"} => local[v].attempt \in Attempts \ {a}
    BY DEF IInv, WorkersOK, WorkerHolds, Remembers
  <2> QED
    BY <2>1, <2>2, <2>3, <1>6, WorkerWaits DEF IInv, WorkersOK, WorkerHolds, Sends
<1> QED
  BY <1>5, <1>7, <1>8, <1>9 DEF WorkersOK

LEMMA BeginHolds == ASSUME IInv, NEW w \in Workers, Begin(w) PROVE IInv'
<1> DEFINE d == local[w].session
<1>1. d \in Deposits
  BY DEF Begin, At, IInv, WorkersOK, WorkerHolds
<1>2. SessionsOK'
  <2>1. Begun(d) \in SessionStates /\ (Begun(d) = "ACTIVE" => sessions[d].state = "ACTIVE")
    BY <1>1 DEF Begun, SessionStates, IInv, SessionsOK, SessionRows
  <2>2. sessions' = [sessions EXCEPT ![d].state = Begun(d)]
    BY DEF Begin
  <2>3. sessions' \in [Deposits -> SessionRows]
    BY <2>1, <2>2 DEF IInv, SessionsOK, SessionRows
  <2>4. \A e \in Deposits : sessions'[e].state = "ACTIVE" => sessions[e].state = "ACTIVE"
    BY <2>1, <2>2 DEF IInv, SessionsOK, SessionRows
  <2> QED
    BY <2>3, <2>4, SessionsChange
<1>3. RestOK'
  BY DEF IInv, RestOK, Begin, ledger
<1>4. AttemptsOK' /\ SentOK' /\ WorkersOK'
  <2> HIDE DEF d
  <2>1. CASE Finish(w) /\ UNCHANGED attempts
    BY <2>1, Finishes, OthersWait, NoRowChanges DEF Begin, WorkersOK
  <2>2. CASE \E a \in Attempts : ClaimRow(w, a, d) /\ attempts[a] = NoAttempt
                /\ {b \in Attempts : attempts[b].session = d /\ Open(b)} = {}
    BY <2>2, <1>1, Claims DEF NoAttempt, Begin
  <2>3. CASE \E a \in Attempts : ClaimRow(w, a, d) /\ Resumable(a)
                /\ attempts[a].session = d /\ Open(a)
    <3>1. PICK a \in Attempts : ClaimRow(w, a, d) /\ Resumable(a)
                /\ attempts[a].session = d /\ Open(a)
      BY <2>3
    <3>2. \A b \in Attempts \ {a} : Open(b) => attempts[b].session # d
      BY <3>1 DEF IInv, AttemptsOK
    <3> QED
      BY <3>1, <3>2, <1>1, Claims DEF Resumable, Begin
  <2>4. CASE \E a \in Attempts :
                /\ attempts[a].state = "SUBMITTED"
                /\ local' = [local EXCEPT ![w].attempt = a, ![w].token = attempts[a].token]
                /\ Go(w, "reconcile") /\ UNCHANGED attempts
    <3>1. PICK a \in Attempts :
                /\ attempts[a].state = "SUBMITTED"
                /\ local' = [local EXCEPT ![w].attempt = a, ![w].token = attempts[a].token]
                /\ pc' = [pc EXCEPT ![w] = "reconcile"] /\ UNCHANGED attempts
      BY <2>4 DEF Go
    <3>2. attempts[a].token \in Workers \cup {None} /\ attempts[a].hash # <<>>
      BY <3>1 DEF IInv, AttemptsOK, AttemptRows, RowHolds
    <3>3. pc' \in [Workers -> Labels] /\ local' \in [Workers -> Locals]
      BY <3>1, <3>2, AttemptsAreNumbers DEF IInv, WorkersOK, Labels, Locals
    <3>4. pc'[w] = "reconcile" /\ local'[w].attempt = a /\ local'[w].result = local[w].result
      BY <3>1 DEF IInv, WorkersOK, Locals
    <3>5. UNCHANGED <<attempts, sent, mined>> /\ pc[w] = "begin"
      BY <3>1 DEF Begin, At
    <3>6. local[w].result.hash = <<>> /\ ~ local[w].result.gas
      BY <3>5, NoHashNoReceipt DEF IInv, WorkersOK, WorkerHolds, Locals, Results
    <3>7. WorkerHolds(w)'
      BY <3>1, <3>2, <3>4, <3>5, <3>6 DEF WorkerHolds, Remembers
    <3>8. ASSUME NEW v \in Workers, v # w PROVE WorkerHolds(v)'
      BY <3>1, <3>5, <3>8, OthersWait DEF IInv, WorkersOK
    <3> QED
      BY <3>1, <3>3, <3>7, <3>8, NoRowChanges DEF WorkersOK, Begin
  <2> QED
    BY <2>1, <2>2, <2>3, <2>4 DEF Begin, d
<1> QED
  BY <1>2, <1>3, <1>4 DEF IInv

LEMMA ReconcileHolds == ASSUME IInv, NEW w \in Workers, Reconcile(w) PROVE IInv'
<1> DEFINE a == local[w].attempt
           result == [hash |-> attempts[a].hash, gas |-> TRUE, terminal |-> None]
<1>1. SessionsOK' /\ RestOK'
  BY DEF IInv, SessionsOK, RestOK, Reconcile, rows, ledger
<1>2. UNCHANGED <<attempts, sent, mined>> /\ pc[w] = "reconcile"
  BY DEF Reconcile, rows, At
<1>3. AttemptsOK' /\ SentOK'
  BY <1>2, NoRowChanges
<1>4. CASE Finish(w)
  <2>1. WorkersOK'
    BY <1>2, <1>4, Finishes, OthersWait DEF WorkersOK
  <2> QED
    BY <1>1, <1>3, <2>1 DEF IInv
<1>5. CASE ~ Finish(w)
  <2>1. a \in Attempts /\ attempts[a].state # "NONE"
    BY <1>2 DEF IInv, WorkersOK, WorkerHolds, Remembers
  <2>2. result \in Results /\ Receipts(attempts[a].hash) # {}
    BY <1>5, <2>1 DEF Reconcile, IInv, AttemptsOK, AttemptRows, Results
  <2>3. attempts[a].hash # <<>> => attempts[a].hash \in sent /\ attempts[a].hash[1] = a
    BY <2>1 DEF IInv, AttemptsOK, RowHolds
  <2>4. /\ local' = [local EXCEPT ![w].result = result]
        /\ pc' = [pc EXCEPT ![w] = "record"]
    BY <1>5 DEF Reconcile, Go
  <2>5. result.hash = attempts[a].hash /\ result.gas
    OBVIOUS
  <2> HIDE DEF result
  <2>6. pc' \in [Workers -> Labels] /\ local' \in [Workers -> Locals]
    BY <2>2, <2>4 DEF IInv, WorkersOK, Labels, Locals
  <2>7. local'[w].result = result /\ local'[w].attempt = a /\ pc'[w] = "record"
    BY <2>4 DEF IInv, WorkersOK, Labels, Locals
  <2>8. WorkerHolds(w)'
    BY <1>2, <2>1, <2>2, <2>3, <2>5, <2>7 DEF WorkerHolds, Remembers, Receipts
  <2>9. ASSUME NEW v \in Workers, v # w PROVE WorkerHolds(v)'
    BY <1>2, <2>4, <2>9, OthersWait DEF IInv, WorkersOK
  <2> QED
    BY <1>1, <1>3, <2>6, <2>8, <2>9 DEF IInv, WorkersOK
<1> QED
  BY <1>4, <1>5

LEMMA RunHolds == ASSUME IInv, NEW w \in Workers, Run(w) PROVE IInv'
<1>1. SessionsOK'
  BY DEF IInv, SessionsOK, Run, rows
<1>2. UNCHANGED <<attempts, sent, mined>> /\ pc[w] = "run"
  BY DEF Run, rows, At
<1>3. AttemptsOK' /\ SentOK'
  BY <1>2, NoRowChanges
<1>4. CASE \E terminal \in {None, "CANCELLED", "OWNER_CHANGED"} : Ends(w, Nothing(terminal))
  <2>1. PICK terminal \in {None, "CANCELLED", "OWNER_CHANGED"} : Ends(w, Nothing(terminal))
    BY <1>4
  <2>2. Nothing(terminal) \in Results /\ Nothing(terminal).hash = <<>> /\ ~ Nothing(terminal).gas
    BY NothingIsAResult DEF Nothing
  <2>3. Remembers(w) /\ attempts'[local[w].attempt].state # "NONE"
    BY <1>2 DEF IInv, WorkersOK, WorkerHolds, Remembers
  <2>4. WorkersOK' /\ lane' \in [holder : Workers \cup {None}, until : Nat]
    BY <1>2, <2>1, <2>2, <2>3, RunEnds, OthersWait DEF WorkersOK
  <2>5. RestOK'
    BY <2>4 DEF IInv, RestOK, Run, rows, ledger
  <2> QED
    BY <1>1, <1>3, <2>4, <2>5 DEF IInv
<1>5. CASE /\ lane' = [holder |-> w, until |-> now + LaneTerm]
           /\ Go(w, "reserve") /\ UNCHANGED local
  <2>1. now + LaneTerm \in Nat
    BY PriorityAssumption DEF IInv, RestOK
  <2>2. RestOK'
    BY <1>5, <2>1 DEF IInv, RestOK, Run, rows, ledger
  <2>3. pc' \in [Workers -> Labels] /\ local' \in [Workers -> Locals]
    BY <1>5 DEF Go, IInv, WorkersOK, Labels
  <2>4. WorkerHolds(w)'
    BY <1>2, <1>5 DEF Go, IInv, WorkersOK, WorkerHolds, Remembers, Receipts
  <2>5. ASSUME NEW v \in Workers, v # w PROVE WorkerHolds(v)'
    BY <1>2, <1>5, <2>5, OthersWait DEF Go, IInv, WorkersOK
  <2> QED
    BY <1>1, <1>3, <2>2, <2>3, <2>4, <2>5 DEF IInv, WorkersOK
<1> QED
  BY <1>4, <1>5 DEF Run

(* The reservation touches the session and the row of its worker only, and *)
(* takes a claimed row, for which nothing was sent.                        *)
LEMMA Reserves ==
    ASSUME IInv, NEW w \in Workers, At(w, "reserve"), ReserveRow(w), UNCHANGED <<sent, mined>>
    PROVE  /\ SessionsOK' /\ AttemptsOK' /\ SentOK'
           /\ attempts'[local[w].attempt].state # "NONE"
           /\ Reservable(w) => /\ attempts'[local[w].attempt].state = "SUBMISSION_RESERVED"
                               /\ attempts'[local[w].attempt].token = w
                               /\ Sends(local[w].attempt) = {}
           /\ \A v \in Workers : pc'[v] = pc[v] /\ local'[v] = local[v] /\ v # w
                                 => WorkerHolds(v)'
<1> DEFINE a == local[w].attempt
           d == attempts[a].session
           row == [attempts[a] EXCEPT !.state = "SUBMISSION_RESERVED", !.until = 0]
<1>1. a \in Attempts /\ attempts[a].state # "NONE" /\ local[w].token = w
  BY DEF At, IInv, WorkersOK, WorkerHolds, Remembers
<1>2. d \in Deposits
  BY <1>1 DEF IInv, AttemptsOK, RowHolds
<1>3. SessionsOK'
  <2>1. sessions' = [sessions EXCEPT ![d] = Expire(d)]
    BY DEF ReserveRow
  <2> HIDE DEF d
  <2>2. sessions' \in [Deposits -> SessionRows]
    BY <1>2, <2>1, ExpireChanges DEF IInv, SessionsOK
  <2>3. \A e \in Deposits : sessions'[e].state = "ACTIVE" => sessions[e].state = "ACTIVE"
    BY <1>2, <2>1, ExpireChanges DEF IInv, SessionsOK
  <2> QED
    BY <2>2, <2>3, SessionsChange
<1>4. CASE Reservable(w)
  <2>1. attempts[a].state = "CLAIMED" /\ attempts[a].token = w
    BY <1>1, <1>4 DEF Reservable
  <2>2. /\ row \in AttemptRows /\ row.state = "SUBMISSION_RESERVED" /\ row.token = w
        /\ row.session = d /\ row.hash = attempts[a].hash
    BY <1>1, <2>1 DEF IInv, AttemptsOK, AttemptRows
  <2>3. attempts' = [attempts EXCEPT ![a] = row]
    BY <1>1, <1>4 DEF ReserveRow, IInv, AttemptsOK, AttemptRows
  <2>4. \A tx \in sent : tx[1] # a
    BY <2>1 DEF IInv, SentOK
  <2>5. \A b \in Attempts \ {a} : Open(b) => attempts[b].session # d
    BY <1>1, <2>1 DEF IInv, AttemptsOK, Open
  <2>6. attempts[a].hash # <<>> => attempts[a].hash \in sent /\ attempts[a].hash[1] = a
    BY <1>1 DEF IInv, AttemptsOK, RowHolds
  <2>7. AttemptsOK' /\ SentOK'
    <3> HIDE DEF row, a, d
    <3>1. row.session \in Deposits /\ (row.hash # <<>> => row.hash \in sent /\ row.hash[1] = a)
      BY <1>2, <2>2, <2>6
    <3>2. \A b \in Attempts \ {a} : Open(b) => attempts[b].session # row.session
      BY <2>2, <2>5
    <3>3. row.state = "SUBMISSION_RESERVED" /\ row \in AttemptRows /\ a \in Attempts
      BY <1>1, <2>2
    <3> QED
      BY <2>3, <3>1, <3>2, <3>3, RowChanges
  <2> HIDE DEF row
  <2>8. attempts'[a] = row /\ \A b \in Attempts \ {a} : attempts'[b] = attempts[b]
    BY <1>1, <2>3 DEF IInv, AttemptsOK
  <2>9. ASSUME NEW v \in Workers, pc'[v] = pc[v], local'[v] = local[v], v # w
        PROVE  WorkerHolds(v)'
    <3>1. Remembers(v) => attempts'[local[v].attempt].state # "NONE"
      BY <2>2, <2>8 DEF IInv, WorkersOK, WorkerHolds, Remembers
    <3>2. pc[v] \in {"send", "reconcile"} => local[v].attempt \in Attempts \ {a}
      BY <2>1 DEF IInv, WorkersOK, WorkerHolds, Remembers
    <3> QED
      BY <2>8, <2>9, <3>1, <3>2, WorkerWaits DEF IInv, WorkersOK, WorkerHolds, Sends
  <2>10. Sends(a) = {}
    BY <2>4 DEF Sends
  <2> QED
    BY <1>3, <2>2, <2>7, <2>8, <2>9, <2>10
<1>5. CASE ~ Reservable(w)
  <2>1. UNCHANGED <<attempts, sent>>
    BY <1>5 DEF ReserveRow
  <2> QED
    BY <1>1, <1>3, <1>5, <2>1, NoRowChanges, OthersWait
<1> QED
  BY <1>4, <1>5

LEMMA ReserveHolds == ASSUME IInv, NEW w \in Workers, Reserve(w) PROVE IInv'
<1>1. At(w, "reserve") /\ ReserveRow(w) /\ UNCHANGED <<ledger, sent, mined, now>>
  BY DEF Reserve
<1>2. /\ SessionsOK' /\ AttemptsOK' /\ SentOK'
      /\ attempts'[local[w].attempt].state # "NONE"
      /\ Reservable(w) => /\ attempts'[local[w].attempt].state = "SUBMISSION_RESERVED"
                          /\ attempts'[local[w].attempt].token = w
                          /\ Sends(local[w].attempt) = {}
      /\ \A v \in Workers : pc'[v] = pc[v] /\ local'[v] = local[v] /\ v # w => WorkerHolds(v)'
  BY <1>1, Reserves
<1>3. CASE Reservable(w)
  <2>1. pc' = [pc EXCEPT ![w] = "send"] /\ UNCHANGED <<local, lane>>
    BY <1>3 DEF Reserve, Go
  <2>2. pc' \in [Workers -> Labels] /\ local' \in [Workers -> Locals]
    BY <2>1 DEF IInv, WorkersOK, Labels
  <2>3. pc[w] = "reserve" /\ pc'[w] = "send" /\ local'[w] = local[w] /\ WorkerHolds(w)
    BY <1>1, <2>1 DEF At, IInv, WorkersOK
  <2>4. WorkerHolds(w)'
    BY <1>1, <1>2, <1>3, <2>3 DEF WorkerHolds, Remembers, Receipts, Sends
  <2>5. \A v \in Workers \ {w} : WorkerHolds(v)'
    BY <1>2, <2>1 DEF IInv, WorkersOK
  <2>6. RestOK'
    BY <1>1, <2>1 DEF IInv, RestOK, ledger
  <2> QED
    BY <1>2, <2>2, <2>4, <2>5, <2>6 DEF IInv, WorkersOK
<1>4. CASE ~ Reservable(w)
  <2>1. Ends(w, Nothing(None))
    BY <1>4 DEF Reserve
  <2>2. Nothing(None).hash = <<>> /\ ~ Nothing(None).gas /\ Remembers(w)
    BY <1>1 DEF Nothing, At, Remembers
  <2>3. /\ pc' \in [Workers -> Labels] /\ local' \in [Workers -> Locals] /\ WorkerHolds(w)'
        /\ lane' \in [holder : Workers \cup {None}, until : Nat]
        /\ \A v \in Workers \ {w} : pc'[v] = pc[v] /\ local'[v] = local[v]
    BY <1>2, <2>1, <2>2, NothingIsAResult, RunEnds
  <2>4. RestOK'
    BY <1>1, <2>3 DEF IInv, RestOK, ledger
  <2> QED
    BY <1>2, <2>3, <2>4 DEF IInv, WorkersOK
<1> QED
  BY <1>3, <1>4

(* A broadcast is the first one for its attempt, whose row is reserved for *)
(* this worker and for no other that is about to send.                     *)
LEMMA Broadcasts ==
    ASSUME IInv, NEW w \in Workers, At(w, "send"), UNCHANGED <<attempts, mined>>,
           sent' \in {sent, sent \cup {Hash(w)}}
    PROVE  /\ AttemptsOK' /\ SentOK'
           /\ Hash(w) \in Hashes /\ Hash(w) # <<>> /\ Hash(w)[1] = local[w].attempt
           /\ \A v \in Workers : pc'[v] = pc[v] /\ local'[v] = local[v] /\ v # w
                                 => WorkerHolds(v)'
<1>0. PICK a \in Attempts : a = local[w].attempt
  BY DEF At, IInv, WorkersOK, WorkerHolds, Remembers
<1>1. /\ a \in Attempts /\ Sends(a) = {}
      /\ attempts[a].state = "SUBMISSION_RESERVED" /\ attempts[a].token = w
  BY <1>0 DEF At, IInv, WorkersOK, WorkerHolds, Remembers
<1>2. PICK tx : tx = Hash(w) /\ tx = <<a, 0>>
  BY <1>0, <1>1, FS_EmptySet DEF Hash
<1>3. tx \in Attempts \X Nat /\ tx # <<>> /\ tx[1] = a /\ tx \in Hashes
  BY <1>1, <1>2 DEF Hashes
<1>4. sent' = sent \/ sent' = sent \cup {tx}
  BY <1>2
<1>5. AttemptsOK'
  BY <1>4 DEF IInv, AttemptsOK, RowHolds, Open
<1>6. SentOK'
  <2>1. \A t \in sent : t[1] # a
    BY <1>1 DEF Sends
  <2>2. sent' \subseteq Attempts \X Nat
    BY <1>3, <1>4 DEF IInv, SentOK
  <2>3. ASSUME NEW t \in sent PROVE Sends(t[1])' = {t}
    BY <1>3, <1>4, <2>1 DEF IInv, SentOK, Sends
  <2>4. tx \in sent' => Sends(tx[1])' = {tx}
    BY <1>3, <1>4, <2>1 DEF Sends
  <2> QED
    BY <1>1, <1>3, <1>4, <2>2, <2>3, <2>4 DEF IInv, SentOK
<1>7. ASSUME NEW v \in Workers, pc'[v] = pc[v], local'[v] = local[v], v # w
      PROVE  WorkerHolds(v)'
  <2>1. pc[v] = "send" => Sends(local[v].attempt)' = {}
    <3>1. pc[v] = "send" => local[v].attempt # a /\ Sends(local[v].attempt) = {}
      BY <1>1, <1>7 DEF IInv, WorkersOK, WorkerHolds
    <3> QED
      BY <1>3, <1>4, <1>7, <3>1 DEF Sends
  <2>2. sent \subseteq sent'
    BY <1>4
  <2> QED
    BY <1>7, <2>1, <2>2, WorkerWaits DEF IInv, WorkersOK, WorkerHolds
<1> QED
  BY <1>0, <1>2, <1>3, <1>5, <1>6, <1>7

LEMMA SendHolds == ASSUME IInv, NEW w \in Workers, Send(w) PROVE IInv'
<1> DEFINE a == local[w].attempt
           tx == Hash(w)
<1>1. pc[w] = "send" /\ UNCHANGED <<attempts, mined>>
  BY DEF Send, At, rows
<1>2. SessionsOK'
  BY DEF IInv, SessionsOK, Send, rows
<1>3. a \in Attempts /\ attempts[a].state # "NONE" /\ WorkerHolds(w)
  BY <1>1 DEF IInv, WorkersOK, WorkerHolds, Remembers
<1>4. /\ AttemptsOK' /\ SentOK' /\ tx \in Hashes /\ tx # <<>> /\ tx[1] = a
      /\ \A v \in Workers : pc'[v] = pc[v] /\ local'[v] = local[v] /\ v # w => WorkerHolds(v)'
  BY <1>1, Broadcasts DEF Send, At
<1>5. CASE Executing
  <2>1. /\ sent' = sent \cup {tx}
        /\ local' = [local EXCEPT ![w].result.hash = tx]
        /\ pc' = [pc EXCEPT ![w] = "note"] /\ UNCHANGED lane
    BY <1>5 DEF Send, Go
  <2> HIDE DEF tx
  <2>2. [local[w].result EXCEPT !.hash = tx] \in Results
    BY <1>4 DEF IInv, WorkersOK, Locals, Results
  <2>3. pc' \in [Workers -> Labels] /\ local' \in [Workers -> Locals]
    BY <2>1, <2>2 DEF IInv, WorkersOK, Labels, Locals
  <2>4. /\ pc'[w] = "note" /\ local'[w].attempt = a /\ local'[w].result.hash = tx
        /\ local'[w].result.gas = local[w].result.gas
    BY <2>1 DEF IInv, WorkersOK, Labels, Locals, Results
  <2>5. ~ local[w].result.gas
    BY <1>1, <1>3, NoHashNoReceipt DEF WorkerHolds, IInv, WorkersOK, Locals, Results
  <2>6. WorkerHolds(w)'
    BY <1>1, <1>3, <1>4, <2>1, <2>4, <2>5 DEF WorkerHolds, Remembers
  <2>7. RestOK'
    BY <2>1 DEF IInv, RestOK, Send, rows, ledger
  <2> QED
    BY <1>2, <1>4, <2>1, <2>3, <2>6, <2>7 DEF IInv, WorkersOK
<1>6. CASE ~ Executing
  <2>1. Ends(w, Nothing(None))
    BY <1>6 DEF Send
  <2>2. Nothing(None).hash = <<>> /\ ~ Nothing(None).gas /\ Remembers(w)
    BY <1>1 DEF Nothing, Remembers
  <2>3. /\ pc' \in [Workers -> Labels] /\ local' \in [Workers -> Locals] /\ WorkerHolds(w)'
        /\ lane' \in [holder : Workers \cup {None}, until : Nat]
        /\ \A v \in Workers \ {w} : pc'[v] = pc[v] /\ local'[v] = local[v]
    BY <1>1, <1>3, <2>1, <2>2, NothingIsAResult, RunEnds
  <2>4. RestOK'
    BY <2>3 DEF IInv, RestOK, Send, rows, ledger
  <2> QED
    BY <1>2, <1>4, <2>3, <2>4 DEF IInv, WorkersOK
<1> QED
  BY <1>5, <1>6

(* The note writes the hash of this worker's own transaction. *)
LEMMA Notes ==
    ASSUME IInv, NEW w \in Workers, At(w, "note"), UNCHANGED <<sent, mined>>,
           NoteRow(w) \/ UNCHANGED attempts
    PROVE  /\ AttemptsOK' /\ SentOK'
           /\ attempts'[local[w].attempt].state # "NONE"
           /\ \A v \in Workers : pc'[v] = pc[v] /\ local'[v] = local[v] => WorkerHolds(v)'
<1> DEFINE a == local[w].attempt
           tx == local[w].result.hash
           row == [attempts[a] EXCEPT !.state = "SUBMITTED", !.hash = tx]
<1>1. /\ a \in Attempts /\ attempts[a].state # "NONE"
      /\ tx # <<>> /\ tx \in sent /\ tx[1] = a /\ tx \in Hashes
  BY DEF At, IInv, WorkersOK, WorkerHolds, Remembers, Locals, Results
<1>2. CASE UNCHANGED attempts
  BY <1>1, <1>2, NoRowChanges, OthersWait
<1>3. CASE ~ UNCHANGED attempts
  <2>1. attempts[a].state = "SUBMISSION_RESERVED"
    BY <1>3 DEF NoteRow
  <2>2. attempts' = [attempts EXCEPT ![a] = row]
    BY <1>3, <1>1 DEF NoteRow, IInv, AttemptsOK, AttemptRows
  <2>3. /\ row \in AttemptRows /\ row.state = "SUBMITTED" /\ row.hash = tx
        /\ row.session = attempts[a].session
    BY <1>1, <2>1 DEF IInv, AttemptsOK, AttemptRows
  <2>4. row.session \in Deposits
    BY <1>1, <2>3 DEF IInv, AttemptsOK, RowHolds
  <2>5. \A b \in Attempts \ {a} : Open(b) => attempts[b].session # attempts[a].session
    BY <1>1, <2>1 DEF IInv, AttemptsOK, Open
  <2>6. \A t \in sent : t[1] = a => t = tx
    BY <1>1 DEF IInv, SentOK, Sends
  <2> HIDE DEF row, tx, a
  <2>7. AttemptsOK' /\ SentOK'
    <3>1. \A b \in Attempts \ {a} : Open(b) => attempts[b].session # row.session
      BY <2>3, <2>5
    <3>2. \A t \in sent : t[1] = a =>
             \/ row.state = "SUBMISSION_RESERVED"
             \/ row.state \in {"SUBMITTED", "RECORDED"} /\ row.hash = t
      BY <2>3, <2>6
    <3> QED
      BY <1>1, <2>2, <2>3, <2>4, <3>1, <3>2, RowChanges
  <2>8. attempts'[a] = row /\ \A b \in Attempts \ {a} : attempts'[b] = attempts[b]
    BY <1>1, <2>2 DEF IInv, AttemptsOK
  <2>9. ASSUME NEW v \in Workers, pc'[v] = pc[v], local'[v] = local[v]
        PROVE  WorkerHolds(v)'
    <3>1. Remembers(v) => attempts'[local[v].attempt].state # "NONE"
      BY <2>3, <2>8 DEF IInv, WorkersOK, WorkerHolds, Remembers
    <3>2. pc[v] = "send" => local[v].attempt \in Attempts \ {a} /\ Sends(local[v].attempt)' = {}
      BY <1>1, <2>9 DEF IInv, WorkersOK, WorkerHolds, Remembers, Sends
    <3>3. pc[v] = "reconcile" => /\ attempts'[local[v].attempt].state \in {"SUBMITTED", "RECORDED"}
                                 /\ attempts'[local[v].attempt].hash # <<>>
      BY <1>1, <2>1, <2>3, <2>8 DEF IInv, WorkersOK, WorkerHolds, Remembers
    <3> QED
      BY <2>8, <2>9, <3>1, <3>2, <3>3, WorkerWaits
  <2> QED
    BY <2>3, <2>7, <2>8, <2>9 DEF a
<1> QED
  BY <1>2, <1>3

LEMMA NoteHolds == ASSUME IInv, NEW w \in Workers, Note(w) PROVE IInv'
<1>1. /\ At(w, "note") /\ NoteRow(w) /\ pc' = [pc EXCEPT ![w] = "await"]
      /\ UNCHANGED <<sessions, ledger, lane, local, sent, mined, now>>
  BY DEF Note, Go
<1>2. /\ AttemptsOK' /\ SentOK' /\ attempts'[local[w].attempt].state # "NONE"
      /\ \A v \in Workers : pc'[v] = pc[v] /\ local'[v] = local[v] => WorkerHolds(v)'
  BY <1>1, Notes
<1>3. SessionsOK' /\ RestOK'
  BY <1>1 DEF IInv, SessionsOK, RestOK, ledger
<1>4. pc' \in [Workers -> Labels] /\ local' \in [Workers -> Locals]
  BY <1>1 DEF IInv, WorkersOK, Labels
<1>5. WorkerHolds(w)'
  <2>1. pc'[w] = "await" /\ local'[w] = local[w] /\ pc[w] = "note" /\ WorkerHolds(w)
    BY <1>1 DEF At, IInv, WorkersOK
  <2> QED
    BY <1>1, <1>2, <2>1 DEF WorkerHolds, Remembers, Receipts
<1>6. \A v \in Workers \ {w} : pc'[v] = pc[v] /\ local'[v] = local[v]
  BY <1>1 DEF IInv, WorkersOK
<1> QED
  BY <1>2, <1>3, <1>4, <1>5, <1>6 DEF IInv, WorkersOK

LEMMA AwaitHolds == ASSUME IInv, NEW w \in Workers, Await(w) PROVE IInv'
<1> DEFINE tx == local[w].result.hash
           result == [hash |-> tx, gas |-> Receipts(tx) # {}, terminal |-> None]
<1>1. UNCHANGED <<rows, sent, mined, now>> /\ pc[w] = "await" /\ Ends(w, result)
  BY DEF Await, At
<1>2. /\ local[w].attempt \in Attempts /\ attempts[local[w].attempt].state # "NONE"
      /\ tx # <<>> /\ tx \in sent /\ tx[1] = local[w].attempt /\ tx \in Hashes /\ Remembers(w)
  BY <1>1 DEF IInv, WorkersOK, WorkerHolds, Remembers, Locals, Results
<1>3. result \in Results
  <2>1. (Receipts(tx) # {}) \in BOOLEAN
    OBVIOUS
  <2> HIDE DEF tx
  <2> QED
    BY <1>2, <2>1 DEF Results
<1>4. result.hash = tx /\ (result.gas => Receipts(tx) # {})
  OBVIOUS
<1>5. UNCHANGED <<attempts, sent, mined>> /\ tx \in sent'
  BY <1>1, <1>2 DEF rows
<1>6. /\ pc' \in [Workers -> Labels] /\ local' \in [Workers -> Locals] /\ WorkerHolds(w)'
      /\ lane' \in [holder : Workers \cup {None}, until : Nat]
      /\ \A v \in Workers \ {w} : pc'[v] = pc[v] /\ local'[v] = local[v]
  <2>1. PICK r \in Results : r = result
    BY <1>3
  <2>2. attempts'[local[w].attempt].state # "NONE" /\ r.hash = tx
    BY <1>2, <1>4, <1>5, <2>1
  <2>3. r.gas => Receipts(r.hash)' # {}
    BY <1>4, <1>5, <2>1, <2>2 DEF Receipts
  <2> HIDE DEF result
  <2> QED
    BY <1>1, <1>2, <1>5, <2>1, <2>2, <2>3, RunEnds
<1>7. SessionsOK' /\ RestOK'
  BY <1>1, <1>6 DEF IInv, SessionsOK, RestOK, rows, ledger
<1>8. \A v \in Workers \ {w} : WorkerHolds(v)'
  BY <1>5, <1>6, OthersWait
<1> QED
  BY <1>5, <1>6, <1>7, <1>8, NoRowChanges DEF IInv, WorkersOK

LEMMA CallFailsHolds == ASSUME IInv, NEW w \in Workers, CallFails(w) PROVE IInv'
<1>0. PICK r \in Results : r = [hash |-> local[w].result.hash, gas |-> FALSE, terminal |-> None]
  BY DEF IInv, WorkersOK, Locals, Results
<1>1. /\ Ends(w, r) /\ UNCHANGED <<ledger, mined, now>>
      /\ r.hash = local[w].result.hash /\ ~ r.gas
      /\ pc[w] \in {"reserve", "send", "note"}
  BY <1>0 DEF CallFails, At
<1>2. local[w].attempt \in Attempts /\ attempts[local[w].attempt].state # "NONE" /\ Remembers(w)
  BY <1>1 DEF IInv, WorkersOK, WorkerHolds, Remembers
<1>3. /\ SessionsOK' /\ AttemptsOK' /\ SentOK' /\ sent \subseteq sent'
      /\ attempts'[local[w].attempt].state # "NONE"
      /\ \A v \in Workers : pc'[v] = pc[v] /\ local'[v] = local[v] /\ v # w => WorkerHolds(v)'
  <2>1. CASE pc[w] = "reserve"
    <3>1. sent' = sent /\ (ReserveRow(w) \/ UNCHANGED <<sessions, line, attempts>>)
      BY <2>1 DEF CallFails, At
    <3>2. CASE ReserveRow(w)
      BY <1>1, <2>1, <3>1, <3>2, Reserves DEF At
    <3>3. CASE UNCHANGED <<sessions, line, attempts>>
      BY <1>1, <1>2, <3>1, <3>3, NoRowChanges, OthersWait DEF IInv, SessionsOK
    <3> QED
      BY <3>1, <3>2, <3>3
  <2>2. CASE pc[w] = "send"
    <3>1. sent' \in {sent, sent \cup {Hash(w)}} /\ UNCHANGED <<sessions, attempts>>
      BY <2>2 DEF CallFails, At
    <3>2. sent \subseteq sent'
      BY <3>1
    <3> QED
      BY <1>1, <1>2, <2>2, <3>1, <3>2, Broadcasts DEF At, IInv, SessionsOK
  <2>3. CASE pc[w] = "note"
    <3>1. (NoteRow(w) \/ UNCHANGED attempts) /\ UNCHANGED <<sessions, sent>>
      BY <2>3 DEF CallFails, At
    <3> QED
      BY <1>1, <2>3, <3>1, Notes DEF At, IInv, SessionsOK
  <2> QED
    BY <1>1, <2>1, <2>2, <2>3
<1>4. r.hash # <<>> => r.hash \in sent' /\ r.hash[1] = local[w].attempt
  BY <1>1, <1>3 DEF IInv, WorkersOK, WorkerHolds
<1>5. /\ pc' \in [Workers -> Labels] /\ local' \in [Workers -> Locals] /\ WorkerHolds(w)'
      /\ lane' \in [holder : Workers \cup {None}, until : Nat]
      /\ \A v \in Workers \ {w} : pc'[v] = pc[v] /\ local'[v] = local[v]
  BY <1>1, <1>2, <1>3, <1>4, RunEnds
<1>6. RestOK'
  BY <1>1, <1>5 DEF IInv, RestOK, ledger
<1> QED
  BY <1>3, <1>5, <1>6 DEF IInv, WorkersOK

LEMMA DieHolds == ASSUME IInv, NEW w \in Workers, Die(w) PROVE IInv'
<1>1. Finish(w) /\ UNCHANGED <<attempts, sent, mined>>
  BY DEF Die, rows
<1>2. SessionsOK' /\ RestOK'
  BY DEF IInv, SessionsOK, RestOK, Die, rows, ledger
<1> QED
  BY <1>1, <1>2, Finishes, OthersWait, NoRowChanges DEF IInv, WorkersOK

LEMMA MineHolds == ASSUME IInv, NEW tx \in sent, Mine(tx) PROVE IInv'
<1>1. UNCHANGED <<sessions, attempts, gas, lane, pc, local, sent, now>>
  BY DEF Mine, rows, ledger, worker
<1>2. PICK ok \in BOOLEAN, cost \in Costs :
          mined' = mined \cup {[tx |-> tx, ok |-> ok, cost |-> cost]}
  BY DEF Mine
<1>3. tx \in Attempts \X Nat
  BY DEF IInv, SentOK
<1>4. SessionsOK' /\ RestOK'
  BY <1>1, <1>2, <1>3 DEF IInv, SessionsOK, RestOK
<1>5. mined \subseteq mined'
  BY <1>2
<1> QED
  BY <1>1, <1>4, <1>5, NoRowChanges, WorkersWait DEF IInv

LEMMA TickHolds == ASSUME IInv, Tick PROVE IInv'
<1>1. SessionsOK' /\ RestOK'
  BY DEF IInv, SessionsOK, RestOK, Tick, rows, ledger
<1> QED
  BY <1>1, NoRowChanges, WorkersWait DEF IInv, Tick, rows, worker

(* What the record function accepts: a row that is not recorded yet and,   *)
(* where something was sent for it, exactly that transaction with its      *)
(* receipt.                                                                *)
LEMMA Accepts ==
    ASSUME IInv, NEW w \in Workers, At(w, "record"),
           NEW a \in Attempts, a = local[w].attempt,
           NEW tx, tx = local[w].result.hash,
           attempts[a].state # "RECORDED", ~ Raises(attempts[a], w)
    PROVE  /\ attempts[a].state \in {"CLAIMED", "SUBMISSION_RESERVED", "SUBMITTED"}
           /\ attempts[a].session \in Deposits
           /\ tx \in Hashes
           /\ tx = <<>> => attempts[a].state = "CLAIMED" /\ \A t \in sent : t[1] # a
           /\ tx # <<>> => /\ tx \in sent /\ tx[1] = a /\ Receipts(tx) # {}
                           /\ \A t \in sent : t[1] = a => t = tx
                           /\ attempts[a].state # "CLAIMED"
           /\ attempts[a].state = "SUBMITTED" => attempts[a].hash = tx
<1>1. attempts[a].state # "NONE" /\ tx \in Hashes
  BY DEF At, IInv, WorkersOK, WorkerHolds, Remembers, Locals, Results
<1>2. /\ attempts[a].state \in {"CLAIMED", "SUBMISSION_RESERVED", "SUBMITTED"}
      /\ attempts[a].session \in Deposits
  BY <1>1 DEF IInv, AttemptsOK, AttemptRows, RowHolds
<1>3. attempts[a].state = "SUBMITTED" => attempts[a].hash = tx /\ tx # <<>>
  BY DEF Raises, IInv, AttemptsOK, RowHolds
<1>4. ASSUME tx = <<>> PROVE attempts[a].state = "CLAIMED" /\ \A t \in sent : t[1] # a
  <2>1. attempts[a].state = "CLAIMED"
    BY <1>2, <1>3, <1>4 DEF Raises
  <2> QED
    BY <2>1 DEF IInv, SentOK
<1>5. ASSUME tx # <<>>
      PROVE  /\ tx \in sent /\ tx[1] = a /\ Receipts(tx) # {} /\ attempts[a].state # "CLAIMED"
             /\ \A t \in sent : t[1] = a => t = tx
  <2>1. tx \in sent /\ tx[1] = a
    BY <1>5 DEF IInv, WorkersOK, WorkerHolds
  <2>2. local[w].result.gas /\ attempts[a].state # "CLAIMED"
    BY <1>5 DEF Raises
  <2>3. Receipts(tx) # {}
    BY <2>2 DEF IInv, WorkersOK, WorkerHolds
  <2> QED
    BY <2>1, <2>2, <2>3 DEF IInv, SentOK, Sends
<1> QED
  BY <1>1, <1>2, <1>3, <1>4, <1>5

(* No charge is more than what is left of the deposits. *)
LEMMA ChargeIsCovered ==
    ASSUME IInv, NEW p \in Punks, NEW cost \in Nat
    PROVE  /\ Charge(p, cost) \in Nat /\ Charge(p, cost) <= cost
           /\ gas[p].spent + Charge(p, cost) <= gas[p].credited
<1> DEFINE left == gas[p].credited - gas[p].spent
<1>1. left \in Nat /\ gas[p].spent \in Nat /\ gas[p].credited \in Nat
  BY DEF IInv, RestOK
<1>2. Charge(p, cost) = CHOOSE x \in {cost, left} : \A y \in {cost, left} : x <= y
  BY DEF Charge, Min
<1> HIDE DEF left
<1>3. \E x \in {cost, left} : \A y \in {cost, left} : x <= y
  BY <1>1
<1>4. Charge(p, cost) \in {cost, left} /\ Charge(p, cost) <= cost /\ Charge(p, cost) <= left
  BY <1>2, <1>3
<1> QED
  BY <1>1, <1>4 DEF left

LEMMA SessionAfterChanges ==
    ASSUME IInv, NEW d \in Deposits, NEW minted \in BOOLEAN,
           NEW terminal \in {None, "CANCELLED", "OWNER_CHANGED"}
    PROVE  /\ SessionAfter(d, minted, terminal) \in SessionRows
           /\ SessionAfter(d, minted, terminal).state = "ACTIVE" => sessions[d].state = "ACTIVE"
<1>1. /\ sessions[d] \in SessionRows /\ sessions[d].done \in Nat
  BY DEF IInv, SessionsOK, SessionRows
<1>2. PICK n \in Nat : n = sessions[d].done + IF minted THEN 1 ELSE 0
  BY <1>1
<1>3. PICK s : s = IF terminal # None THEN terminal
                   ELSE IF n >= Requested[d] THEN "COMPLETE"
                   ELSE IF sessions[d].expires <= now THEN "EXPIRED" ELSE sessions[d].state
  OBVIOUS
<1>4. s \in SessionStates /\ (s = "ACTIVE" => sessions[d].state = "ACTIVE")
  BY <1>1, <1>3 DEF SessionStates, SessionRows, None
<1>5. SessionAfter(d, minted, terminal) =
          IF sessions[d].state \notin {"ACTIVE", "COMPLETE", "EXPIRED"} THEN sessions[d]
          ELSE [sessions[d] EXCEPT !.done = n, !.state = s]
  BY <1>1, <1>2, <1>3 DEF SessionAfter, SessionRows
<1> QED
  BY <1>1, <1>4, <1>5 DEF SessionRows

LEMMA SettleHolds ==
    ASSUME IInv, NEW w \in Workers, At(w, "record"),
           NEW a \in Attempts, a = local[w].attempt,
           attempts[a].state # "RECORDED", ~ Raises(attempts[a], w),
           Settle(w, a, local[w].result.hash, local[w].result.terminal),
           Finish(w), UNCHANGED <<lane, sent, mined, now, faults>>
    PROVE  IInv'
<1> DEFINE d == attempts[a].session
           p == PunkOf[d]
<1>0. PICK tx, terminal : tx = local[w].result.hash /\ terminal = local[w].result.terminal
  OBVIOUS
<1> DEFINE receipt == CHOOSE m \in Receipts(tx) : TRUE
           charged == tx # <<>> /\ ~ \E u \in usage : u.tx = tx
           minted == charged /\ Minted(receipt)
           row == Recorded(a, tx, minted, Workers \ {w})
<1>1. /\ attempts[a].state \in {"CLAIMED", "SUBMISSION_RESERVED", "SUBMITTED"}
      /\ d \in Deposits
      /\ tx \in Hashes
      /\ tx = <<>> => attempts[a].state = "CLAIMED" /\ \A t \in sent : t[1] # a
      /\ tx # <<>> => /\ tx \in sent /\ tx[1] = a /\ Receipts(tx) # {}
                      /\ \A t \in sent : t[1] = a => t = tx
                      /\ attempts[a].state # "CLAIMED"
      /\ attempts[a].state = "SUBMITTED" => attempts[a].hash = tx
  BY <1>0, Accepts
<1>2. terminal \in {None, "CANCELLED", "OWNER_CHANGED"}
  BY <1>0 DEF IInv, WorkersOK, Locals, Results
<1>3. charged => receipt \in mined /\ receipt.ok \in BOOLEAN /\ receipt.cost \in Nat
  <2>1. charged => receipt \in Receipts(tx)
    BY <1>1
  <2> QED
    BY <2>1, PriorityAssumption DEF Receipts, IInv, RestOK
<1>4. minted \in BOOLEAN
  OBVIOUS
<1>5. /\ charged => gas' = [gas EXCEPT ![p].spent = @ + Charge(p, receipt.cost)]
      /\ ~ charged => gas' = gas
      /\ sessions' = [sessions EXCEPT ![d] = SessionAfter(d, minted, terminal)]
      /\ attempts' = [attempts EXCEPT ![a] = row]
  BY <1>0 DEF Settle, ledger
<1> HIDE DEF charged, minted, receipt
<1>6. SessionsOK'
  <2> HIDE DEF d
  <2>1. sessions' \in [Deposits -> SessionRows]
    BY <1>1, <1>2, <1>4, <1>5, SessionAfterChanges DEF IInv, SessionsOK
  <2>2. \A e \in Deposits : sessions'[e].state = "ACTIVE" => sessions[e].state = "ACTIVE"
    BY <1>1, <1>2, <1>4, <1>5, SessionAfterChanges DEF IInv, SessionsOK
  <2> QED
    BY <2>1, <2>2, SessionsChange
<1>7. RestOK'
  <2>1. p \in Punks
    BY <1>1 DEF Punks
  <2>2. CASE charged
    <3> HIDE DEF p
    <3>1. PICK c \in Nat : c = Charge(p, receipt.cost) /\ gas[p].spent + c <= gas[p].credited
      BY <1>3, <2>1, <2>2, ChargeIsCovered
    <3>2. gas' = [gas EXCEPT ![p].spent = @ + c]
      BY <1>5, <2>2, <3>1
    <3> QED
      BY <2>1, <3>1, <3>2 DEF IInv, RestOK
  <2>3. CASE ~ charged
    BY <1>5, <2>3 DEF IInv, RestOK
  <2> QED
    BY <2>2, <2>3
<1>8. /\ row \in AttemptRows /\ row.state \in {"NONE", "RECORDED"}
      /\ row.state = "RECORDED" => row.session = d /\ row.hash = tx
      /\ row.state = "NONE" => tx = <<>> /\ row.hash = <<>>
                               /\ \A v \in Workers \ {w} : local[v].attempt # a
  <2>1. CASE tx = <<>> /\ \A v \in Workers \ {w} : local[v].attempt # a
    <3>1. row = NoAttempt
      BY <2>1 DEF Recorded
    <3>2. NoAttempt \in AttemptRows /\ NoAttempt.state = "NONE" /\ NoAttempt.hash = <<>>
      BY DEF NoAttempt, AttemptRows, Hashes
    <3> HIDE DEF row
    <3> QED
      BY <2>1, <3>1, <3>2
  <2>2. CASE ~ (tx = <<>> /\ \A v \in Workers \ {w} : local[v].attempt # a)
    <3>1. row = [attempts[a] EXCEPT !.state = "RECORDED", !.minted = minted, !.hash = tx,
                                    !.token = None, !.until = 0]
      BY <2>2 DEF Recorded
    <3>2. attempts[a] \in AttemptRows
      BY DEF IInv, AttemptsOK
    <3> HIDE DEF row
    <3> QED
      BY <1>1, <1>4, <3>1, <3>2 DEF AttemptRows
  <2> QED
    BY <2>1, <2>2
<1> HIDE DEF row, d
<1>9. PICK r \in AttemptRows : r = row
  BY <1>8
<1>10. AttemptsOK' /\ SentOK'
  <2>1. /\ attempts' = [attempts EXCEPT ![a] = r] /\ r.state \in {"NONE", "RECORDED"}
        /\ r.state # "NONE" => r.session \in Deposits
        /\ r.hash # <<>> => r.hash \in sent /\ r.hash[1] = a
    BY <1>1, <1>5, <1>8, <1>9
  <2>2. \A t \in sent : t[1] = a =>
            \/ r.state = "SUBMISSION_RESERVED"
            \/ r.state \in {"SUBMITTED", "RECORDED"} /\ r.hash = t
    BY <1>1, <1>8, <1>9
  <2>3. /\ r.state = "SUBMITTED" => r.hash # <<>>
        /\ r.state \notin {"NONE", "RECORDED"} =>
               \A b \in Attempts \ {a} : Open(b) => attempts[b].session # r.session
    BY <2>1
  <2> HIDE DEF p
  <2> QED
    BY <2>1, <2>2, <2>3, RowChanges
<1>11. /\ attempts'[a] = r /\ \A b \in Attempts \ {a} : attempts'[b] = attempts[b]
  BY <1>5, <1>9 DEF IInv, AttemptsOK
<1>12. ASSUME NEW v \in Workers, v # w PROVE WorkerHolds(v)'
  <2>1. pc'[v] = pc[v] /\ local'[v] = local[v]
    BY <1>12, Finishes
  <2>2. Remembers(v) => attempts'[local[v].attempt].state # "NONE"
    BY <1>8, <1>9, <1>11, <1>12 DEF IInv, WorkersOK, WorkerHolds, Remembers
  <2>3. pc[v] = "send" => local[v].attempt \in Attempts \ {a} /\ Sends(local[v].attempt) = {}
    BY <1>1 DEF IInv, WorkersOK, WorkerHolds, Remembers, Sends
  <2>4. pc[v] = "reconcile" => /\ attempts'[local[v].attempt].state \in {"SUBMITTED", "RECORDED"}
                               /\ attempts'[local[v].attempt].hash # <<>>
    BY <1>1, <1>8, <1>9, <1>11, <2>2 DEF IInv, WorkersOK, WorkerHolds, Remembers
  <2>5. pc[v] = "send" => attempts'[local[v].attempt] = attempts[local[v].attempt]
                          /\ Sends(local[v].attempt)' = {}
    BY <1>11, <2>1, <2>3 DEF Sends
  <2> QED
    BY <2>1, <2>2, <2>4, <2>5, WorkerWaits
<1> QED
  BY <1>6, <1>7, <1>10, <1>12, Finishes DEF IInv, WorkersOK

LEMMA RecordHolds == ASSUME IInv, NEW w \in Workers, Record(w) PROVE IInv'
<1>1. At(w, "record") /\ Finish(w) /\ UNCHANGED <<lane, sent, mined, now, faults>>
  BY DEF Record
<1>2. PICK a \in Attempts : a = local[w].attempt
  BY <1>1 DEF At, IInv, WorkersOK, WorkerHolds, Remembers
<1>3. CASE attempts[a].state = "RECORDED" \/ Raises(attempts[a], w)
  <2>1. UNCHANGED rows
    BY <1>2, <1>3 DEF Record
  <2>2. SessionsOK' /\ RestOK'
    BY <1>1, <2>1 DEF IInv, SessionsOK, RestOK, rows, ledger
  <2> QED
    BY <1>1, <2>1, <2>2, Finishes, OthersWait, NoRowChanges DEF IInv, WorkersOK, rows
<1>4. CASE ~ (attempts[a].state = "RECORDED" \/ Raises(attempts[a], w))
  <2>1. Settle(w, a, local[w].result.hash, local[w].result.terminal)
    BY <1>2, <1>4 DEF Record
  <2> QED
    BY <1>1, <1>2, <1>4, <2>1, SettleHolds
<1> QED
  BY <1>3, <1>4

LEMMA RowRecorded ==
    ASSUME NEW row \in AttemptRows
    PROVE  [row EXCEPT !.state = "RECORDED", !.minted = FALSE, !.hash = <<>>,
                       !.token = None, !.until = 0] \in AttemptRows
  BY DEF AttemptRows, Hashes

(* The retirement closes the claimed rows, for which nothing was sent.     *)
LEMMA RetireHolds == ASSUME IInv, Retire PROVE IInv'
<1>1. UNCHANGED <<gas, lane, pc, local, sent, mined, now>>
  BY DEF Retire, ledger, worker
<1>2. SessionsOK'
  <2>1. \A d \in Deposits : sessions'[d] \in SessionRows
    BY DEF Retire, IInv, SessionsOK, SessionRows, SessionStates
  <2>2. sessions' \in [Deposits -> SessionRows]
    BY <2>1 DEF Retire
  <2>3. \A d \in Deposits : sessions'[d].state = "ACTIVE" => sessions[d].state = "ACTIVE"
    BY DEF Retire, IInv, SessionsOK, SessionRows
  <2> QED
    BY <2>2, <2>3, SessionsChange
<1>3. ASSUME NEW a \in Attempts
      PROVE  /\ attempts'[a] \in AttemptRows
             /\ attempts[a].state # "CLAIMED" => attempts'[a] = attempts[a]
             /\ attempts[a].state = "CLAIMED" =>
                   /\ attempts'[a].state \in {"NONE", "RECORDED"} /\ attempts'[a].hash = <<>>
                   /\ attempts'[a].state = "RECORDED" =>
                         attempts'[a].session = attempts[a].session
                   /\ attempts'[a].state = "NONE" => \A w \in Workers : local[w].attempt # a
  <2>1. NoAttempt \in AttemptRows /\ NoAttempt.state = "NONE" /\ NoAttempt.hash = <<>>
    BY DEF NoAttempt, AttemptRows, Hashes
  <2>2. attempts[a] \in AttemptRows
    BY DEF IInv, AttemptsOK
  <2>3. attempts'[a] = IF attempts[a].state = "CLAIMED"
                       THEN Recorded(a, <<>>, FALSE, Workers) ELSE attempts[a]
    BY DEF Retire
  <2>4. CASE attempts'[a] = NoAttempt /\ attempts[a].state = "CLAIMED"
             /\ \A w \in Workers : local[w].attempt # a
    BY <2>1, <2>4
  <2>5. CASE attempts'[a] = [attempts[a] EXCEPT !.state = "RECORDED", !.minted = FALSE,
                                 !.hash = <<>>, !.token = None, !.until = 0]
             /\ attempts[a].state = "CLAIMED"
    <3>1. attempts'[a] \in AttemptRows
      BY <2>2, <2>5, RowRecorded DEF Hashes
    <3>2. /\ attempts'[a].state = "RECORDED" /\ attempts'[a].hash = <<>>
          /\ attempts'[a].session = attempts[a].session
      BY <2>2, <2>5 DEF AttemptRows
    <3> QED
      BY <2>5, <3>1, <3>2
  <2> QED
    BY <2>2, <2>3, <2>4, <2>5 DEF Recorded
<1>4. AttemptsOK'
  <2>1. attempts' \in [Attempts -> AttemptRows]
    BY <1>3 DEF Retire
  <2>2. ASSUME NEW a \in Attempts PROVE RowHolds(a)'
    BY <1>1, <1>3 DEF IInv, AttemptsOK, RowHolds
  <2>3. ASSUME NEW a \in Attempts, NEW b \in Attempts, Open(a)', Open(b)',
               attempts'[a].session = attempts'[b].session
        PROVE  a = b
    BY <1>3, <2>3 DEF IInv, AttemptsOK, Open
  <2> QED
    BY <2>1, <2>2, <2>3 DEF AttemptsOK
<1>5. SentOK'
  <2>1. ASSUME NEW tx \in sent PROVE attempts'[tx[1]] = attempts[tx[1]]
    BY <1>3 DEF IInv, SentOK
  <2> QED
    BY <1>1, <2>1 DEF IInv, SentOK, Sends
<1>6. ASSUME NEW w \in Workers PROVE WorkerHolds(w)'
  <2>1. Remembers(w) => local[w].attempt \in Attempts
    BY DEF IInv, WorkersOK, WorkerHolds
  <2>2. Remembers(w) => attempts'[local[w].attempt].state # "NONE"
    BY <1>3, <2>1 DEF IInv, WorkersOK, WorkerHolds
  <2>3. pc[w] \in {"send", "reconcile"} =>
            attempts'[local[w].attempt] = attempts[local[w].attempt]
    BY <1>3, <2>1 DEF IInv, WorkersOK, WorkerHolds, Remembers
  <2>4. pc[w] = "send" => Sends(local[w].attempt)' = {}
    BY <1>1 DEF IInv, WorkersOK, WorkerHolds, Sends
  <2>5. pc[w] = "reconcile" => /\ attempts'[local[w].attempt].state \in {"SUBMITTED", "RECORDED"}
                               /\ attempts'[local[w].attempt].hash # <<>>
    BY <2>3 DEF IInv, WorkersOK, WorkerHolds
  <2>6. pc'[w] = pc[w] /\ local'[w] = local[w] /\ sent \subseteq sent' /\ mined \subseteq mined'
    BY <1>1
  <2> QED
    BY <2>2, <2>3, <2>4, <2>5, <2>6, WorkerWaits
<1> QED
  BY <1>1, <1>2, <1>4, <1>5, <1>6 DEF IInv, RestOK, WorkersOK

LEMMA StepHolds == IInv /\ [Next]_vars => IInv'
<1> SUFFICES ASSUME IInv, [Next]_vars PROVE IInv'
  OBVIOUS
<1>1. CASE \E d \in Deposits : Start(d)
  BY <1>1, StartHolds
<1>2. CASE \E w \in Workers : WorkerStep(w)
  BY <1>2, NextSessionHolds, BeginHolds, ReconcileHolds, RunHolds, ReserveHolds, SendHolds,
     NoteHolds, AwaitHolds, RecordHolds DEF WorkerStep
<1>3. CASE \E w \in Workers : Die(w) \/ CallFails(w)
  BY <1>3, DieHolds, CallFailsHolds
<1>4. CASE Retire
  BY <1>4, RetireHolds
<1>5. CASE \E tx \in sent : Mine(tx)
  BY <1>5, MineHolds
<1>6. CASE Tick
  BY <1>6, TickHolds
<1>7. CASE UNCHANGED vars
  <2>1. UNCHANGED <<sessions, attempts, gas, lane, pc, local, sent, mined, now>>
    BY <1>7 DEF vars, rows, ledger, worker
  <2>2. SessionsOK' /\ RestOK'
    BY <2>1 DEF IInv, SessionsOK, RestOK
  <2> QED
    BY <2>1, <2>2, NoRowChanges, WorkersWait DEF IInv
<1> QED
  BY <1>1, <1>2, <1>3, <1>4, <1>5, <1>6, <1>7 DEF Next

LEMMA Inductive == Spec => []IInv
  BY InitHolds, StepHolds, PTL DEF Spec

(* Every row, account and worker keeps its shape; a Punk has at most one   *)
(* active session, and a session at most one open attempt.                 *)
THEOREM PriorityTypes == Spec => []PriorityTypeOK
  BY Inductive, IInvSuffices, PTL

(* "Once reserved, automatic retries cannot submit": no attempt ever sends *)
(* two transactions, and none is recorded, nor a next one claimed, over a  *)
(* transaction that nobody wrote down.                                     *)
THEOREM NothingIsForgotten == Spec => []NothingSentIsForgotten
  BY Inductive, IInvSuffices, PTL

---------------------------------------------------------------------------
(* What any step does to a session, to a row and to the transactions: a    *)
(* session that is over stays so; a row changes its session only before it *)
(* is reserved, and is reserved only for an active session; and a          *)
(* transaction is sent only for a row that is reserved.                    *)
Ended(d) == sessions[d].state \notin {"NONE", "ACTIVE"}
SessionSteps == \A d \in Deposits : Ended(d) => Ended(d)'
Reserved(a) == attempts[a].state = "SUBMISSION_RESERVED"
RowSteps ==
    \A a \in Attempts :
        \/ /\ attempts'[a].session = attempts[a].session
           /\ Reserved(a)' => Reserved(a) \/ sessions[attempts[a].session].state = "ACTIVE"
        \/ attempts[a].state \in {"NONE", "CLAIMED"} /\ ~ Reserved(a)'
SentSteps == \/ sent' = sent
             \/ \E tx \in Attempts \X Nat : /\ Reserved(tx[1]) /\ attempts' = attempts
                                            /\ sent' = sent \cup {tx}

LEMMA ReserveSteps ==
    ASSUME IInv, NEW w \in Workers, At(w, "reserve"), ReserveRow(w)
    PROVE  SessionSteps /\ RowSteps
<1>0. PICK a \in Attempts : a = local[w].attempt /\ attempts[a].state # "NONE"
  BY DEF At, IInv, WorkersOK, WorkerHolds, Remembers
<1>1. PICK d \in Deposits : d = attempts[a].session
  BY <1>0 DEF IInv, AttemptsOK, RowHolds
<1>2. sessions' = [sessions EXCEPT ![d] = Expire(d)]
  BY <1>0, <1>1 DEF ReserveRow
<1>3. SessionSteps
  BY <1>1, <1>2 DEF SessionSteps, Ended, Expire, IInv, SessionsOK
<1>4. CASE Reservable(w)
  <2>1. sessions[d].state = "ACTIVE"
    BY <1>0, <1>1, <1>4 DEF Reservable
  <2>2. attempts' = [attempts EXCEPT ![a].state = "SUBMISSION_RESERVED", ![a].until = 0]
    BY <1>0, <1>4 DEF ReserveRow
  <2>3. attempts[a] \in AttemptRows
    BY DEF IInv, AttemptsOK
  <2>4. attempts'[a].session = d
    BY <1>1, <2>2, <2>3 DEF AttemptRows, IInv, AttemptsOK
  <2>5. ASSUME NEW b \in Attempts, b # a PROVE attempts'[b] = attempts[b]
    BY <2>2, <2>5 DEF IInv, AttemptsOK
  <2> QED
    BY <1>1, <1>3, <2>1, <2>4, <2>5 DEF RowSteps, Reserved
<1>5. CASE ~ Reservable(w)
  BY <1>3, <1>5 DEF ReserveRow, RowSteps, Reserved
<1> QED
  BY <1>4, <1>5

LEMMA NoteSteps ==
    ASSUME IInv, NEW w \in Workers, NoteRow(w)
    PROVE  RowSteps
<1>1. CASE attempts' = attempts
  BY <1>1 DEF RowSteps, Reserved
<1>2. CASE attempts' # attempts
  <2>1. PICK a, tx : attempts' = [attempts EXCEPT ![a].state = "SUBMITTED", ![a].hash = tx]
    BY <1>2 DEF NoteRow
  <2>2. ASSUME NEW b \in Attempts PROVE attempts'[b].session = attempts[b].session
    BY <2>1 DEF IInv, AttemptsOK, AttemptRows
  <2>3. ASSUME NEW b \in Attempts PROVE Reserved(b)' => Reserved(b)
    BY <2>1 DEF IInv, AttemptsOK, AttemptRows, Reserved
  <2> QED
    BY <2>2, <2>3 DEF RowSteps
<1> QED
  BY <1>1, <1>2

LEMMA SendSteps ==
    ASSUME IInv, NEW w \in Workers, At(w, "send"), UNCHANGED attempts,
           sent' \in {sent, sent \cup {Hash(w)}}
    PROVE  RowSteps /\ SentSteps
<1>1. PICK a \in Attempts : a = local[w].attempt /\ Sends(a) = {} /\ Reserved(a)
  BY DEF At, IInv, WorkersOK, WorkerHolds, Remembers, Reserved
<1>2. PICK tx : tx = Hash(w) /\ tx = <<a, 0>>
  BY <1>1, FS_EmptySet DEF Hash
<1>3. tx \in Attempts \X Nat /\ tx[1] = a
  BY <1>2
<1> QED
  BY <1>1, <1>2, <1>3 DEF RowSteps, SentSteps, Reserved

LEMMA RecordSteps ==
    ASSUME IInv, NEW w \in Workers, Record(w)
    PROVE  SessionSteps /\ RowSteps
<1>1. PICK a \in Attempts : a = local[w].attempt /\ At(w, "record")
  BY DEF Record, At, IInv, WorkersOK, WorkerHolds, Remembers
<1>2. CASE attempts[a].state = "RECORDED" \/ Raises(attempts[a], w)
  BY <1>1, <1>2 DEF Record, rows, SessionSteps, Ended, RowSteps, Reserved
<1>3. CASE ~ (attempts[a].state = "RECORDED" \/ Raises(attempts[a], w))
  <2>0. PICK d \in Deposits : d = attempts[a].session
    BY <1>1, <1>3, Accepts
  <2>1. PICK tx, terminal, minted :
            /\ tx = local[w].result.hash /\ terminal = local[w].result.terminal
            /\ sessions' = [sessions EXCEPT ![d] = SessionAfter(d, minted, terminal)]
            /\ attempts' = [attempts EXCEPT ![a] = Recorded(a, tx, minted, Workers \ {w})]
    <3>1. Settle(w, a, local[w].result.hash, local[w].result.terminal)
      BY <1>1, <1>3 DEF Record
    <3> QED
      BY <2>0, <3>1, Zenon DEF Settle
  <2>2. terminal \in {None, "CANCELLED", "OWNER_CHANGED"}
    BY <2>1 DEF IInv, WorkersOK, Locals, Results
  <2>3. sessions[d] \in SessionRows
    BY DEF IInv, SessionsOK
  <2>4. sessions[d].state \notin {"NONE", "ACTIVE"} =>
            SessionAfter(d, minted, terminal).state \notin {"NONE", "ACTIVE"}
    BY <2>2, <2>3 DEF SessionAfter, SessionRows, None
  <2>5. SessionSteps
    BY <2>1, <2>4 DEF SessionSteps, Ended, IInv, SessionsOK
  <2>6. tx = <<>> => attempts[a].state = "CLAIMED"
    BY <1>1, <1>3, <2>1, Accepts
  <2>7. attempts[a] \in AttemptRows
    BY DEF IInv, AttemptsOK
  <2>8. \/ tx = <<>> /\ Recorded(a, tx, minted, Workers \ {w}) = NoAttempt
        \/ /\ Recorded(a, tx, minted, Workers \ {w}).state = "RECORDED"
           /\ Recorded(a, tx, minted, Workers \ {w}).session = d
    BY <2>0, <2>7 DEF Recorded, AttemptRows
  <2>9. ASSUME NEW b \in Attempts, b # a PROVE attempts'[b] = attempts[b]
    BY <2>1, <2>9 DEF IInv, AttemptsOK
  <2>10. attempts'[a] = Recorded(a, tx, minted, Workers \ {w})
    BY <2>1 DEF IInv, AttemptsOK
  <2>11. RowSteps
    BY <2>0, <2>6, <2>8, <2>9, <2>10 DEF RowSteps, Reserved, NoAttempt
  <2> QED
    BY <2>5, <2>11
<1> QED
  BY <1>2, <1>3

LEMMA RetireSteps == ASSUME IInv, Retire PROVE SessionSteps /\ RowSteps
<1>1. SessionSteps
  BY DEF Retire, SessionSteps, Ended, IInv, SessionsOK, SessionRows
<1>2. ASSUME NEW a \in Attempts
      PROVE  \/ attempts'[a] = attempts[a]
             \/ attempts[a].state = "CLAIMED" /\ ~ Reserved(a)'
  <2>1. attempts[a] \in AttemptRows
    BY DEF IInv, AttemptsOK
  <2>2. Recorded(a, <<>>, FALSE, Workers).state \in {"NONE", "RECORDED"}
    BY <2>1 DEF Recorded, NoAttempt, AttemptRows
  <2> QED
    BY <2>2 DEF Retire, Reserved
<1> QED
  BY <1>1, <1>2 DEF RowSteps, Reserved

LEMMA Steps == ASSUME IInv, [Next]_vars PROVE SessionSteps /\ RowSteps /\ SentSteps
<1>1. ASSUME UNCHANGED sessions PROVE SessionSteps
  BY <1>1 DEF SessionSteps, Ended
<1>2. ASSUME UNCHANGED attempts PROVE RowSteps
  BY <1>2 DEF RowSteps, Reserved
<1>3. ASSUME UNCHANGED sent PROVE SentSteps
  BY <1>3 DEF SentSteps
<1>4. CASE \E d \in Deposits : Start(d)
  <2>1. PICK d \in Deposits : Start(d)
    BY <1>4
  <2>2. SessionSteps
    BY <2>1 DEF Start, SessionSteps, Ended, IInv, SessionsOK, SessionRows
  <2> QED
    BY <2>1, <2>2, <1>2, <1>3 DEF Start
<1>5. ASSUME NEW w \in Workers, NextSession(w) PROVE SessionSteps /\ RowSteps /\ SentSteps
  <2>1. SessionSteps
    BY <1>5 DEF NextSession, SessionSteps, Ended, Expire
  <2> QED
    BY <1>2, <1>3, <1>5, <2>1 DEF NextSession
<1>6. ASSUME NEW w \in Workers, Begin(w) PROVE SessionSteps /\ RowSteps /\ SentSteps
  <2>1. PICK d \in Deposits : d = local[w].session
    BY <1>6 DEF Begin, At, IInv, WorkersOK, WorkerHolds
  <2>2. sessions' = [sessions EXCEPT ![d].state = Begun(d)] /\ sent' = sent
    BY <1>6, <2>1 DEF Begin
  <2>3. SessionSteps
    BY <2>1, <2>2 DEF SessionSteps, Ended, Begun, IInv, SessionsOK, SessionRows
  <2>4. CASE UNCHANGED attempts
    BY <1>2, <1>3, <2>2, <2>3, <2>4
  <2>5. CASE ~ UNCHANGED attempts
    <3>1. PICK a \in Attempts : ClaimRow(w, a, d) /\ (attempts[a] = NoAttempt \/ Resumable(a))
      BY <1>6, <2>1, <2>5 DEF Begin
    <3>2. attempts[a].state \in {"NONE", "CLAIMED"} /\ attempts'[a].state = "CLAIMED"
      BY <3>1 DEF ClaimRow, Resumable, NoAttempt, IInv, AttemptsOK
    <3>3. \A b \in Attempts \ {a} : attempts'[b] = attempts[b]
      BY <3>1 DEF ClaimRow, IInv, AttemptsOK
    <3> QED
      BY <1>3, <2>2, <2>3, <3>2, <3>3 DEF RowSteps, Reserved
  <2> QED
    BY <2>4, <2>5
<1>7. ASSUME NEW w \in Workers, Reconcile(w) \/ Run(w) \/ Await(w) \/ Die(w)
      PROVE  SessionSteps /\ RowSteps /\ SentSteps
  BY <1>1, <1>2, <1>3, <1>7 DEF Reconcile, Run, Await, Die, rows
<1>8. ASSUME NEW w \in Workers, Reserve(w) PROVE SessionSteps /\ RowSteps /\ SentSteps
  BY <1>3, <1>8, ReserveSteps DEF Reserve
<1>9. ASSUME NEW w \in Workers, Send(w) PROVE SessionSteps /\ RowSteps /\ SentSteps
  <2>1. At(w, "send") /\ UNCHANGED <<sessions, attempts>> /\ sent' \in {sent, sent \cup {Hash(w)}}
    BY <1>9 DEF Send, rows
  <2> QED
    BY <1>1, <2>1, SendSteps
<1>10. ASSUME NEW w \in Workers, Note(w) PROVE SessionSteps /\ RowSteps /\ SentSteps
  BY <1>1, <1>3, <1>10, NoteSteps DEF Note
<1>11. ASSUME NEW w \in Workers, Record(w) PROVE SessionSteps /\ RowSteps /\ SentSteps
  BY <1>3, <1>11, RecordSteps DEF Record
<1>12. ASSUME NEW w \in Workers, CallFails(w) PROVE SessionSteps /\ RowSteps /\ SentSteps
  <2>1. CASE At(w, "reserve") /\ ReserveRow(w) /\ UNCHANGED sent
    BY <1>3, <2>1, ReserveSteps
  <2>2. CASE At(w, "send") /\ sent' \in {sent, sent \cup {Hash(w)}} /\ UNCHANGED <<sessions, attempts>>
    BY <1>1, <2>2, SendSteps
  <2>3. CASE NoteRow(w) /\ UNCHANGED <<sessions, sent>>
    BY <1>1, <1>3, <2>3, NoteSteps
  <2>4. CASE UNCHANGED <<sessions, attempts, sent>>
    BY <1>1, <1>2, <1>3, <2>4
  <2> QED
    BY <1>12, <2>1, <2>2, <2>3, <2>4 DEF CallFails
<1>13. CASE Retire
  BY <1>3, <1>13, RetireSteps DEF Retire
<1>14. CASE (\E tx \in sent : Mine(tx)) \/ Tick \/ UNCHANGED vars
  BY <1>1, <1>2, <1>3, <1>14 DEF Mine, Tick, vars, rows
<1> QED
  BY <1>4, <1>5, <1>6, <1>7, <1>8, <1>9, <1>10, <1>11, <1>12, <1>13, <1>14 DEF Next, WorkerStep

LEMMA OverStays ==
    ASSUME IInv, [Next]_vars, NEW d \in Deposits, Over(d)
    PROVE  Over(d)' /\ SentFor(d)' = SentFor(d)
<1>1. SessionSteps /\ RowSteps /\ SentSteps
  BY Steps
<1>2. Ended(d) /\ Ended(d)'
  BY <1>1 DEF Over, Ended, SessionSteps
<1>3. ASSUME NEW a \in Attempts, attempts'[a].session = d PROVE ~ Reserved(a)'
  BY <1>1, <1>2, <1>3 DEF RowSteps, Over, Ended, Reserved
<1>4. ASSUME NEW tx \in sent PROVE attempts'[tx[1]].session = attempts[tx[1]].session
  BY <1>1 DEF IInv, SentOK, RowSteps
<1>5. ASSUME sent' = sent PROVE SentFor(d)' = SentFor(d)
  BY <1>4, <1>5 DEF SentFor
<1>6. ASSUME NEW tx \in Attempts \X Nat, Reserved(tx[1]), attempts' = attempts,
             sent' = sent \cup {tx}
      PROVE  SentFor(d)' = SentFor(d)
  BY <1>6 DEF SentFor, Over, Reserved
<1>7. SentFor(d)' = SentFor(d)
  BY <1>1, <1>5, <1>6 DEF SentSteps
<1> QED
  BY <1>2, <1>3, <1>7 DEF Over, Ended, Reserved

(* A session that is over sends nothing more once no submission of it is   *)
(* reserved, however late the workers are that claimed its attempts.       *)
THEOREM OverIsQuiet == Spec => OverMeansQuiet
<1>1. ASSUME IInv, [Next]_vars
      PROVE  \A d \in Deposits : Over(d) => Over(d)' /\ SentFor(d)' = SentFor(d)
  BY <1>1, OverStays
<1> QED
  BY <1>1, Inductive, PTL DEF Spec, OverMeansQuiet

---------------------------------------------------------------------------
(* The books.  A session that still counts has as many mints as its        *)
(* recorded rows show; an open attempt is always of a session that wants   *)
(* one more, which is why the count never passes what was asked for.       *)
Counts(d) == sessions[d].state \in {"ACTIVE", "COMPLETE", "EXPIRED"}
Wants(d) == sessions[d].done < Requested[d]
HasMinted(a) == attempts[a].state = "RECORDED" /\ attempts[a].minted
CountOK ==
    /\ \A d \in Deposits :
          /\ sessions[d].done <= Requested[d]
          /\ sessions[d].done <= Cardinality(MintsOf(d))
          /\ Counts(d) => sessions[d].done = Cardinality(MintsOf(d))
          /\ sessions[d].state = "NONE" => sessions[d].done = 0
    /\ \A a \in Attempts :
          /\ attempts[a].state # "NONE" => sessions[attempts[a].session].state # "NONE"
          /\ Open(a) => Wants(attempts[a].session)
          /\ HasMinted(a) => \E m \in Receipts(attempts[a].hash) : m.ok

UsageRows == [tx : Attempts \X Nat, session : Deposits, charge : Nat]
UsageOf(p) == {u \in usage : PunkOf[u.session] = p}
Charges == [u \in usage |-> u.charge]
LedgerOK ==
    /\ usage \subseteq UsageRows /\ IsFiniteSet(usage)
    /\ \A u \in usage :
          /\ \E m \in Receipts(u.tx) : u.charge <= m.cost
          /\ attempts[u.tx[1]].state = "RECORDED" /\ attempts[u.tx[1]].session = u.session
          /\ \A v \in usage : u.tx = v.tx => u = v
    /\ \A p \in Punks : gas[p].spent = SumFunctionOnSet(Charges, UsageOf(p))

LEMMA BooksSuffice == IInv /\ CountOK /\ LedgerOK => CountIsMints /\ LedgerIsReceipts
<1> SUFFICES ASSUME IInv, CountOK, LedgerOK PROVE CountIsMints /\ LedgerIsReceipts
  OBVIOUS
<1>1. CountIsMints
  BY DEF CountOK, CountIsMints, Counts, MintsOf, HasMinted
<1>2. \A p \in Punks : gas[p].spent <= gas[p].credited
  BY DEF IInv, RestOK
<1>3. LedgerIsReceipts
  BY <1>2 DEF LedgerOK, LedgerIsReceipts, UsageOf, Charges
<1> QED
  BY <1>1, <1>3

LEMMA InitBooks == Init => CountOK /\ LedgerOK
<1> SUFFICES ASSUME Init PROVE CountOK /\ LedgerOK
  OBVIOUS
<1>1. \A a \in Attempts : attempts[a].state = "NONE"
  BY DEF Init, NoAttempt
<1>2. \A d \in Deposits : MintsOf(d) = {}
  BY <1>1 DEF MintsOf
<1>3. \A d \in Deposits : sessions[d].done = 0 /\ Requested[d] \in Nat
  BY PriorityAssumption DEF Init
<1>4. CountOK
  BY <1>1, <1>2, <1>3, FS_EmptySet DEF CountOK, Open, HasMinted
<1>5. usage = {} /\ \A p \in Punks : gas[p].spent = 0
  BY DEF Init
<1>6. \A p \in Punks : UsageOf(p) = {}
  BY <1>5 DEF UsageOf
<1>7. \A p \in Punks : SumFunctionOnSet(Charges, UsageOf(p)) = 0
  BY <1>6, SumEmpty
<1>8. LedgerOK
  BY <1>5, <1>7, FS_EmptySet DEF LedgerOK
<1> QED
  BY <1>4, <1>8

(* What every step does that settles nothing: no count moves, a recorded   *)
(* row stays, none is recorded as a mint, and a row that was not there is  *)
(* of an active session that wants a mint; nothing is charged.             *)
QuietSessions ==
    \A d \in Deposits :
        /\ sessions'[d].done = sessions[d].done
        /\ Counts(d)' => Counts(d) \/ sessions[d].state = "NONE"
        /\ sessions'[d].state = "NONE" => sessions[d].state = "NONE"
QuietRows ==
    \A a \in Attempts :
        /\ attempts[a].state = "RECORDED" => attempts'[a] = attempts[a]
        /\ HasMinted(a)' => attempts[a].state = "RECORDED"
        /\ attempts'[a].state # "NONE" =>
              \/ attempts[a].state # "NONE" /\ attempts'[a].session = attempts[a].session
              \/ sessions[attempts'[a].session].state = "ACTIVE" /\ Wants(attempts'[a].session)
QuietLedger ==
    /\ usage' = usage /\ mined \subseteq mined'
    /\ \A p \in Punks : gas'[p].spent = gas[p].spent

LEMMA MintsFinite ==
    ASSUME NEW d PROVE IsFiniteSet(MintsOf(d)) /\ Cardinality(MintsOf(d)) \in Nat
<1>1. IsFiniteSet(Attempts)
  BY PriorityAssumption, FS_Interval DEF Attempts
<1>2. IsFiniteSet(MintsOf(d))
  BY <1>1, FS_Subset DEF MintsOf
<1> QED
  BY <1>2, FS_CardinalityType

LEMMA QuietKeeps ==
    ASSUME IInv, IInv', CountOK, LedgerOK, QuietSessions, QuietRows, QuietLedger
    PROVE  CountOK' /\ LedgerOK'
<1>1. ASSUME NEW d \in Deposits PROVE MintsOf(d)' = MintsOf(d)
  BY DEF QuietRows, MintsOf, HasMinted
<1>2. ASSUME NEW d \in Deposits, sessions[d].state = "NONE" PROVE Cardinality(MintsOf(d)) = 0
  <2>1. MintsOf(d) = {}
    BY <1>2 DEF CountOK, MintsOf
  <2> QED
    BY <2>1, FS_EmptySet
<1>3. ASSUME NEW d \in Deposits
      PROVE  /\ sessions'[d].done <= Requested[d]
             /\ sessions'[d].done <= Cardinality(MintsOf(d))'
             /\ Counts(d)' => sessions'[d].done = Cardinality(MintsOf(d))'
             /\ sessions'[d].state = "NONE" => sessions'[d].done = 0
  <2>1. Cardinality(MintsOf(d)) = Cardinality(MintsOf(d))'
    BY <1>1
  <2>2. sessions'[d].done = sessions[d].done
    BY DEF QuietSessions
  <2>3. Counts(d) \/ sessions[d].state = "NONE" => sessions[d].done = Cardinality(MintsOf(d))
    BY <1>2 DEF CountOK
  <2> QED
    BY <2>1, <2>2, <2>3 DEF QuietSessions, CountOK
<1>4. ASSUME NEW a \in Attempts
      PROVE  /\ attempts'[a].state # "NONE" => sessions'[attempts'[a].session].state # "NONE"
             /\ Open(a)' => Wants(attempts[a].session)'
             /\ HasMinted(a)' => (\E m \in Receipts(attempts[a].hash) : m.ok)'
  <2>1. ASSUME attempts'[a].state # "NONE"
        PROVE  attempts'[a].session \in Deposits
    BY <2>1 DEF IInv, AttemptsOK, RowHolds
  <2>2. ASSUME attempts'[a].state # "NONE"
        PROVE  sessions'[attempts'[a].session].state # "NONE"
    BY <2>1, <2>2 DEF QuietRows, QuietSessions, CountOK
  <2>3. ASSUME Open(a)' PROVE Wants(attempts[a].session)'
    <3>1. attempts'[a].state # "NONE" /\ attempts'[a].state # "RECORDED"
      BY <2>3 DEF Open
    <3>2. PICK d \in Deposits : d = attempts'[a].session
      BY <2>1, <3>1
    <3>3. Wants(d)
      BY <3>1, <3>2 DEF QuietRows, CountOK, Open
    <3> QED
      BY <3>2, <3>3 DEF Wants, QuietSessions
  <2>4. ASSUME HasMinted(a)' PROVE (\E m \in Receipts(attempts[a].hash) : m.ok)'
    <3>1. attempts'[a] = attempts[a] /\ HasMinted(a)
      BY <2>4 DEF QuietRows, HasMinted
    <3>2. PICK m \in Receipts(attempts[a].hash) : m.ok
      BY <3>1 DEF CountOK
    <3> QED
      BY <3>1, <3>2 DEF Receipts, QuietLedger
  <2> QED
    BY <2>2, <2>3, <2>4
<1>5. CountOK'
  BY <1>3, <1>4 DEF CountOK
<1>6. ASSUME NEW u \in usage
      PROVE  /\ (\E m \in Receipts(u.tx) : u.charge <= m.cost)'
             /\ attempts'[u.tx[1]].state = "RECORDED" /\ attempts'[u.tx[1]].session = u.session
  <2>1. u.tx[1] \in Attempts
    BY DEF LedgerOK, UsageRows
  <2>2. attempts'[u.tx[1]] = attempts[u.tx[1]]
    BY <2>1 DEF LedgerOK, QuietRows
  <2> QED
    BY <2>2 DEF LedgerOK, QuietLedger, Receipts
<1>7. Charges' = Charges /\ \A p : UsageOf(p)' = UsageOf(p)
  BY DEF Charges, UsageOf, QuietLedger
<1>8. LedgerOK'
  BY <1>6, <1>7 DEF LedgerOK, QuietLedger
<1> QED
  BY <1>5, <1>8

---------------------------------------------------------------------------
(* The steps that settle nothing.                                          *)
Quiet == QuietSessions /\ QuietRows /\ QuietLedger

LEMMA SessionsSame == ASSUME UNCHANGED sessions PROVE QuietSessions
  BY DEF QuietSessions, Counts

LEMMA RowsSame == ASSUME UNCHANGED attempts PROVE QuietRows
  BY DEF QuietRows, HasMinted

LEMMA LedgerSame == ASSUME UNCHANGED <<usage, gas>>, mined \subseteq mined' PROVE QuietLedger
  BY DEF QuietLedger

LEMMA StartQuiet ==
    ASSUME IInv, CountOK, NEW d \in Deposits, Start(d) PROVE Quiet
<1>1. QuietSessions
  <2>1. ASSUME NEW e \in Deposits
        PROVE  /\ sessions'[e].done = sessions[e].done
               /\ Counts(e)' => Counts(e) \/ sessions[e].state = "NONE"
               /\ sessions'[e].state = "NONE" => sessions[e].state = "NONE"
    <3>1. sessions[e] \in SessionRows
      BY DEF IInv, SessionsOK
    <3>2. CASE e = d
      BY <3>2 DEF Start, CountOK
    <3>3. CASE e # d /\ Replaced(d, e)
      <4>1. sessions'[e] = [sessions[e] EXCEPT !.state = "CANCELLED"]
        BY <3>3 DEF Start
      <4> QED
        BY <3>1, <4>1 DEF Counts, SessionRows
    <3>4. CASE e # d /\ ~ Replaced(d, e)
      <4>1. sessions'[e] = sessions[e]
        BY <3>4 DEF Start
      <4> QED
        BY <4>1 DEF Counts
    <3> QED
      BY <3>2, <3>3, <3>4
  <2> QED
    BY <2>1 DEF QuietSessions
<1>2. QuietLedger
  <2>1. gas' = [gas EXCEPT ![PunkOf[d]].credited = @ + Amount[d]]
    BY DEF Start
  <2>2. \A p \in Punks : gas[p] \in [credited : Nat, spent : Nat]
    BY DEF IInv, RestOK
  <2>3. \A p \in Punks : gas'[p].spent = gas[p].spent
    BY <2>1, <2>2 DEF IInv, RestOK
  <2> QED
    BY <2>3 DEF Start, QuietLedger
<1> QED
  BY <1>1, <1>2, RowsSame DEF Start, Quiet

LEMMA ExpireQuiet ==
    ASSUME IInv, NEW d \in Deposits
    PROVE  /\ Expire(d).done = sessions[d].done
           /\ Expire(d).state \in {"ACTIVE", "COMPLETE", "EXPIRED"} => Counts(d)
           /\ Expire(d).state = "NONE" => sessions[d].state = "NONE"
<1>1. sessions[d] \in SessionRows
  BY DEF IInv, SessionsOK
<1> QED
  BY <1>1 DEF Expire, Counts, SessionRows

LEMMA NextSessionQuiet ==
    ASSUME IInv, NEW w \in Workers, NextSession(w) PROVE Quiet
<1>1. QuietSessions
  BY ExpireQuiet DEF NextSession, QuietSessions, Counts
<1> QED
  BY <1>1, RowsSame, LedgerSame DEF NextSession, Quiet, ledger

LEMMA BeginQuiet ==
    ASSUME IInv, NEW w \in Workers, Begin(w) PROVE Quiet
<1>1. PICK d \in Deposits : d = local[w].session
  BY DEF Begin, At, IInv, WorkersOK, WorkerHolds
<1>2. sessions' = [sessions EXCEPT ![d].state = Begun(d)] /\ UNCHANGED <<usage, gas, mined>>
  BY <1>1 DEF Begin, ledger
<1>3. QuietSessions
  <2>1. sessions[d] \in SessionRows
    BY DEF IInv, SessionsOK
  <2>2. /\ Begun(d) \in {"ACTIVE", "COMPLETE", "EXPIRED"} => Counts(d)
        /\ Begun(d) = "NONE" => sessions[d].state = "NONE"
    BY DEF Begun, Counts
  <2>3. sessions'[d].done = sessions[d].done /\ sessions'[d].state = Begun(d)
        /\ \A e \in Deposits : e # d => sessions'[e] = sessions[e]
    BY <1>2, <2>1 DEF IInv, SessionsOK, SessionRows
  <2> QED
    BY <2>2, <2>3 DEF QuietSessions, Counts
<1>4. CASE UNCHANGED attempts
  BY <1>2, <1>3, <1>4, RowsSame, LedgerSame DEF Quiet
<1>5. CASE ~ UNCHANGED attempts
  <2>1. PICK a \in Attempts : /\ ClaimRow(w, a, d)
                              /\ attempts[a] = NoAttempt \/ Resumable(a)
                              /\ Begun(d) = "ACTIVE"
    BY <1>1, <1>5 DEF Begin
  <2>2. attempts[a].state \in {"NONE", "CLAIMED"}
    BY <2>1 DEF Resumable, NoAttempt
  <2>3. /\ attempts'[a].state = "CLAIMED" /\ attempts'[a].session = d
        /\ \A b \in Attempts \ {a} : attempts'[b] = attempts[b]
    BY <2>1 DEF ClaimRow, IInv, AttemptsOK
  <2>4. sessions[d].state = "ACTIVE" /\ Wants(d)
    <3>1. sessions[d].done \in Nat /\ Requested[d] \in Nat
      BY PriorityAssumption DEF IInv, SessionsOK, SessionRows
    <3> QED
      BY <2>1, <3>1 DEF Begun, Wants
  <2>5. QuietRows
    BY <2>2, <2>3, <2>4 DEF QuietRows, HasMinted
  <2> QED
    BY <1>2, <1>3, <2>5, LedgerSame DEF Quiet
<1> QED
  BY <1>4, <1>5

LEMMA ReserveQuiet ==
    ASSUME IInv, NEW w \in Workers, At(w, "reserve"), ReserveRow(w)
    PROVE  QuietSessions /\ QuietRows
<1>0. PICK a \in Attempts : a = local[w].attempt /\ attempts[a].state # "NONE"
  BY DEF At, IInv, WorkersOK, WorkerHolds, Remembers
<1>1. PICK d \in Deposits : d = attempts[a].session
  BY <1>0 DEF IInv, AttemptsOK, RowHolds
<1>2. sessions' = [sessions EXCEPT ![d] = Expire(d)]
  BY <1>0, <1>1 DEF ReserveRow
<1>3. QuietSessions
  <2>1. sessions'[d] = Expire(d) /\ \A e \in Deposits : e # d => sessions'[e] = sessions[e]
    BY <1>2 DEF IInv, SessionsOK
  <2> QED
    BY <2>1, ExpireQuiet DEF QuietSessions, Counts
<1>4. CASE Reservable(w)
  <2>1. attempts' = [attempts EXCEPT ![a].state = "SUBMISSION_RESERVED", ![a].until = 0]
    BY <1>0, <1>4 DEF ReserveRow
  <2>2. attempts[a] \in AttemptRows /\ attempts[a].state = "CLAIMED"
    BY <1>0, <1>4 DEF IInv, AttemptsOK, Reservable
  <2>3. attempts'[a].session = attempts[a].session /\ attempts'[a].state = "SUBMISSION_RESERVED"
    BY <2>1, <2>2 DEF AttemptRows, IInv, AttemptsOK
  <2>4. ASSUME NEW b \in Attempts, b # a PROVE attempts'[b] = attempts[b]
    BY <2>1, <2>4 DEF IInv, AttemptsOK
  <2> QED
    BY <1>3, <2>2, <2>3, <2>4 DEF QuietRows, HasMinted
<1>5. CASE ~ Reservable(w)
  BY <1>3, <1>5, RowsSame DEF ReserveRow
<1> QED
  BY <1>4, <1>5

LEMMA NoteQuiet ==
    ASSUME IInv, NEW w \in Workers, NoteRow(w) PROVE QuietRows
<1>1. CASE attempts' = attempts
  BY <1>1, RowsSame
<1>2. CASE attempts' # attempts
  <2>1. PICK a, tx : /\ attempts' = [attempts EXCEPT ![a].state = "SUBMITTED", ![a].hash = tx]
                     /\ attempts[a].state = "SUBMISSION_RESERVED"
    BY <1>2 DEF NoteRow
  <2>2. ASSUME NEW b \in Attempts, b # a PROVE attempts'[b] = attempts[b]
    BY <2>1, <2>2 DEF IInv, AttemptsOK
  <2>3. ASSUME a \in Attempts
        PROVE  attempts'[a].session = attempts[a].session /\ attempts'[a].state = "SUBMITTED"
    BY <2>1, <2>3 DEF IInv, AttemptsOK, AttemptRows
  <2> QED
    BY <2>1, <2>2, <2>3 DEF QuietRows, HasMinted
<1> QED
  BY <1>1, <1>2

LEMMA RetireQuiet == ASSUME IInv, Retire PROVE Quiet
<1>1. QuietSessions
  <2>1. ASSUME NEW d \in Deposits
        PROVE  \/ sessions'[d] = sessions[d]
               \/ sessions'[d].done = sessions[d].done /\ sessions'[d].state = "CANCELLED"
    BY DEF Retire, IInv, SessionsOK, SessionRows
  <2> QED
    BY <2>1 DEF QuietSessions, Counts
<1>2. ASSUME NEW a \in Attempts
      PROVE  \/ attempts'[a] = attempts[a]
             \/ /\ attempts[a].state = "CLAIMED" /\ attempts'[a].state = "NONE"
             \/ /\ attempts[a].state = "CLAIMED" /\ attempts'[a].state = "RECORDED"
                /\ ~ attempts'[a].minted /\ attempts'[a].session = attempts[a].session
  <2>1. attempts[a] \in AttemptRows
    BY DEF IInv, AttemptsOK
  <2>2. \/ Recorded(a, <<>>, FALSE, Workers).state = "NONE"
        \/ /\ Recorded(a, <<>>, FALSE, Workers).state = "RECORDED"
           /\ Recorded(a, <<>>, FALSE, Workers).minted = FALSE
           /\ Recorded(a, <<>>, FALSE, Workers).session = attempts[a].session
    BY <2>1 DEF Recorded, NoAttempt, AttemptRows
  <2> QED
    BY <2>2 DEF Retire
<1>3. QuietRows
  BY <1>2 DEF QuietRows, HasMinted
<1> QED
  BY <1>1, <1>3, LedgerSame DEF Retire, Quiet, ledger

---------------------------------------------------------------------------
(* The settlement: the session it counts for, the row it closes and, when  *)
(* the transaction is not known yet, the charge of its receipt.            *)
Charging(d, tx) ==
    \E m \in Receipts(tx), c \in Nat :
        /\ c <= m.cost
        /\ \A u \in usage : u.tx # tx
        /\ usage' = usage \cup {[tx |-> tx, session |-> d, charge |-> c]}
        /\ gas' = [gas EXCEPT ![PunkOf[d]].spent = @ + c]

SettlesAs(w, a, tx, minted) ==
    LET d == attempts[a].session
    IN  /\ sessions' = [sessions EXCEPT
                          ![d] = SessionAfter(d, minted, local[w].result.terminal)]
        /\ attempts' = [attempts EXCEPT ![a] = Recorded(a, tx, minted, Workers \ {w})]
        /\ minted => tx # <<>> /\ \E m \in Receipts(tx) : m.ok
        /\ \/ usage' = usage /\ gas' = gas
           \/ tx # <<>> /\ Charging(d, tx)

LEMMA Settles ==
    ASSUME IInv, NEW w \in Workers, At(w, "record"),
           NEW a \in Attempts, a = local[w].attempt, NEW tx, tx = local[w].result.hash,
           attempts[a].state # "RECORDED", ~ Raises(attempts[a], w),
           Settle(w, a, tx, local[w].result.terminal)
    PROVE  \E minted \in BOOLEAN : SettlesAs(w, a, tx, minted)
<1>0. PICK d : d = attempts[a].session
  OBVIOUS
<1> DEFINE receipt == CHOOSE m \in Receipts(tx) : TRUE
           charged == tx # <<>> /\ ~ \E u \in usage : u.tx = tx
           minted == charged /\ Minted(receipt)
<1>1. tx # <<>> => Receipts(tx) # {}
  BY Accepts
<1>2. d \in Deposits /\ PunkOf[d] \in Punks
  BY <1>0, Accepts DEF Punks
<1>3. charged => receipt \in Receipts(tx) /\ receipt.cost \in Nat
  <2>1. charged => receipt \in Receipts(tx)
    BY <1>1
  <2> QED
    BY <2>1, PriorityAssumption DEF Receipts, IInv, RestOK
<1>4. /\ charged => /\ usage' = usage \cup {[tx |-> tx, session |-> d,
                                              charge |-> Charge(PunkOf[d], receipt.cost)]}
                    /\ gas' = [gas EXCEPT ![PunkOf[d]].spent = @ + Charge(PunkOf[d], receipt.cost)]
      /\ ~ charged => usage' = usage /\ gas' = gas
      /\ sessions' = [sessions EXCEPT
                        ![d] = SessionAfter(d, minted, local[w].result.terminal)]
      /\ attempts' = [attempts EXCEPT ![a] = Recorded(a, tx, minted, Workers \ {w})]
  BY <1>0 DEF Settle, ledger
<1>5. charged => Charging(d, tx)
  <2> SUFFICES ASSUME charged PROVE Charging(d, tx)
    OBVIOUS
  <2>1. \A u \in usage : u.tx # tx
    OBVIOUS
  <2> HIDE DEF charged, receipt
  <2>2. PICK c \in Nat : c = Charge(PunkOf[d], receipt.cost) /\ c <= receipt.cost
    BY <1>2, <1>3, ChargeIsCovered
  <2>3. PICK m \in Receipts(tx) : m = receipt
    BY <1>3
  <2> QED
    BY <1>4, <2>1, <2>2, <2>3 DEF Charging
<1>6. minted => tx # <<>> /\ \E m \in Receipts(tx) : m.ok
  BY <1>3 DEF Minted
<1>7. minted \in BOOLEAN /\ (charged => tx # <<>>)
  OBVIOUS
<1> HIDE DEF minted, charged, receipt
<1>8. SettlesAs(w, a, tx, minted)
  BY <1>0, <1>4, <1>5, <1>6, <1>7 DEF SettlesAs
<1> QED
  BY <1>7, <1>8

LEMMA SettleRow ==
    ASSUME IInv, NEW a \in Attempts, NEW tx, NEW minted \in BOOLEAN, NEW others,
           NEW row, row = Recorded(a, tx, minted, others)
    PROVE  \/ row = NoAttempt /\ tx = <<>>
           \/ /\ row.state = "RECORDED" /\ row.session = attempts[a].session
              /\ row.hash = tx /\ row.minted = minted
<1>1. attempts[a] \in AttemptRows
  BY DEF IInv, AttemptsOK
<1> QED
  BY <1>1 DEF Recorded, AttemptRows

LEMMA SettleCount ==
    ASSUME IInv, CountOK, NEW w \in Workers, At(w, "record"),
           NEW a \in Attempts, a = local[w].attempt, NEW tx, tx = local[w].result.hash,
           attempts[a].state # "RECORDED", ~ Raises(attempts[a], w),
           Settle(w, a, tx, local[w].result.terminal), mined' = mined
    PROVE  CountOK'
<1>0. PICK terminal \in {None, "CANCELLED", "OWNER_CHANGED"} : terminal = local[w].result.terminal
  BY DEF IInv, WorkersOK, Locals, Results
<1>1. PICK d \in Deposits : d = attempts[a].session
  BY Accepts
<1>2. /\ Open(a) /\ attempts[a].state # "NONE"
      /\ Wants(d) /\ sessions[d].state # "NONE"
      /\ sessions[d] \in SessionRows /\ Requested[d] \in Nat
  BY <1>1, Accepts, PriorityAssumption DEF Open, CountOK, IInv, SessionsOK
<1>3. PICK minted \in BOOLEAN :
          /\ sessions' = [sessions EXCEPT ![d] = SessionAfter(d, minted, terminal)]
          /\ attempts' = [attempts EXCEPT ![a] = Recorded(a, tx, minted, Workers \ {w})]
          /\ minted => tx # <<>> /\ \E m \in Receipts(tx) : m.ok
  <2>1. PICK minted \in BOOLEAN : SettlesAs(w, a, tx, minted)
    BY Settles
  <2> QED
    BY <1>0, <1>1, <2>1 DEF SettlesAs
<1>4. PICK row : row = Recorded(a, tx, minted, Workers \ {w})
  OBVIOUS
<1>5. \/ row.state = "NONE" /\ tx = <<>>
      \/ /\ row.state = "RECORDED" /\ row.session = d /\ row.hash = tx /\ row.minted = minted
  BY <1>1, <1>4, SettleRow DEF NoAttempt
<1>6. attempts'[a] = row /\ \A b \in Attempts : b # a => attempts'[b] = attempts[b]
  BY <1>3, <1>4 DEF IInv, AttemptsOK
<1>7. MintsOf(d)' = IF minted THEN MintsOf(d) \cup {a} ELSE MintsOf(d)
  BY <1>1, <1>3, <1>5, <1>6 DEF MintsOf
<1>8. ASSUME NEW e \in Deposits, e # d PROVE MintsOf(e)' = MintsOf(e)
  BY <1>5, <1>6, <1>1, <1>2, <1>8 DEF MintsOf, Open
<1>9. a \notin MintsOf(d)
  BY DEF MintsOf
<1>10. PICK n \in Nat : n = Cardinality(MintsOf(d)) /\
           Cardinality(MintsOf(d))' = n + IF minted THEN 1 ELSE 0
  <2>1. IsFiniteSet(MintsOf(d)) /\ Cardinality(MintsOf(d)) \in Nat
    BY MintsFinite
  <2>2. Cardinality(MintsOf(d) \cup {a}) = Cardinality(MintsOf(d)) + 1
    BY <1>9, <2>1, FS_AddElement
  <2> QED
    BY <1>7, <2>1, <2>2
<1>11. PICK s : s = SessionAfter(d, minted, terminal)
  OBVIOUS
<1>12. sessions'[d] = s /\ \A e \in Deposits : e # d => sessions'[e] = sessions[e]
  BY <1>3, <1>11 DEF IInv, SessionsOK
<1>13. /\ Counts(d) => s.done = sessions[d].done + IF minted THEN 1 ELSE 0
       /\ ~ Counts(d) => s = sessions[d]
       /\ s.state # "NONE"
  BY <1>2, <1>11 DEF SessionAfter, Counts, SessionRows, None
<1>14. ASSUME NEW e \in Deposits
       PROVE  /\ sessions'[e].done <= Requested[e]
              /\ sessions'[e].done <= Cardinality(MintsOf(e))'
              /\ Counts(e)' => sessions'[e].done = Cardinality(MintsOf(e))'
              /\ sessions'[e].state = "NONE" => sessions'[e].done = 0
  <2>1. CASE e # d
    <3>1. sessions'[e] = sessions[e] /\ Cardinality(MintsOf(e))' = Cardinality(MintsOf(e))
      BY <1>8, <1>12, <2>1
    <3> QED
      BY <3>1 DEF CountOK, Counts
  <2>2. CASE e = d
    <3>1. sessions[d].done \in Nat
      BY <1>2 DEF SessionRows
    <3>2. /\ sessions[d].done <= n
          /\ Counts(d) => sessions[d].done = n
          /\ sessions[d].done < Requested[d]
      BY <1>2, <1>10 DEF CountOK, Wants
    <3>3. Counts(e)' => s.state \in {"ACTIVE", "COMPLETE", "EXPIRED"}
      BY <1>12, <2>2 DEF Counts
    <3>6. Cardinality(MintsOf(e))' = n + IF minted THEN 1 ELSE 0
      <4>1. MintsOf(e)' = MintsOf(d)'
        BY <2>2
      <4> QED
        BY <1>10, <4>1
    <3>7. sessions'[e] = s /\ Requested[e] = Requested[d]
      BY <1>12, <2>2
    <3>8. PICK k \in Nat : k = IF minted THEN 1 ELSE 0
      OBVIOUS
    <3>9. PICK total : total = Cardinality(MintsOf(e))' /\ total = n + k
      BY <3>6, <3>8
    <3>10. /\ s.done <= Requested[d] /\ s.done <= total
           /\ Counts(e)' => s.done = total
      <4>1. CASE Counts(d)
        BY <1>2, <1>13, <3>1, <3>2, <3>8, <3>9, <4>1
      <4>2. CASE ~ Counts(d)
        <5>1. s = sessions[d] /\ ~ Counts(e)'
          BY <1>13, <3>3, <4>2 DEF Counts
        <5> QED
          BY <1>2, <3>1, <3>2, <3>8, <3>9, <5>1
      <4> QED
        BY <4>1, <4>2
    <3> QED
      BY <1>13, <3>7, <3>9, <3>10
  <2> QED
    BY <2>1, <2>2
<1>15. ASSUME NEW b \in Attempts
       PROVE  /\ attempts'[b].state # "NONE" => sessions'[attempts'[b].session].state # "NONE"
              /\ Open(b)' => Wants(attempts[b].session)'
              /\ HasMinted(b)' => (\E m \in Receipts(attempts[b].hash) : m.ok)'
  <2>1. CASE b = a
    <3>1. ~ Open(b)'
      BY <1>5, <1>6, <2>1 DEF Open
    <3>2. attempts'[b].state # "NONE" => sessions'[attempts'[b].session].state # "NONE"
      BY <1>5, <1>6, <1>12, <1>13, <2>1
    <3>3. HasMinted(b)' => (\E m \in Receipts(attempts[b].hash) : m.ok)'
      BY <1>3, <1>5, <1>6, <2>1 DEF HasMinted, Receipts
    <3> QED
      BY <3>1, <3>2, <3>3
  <2>2. CASE b # a
    <3>1. attempts'[b] = attempts[b]
      BY <1>6, <2>2
    <3>2. ASSUME attempts[b].state # "NONE" PROVE attempts[b].session \in Deposits
      BY <3>2 DEF IInv, AttemptsOK, RowHolds
    <3>3. Open(b) => attempts[b].session # d
      BY <1>1, <1>2, <2>2 DEF IInv, AttemptsOK
    <3>4. Open(b)' => Wants(attempts[b].session)'
      <4>1. Open(b)' => attempts[b].state # "NONE" /\ Open(b)
        BY <3>1 DEF Open
      <4> QED
        BY <1>12, <3>1, <3>2, <3>3, <4>1 DEF CountOK, Wants
    <3>5. attempts[b].state # "NONE" => sessions'[attempts[b].session].state # "NONE"
      BY <1>12, <1>13, <3>2 DEF CountOK
    <3>6. HasMinted(b)' => (\E m \in Receipts(attempts[b].hash) : m.ok)'
      BY <3>1 DEF CountOK, HasMinted, Receipts
    <3> QED
      BY <3>1, <3>4, <3>5, <3>6
  <2> QED
    BY <2>1, <2>2
<1> QED
  BY <1>14, <1>15 DEF CountOK

LEMMA SettleLedger ==
    ASSUME IInv, LedgerOK, NEW w \in Workers, At(w, "record"),
           NEW a \in Attempts, a = local[w].attempt, NEW tx, tx = local[w].result.hash,
           attempts[a].state # "RECORDED", ~ Raises(attempts[a], w),
           Settle(w, a, tx, local[w].result.terminal), mined' = mined
    PROVE  LedgerOK'
<1>1. PICK d \in Deposits : d = attempts[a].session
  BY Accepts
<1>2. PICK minted \in BOOLEAN :
          /\ attempts' = [attempts EXCEPT ![a] = Recorded(a, tx, minted, Workers \ {w})]
          /\ \/ usage' = usage /\ gas' = gas
             \/ tx # <<>> /\ Charging(d, tx)
  <2>1. PICK minted \in BOOLEAN : SettlesAs(w, a, tx, minted)
    BY Settles
  <2> QED
    BY <1>1, <2>1 DEF SettlesAs
<1>3. PICK row : row = Recorded(a, tx, minted, Workers \ {w})
  OBVIOUS
<1>4. attempts'[a] = row /\ \A b \in Attempts : b # a => attempts'[b] = attempts[b]
  BY <1>2, <1>3 DEF IInv, AttemptsOK
<1>5. tx # <<>> => row.state = "RECORDED" /\ row.session = d
  BY <1>1, <1>3, SettleRow
<1>6. ASSUME NEW u \in usage
      PROVE  /\ (\E m \in Receipts(u.tx) : u.charge <= m.cost)'
             /\ attempts'[u.tx[1]].state = "RECORDED" /\ attempts'[u.tx[1]].session = u.session
  <2>1. u.tx[1] \in Attempts /\ u.tx[1] # a
    BY DEF LedgerOK, UsageRows
  <2> QED
    BY <1>4, <2>1 DEF LedgerOK, Receipts
<1>7. CASE usage' = usage /\ gas' = gas
  <2>1. Charges' = Charges /\ \A p : UsageOf(p)' = UsageOf(p)
    BY <1>7 DEF Charges, UsageOf
  <2> QED
    BY <1>6, <1>7, <2>1 DEF LedgerOK
<1>8. CASE tx # <<>> /\ Charging(d, tx)
  <2>1. tx \in sent /\ tx[1] = a /\ tx \in Attempts \X Nat
    <3>1. tx \in sent /\ tx[1] = a
      BY <1>8, Accepts
    <3> QED
      BY <3>1 DEF IInv, SentOK
  <2>2. PICK m \in Receipts(tx), c \in Nat :
            /\ c <= m.cost
            /\ \A u \in usage : u.tx # tx
            /\ usage' = usage \cup {[tx |-> tx, session |-> d, charge |-> c]}
            /\ gas' = [gas EXCEPT ![PunkOf[d]].spent = @ + c]
    BY <1>8 DEF Charging
  <2>3. PICK v \in UsageRows : v = [tx |-> tx, session |-> d, charge |-> c]
    BY <2>1 DEF UsageRows
  <2>4. v.tx = tx /\ v.session = d /\ v.charge = c /\ v \notin usage
        /\ usage' = usage \cup {v}
    BY <2>2, <2>3
  <2>5. usage' \subseteq UsageRows /\ IsFiniteSet(usage')
    BY <2>4, FS_AddElement DEF LedgerOK
  <2>6. /\ (\E x \in Receipts(v.tx) : v.charge <= x.cost)'
        /\ attempts'[v.tx[1]].state = "RECORDED" /\ attempts'[v.tx[1]].session = v.session
    BY <1>4, <1>5, <1>8, <2>1, <2>2, <2>4 DEF Receipts
  <2>7. \A u \in usage', x \in usage' : u.tx = x.tx => u = x
    BY <2>2, <2>4 DEF LedgerOK
  <2>8. ASSUME NEW p \in Punks PROVE gas'[p].spent = SumFunctionOnSet(Charges', UsageOf(p)')
    <3>1. IsFiniteSet(UsageOf(p))
      BY FS_Subset DEF LedgerOK, UsageOf
    <3>2. \A u \in UsageOf(p) : Charges[u] \in Int /\ Charges[u] = Charges'[u]
      BY <2>4 DEF LedgerOK, UsageOf, UsageRows, Charges
    <3>3. Charges'[v] = c /\ v \notin UsageOf(p)
      BY <2>4 DEF Charges, UsageOf
    <3>4. gas[p] \in [credited : Nat, spent : Nat]
      BY DEF IInv, RestOK
    <3>5. CASE p = PunkOf[d]
      <4>1. UsageOf(p)' = UsageOf(p) \cup {v}
        BY <2>4, <3>5 DEF UsageOf
      <4>2. SumFunctionOnSet(Charges', UsageOf(p) \cup {v})
              = SumFunctionOnSet(Charges, UsageOf(p)) + Charges'[v]
        BY <3>1, <3>2, <3>3, SumGains
      <4>3. gas'[p].spent = gas[p].spent + c
        BY <2>2, <3>4, <3>5 DEF IInv, RestOK
      <4> QED
        BY <3>3, <4>1, <4>2, <4>3 DEF LedgerOK
    <3>6. CASE p # PunkOf[d]
      <4>1. UsageOf(p)' = UsageOf(p)
        BY <2>4, <3>6 DEF UsageOf
      <4>2. SumFunctionOnSet(Charges', UsageOf(p)) = SumFunctionOnSet(Charges, UsageOf(p))
        BY <3>1, <3>2, SumSame
      <4>3. gas'[p].spent = gas[p].spent
        BY <2>2, <3>4, <3>6 DEF IInv, RestOK
      <4> QED
        BY <4>1, <4>2, <4>3 DEF LedgerOK
    <3> QED
      BY <3>5, <3>6
  <2> QED
    BY <1>6, <2>4, <2>5, <2>6, <2>7, <2>8 DEF LedgerOK
<1> QED
  BY <1>2, <1>7, <1>8

LEMMA BooksStep == IInv /\ IInv' /\ CountOK /\ LedgerOK /\ [Next]_vars => CountOK' /\ LedgerOK'
<1> SUFFICES ASSUME IInv, IInv', CountOK, LedgerOK, [Next]_vars PROVE CountOK' /\ LedgerOK'
  OBVIOUS
<1>0. ASSUME Quiet PROVE CountOK' /\ LedgerOK'
  BY <1>0, QuietKeeps DEF Quiet
<1>1. ASSUME UNCHANGED <<sessions, attempts, usage, gas>>, mined \subseteq mined'
      PROVE  CountOK' /\ LedgerOK'
  BY <1>0, <1>1, SessionsSame, RowsSame, LedgerSame DEF Quiet
<1>2. CASE \E d \in Deposits : Start(d)
  BY <1>0, <1>2, StartQuiet
<1>3. ASSUME NEW w \in Workers, NextSession(w) \/ Begin(w) PROVE CountOK' /\ LedgerOK'
  BY <1>0, <1>3, NextSessionQuiet, BeginQuiet
<1>4. ASSUME NEW w \in Workers, Reconcile(w) \/ Run(w) \/ Send(w) \/ Await(w) \/ Die(w)
      PROVE  CountOK' /\ LedgerOK'
  BY <1>1, <1>4 DEF Reconcile, Run, Send, Await, Die, rows, ledger
<1>5. ASSUME NEW w \in Workers, At(w, "reserve"), ReserveRow(w), UNCHANGED <<usage, gas, mined>>
      PROVE  CountOK' /\ LedgerOK'
  BY <1>0, <1>5, ReserveQuiet, LedgerSame DEF Quiet
<1>6. ASSUME NEW w \in Workers, NoteRow(w), UNCHANGED <<sessions, usage, gas, mined>>
      PROVE  CountOK' /\ LedgerOK'
  BY <1>0, <1>6, NoteQuiet, SessionsSame, LedgerSame DEF Quiet
<1>7. ASSUME NEW w \in Workers, Reserve(w) \/ Note(w) \/ CallFails(w)
      PROVE  CountOK' /\ LedgerOK'
  <2>1. UNCHANGED <<usage, gas, mined>>
    BY <1>7 DEF Reserve, Note, CallFails, ledger
  <2> QED
    BY <1>1, <1>5, <1>6, <1>7, <2>1 DEF Reserve, Note, CallFails
<1>8. ASSUME NEW w \in Workers, Record(w) PROVE CountOK' /\ LedgerOK'
  <2>1. PICK a \in Attempts : a = local[w].attempt /\ At(w, "record") /\ mined' = mined
    BY <1>8 DEF Record, At, IInv, WorkersOK, WorkerHolds, Remembers
  <2>2. CASE attempts[a].state = "RECORDED" \/ Raises(attempts[a], w)
    BY <1>1, <1>8, <2>1, <2>2 DEF Record, rows, ledger
  <2>3. CASE ~ (attempts[a].state = "RECORDED" \/ Raises(attempts[a], w))
    <3>1. PICK tx : tx = local[w].result.hash
      OBVIOUS
    <3>2. Settle(w, a, tx, local[w].result.terminal)
      BY <1>8, <2>1, <2>3, <3>1 DEF Record
    <3> QED
      BY <2>1, <2>3, <3>1, <3>2, SettleCount, SettleLedger
  <2> QED
    BY <2>2, <2>3
<1>9. CASE Retire
  BY <1>0, <1>9, RetireQuiet
<1>10. CASE (\E tx \in sent : Mine(tx)) \/ Tick \/ UNCHANGED vars
  BY <1>1, <1>10 DEF Mine, Tick, vars, rows, ledger
<1> QED
  BY <1>2, <1>3, <1>4, <1>7, <1>8, <1>9, <1>10 DEF Next, WorkerStep

LEMMA Books == Spec => [](CountOK /\ LedgerOK)
<1>1. CountOK /\ LedgerOK /\ IInv /\ IInv' /\ [Next]_vars => (CountOK /\ LedgerOK)'
  BY BooksStep
<1> QED
  BY <1>1, InitBooks, Inductive, PTL DEF Spec

(* A session counts the mints of its recorded transactions that really     *)
(* succeeded, and never more than its owner asked for.                     *)
THEOREM MintsAreCounted == Spec => []CountIsMints
  BY Inductive, Books, BooksSuffice, PTL

(* Each recorded transaction is charged once, to the session it was sent   *)
(* for and at most at its cost; what a Punk spent is the sum of these      *)
(* charges, and never more than was deposited for it.                      *)
THEOREM ChargesAreReceipts == Spec => []LedgerIsReceipts
  BY Inductive, Books, BooksSuffice, PTL
=============================================================================
