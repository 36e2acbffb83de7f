------------------------ MODULE MCDirectedPaidWorker ------------------------
(***************************************************************************)
(* Instances of DirectedPaidWorker for TLC: the release's owner, the       *)
(* signer, and one stranger who may buy the Punk.                          *)
(***************************************************************************)
EXTENDS DirectedPaidWorker, TLC

MCAccounts == {"owner", "worker", "stranger"}
MCPrices == {1}
MCFees == {1}

MCSessions == <<"session1", "session2">>
NoSessions == << >>
OneSession == <<"session1">>

(* Stories behind which part of the bounds already lies.  In three of them   *)
(* the owner's authorization is mined but not confirmed, and what is left is *)
(* the signer's business, with no sale before: free mints of two sessions    *)
(* next to the paid one.  The setting is there throughout, with two faults;  *)
(* it was missing so far and may come, with one; it may go, without any.     *)
(* In the others the free mints have reverted.  Away and back: one fault and *)
(* two changes are left.  Three reviews: no fault and one change.            *)
Story(free, change, fault, flag) ==
    LET reverted == {FreeTx(k, k - 1) : k \in {j \in FreeOps : j < free}}
    IN  /\ punkOwner = Owner /\ drop \in Prices
        /\ refundable = Nothing /\ refundLiability = 0 /\ stray = 0
        /\ spent = Nothing /\ paidOut = Nothing
        /\ executions = [i \in Reviews |-> NoExecution]
        /\ freeOps = [k \in FreeOps |-> IF k < free THEN "REVERTED" ELSE "NONE"]
        /\ lease = "NONE"
        /\ pc = [w \in Invocations |-> "IDLE"]
        /\ local = [w \in Invocations |-> NoLocal]
        /\ setting = flag
        /\ removed = IF flag = "unset" THEN "RESOLVED" ELSE "NEVER"
        /\ mempool = {}
        /\ sent = reverted \cup {OwnerTx(i) : i \in {j \in Reviews : wallet[j] = "SENT"}}
        /\ mined = {[tx |-> tx, ok |-> tx.from = Owner, refund |-> 0,
                     block |-> IF tx.from = Owner THEN now ELSE 0] : tx \in sent}
        /\ nonces = [a \in {Owner, Worker} |-> Cardinality({tx \in sent : tx.from = a})]
        /\ lastTransfer = -1
        /\ changes = change /\ faults = fault

\* The reviews before the first were withdrawn.
Terms == [NoReview EXCEPT !.price = 1, !.fee = 1, !.deadline = Duration,
                          !.expiresAt = ReviewLife]
Earlier(first) ==
    [i \in Reviews |-> IF i < first
                       THEN [Terms EXCEPT !.status = "CANCELLED", !.revision = 1]
                       ELSE NoReview]
Unfunded(first) ==
    /\ now = 0
    /\ reviews = Earlier(first)
    /\ wallet = [i \in Reviews |-> "IDLE"]
    /\ mission = NoMission /\ balance = 0 /\ paidIn = Nothing
Authorized ==
    /\ now = 1
    /\ reviews = [Earlier(MaxReviews) EXCEPT ![MaxReviews] =
          [Terms EXCEPT !.status = "WALLET_REQUESTED", !.revision = 2, !.reported = TRUE]]
    /\ wallet = [i \in Reviews |-> IF i = MaxReviews THEN "SENT" ELSE "IDLE"]
    /\ mission = [authorizingOwner |-> Owner, executor |-> Worker, price |-> 1, fee |-> 1,
                  generation |-> 1, deadline |-> Duration, status |-> "ACTIVE"]
    /\ balance = 2 /\ paidIn = [Nothing EXCEPT ![Owner] = 2]

SharedSigner == Authorized /\ Story(1, MaxChanges, 0, "true")
SettingComes == Authorized /\ Story(1, MaxChanges - 1, MaxFaults - 1, "unset")
SettingGoes == Authorized /\ Story(1, MaxChanges - 1, MaxFaults, "true")
AwayAndBack == Unfunded(MaxReviews) /\ Story(3, 0, MaxFaults - 1, "true")
ThreeReviews == Unfunded(1) /\ Story(3, MaxChanges - 1, MaxFaults, "true")
StoriesSpec ==
    /\ SharedSigner \/ SettingComes \/ SettingGoes \/ AwayAndBack \/ ThreeReviews
    /\ [][WorkerNext]_allVars

\* Invocations differ in nothing but their name.
Symmetry == Permutations(Invocations)
=============================================================================
