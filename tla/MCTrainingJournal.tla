--------------------------- MODULE MCTrainingJournal ---------------------------
(***************************************************************************)
(* Instances of TrainingJournal for TLC.  A slot that no invocation of the *)
(* reconciler uses is "gone".                                              *)
(***************************************************************************)
EXTENDS TrainingJournal

Withdrawn == [NoRow EXCEPT !.status = "CANCELLED", !.revision = 1, !.owner = "seller"]
Prepared == [NoRow EXCEPT !.status = "PREPARED", !.owner = "seller"]
Submitted(o, t) == [NoRow EXCEPT !.status = "SUBMITTED", !.revision = 2, !.owner = o,
                                 !.anchor = t, !.hash = TRUE]
Sold == [NoEntry EXCEPT !.tx = Sale]

Story(first, second, blocks, t, workers, fault) ==
    /\ rows = <<first, second>>
    /\ jobs = <<0, 0>>
    /\ checked = {} /\ orphaned = {}
    /\ asked = {r \in Reviews : rows[r].hash}
    /\ chain = blocks
    /\ final = t - 1 /\ now = t /\ fork = 0
    /\ pc = [w \in Workers |-> IF w <= workers THEN "idle" ELSE "gone"]
    /\ local = [w \in Workers |-> NoLocal]
    /\ faults = fault

\* Three stories, two of them with a part of the bounds behind them, so that one
\* run asks all questions.  A review from its preparation to its end, with one
\* worker, a fault, a reorganisation, and a sale or a nonce used elsewhere.  Two
\* workers with a fault and a reorganisation at a submitted review of the buyer.
\* A review of the seller that has expired, lapsed or submitted, a sale or not,
\* and the review after it.
OneReview == Story(Withdrawn, NoRow, <<>>, 1, 1, 0)
Overlap == Story(Withdrawn, Submitted("buyer", 1), <<Sold>>, 2, 2, 0)
NextReview ==
    \E first \in {Prepared, Submitted("seller", 0)} : Story(first, NoRow, <<>>, 1, 1, MaxFaults)

StoriesSpec == (OneReview \/ Overlap \/ NextReview) /\ [][Next]_vars /\ Fairness
=============================================================================
