------------------------ MODULE TrainingJournal_proofs ------------------------
(***************************************************************************)
(* A hold on a Punk ends for good, and a settled row is true, for any      *)
(* number of reviews, workers, reorganisations, faults and other           *)
(* transactions.                                                           *)
(***************************************************************************)
EXTENDS TrainingJournal, FiniteSetTheorems, WellFoundedInduction, TLAPS

(* Shapes. *)
Owners == {"seller", "buyer"}
TxShapes == [by : Owners \cup {"market", None}, nonce : Nat, review : 0 .. MaxReviews,
           exact : BOOLEAN]
EntryShapes == [tx : TxShapes, time : Nat, ok : BOOLEAN, fork : Nat]
Statuses == {"NONE", "PREPARED"} \cup Claimed \cup Released
RowShapes == [status : Statuses, revision : Nat, owner : Owners \cup {None}, nonce : Nat,
              guard : Nat, anchor : Nat, hash : BOOLEAN, observation : EntryShapes]
Labels == {"idle", "gone", "get", "receipt", "observe", "settle", "record", "finish"}
Locals == [review : 0 .. MaxReviews, row : RowShapes,
           sees : Statuses \cup {None}, observation : EntryShapes]

ShapesOK ==
    /\ rows \in [Reviews -> RowShapes] /\ jobs \in [Reviews -> 0 .. MaxWorkers]
    /\ checked \subseteq Reviews /\ asked \subseteq Reviews /\ orphaned \subseteq Reviews
    /\ chain \in Seq(EntryShapes)
    /\ final \in Nat /\ now \in Nat /\ final <= now /\ now <= MaxTime
    /\ fork \in Nat /\ faults \in Nat
    /\ pc \in [Workers -> Labels] /\ local \in [Workers -> Locals]

(* Rows: one hold; a row with a status that needs a hash or an observation *)
(* has it, and a wallet was asked only for what was claimed.               *)
HasHash == {"SUBMITTED", "REORGED", "SETTLED_SUCCESS", "SETTLED_REVERT"} \cup Included
RowHolds(r) ==
    /\ rows[r].status \in HasHash => rows[r].hash
    /\ rows[r].status \in Included => rows[r].observation # NoEntry
    /\ rows[r].status # "NONE" => rows[r].owner \in Owners
    /\ jobs[r] # 0 => rows[r].status \in Claimed
    /\ r \in asked => rows[r].status \in Claimed \cup Settled
RowsOK ==
    /\ \A q, r \in Reviews : Holds(q) /\ Holds(r) => q = r
    /\ \A r \in Reviews : RowHolds(r)

(* The chain: blocks in the order of their times, nonces in the order of   *)
(* the chain, and of a review what its wallet was asked for, applied only  *)
(* up to its deadline.                                                     *)
Reviewed(i) ==
    LET tx == chain[i].tx
        r == tx.review
    IN  /\ r # 0 => /\ r \in asked /\ tx.by = rows[r].owner /\ tx.nonce = rows[r].nonce
                    /\ chain[i].ok => chain[i].time <= Deadline(r)
        /\ chain[i].ok => r # 0
InOrder ==
    \A i \in DOMAIN chain :
        /\ chain[i].time <= now
        /\ \A j \in 1 .. i : chain[j].time <= chain[i].time
Counted ==
    \A i \in DOMAIN chain :
        chain[i].tx.by \in Owners => chain[i].tx.nonce = NonceIn(1 .. i - 1, chain[i].tx.by)
ChainOK == InOrder /\ Counted /\ \A i \in DOMAIN chain : Reviewed(i)

(* Why a settlement stays true: a final block has the transaction, or      *)
(* another one of its nonce; or there is none up to the deadline, and the  *)
(* deadline is final.                                                      *)
UsesNonce(i, r) == chain[i].tx.by = rows[r].owner /\ chain[i].tx.nonce = rows[r].nonce
Proven(r, proof, bound) ==
    /\ proof = "SETTLED_SUCCESS" => \E i \in Final : chain[i].tx = Exact(r) /\ chain[i].ok
    /\ proof = "SETTLED_REVERT" => \E i \in Final : chain[i].tx = Exact(r) /\ ~ chain[i].ok
    /\ proof = "NONCE_CONSUMED" =>
          \E i \in Final : UsesNonce(i, r) /\ (bound => chain[i].tx # Exact(r))
    /\ proof = "REVIEW_EXPIRED" => final > Deadline(r) /\ r \notin Applied
SettledOK ==
    \A r \in Reviews : rows[r].status \in Settled => Proven(r, rows[r].status, rows[r].hash)

(* What a worker remembers: a row as it was, and as it is while its        *)
(* revision is the same; and a proof that holds for good.                  *)
HasRow == {"receipt", "observe", "settle", "record"}
WorkerHolds(w) ==
    /\ pc[w] \notin {"idle", "gone"} =>
          Job(w) \in Reviews /\ rows[Job(w)].status \in Claimed \cup Settled
    /\ pc[w] \in HasRow =>
          /\ Read(w).status \in Claimed
          /\ Read(w).revision <= rows[Job(w)].revision
          /\ Read(w).revision = rows[Job(w)].revision => rows[Job(w)] = Read(w)
    /\ pc[w] \in {"receipt", "observe"} => Read(w).hash
    /\ pc[w] = "observe" =>
          /\ local[w].sees \in {"REORGED"} \cup Included
          /\ local[w].sees \in Included => local[w].observation # NoEntry
    /\ pc[w] = "record" =>
          local[w].sees \in Settled /\ Proven(Job(w), local[w].sees, Read(w).hash)
WorkersOK == \A w \in Workers : WorkerHolds(w)

TInv == ShapesOK /\ RowsOK /\ ChainOK /\ SettledOK /\ WorkersOK

-----------------------------------------------------------------------------
(* Names, numbers and shapes. *)
LEMMA Numbers ==
    /\ MaxReviews \in Nat /\ MaxWorkers \in Nat /\ Life \in Nat /\ MaxTime \in Nat
    /\ MaxTime >= 1 /\ Reviews \subseteq Nat \ {0} /\ IsFiniteSet(Reviews)
<1>1. /\ MaxReviews \in Nat /\ MaxWorkers \in Nat /\ Life \in Nat /\ MaxTime \in Nat
      /\ MaxTime >= 1
  BY TrainingAssumption
<1>2. IsFiniteSet(Reviews)
  BY <1>1, FS_Interval DEF Reviews
<1> QED
  BY <1>1, <1>2 DEF Reviews

LEMMA Literals ==
    /\ NoEntry \in EntryShapes /\ NoRow \in RowShapes /\ NoLocal \in Locals
    /\ Sale \in TxShapes /\ Claimed \cap Released = {} /\ "NONE" \notin Claimed \cup Released
    /\ Settled \subseteq Released /\ Included \subseteq Claimed
<1>1. Other(None, 0) \in TxShapes /\ Sale \in TxShapes
  BY Numbers DEF Other, TxShapes, Sale, None
<1>2. NoEntry \in EntryShapes
  BY <1>1 DEF NoEntry, EntryShapes
<1>3. NoRow \in RowShapes
  BY <1>2 DEF NoRow, RowShapes, Statuses
<1>4. NoLocal \in Locals
  BY <1>2, <1>3, Numbers DEF NoLocal, Locals
<1>5. /\ Claimed \cap Released = {} /\ "NONE" \notin Claimed \cup Released
      /\ Settled \subseteq Released /\ Included \subseteq Claimed
  BY DEF Claimed, Released, Settled, Included
<1> QED
  BY <1>1, <1>2, <1>3, <1>4, <1>5

\* The shape of one row, and of what one worker remembers.
LEMMA RowShape ==
    ASSUME ShapesOK, NEW r \in Reviews
    PROVE  /\ rows[r] \in RowShapes /\ r \in 1 .. MaxReviews
           /\ rows[r].owner \in Owners \cup {None} /\ rows[r].nonce \in Nat
           /\ rows[r].anchor \in Nat /\ rows[r].revision \in Nat
           /\ Deadline(r) \in Nat
<1>1. rows[r] \in RowShapes /\ r \in 1 .. MaxReviews
  BY DEF ShapesOK, Reviews
<1> QED
  BY <1>1, Numbers DEF RowShapes, Deadline

LEMMA LocalShape ==
    ASSUME ShapesOK, NEW w \in Workers
    PROVE  /\ pc[w] \in Labels /\ local[w] \in Locals
           /\ Job(w) \in 0 .. MaxReviews /\ Read(w) \in RowShapes
           /\ local[w].sees \in Statuses \cup {None} /\ local[w].observation \in EntryShapes
<1>1. pc[w] \in Labels /\ local[w] \in Locals
  BY DEF ShapesOK
<1> QED
  BY <1>1 DEF Locals, Job, Read

\* The chain, entry by entry.
LEMMA ChainShape ==
    ASSUME ShapesOK
    PROVE  /\ DOMAIN chain = 1 .. Len(chain) /\ Len(chain) \in Nat
           /\ \A i \in DOMAIN chain : /\ chain[i] \in EntryShapes
                                      /\ chain[i].time \in Nat /\ chain[i].tx \in TxShapes
<1>1. chain \in Seq(EntryShapes)
  BY DEF ShapesOK
<1>2. /\ DOMAIN chain = 1 .. Len(chain) /\ Len(chain) \in Nat
      /\ \A i \in DOMAIN chain : chain[i] \in EntryShapes
  BY <1>1
<1> QED
  BY <1>2 DEF EntryShapes

\* Places of an owner's transactions are counted by a number.
LEMMA Places ==
    ASSUME ShapesOK, NEW S \in SUBSET DOMAIN chain, NEW o
    PROVE  /\ IsFiniteSet({i \in S : chain[i].tx.by = o})
           /\ NonceIn(S, o) \in Nat
<1>1. IsFiniteSet(DOMAIN chain)
  BY ChainShape, FS_Interval
<1>2. IsFiniteSet({i \in S : chain[i].tx.by = o})
  <2>1. {i \in S : chain[i].tx.by = o} \subseteq DOMAIN chain
    OBVIOUS
  <2> QED
    BY <1>1, <2>1, FS_Subset
<1> QED
  BY <1>2, FS_CardinalityType DEF NonceIn

LEMMA ReviewsApplied ==
    ASSUME ShapesOK, ChainOK PROVE Applied \subseteq Reviews /\ ReviewNonce \in Nat
<1>1. Applied \subseteq Reviews
  <2> SUFFICES ASSUME NEW i \in DOMAIN chain, chain[i].ok PROVE chain[i].tx.review \in Reviews
    BY DEF Applied, Entries, Range
  <2>1. chain[i].tx.review \in 0 .. MaxReviews
    BY ChainShape DEF TxShapes
  <2>2. chain[i].tx.review # 0
    BY DEF ChainOK, Reviewed
  <2> QED
    BY <2>1, <2>2 DEF Reviews
<1>2. IsFiniteSet(Applied)
  BY <1>1, Numbers, FS_Subset
<1> QED
  BY <1>1, <1>2, FS_CardinalityType DEF ReviewNonce

-----------------------------------------------------------------------------
(* Nonces of an owner count up along the chain: no two of his transactions *)
(* have the same,                                                          *)
LEMMA OneUse ==
    ASSUME ShapesOK, ChainOK, NEW i \in DOMAIN chain, NEW k \in DOMAIN chain,
           chain[i].tx.by \in Owners, chain[k].tx.by = chain[i].tx.by,
           chain[k].tx.nonce = chain[i].tx.nonce
    PROVE  i = k
<1> DEFINE o == chain[i].tx.by
           Below(n) == {j \in 1 .. n - 1 : chain[j].tx.by = o}
<1>1. ASSUME NEW m \in DOMAIN chain, NEW n \in DOMAIN chain, m < n, chain[m].tx.by = o
      PROVE  Cardinality(Below(m)) < Cardinality(Below(n))
  <2>1. 1 .. m - 1 \subseteq DOMAIN chain /\ 1 .. n - 1 \subseteq DOMAIN chain /\ m \in Nat /\ n \in Nat
    BY ChainShape
  <2>2. IsFiniteSet(Below(m)) /\ IsFiniteSet(Below(n))
    BY <2>1, Places
  <2>3. m \notin Below(m) /\ Below(m) \cup {m} \subseteq Below(n)
    <3>1. m \in 1 .. n - 1 /\ m \notin 1 .. m - 1 /\ 1 .. m - 1 \subseteq 1 .. n - 1
      BY <1>1, <2>1, ChainShape
    <3> HIDE DEF o
    <3> QED
      BY <1>1, <3>1
  <2> HIDE DEF Below
  <2>4. IsFiniteSet(Below(m) \cup {m}) /\ Cardinality(Below(m) \cup {m}) = Cardinality(Below(m)) + 1
    BY <2>2, <2>3, FS_AddElement
  <2>5. Cardinality(Below(m) \cup {m}) <= Cardinality(Below(n))
    BY <2>2, <2>3, FS_Subset
  <2>6. Cardinality(Below(m)) \in Nat /\ Cardinality(Below(n)) \in Nat
    BY <2>2, FS_CardinalityType
  <2> QED
    BY <2>4, <2>5, <2>6
<1>2. ASSUME NEW m \in DOMAIN chain, chain[m].tx.by = o
      PROVE  chain[m].tx.nonce = Cardinality(Below(m))
  BY <1>2 DEF ChainOK, Counted, NonceIn
<1>3. Cardinality(Below(i)) = Cardinality(Below(k))
  BY <1>2
<1>4. i \in Nat /\ k \in Nat /\ Cardinality(Below(i)) \in Nat
  <2>1. 1 .. i - 1 \subseteq DOMAIN chain
    BY ChainShape
  <2>2. IsFiniteSet(Below(i))
    BY <2>1, Places
  <2> QED
    BY <2>2, ChainShape, FS_CardinalityType
<1>5. ~ (i < k)
  <2> HIDE DEF Below
  <2> QED
    BY <1>1, <1>3, <1>4
<1>6. ~ (k < i)
  <2> HIDE DEF Below
  <2> QED
    BY <1>1, <1>3, <1>4
<1> QED
  BY <1>4, <1>5, <1>6

(* and one that is behind the count is used: the first place up to which   *)
(* there are more than n of them has the nonce n.                          *)
LEMMA NonceFound ==
    ASSUME ShapesOK, ChainOK, NEW r \in Reviews, rows[r].owner \in Owners, NonceUsed(r)
    PROVE  \E i \in Final : UsesNonce(i, r)
<1> DEFINE o == rows[r].owner
           n == rows[r].nonce
           S == {i \in Final : chain[i].tx.by = o}
           UpTo(m) == {i \in S : i <= m}
           More == {m \in 1 .. Len(chain) : Cardinality(UpTo(m)) > n}
<1>1. n \in Nat /\ Len(chain) \in Nat /\ S \subseteq 1 .. Len(chain) /\ Final \subseteq DOMAIN chain
  BY RowShape, ChainShape DEF Final
<1>2. IsFiniteSet(S) /\ Cardinality(S) > n
  BY <1>1, Places DEF NonceUsed, NonceIn
<1>3. \A m \in Int : IsFiniteSet(UpTo(m)) /\ Cardinality(UpTo(m)) \in Nat
  <2> SUFFICES ASSUME NEW m \in Int PROVE IsFiniteSet(UpTo(m)) /\ Cardinality(UpTo(m)) \in Nat
    OBVIOUS
  <2>1. UpTo(m) \subseteq S
    OBVIOUS
  <2> HIDE DEF UpTo, S
  <2> QED
    BY <1>2, <2>1, FS_Subset, FS_CardinalityType
<1>4. Len(chain) \in More
  <2>1. UpTo(Len(chain)) = S
    BY <1>1
  <2>2. Len(chain) # 0
    <3>1. SUFFICES ASSUME Len(chain) = 0 PROVE FALSE
      OBVIOUS
    <3>2. S = {}
      BY <1>1, <3>1
    <3> QED
      BY <1>1, <1>2, <3>2, FS_EmptySet
  <2>3. Len(chain) \in 1 .. Len(chain)
    BY <1>1, <2>2
  <2> HIDE DEF UpTo, S
  <2> QED
    BY <1>2, <2>1, <2>3
<1>5. PICK m \in More : \A k \in More : k >= m
  <2>1. More \subseteq Nat
    BY <1>1
  <2> HIDE DEF More
  <2>2. PICK m \in More : \A k \in More : ~ (<<k, m>> \in OpToRel(<, Nat))
    BY <1>4, <2>1, NatLessThanWellFounded, WFMin
  <2>3. \A k \in More : ~ (k < m)
    BY <2>1, <2>2 DEF OpToRel
  <2> QED
    BY <2>1, <2>3
<1>6. m \in 1 .. Len(chain) /\ m - 1 \in Int /\ Cardinality(UpTo(m)) > n
  BY <1>1, <1>5
<1>7. Cardinality(UpTo(m - 1)) <= n
  <2>1. CASE m = 1
    <3>1. UpTo(0) = {}
      BY <1>1
    <3>2. Cardinality(UpTo(0)) = 0
      BY <3>1, FS_EmptySet
    <3> HIDE DEF UpTo
    <3> QED
      BY <1>1, <2>1, <3>2
  <2>2. CASE m # 1
    <3>1. m - 1 \in 1 .. Len(chain) /\ ~ (m - 1 >= m)
      BY <1>1, <1>6, <2>2
    <3>2. m - 1 \notin More
      BY <1>5, <3>1
    <3>3. ~ (Cardinality(UpTo(m - 1)) > n) /\ Cardinality(UpTo(m - 1)) \in Nat
      BY <1>3, <1>6, <3>1, <3>2
    <3> HIDE DEF UpTo
    <3> QED
      BY <1>1, <3>3
  <2> QED
    BY <2>1, <2>2
<1>8. m \in S
  <2>1. SUFFICES ASSUME m \notin S PROVE FALSE
    OBVIOUS
  <2>2. UpTo(m) = UpTo(m - 1)
    BY <1>1, <1>6, <2>1
  <2>3. m \in Int
    BY <1>6
  <2>4. Cardinality(UpTo(m)) \in Nat
    <3> HIDE DEF UpTo
    <3> QED
      BY <1>3, <2>3
  <2> HIDE DEF UpTo
  <2> QED
    BY <1>1, <1>6, <1>7, <2>2, <2>4
<1>9. Cardinality(UpTo(m - 1)) = n
  <2>1. UpTo(m) = UpTo(m - 1) \cup {m} /\ m \notin UpTo(m - 1)
    BY <1>1, <1>6, <1>8
  <2>2. IsFiniteSet(UpTo(m - 1)) /\ Cardinality(UpTo(m - 1)) \in Nat
    BY <1>3, <1>6
  <2> HIDE DEF UpTo, S
  <2>3. Cardinality(UpTo(m)) = Cardinality(UpTo(m - 1)) + 1
    BY <2>1, <2>2, FS_AddElement
  <2> QED
    BY <1>1, <1>6, <1>7, <2>2, <2>3
<1>10. UpTo(m - 1) = {i \in 1 .. m - 1 : chain[i].tx.by = o}
  <2>1. m \in Final /\ m \in DOMAIN chain /\ chain[m].time <= final /\ final \in Nat
    BY <1>8 DEF Final, ShapesOK
  <2>2. ASSUME NEW i \in 1 .. m - 1 PROVE i \in Final
    <3>1. i \in DOMAIN chain /\ i \in 1 .. m /\ chain[i].time \in Nat /\ chain[m].time \in Nat
      BY <1>1, <1>6, ChainShape
    <3>2. chain[i].time <= chain[m].time
      BY <2>1, <3>1 DEF ChainOK, InOrder
    <3> QED
      BY <2>1, <3>1, <3>2 DEF Final
  <2> QED
    BY <1>1, <1>6, <2>2
<1>11. chain[m].tx.nonce = n /\ chain[m].tx.by = o
  <2>1. m \in DOMAIN chain /\ chain[m].tx.by = o
    BY <1>8 DEF Final
  <2> QED
    BY <1>9, <1>10, <2>1 DEF ChainOK, Counted, NonceIn
<1> QED
  BY <1>8, <1>11 DEF UsesNonce

-----------------------------------------------------------------------------
(* How a row goes on: one step of one row, from a status that holds to one *)
(* that does not forget what was claimed, with what the new status says.   *)
SameReview(row, r) ==
    /\ row.owner = rows[r].owner /\ row.nonce = rows[r].nonce /\ row.anchor = rows[r].anchor
    /\ row.revision = rows[r].revision + 1
Follows(row, r) ==
    /\ rows[r].status \notin {"NONE"} \cup Released
    /\ row.status \in Claimed \cup Released
    /\ rows[r].status \in Claimed => row.status \in Claimed \cup Settled
    /\ row.status \in HasHash => row.hash
    /\ row.status \in Included => row.observation # NoEntry
    /\ row.status \in Settled => Proven(r, row.status, row.hash)
Advances(r, row) ==
    /\ row \in RowShapes /\ rows' = [rows EXCEPT ![r] = row]
    /\ SameReview(row, r) /\ Follows(row, r)
    /\ UNCHANGED <<chain, final>>
    /\ asked' \in SUBSET Reviews /\ asked \subseteq asked' /\ asked' \subseteq asked \cup {r}
    /\ r \in asked' => row.status \in Claimed \cup Settled
    /\ jobs' \in [Reviews -> 0 .. MaxWorkers]
    /\ \A q \in Reviews : jobs'[q] \in {0, jobs[q]}
    /\ jobs'[r] # 0 => row.status \in Claimed

LEMMA RowChange ==
    ASSUME NEW x \in RowShapes, NEW s \in Statuses
    PROVE  [x EXCEPT !.status = s, !.revision = x.revision + 1] \in RowShapes
<1>1. ASSUME NEW n \in Nat PROVE [x EXCEPT !.status = s, !.revision = n] \in RowShapes
  BY DEF RowShapes
<1>2. x.revision + 1 \in Nat
  BY DEF RowShapes
<1> QED
  BY <1>1, <1>2

LEMMA SetRow ==
    ASSUME ShapesOK, NEW r \in Reviews, NEW s \in Statuses, Set(r, s)
    PROVE  \E row \in RowShapes :
              /\ rows' = [rows EXCEPT ![r] = row] /\ SameReview(row, r)
              /\ row.status = s /\ row.hash = rows[r].hash /\ row.observation = rows[r].observation
<1> DEFINE row == [rows[r] EXCEPT !.status = s, !.revision = rows[r].revision + 1]
<1>1. rows \in [Reviews -> RowShapes] /\ rows[r] \in RowShapes
  BY DEF ShapesOK
<1>2. row \in RowShapes
  BY <1>1, RowChange
<1>3. /\ row.owner = rows[r].owner /\ row.nonce = rows[r].nonce /\ row.anchor = rows[r].anchor
      /\ row.revision = rows[r].revision + 1 /\ row.status = s
      /\ row.hash = rows[r].hash /\ row.observation = rows[r].observation
  BY <1>1 DEF RowShapes
<1>4. rows' = [rows EXCEPT ![r] = row]
  BY <1>1 DEF Set
<1> HIDE DEF row
<1> QED
  BY <1>2, <1>3, <1>4 DEF SameReview

\* What jobs and requests to wallets may be of a row in each status.
LEMMA RowFacts ==
    ASSUME ShapesOK, RowsOK, NEW r \in Reviews
    PROVE  /\ rows[r].status = "PREPARED" => jobs[r] = 0 /\ r \notin asked
           /\ rows[r].status = "NONE" => jobs[r] = 0 /\ r \notin asked
<1> QED
  BY DEF RowsOK, RowHolds, Claimed, Settled, Included

LEMMA CancelAdvances ==
    ASSUME ShapesOK, RowsOK, NEW r \in Reviews, CancelPrepared(r)
    PROVE  \E row : Advances(r, row)
<1> DEFINE s == IF Expired(r) THEN "EXPIRED" ELSE "CANCELLED"
<1>1. /\ rows[r].status = "PREPARED" /\ Set(r, s)
      /\ UNCHANGED <<chain, final, asked, jobs>>
  BY DEF CancelPrepared, chainVars
<1>2. s \in Statuses /\ s \in Released \ Settled
  BY DEF Statuses, Released, Settled
<1> HIDE DEF s
<1>3. PICK row \in RowShapes :
        /\ rows' = [rows EXCEPT ![r] = row] /\ SameReview(row, r)
        /\ row.status = s /\ row.hash = rows[r].hash
  BY <1>1, <1>2, SetRow
<1>4. Follows(row, r)
  BY <1>1, <1>2, <1>3 DEF Follows, Claimed, Released, Settled, Included, HasHash
<1>5. jobs[r] = 0 /\ r \notin asked /\ jobs \in [Reviews -> 0 .. MaxWorkers] /\ asked \in SUBSET Reviews
  BY <1>1, RowFacts DEF ShapesOK
<1> QED
  BY <1>1, <1>3, <1>4, <1>5 DEF Advances

LEMMA ClaimAdvances ==
    ASSUME ShapesOK, RowsOK, NEW r \in Reviews, Claim(r), rows[r].status = "PREPARED"
    PROVE  \E row : Advances(r, row)
<1> DEFINE s == IF Expired(r) THEN "EXPIRED" ELSE "WALLET_REQUESTED"
<1>1. /\ Set(r, s) /\ UNCHANGED <<chain, final, jobs>>
      /\ IF Expired(r) THEN asked' = asked ELSE asked' \in {asked, asked \cup {r}}
  BY DEF Claim, chainVars
<1>2. /\ s \in Statuses /\ s \in (Released \cup Claimed) \ (Settled \cup HasHash)
      /\ ~ Expired(r) => s \in Claimed
  BY DEF Statuses, Released, Claimed, Settled, Included, HasHash
<1> HIDE DEF s
<1>3. PICK row \in RowShapes :
        /\ rows' = [rows EXCEPT ![r] = row] /\ SameReview(row, r)
        /\ row.status = s /\ row.hash = rows[r].hash
  BY <1>1, <1>2, SetRow
<1>4. Follows(row, r)
  BY <1>2, <1>3 DEF Follows, Claimed, Released, Settled, Included, HasHash
<1>5. jobs[r] = 0 /\ r \notin asked /\ jobs \in [Reviews -> 0 .. MaxWorkers] /\ asked \in SUBSET Reviews
  BY RowFacts DEF ShapesOK
<1>6. /\ asked' \in SUBSET Reviews /\ asked \subseteq asked' /\ asked' \subseteq asked \cup {r}
      /\ r \in asked' => row.status \in Claimed \cup Settled
  BY <1>1, <1>2, <1>3, <1>5
<1> QED
  BY <1>1, <1>3, <1>4, <1>5, <1>6 DEF Advances

LEMMA ReportAdvances ==
    ASSUME ShapesOK, RowsOK, NEW r \in Reviews, MarkUnknown(r) \/ Recover(r)
    PROVE  \E row : Advances(r, row)
<1>1. /\ rows[r].status \in {"WALLET_REQUESTED", "SUBMISSION_UNKNOWN"}
      /\ UNCHANGED <<chain, final, jobs, asked>>
  BY DEF MarkUnknown, Recover, chainVars
<1>2. PICK row \in RowShapes :
        /\ rows' = [rows EXCEPT ![r] = row] /\ SameReview(row, r)
        /\ \/ row.status = "SUBMISSION_UNKNOWN"
           \/ row.status = "SUBMITTED" /\ row.hash
  <2>1. CASE MarkUnknown(r)
    <3>1. "SUBMISSION_UNKNOWN" \in Statuses /\ Set(r, "SUBMISSION_UNKNOWN")
      BY <2>1 DEF MarkUnknown, Statuses, Claimed
    <3> QED
      BY <3>1, SetRow
  <2>2. CASE Recover(r)
    <3> DEFINE new == [rows[r] EXCEPT !.status = "SUBMITTED", !.hash = TRUE,
                                      !.revision = rows[r].revision + 1]
    <3>1. rows \in [Reviews -> RowShapes] /\ rows[r] \in RowShapes
      BY DEF ShapesOK
    <3>2. new \in RowShapes
      <4>1. /\ [rows[r] EXCEPT !.status = "SUBMITTED", !.revision = rows[r].revision + 1] \in RowShapes
            /\ "SUBMITTED" \in Statuses
        BY <3>1, RowChange DEF Statuses, Claimed
      <4> QED
        BY <3>1, <4>1 DEF RowShapes
    <3>3. rows' = [rows EXCEPT ![r] = new]
      BY <2>2, <3>1 DEF Recover
    <3>4. SameReview(new, r) /\ new.status = "SUBMITTED" /\ new.hash
      BY <3>1 DEF SameReview, RowShapes
    <3> HIDE DEF new
    <3> QED
      BY <3>2, <3>3, <3>4
  <2> QED
    BY <2>1, <2>2
<1>3. Follows(row, r)
  BY <1>1, <1>2 DEF Follows, Claimed, Released, Settled, Included, HasHash
<1>4. row.status \in Claimed
  BY <1>2 DEF Claimed
<1>5. jobs \in [Reviews -> 0 .. MaxWorkers] /\ asked \in SUBSET Reviews
  BY DEF ShapesOK
<1> QED
  BY <1>1, <1>2, <1>3, <1>4, <1>5 DEF Advances

LEMMA ObservedAdvances ==
    ASSUME ShapesOK, RowsOK, WorkersOK, NEW w \in Workers, pc[w] = "observe", Unchanged(w),
           rows' = [rows EXCEPT ![Job(w)] = Observed(w)],
           UNCHANGED <<chain, final, asked, jobs>>
    PROVE  Job(w) \in Reviews /\ Advances(Job(w), Observed(w))
<1> DEFINE r == Job(w)
           s == local[w].sees
           o == local[w].observation
<1>1. /\ r \in Reviews /\ Read(w).status \in Claimed /\ Read(w).hash /\ rows[r] = Read(w)
      /\ s \in {"REORGED"} \cup Included
      /\ s \in Included => o # NoEntry
  BY DEF WorkersOK, WorkerHolds, HasRow, Unchanged
<1>2. /\ rows[r] \in RowShapes /\ s \in Statuses /\ o \in EntryShapes /\ s \in Claimed
      /\ rows[r].status \in Claimed /\ rows[r].hash
  <2>1. s \in Claimed
    BY <1>1 DEF Claimed
  <2>2. rows[r] \in RowShapes /\ o \in EntryShapes
    BY <1>1, RowShape, LocalShape
  <2> QED
    BY <1>1, <2>1, <2>2 DEF Statuses
<1>3. Observed(w) = [[rows[r] EXCEPT !.status = s, !.revision = rows[r].revision + 1]
                        EXCEPT !.observation = o]
  BY <1>2 DEF Observed, RowShapes
<1>4. [rows[r] EXCEPT !.status = s, !.revision = rows[r].revision + 1] \in RowShapes
  BY <1>2, RowChange
<1>5. Observed(w) \in RowShapes
  BY <1>2, <1>3, <1>4 DEF RowShapes
<1>6. /\ SameReview(Observed(w), r) /\ Observed(w).status = s
      /\ Observed(w).hash = rows[r].hash /\ Observed(w).observation = o
  BY <1>2 DEF Observed, SameReview, RowShapes
<1> HIDE DEF r, s, o
<1>7. Follows(Observed(w), r)
  <2>1. s \notin Settled /\ rows[r].status \notin {"NONE"} \cup Released
    BY <1>2, Literals
  <2> QED
    BY <1>1, <1>2, <1>6, <2>1 DEF Follows
<1>8. /\ rows' = [rows EXCEPT ![r] = Observed(w)]
      /\ jobs \in [Reviews -> 0 .. MaxWorkers] /\ asked \in SUBSET Reviews
  BY DEF ShapesOK, r
<1>9. Advances(r, Observed(w))
  BY <1>2, <1>5, <1>6, <1>7, <1>8 DEF Advances
<1> QED
  BY <1>1, <1>9 DEF r

Recorded(w) == /\ rows[Job(w)].hash = Read(w).hash /\ Unchanged(w)
               /\ MaySettle(rows[Job(w)].status, local[w].sees)
LEMMA RecordAdvances ==
    ASSUME ShapesOK, RowsOK, WorkersOK, NEW w \in Workers, Record(w), Recorded(w)
    PROVE  Job(w) \in Reviews /\ \E row : Advances(Job(w), row)
<1> DEFINE r == Job(w)
           s == local[w].sees
<1>1. /\ Set(r, s) /\ jobs' = [jobs EXCEPT ![r] = 0] /\ UNCHANGED <<chain, final, asked>>
      /\ pc[w] = "record"
  BY DEF Record, Recorded, At, chainVars
<1>2. /\ r \in Reviews /\ Read(w).status \in Claimed /\ rows[r] = Read(w)
      /\ s \in Settled /\ Proven(r, s, rows[r].hash)
  BY <1>1 DEF WorkersOK, WorkerHolds, HasRow, Unchanged, Recorded
<1>3. s \in Statuses /\ s \in Released /\ s \notin Included /\ rows[r].status \in Claimed
  BY <1>2 DEF Statuses, Released, Settled, Included
<1>4. s \in HasHash => rows[r].hash
  <2>1. SUFFICES ASSUME s \in HasHash PROVE rows[r].status \in HasHash
    BY <1>2 DEF RowsOK, RowHolds
  <2>2. s \in {"SETTLED_SUCCESS", "SETTLED_REVERT"}
    BY <1>2, <2>1 DEF HasHash, Settled, Included
  <2> QED
    BY <2>2 DEF Recorded, MaySettle, HasHash, Included
<1> HIDE DEF r, s
<1>5. PICK row \in RowShapes :
        /\ rows' = [rows EXCEPT ![r] = row] /\ SameReview(row, r)
        /\ row.status = s /\ row.hash = rows[r].hash
  BY <1>1, <1>2, <1>3, SetRow
<1>6. rows[r].status \notin {"NONE"} \cup Released
  BY <1>3, Literals
<1>7. Follows(row, r)
  BY <1>2, <1>3, <1>4, <1>5, <1>6 DEF Follows
<1>8. jobs \in [Reviews -> 0 .. MaxWorkers] /\ asked \in SUBSET Reviews /\ 0 \in 0 .. MaxWorkers
  BY Numbers DEF ShapesOK
<1>9. /\ jobs' \in [Reviews -> 0 .. MaxWorkers] /\ jobs'[r] = 0
      /\ \A q \in Reviews : jobs'[q] \in {0, jobs[q]}
  BY <1>1, <1>2, <1>8
<1>10. Advances(r, row)
  BY <1>1, <1>2, <1>5, <1>7, <1>8, <1>9 DEF Advances
<1> QED
  BY <1>2, <1>10 DEF r

-----------------------------------------------------------------------------
(* Every step: rows rest, a review is prepared, or one row goes on.        *)
RowsRest ==
    /\ UNCHANGED <<rows, asked>>
    /\ jobs' \in [Reviews -> 0 .. MaxWorkers]
    /\ \A q \in Reviews : jobs'[q] # 0 => jobs[q] # 0 \/ rows[q].status \in Claimed

LEMMA RowMoves ==
    ASSUME TInv, [Next]_vars
    PROVE  \/ RowsRest
           \/ \E r \in Reviews : Prepare(r)
           \/ \E r \in Reviews : \E row : Advances(r, row)
<1> USE DEF TInv
<1>0. jobs \in [Reviews -> 0 .. MaxWorkers] /\ Workers \subseteq 0 .. MaxWorkers
  BY Numbers DEF ShapesOK, Workers
<1>1. ASSUME UNCHANGED <<rows, jobs, asked>> PROVE RowsRest
  BY <1>0, <1>1 DEF RowsRest
<1>2. CASE UNCHANGED vars
  BY <1>1, <1>2 DEF vars, journal
<1>3. CASE Mine \/ OtherTransaction \/ Reorganise \/ Finalize \/ Tick
  BY <1>1, <1>3 DEF Mine, OtherTransaction, Reorganise, Finalize, Tick, journal
<1>4. ASSUME NEW r \in Reviews, OwnerStep(r) \/ LeaseEnds(r)
      PROVE  \/ RowsRest \/ Prepare(r) \/ \E row : Advances(r, row)
  <2>1. CASE Check(r)
    BY <1>1, <2>1 DEF Check, journal
  <2>2. CASE CancelPrepared(r)
    BY <2>2, CancelAdvances
  <2>3. CASE Claim(r)
    <3>1. CASE rows[r].status = "PREPARED"
      BY <2>3, <3>1, ClaimAdvances
    <3>2. CASE rows[r].status # "PREPARED"
      BY <1>1, <2>3, <3>2 DEF Claim
    <3> QED
      BY <3>1, <3>2
  <2>4. CASE MarkUnknown(r) \/ Recover(r)
    BY <2>4, ReportAdvances
  <2>5. CASE LeaseEnds(r)
    <3>1. UNCHANGED <<rows, asked>> /\ jobs' = [jobs EXCEPT ![r] = 0]
      BY <2>5 DEF LeaseEnds
    <3>2. 0 \in 0 .. MaxWorkers
      BY Numbers
    <3> QED
      BY <1>0, <3>1, <3>2 DEF RowsRest
  <2> QED
    BY <1>4, <2>1, <2>2, <2>3, <2>4, <2>5 DEF OwnerStep
<1>5. ASSUME NEW w \in Workers, WorkerStep(w) \/ CallFails(w) \/ Die(w)
      PROVE  \/ RowsRest \/ \E r \in Reviews : \E row : Advances(r, row)
  <2>1. CASE Lease(w)
    <3>1. PICK r \in Reviews : rows[r].status \in Claimed /\ jobs' = [jobs EXCEPT ![r] = w]
      BY <2>1 DEF Lease
    <3>2. UNCHANGED <<rows, asked>>
      BY <2>1 DEF Lease
    <3> QED
      BY <1>0, <3>1, <3>2 DEF RowsRest
  <2>2. CASE Get(w) \/ Receipt(w) \/ Settle(w)
    BY <1>1, <2>2 DEF Get, Receipt, Settle, journal
  <2>3. CASE Observe(w)
    <3>1. CASE UNCHANGED rows
      BY <1>1, <2>3, <3>1 DEF Observe
    <3>2. CASE Unchanged(w) /\ rows' = [rows EXCEPT ![Job(w)] = Observed(w)]
      <4>1. pc[w] = "observe" /\ UNCHANGED <<chain, final, asked, jobs>>
        BY <2>3 DEF Observe, At, chainVars
      <4> QED
        BY <3>2, <4>1, ObservedAdvances
    <3> QED
      BY <2>3, <3>1, <3>2 DEF Observe
  <2>4. CASE Record(w)
    <3>1. CASE Recorded(w)
      BY <2>4, <3>1, RecordAdvances
    <3>2. CASE ~ Recorded(w)
      BY <1>1, <2>4, <3>2 DEF Record, Recorded, journal
    <3> QED
      BY <3>1, <3>2
  <2>5. CASE Finish(w)
    <3>1. /\ UNCHANGED <<rows, asked>>
          /\ jobs' = jobs \/ jobs' = [jobs EXCEPT ![Job(w)] = 0]
      BY <2>5 DEF Finish
    <3>2. 0 \in 0 .. MaxWorkers
      BY Numbers
    <3> QED
      BY <1>0, <3>1, <3>2 DEF RowsRest
  <2>6. CASE CallFails(w)
    <3>1. CASE UNCHANGED journal
      BY <1>1, <2>6, <3>1 DEF CallFails, journal
    <3>2. CASE /\ At(w, "observe") /\ Unchanged(w) /\ UNCHANGED jobs
               /\ rows' = [rows EXCEPT ![Job(w)] = Observed(w)]
      <4>1. pc[w] = "observe" /\ UNCHANGED <<chain, final, asked, jobs>>
        BY <2>6, <3>2 DEF CallFails, At, chainVars
      <4> QED
        BY <3>2, <4>1, ObservedAdvances
    <3> QED
      BY <2>6, <3>1, <3>2 DEF CallFails, journal
  <2>7. CASE Die(w)
    BY <1>1, <2>7 DEF Die, journal
  <2> QED
    BY <1>5, <2>1, <2>2, <2>3, <2>4, <2>5, <2>6, <2>7 DEF WorkerStep
<1> QED
  BY <1>2, <1>3, <1>4, <1>5 DEF Next

-----------------------------------------------------------------------------
(* A review that is prepared is new; those it replaces had lapsed.         *)
LEMMA PrepareRows ==
    ASSUME TInv, NEW r \in Reviews, Prepare(r)
    PROVE  /\ rows' \in [Reviews -> RowShapes]
           /\ rows[r].status = "NONE" /\ rows'[r].status = "PREPARED" /\ rows'[r].owner \in Owners
           /\ \A q \in Reviews \ {r} :
                IF Lapsed(q) THEN SameReview(rows'[q], q) /\ rows'[q].status = "EXPIRED"
                             ELSE rows'[q] = rows[q] /\ ~ Holds(q)
<1> USE DEF TInv
<1> DEFINE new == [status |-> "PREPARED", revision |-> 0, owner |-> OwnerNow,
                   nonce |-> NextNonce(OwnerNow), guard |-> ReviewNonce,
                   anchor |-> now, hash |-> FALSE, observation |-> NoEntry]
           lapsed(q) == [rows[q] EXCEPT !.status = "EXPIRED", !.revision = rows[q].revision + 1]
<1>1. new \in RowShapes
  <2>1. OwnerNow \in Owners
    BY DEF OwnerNow, Owners
  <2>2. NextNonce(OwnerNow) \in Nat /\ ReviewNonce \in Nat
    BY Places, ReviewsApplied DEF NextNonce
  <2>3. now \in Nat /\ NoEntry \in EntryShapes /\ "PREPARED" \in Statuses
    BY Literals DEF ShapesOK, Statuses
  <2> HIDE DEF Statuses, EntryShapes
  <2> QED
    BY <2>1, <2>2, <2>3 DEF RowShapes
<1>2. ASSUME NEW q \in Reviews
      PROVE  /\ lapsed(q) \in RowShapes /\ SameReview(lapsed(q), q)
             /\ lapsed(q).status = "EXPIRED"
  <2>1. rows[q] \in RowShapes /\ "EXPIRED" \in Statuses
    BY RowShape DEF Statuses, Released
  <2> QED
    BY <2>1, RowChange DEF SameReview, RowShapes
<1>3. rows' = [q \in Reviews |-> IF q = r THEN new ELSE IF Lapsed(q) THEN lapsed(q) ELSE rows[q]]
  BY RowShape DEF Prepare, RowShapes
<1>4. new.status = "PREPARED" /\ new.owner \in Owners
  BY DEF OwnerNow, Owners
<1>5. /\ rows[r].status = "NONE"
      /\ \A q \in Reviews : Holds(q) => Lapsed(q)
  BY DEF Prepare
<1>6. \A q \in Reviews : rows[q] \in RowShapes
  BY RowShape
<1> HIDE DEF new, lapsed, TInv
<1>7. \A q \in Reviews : rows'[q] = IF q = r THEN new ELSE IF Lapsed(q) THEN lapsed(q) ELSE rows[q]
  BY <1>3
<1>8. \A q \in Reviews : rows'[q] \in RowShapes
  BY <1>1, <1>2, <1>6, <1>7
<1> QED
  BY <1>2, <1>3, <1>4, <1>5, <1>7, <1>8

RowGoesOn(r) ==
    \/ rows'[r] = rows[r]
    \/ rows[r].status = "NONE" /\ rows'[r].status = "PREPARED"
    \/ /\ rows[r].status \notin {"NONE"} \cup Released /\ SameReview(rows'[r], r)
       /\ rows'[r].status \in Claimed \cup Released
       /\ rows[r].status \in Claimed => rows'[r].status \in Claimed \cup Settled

LEMMA RowsGoOn ==
    ASSUME TInv, [Next]_vars, NEW r \in Reviews PROVE RowGoesOn(r)
<1>1. rows \in [Reviews -> RowShapes]
  BY DEF TInv, ShapesOK
<1>2. CASE RowsRest
  BY <1>2 DEF RowsRest, RowGoesOn
<1>3. ASSUME NEW q \in Reviews, Prepare(q) PROVE RowGoesOn(r)
  <2>1. CASE r = q
    BY <1>3, <2>1, PrepareRows DEF RowGoesOn
  <2>2. CASE r # q /\ Lapsed(r)
    <3>1. SameReview(rows'[r], r) /\ rows'[r].status = "EXPIRED"
      BY <1>3, <2>2, PrepareRows
    <3>2. rows[r].status = "PREPARED"
      BY <2>2 DEF Lapsed
    <3> QED
      BY <3>1, <3>2 DEF RowGoesOn, Released, Claimed, Settled, Included
  <2>3. CASE r # q /\ ~ Lapsed(r)
    BY <1>3, <2>3, PrepareRows DEF RowGoesOn
  <2> QED
    BY <2>1, <2>2, <2>3
<1>4. ASSUME NEW q \in Reviews, NEW row, Advances(q, row) PROVE RowGoesOn(r)
  <2>1. rows' = [rows EXCEPT ![q] = row] /\ SameReview(row, q) /\ Follows(row, q)
    BY <1>4 DEF Advances
  <2>2. CASE r = q
    <3>1. rows'[r] = row
      BY <1>1, <2>1, <2>2
    <3> QED
      BY <2>1, <2>2, <3>1 DEF RowGoesOn, Follows
  <2>3. CASE r # q
    BY <1>1, <2>1, <2>3 DEF RowGoesOn
  <2> QED
    BY <2>2, <2>3
<1> QED
  BY <1>2, <1>3, <1>4, RowMoves

\* What a row was prepared with stays.
LEMMA ReviewStays ==
    ASSUME TInv, [Next]_vars, NEW r \in Reviews, rows[r].status # "NONE"
    PROVE  /\ rows'[r].status # "NONE"
           /\ rows'[r].owner = rows[r].owner /\ rows'[r].nonce = rows[r].nonce
           /\ Deadline(r)' = Deadline(r) /\ Exact(r)' = Exact(r)
<1>1. /\ rows'[r].status # "NONE"
      /\ rows'[r].owner = rows[r].owner /\ rows'[r].nonce = rows[r].nonce
      /\ rows'[r].anchor = rows[r].anchor
  BY RowsGoOn, Literals DEF RowGoesOn, SameReview
<1> QED
  BY <1>1 DEF Deadline, Exact

-----------------------------------------------------------------------------
(* How the chain goes on: it rests while finality may advance, it grows by *)
(* a block that is not final, or what is not final is cut.                 *)
ChainRests == /\ chain' = chain /\ final' \in Nat /\ now' \in Nat
              /\ final' >= final /\ now' >= now /\ final' <= now' /\ now' <= MaxTime
NewEntry(e) ==
    LET r == e.tx.review
    IN  /\ e \in EntryShapes /\ e.time > final /\ e.time <= now
        /\ \A i \in DOMAIN chain : e.time >= chain[i].time
        /\ e.tx.by \in Owners => e.tx.nonce = NextNonce(e.tx.by)
        /\ r # 0 => /\ r \in asked /\ e.tx.by = rows[r].owner /\ e.tx.nonce = rows[r].nonce
                    /\ e.ok => e.time <= Deadline(r)
        /\ e.ok => r # 0
ChainGrows(e) == /\ NewEntry(e) /\ chain' = Append(chain, e)
                 /\ UNCHANGED <<final, now, rows, asked>>
ChainIsCut(n) == /\ n \in 0 .. Len(chain) /\ chain' = SubSeq(chain, 1, n)
                 /\ \A i \in Final : i <= n
                 /\ UNCHANGED <<final, now, rows, asked>>

LEMMA MineGrows ==
    ASSUME TInv, Mine PROVE \E e : ChainGrows(e)
<1> USE DEF TInv
<1>1. PICK r \in asked, t \in Times : \E tx \in {Exact(r), Repriced(r)} :
        /\ tx.nonce = NextNonce(tx.by)
        /\ \E ok \in {FALSE, Applies(tx, t)} : Add(tx, t, ok)
        /\ UNCHANGED <<journal, asked, final, now>>
  BY DEF Mine
<1>2. PICK tx \in {Exact(r), Repriced(r)} :
        /\ tx.nonce = NextNonce(tx.by)
        /\ \E ok \in {FALSE, Applies(tx, t)} : Add(tx, t, ok)
        /\ UNCHANGED <<journal, asked, final, now>>
  BY <1>1
<1>3. PICK ok \in {FALSE, Applies(tx, t)} : Add(tx, t, ok)
  BY <1>2
<1>4. /\ r \in Reviews /\ rows[r].owner \in Owners /\ rows[r].nonce \in Nat
      /\ r \in 1 .. MaxReviews
  <2>1. r \in Reviews
    BY <1>1 DEF ShapesOK
  <2>2. rows[r].status \in Claimed \cup Settled
    BY <1>1, <2>1 DEF RowsOK, RowHolds
  <2>3. rows[r].status # "NONE"
    BY <2>2, Literals
  <2> QED
    BY <2>1, <2>3, RowShape DEF RowsOK, RowHolds
<1>5. /\ tx \in TxShapes /\ tx.by = rows[r].owner /\ tx.nonce = rows[r].nonce
      /\ tx.review = r /\ r # 0
  <2>1. /\ Exact(r) \in TxShapes /\ Exact(r).by = rows[r].owner
        /\ Exact(r).nonce = rows[r].nonce /\ Exact(r).review = r /\ r # 0
    BY <1>4, Numbers DEF Exact, TxShapes
  <2>2. CASE tx = Exact(r)
    BY <2>1, <2>2
  <2>3. CASE tx = Repriced(r)
    BY <2>1, <2>3 DEF Repriced, TxShapes
  <2> QED
    BY <1>2, <2>2, <2>3
<1>6. ok \in BOOLEAN /\ (ok => t <= Deadline(r))
  <2>1. Applies(tx, t) \in BOOLEAN /\ (Applies(tx, t) => t <= Deadline(r))
    BY <1>5, Zenon DEF Applies
  <2> QED
    BY <1>3, <2>1
<1>7. /\ t \in Nat /\ t > final /\ t <= now /\ fork \in Nat
      /\ \A i \in DOMAIN chain : t >= chain[i].time
  BY <1>1 DEF Times, ShapesOK
<1> DEFINE e == [tx |-> tx, time |-> t, ok |-> ok, fork |-> fork]
<1>8. chain' = Append(chain, e)
  BY <1>3 DEF Add
<1>9. /\ e \in EntryShapes /\ e.tx = tx /\ e.time = t /\ e.ok = ok
  BY <1>5, <1>6, <1>7 DEF EntryShapes
<1> HIDE DEF e
<1>10. NewEntry(e)
  BY <1>1, <1>2, <1>5, <1>6, <1>7, <1>9 DEF NewEntry
<1>11. ChainGrows(e)
  BY <1>2, <1>8, <1>10 DEF ChainGrows, journal
<1> QED
  BY <1>11

LEMMA OtherGrows ==
    ASSUME TInv, OtherTransaction PROVE \E e : ChainGrows(e)
<1> USE DEF TInv
<1> DEFINE Others == {Sale} \cup {Other(rows[r].owner, rows[r].nonce) : r \in asked}
<1>1. UNCHANGED <<rows, asked, final, now>>
  BY DEF OtherTransaction, journal
<1>2. PICK tx \in Others, t \in Times :
        (tx # Sale => tx.nonce = NextNonce(tx.by)) /\ Add(tx, t, FALSE)
  BY DEF OtherTransaction
<1>3. tx \in TxShapes /\ tx.review = 0 /\ (tx = Sale => tx.by \notin Owners)
  <2>1. CASE tx = Sale
    BY <2>1, Literals DEF Sale, Other, Owners
  <2>2. CASE tx # Sale
    <3>1. PICK r \in asked : tx = Other(rows[r].owner, rows[r].nonce)
      BY <1>2, <2>2
    <3>2. r \in Reviews
      BY DEF ShapesOK
    <3> QED
      BY <2>2, <3>1, <3>2, RowShape, Numbers DEF Other, TxShapes
  <2> QED
    BY <2>1, <2>2
<1>4. /\ t \in Nat /\ t > final /\ t <= now /\ fork \in Nat
      /\ \A i \in DOMAIN chain : t >= chain[i].time
  BY <1>2 DEF Times, ShapesOK
<1> DEFINE e == [tx |-> tx, time |-> t, ok |-> FALSE, fork |-> fork]
<1>5. chain' = Append(chain, e)
  BY <1>2 DEF Add
<1>6. /\ e \in EntryShapes /\ e.tx = tx /\ e.time = t /\ e.ok = FALSE
  BY <1>3, <1>4 DEF EntryShapes
<1> HIDE DEF e, Others
<1>7. NewEntry(e)
  BY <1>2, <1>3, <1>4, <1>6 DEF NewEntry
<1>8. ChainGrows(e)
  BY <1>1, <1>5, <1>7 DEF ChainGrows
<1> QED
  BY <1>8

LEMMA ReorganiseCuts ==
    ASSUME TInv, Reorganise PROVE \E n : ChainIsCut(n)
<1>1. PICK cut \in final .. now - 1, n \in 0 .. Len(chain) :
        /\ \A i \in DOMAIN chain : i <= n <=> chain[i].time <= cut
        /\ chain' = SubSeq(chain, 1, n)
  BY DEF Reorganise
<1>2. final \in Nat /\ cut \in Int /\ cut >= final
  BY DEF TInv, ShapesOK
<1>3. ASSUME NEW i \in Final PROVE i <= n
  <2>1. i \in DOMAIN chain /\ chain[i].time <= final /\ chain[i].time \in Nat
    BY <1>3, ChainShape DEF Final, TInv
  <2>2. chain[i].time <= cut
    BY <1>2, <2>1
  <2> QED
    BY <1>1, <2>1, <2>2
<1>4. UNCHANGED <<final, now, rows, asked>>
  BY DEF Reorganise, journal
<1>5. ChainIsCut(n)
  BY <1>1, <1>3, <1>4 DEF ChainIsCut
<1> QED
  BY <1>5

LEMMA ChainMoves ==
    ASSUME TInv, [Next]_vars
    PROVE  ChainRests \/ (\E e : ChainGrows(e)) \/ (\E n : ChainIsCut(n))
<1>0. final \in Nat /\ now \in Nat /\ final <= now /\ now <= MaxTime /\ MaxTime \in Nat
  BY Numbers DEF TInv, ShapesOK
<1>1. ASSUME UNCHANGED <<chain, final, now>> PROVE ChainRests
  BY <1>0, <1>1 DEF ChainRests
<1>2. ASSUME NEW r \in Reviews, OwnerStep(r) \/ LeaseEnds(r) PROVE ChainRests
  BY <1>1, <1>2 DEF OwnerStep, Prepare, CancelPrepared, Check, Claim, MarkUnknown, Recover,
     LeaseEnds, chainVars
<1>3. ASSUME NEW w \in Workers, WorkerStep(w) \/ CallFails(w) \/ Die(w) PROVE ChainRests
  BY <1>1, <1>3 DEF WorkerStep, Lease, Get, Receipt, Observe, Settle, Record, Finish,
     CallFails, Die, chainVars
<1>4. CASE Finalize
  BY <1>0, <1>4 DEF Finalize, ChainRests
<1>5. CASE Tick
  BY <1>0, <1>5 DEF Tick, ChainRests
<1>6. CASE UNCHANGED vars
  BY <1>1, <1>6 DEF vars, chainVars
<1> QED
  BY <1>2, <1>3, <1>4, <1>5, <1>6, MineGrows, OtherGrows, ReorganiseCuts DEF Next

\* The chain after a step, place by place.
LEMMA GrownChain ==
    ASSUME ShapesOK, NEW e, e \in EntryShapes, chain' = Append(chain, e)
    PROVE  /\ chain' \in Seq(EntryShapes)
           /\ DOMAIN chain' = DOMAIN chain \cup {Len(chain) + 1}
           /\ Len(chain) + 1 \notin DOMAIN chain
           /\ chain'[Len(chain) + 1] = e
           /\ \A i \in DOMAIN chain : chain'[i] = chain[i] /\ i < Len(chain) + 1
<1>1. chain \in Seq(EntryShapes) /\ Len(chain) \in Nat /\ DOMAIN chain = 1 .. Len(chain)
  BY ChainShape DEF ShapesOK
<1>2. chain' \in Seq(EntryShapes) /\ Len(chain') = Len(chain) + 1
  BY <1>1
<1>3. DOMAIN chain' = 1 .. Len(chain) + 1
  BY <1>1, <1>2
<1>4. /\ chain'[Len(chain) + 1] = e
      /\ \A i \in 1 .. Len(chain) : chain'[i] = chain[i]
  BY <1>1
<1> QED
  BY <1>1, <1>2, <1>3, <1>4

LEMMA CutChain ==
    ASSUME ShapesOK, NEW n \in 0 .. Len(chain), chain' = SubSeq(chain, 1, n)
    PROVE  /\ chain' \in Seq(EntryShapes)
           /\ DOMAIN chain' = 1 .. n /\ 1 .. n \subseteq DOMAIN chain
           /\ \A i \in 1 .. n : chain'[i] = chain[i]
<1>1. chain \in Seq(EntryShapes) /\ Len(chain) \in Nat /\ DOMAIN chain = 1 .. Len(chain)
  BY ChainShape DEF ShapesOK
<1>2. n \in Nat /\ n <= Len(chain)
  BY <1>1
<1>3. chain' \in Seq(EntryShapes) /\ Len(chain') = n
  BY <1>1, <1>2
<1>4. DOMAIN chain' = 1 .. n
  BY <1>2, <1>3
<1>5. \A i \in 1 .. n : chain'[i] = chain[i]
  BY <1>1, <1>2
<1> QED
  BY <1>1, <1>2, <1>3, <1>4, <1>5

\* What is final stays where it is.
LEMMA FinalStays ==
    ASSUME TInv, [Next]_vars, NEW i \in Final
    PROVE  i \in Final' /\ chain'[i] = chain[i]
<1>1. i \in DOMAIN chain /\ chain[i].time <= final /\ chain[i].time \in Nat /\ final \in Nat
      /\ ShapesOK
  BY ChainShape DEF Final, TInv, ShapesOK
<1>2. CASE ChainRests
  BY <1>1, <1>2 DEF ChainRests, Final
<1>3. ASSUME NEW e, ChainGrows(e) PROVE i \in Final' /\ chain'[i] = chain[i]
  <2>1. e \in EntryShapes /\ chain' = Append(chain, e) /\ final' = final
    BY <1>3 DEF ChainGrows, NewEntry
  <2>2. i \in DOMAIN chain' /\ chain'[i] = chain[i]
    BY <1>1, <2>1, GrownChain
  <2> QED
    BY <1>1, <2>1, <2>2 DEF Final
<1>4. ASSUME NEW n, ChainIsCut(n) PROVE i \in Final' /\ chain'[i] = chain[i]
  <2>1. /\ n \in 0 .. Len(chain) /\ chain' = SubSeq(chain, 1, n) /\ final' = final
        /\ i <= n /\ i \in 1 .. Len(chain)
    BY <1>1, <1>4, ChainShape DEF ChainIsCut
  <2>2. i \in 1 .. n
    BY <2>1
  <2>3. i \in DOMAIN chain' /\ chain'[i] = chain[i]
    BY <1>1, <2>1, <2>2, CutChain
  <2> QED
    BY <1>1, <2>1, <2>3 DEF Final
<1> QED
  BY <1>2, <1>3, <1>4, ChainMoves

\* A review whose deadline is final is never applied any more.
LEMMA TooLate ==
    ASSUME TInv, [Next]_vars, NEW r \in Reviews, rows[r].status # "NONE",
           final > Deadline(r), r \notin Applied
    PROVE  r \notin Applied' /\ final' > Deadline(r)'
<1>1. Deadline(r)' = Deadline(r) /\ Deadline(r) \in Nat /\ final \in Nat /\ ShapesOK
  BY ReviewStays, RowShape DEF TInv, ShapesOK
<1>2. final' \in Nat /\ final' >= final
  BY <1>1, ChainMoves DEF ChainRests, ChainGrows, ChainIsCut
<1>3. \A i \in DOMAIN chain : ~ (chain[i].ok /\ chain[i].tx.review = r)
  BY DEF Applied, Entries, Range
<1>4. \A i \in DOMAIN chain' : ~ (chain'[i].ok /\ chain'[i].tx.review = r)
  <2>1. CASE ChainRests
    BY <1>3, <2>1 DEF ChainRests
  <2>2. ASSUME NEW e, ChainGrows(e), NEW i \in DOMAIN chain'
        PROVE  ~ (chain'[i].ok /\ chain'[i].tx.review = r)
    <3>1. e \in EntryShapes /\ chain' = Append(chain, e) /\ e.time > final /\ e.time \in Nat
      BY <2>2 DEF ChainGrows, NewEntry, EntryShapes
    <3>2. e.ok /\ e.tx.review = r => e.time <= Deadline(r)
      BY <2>2, Numbers DEF ChainGrows, NewEntry
    <3>3. ~ (e.ok /\ e.tx.review = r)
      BY <1>1, <3>1, <3>2
    <3> QED
      BY <1>1, <1>3, <2>2, <3>1, <3>3, GrownChain
  <2>3. ASSUME NEW n, ChainIsCut(n), NEW i \in DOMAIN chain'
        PROVE  ~ (chain'[i].ok /\ chain'[i].tx.review = r)
    <3>1. n \in 0 .. Len(chain) /\ chain' = SubSeq(chain, 1, n)
      BY <2>3 DEF ChainIsCut
    <3> QED
      BY <1>1, <1>3, <2>3, <3>1, CutChain
  <2> QED
    BY <2>1, <2>2, <2>3, ChainMoves
<1>5. r \notin Applied'
  BY <1>4 DEF Applied, Entries, Range
<1> QED
  BY <1>1, <1>2, <1>5

LEMMA ProvenStays ==
    ASSUME TInv, [Next]_vars, NEW r \in Reviews, rows[r].status # "NONE",
           NEW proof, NEW bound, Proven(r, proof, bound)
    PROVE  Proven(r, proof, bound)'
<1>1. /\ Exact(r)' = Exact(r) /\ rows'[r].owner = rows[r].owner /\ rows'[r].nonce = rows[r].nonce
  BY ReviewStays
<1>2. \A i \in Final : i \in Final' /\ chain'[i] = chain[i]
  BY FinalStays
<1>3. \A i \in Final : UsesNonce(i, r) => UsesNonce(i, r)'
  BY <1>1, <1>2 DEF UsesNonce
<1>4. proof = "SETTLED_SUCCESS" => \E i \in Final' : chain'[i].tx = Exact(r)' /\ chain'[i].ok
  BY <1>1, <1>2 DEF Proven
<1>5. proof = "SETTLED_REVERT" => \E i \in Final' : chain'[i].tx = Exact(r)' /\ ~ chain'[i].ok
  BY <1>1, <1>2 DEF Proven
<1>6. proof = "NONCE_CONSUMED" =>
        \E i \in Final' : UsesNonce(i, r)' /\ (bound => chain'[i].tx # Exact(r)')
  BY <1>1, <1>2, <1>3 DEF Proven
<1>7. proof = "REVIEW_EXPIRED" => final' > Deadline(r)' /\ r \notin Applied'
  BY TooLate DEF Proven
<1> QED
  BY <1>4, <1>5, <1>6, <1>7 DEF Proven

-----------------------------------------------------------------------------
(* The parts of the invariant, each after a step: the chain.               *)
LEMMA AskedStays ==
    ASSUME TInv, [Next]_vars, NEW r \in asked
    PROVE  r \in Reviews /\ rows[r].status # "NONE" /\ r \in asked'
<1>1. r \in Reviews
  BY DEF TInv, ShapesOK
<1>2. rows[r].status \in Claimed \cup Settled
  BY <1>1 DEF TInv, RowsOK, RowHolds
<1>3. r \in asked'
  BY RowMoves DEF RowsRest, Prepare, Advances
<1> QED
  BY <1>1, <1>2, <1>3, Literals

LEMMA ReviewedStays ==
    ASSUME TInv, [Next]_vars, NEW i \in DOMAIN chain, NEW k, chain'[k] = chain[i]
    PROVE  Reviewed(k)'
<1>1. Reviewed(i)
  BY DEF TInv, ChainOK
<1>2. PICK r, e : r = chain[i].tx.review /\ e = chain[i]
  OBVIOUS
<1>3. CASE r = 0
  BY <1>1, <1>2, <1>3 DEF Reviewed
<1>4. CASE r # 0
  <2>1. /\ r \in asked /\ e.tx.by = rows[r].owner /\ e.tx.nonce = rows[r].nonce
        /\ e.ok => e.time <= Deadline(r)
    BY <1>1, <1>2, <1>4 DEF Reviewed
  <2>2. r \in Reviews /\ rows[r].status # "NONE" /\ r \in asked'
    BY <2>1, AskedStays
  <2>3. /\ rows'[r].owner = rows[r].owner /\ rows'[r].nonce = rows[r].nonce
        /\ Deadline(r)' = Deadline(r)
    BY <2>2, ReviewStays
  <2>4. /\ e.tx.by = rows'[r].owner /\ e.tx.nonce = rows'[r].nonce
        /\ e.ok => e.time <= Deadline(r)'
    BY <2>1, <2>3
  <2>5. chain'[k] = e /\ chain'[k].tx.review = r
    BY <1>2
  <2> QED
    BY <1>4, <2>2, <2>4, <2>5 DEF Reviewed, Deadline
<1> QED
  BY <1>3, <1>4

LEMMA ChainStep ==
    ASSUME TInv, [Next]_vars PROVE ChainOK'
<1>0. /\ ShapesOK /\ InOrder /\ Counted /\ DOMAIN chain = 1 .. Len(chain) /\ Len(chain) \in Nat
      /\ final \in Nat /\ now \in Nat
      /\ \A i \in DOMAIN chain : chain[i].time \in Nat
  BY ChainShape DEF TInv, ChainOK, ShapesOK
<1>1. CASE ChainRests
  <2>1. /\ chain' = chain /\ now' \in Nat /\ now' >= now
    BY <1>1 DEF ChainRests
  <2>2. InOrder'
    BY <1>0, <2>1 DEF InOrder
  <2>3. Counted'
    BY <1>0, <2>1 DEF Counted, NonceIn
  <2>4. \A i \in DOMAIN chain' : Reviewed(i)'
    BY <2>1, ReviewedStays
  <2> QED
    BY <2>2, <2>3, <2>4 DEF ChainOK
<1>2. ASSUME NEW e, ChainGrows(e) PROVE ChainOK'
  <2>0. PICK last : last = Len(chain) + 1
    OBVIOUS
  <2>1. /\ NewEntry(e) /\ e \in EntryShapes /\ chain' = Append(chain, e)
        /\ now' = now /\ rows' = rows /\ asked' = asked
    BY <1>2 DEF ChainGrows, NewEntry
  <2>2. /\ DOMAIN chain' = DOMAIN chain \cup {last} /\ last \notin DOMAIN chain
        /\ chain'[last] = e /\ last \in Nat
        /\ \A i \in DOMAIN chain : chain'[i] = chain[i] /\ i < last
    BY <1>0, <2>0, <2>1, GrownChain
  <2>3. InOrder'
    <3> SUFFICES ASSUME NEW i \in DOMAIN chain'
                 PROVE  /\ chain'[i].time <= now
                        /\ \A j \in 1 .. i : chain'[j].time <= chain'[i].time
      BY <2>1 DEF InOrder
    <3>1. CASE i \in DOMAIN chain
      <4>1. 1 .. i \subseteq DOMAIN chain
        BY <1>0, <3>1
      <4> QED
        BY <1>0, <2>2, <3>1, <4>1 DEF InOrder
    <3>2. CASE i = last
      <4>1. e.time <= now /\ e.time \in Nat /\ \A j \in DOMAIN chain : e.time >= chain[j].time
        BY <2>1 DEF NewEntry, EntryShapes
      <4>2. 1 .. i = DOMAIN chain \cup {last}
        BY <1>0, <2>0, <3>2
      <4> QED
        BY <1>0, <2>2, <3>2, <4>1, <4>2
    <3> QED
      BY <2>2, <3>1, <3>2
  <2>4. Counted'
    <3> SUFFICES ASSUME NEW i \in DOMAIN chain', chain'[i].tx.by \in Owners
                 PROVE  chain'[i].tx.nonce =
                            Cardinality({j \in 1 .. i - 1 : chain'[j].tx.by = chain'[i].tx.by})
      BY DEF Counted, NonceIn
    <3>1. 1 .. i - 1 \subseteq DOMAIN chain
      BY <1>0, <2>0, <2>2
    <3>2. {j \in 1 .. i - 1 : chain'[j].tx.by = chain'[i].tx.by}
            = {j \in 1 .. i - 1 : chain[j].tx.by = chain'[i].tx.by}
      BY <2>2, <3>1
    <3>3. CASE i \in DOMAIN chain
      <4>1. chain'[i] = chain[i]
        BY <2>2, <3>3
      <4> QED
        BY <1>0, <3>2, <3>3, <4>1 DEF Counted, NonceIn
    <3>4. CASE i = last
      <4>1. 1 .. i - 1 = DOMAIN chain
        BY <1>0, <2>0, <3>4
      <4>2. e.tx.nonce = Cardinality({j \in DOMAIN chain : chain[j].tx.by = e.tx.by})
        BY <2>1, <2>2, <3>4 DEF NewEntry, NextNonce, NonceIn
      <4> QED
        BY <2>2, <3>2, <3>4, <4>1, <4>2
    <3> QED
      BY <2>2, <3>3, <3>4
  <2>5. Reviewed(last)'
    <3>1. PICK r : r = e.tx.review
      OBVIOUS
    <3>2. /\ r # 0 => /\ r \in asked' /\ e.tx.by = rows'[r].owner /\ e.tx.nonce = rows'[r].nonce
                      /\ e.ok => e.time <= Deadline(r)'
          /\ e.ok => r # 0
      BY <2>1, <3>1 DEF NewEntry, Deadline
    <3>3. chain'[last] = e /\ chain'[last].tx.review = r
      BY <2>2, <3>1
    <3> QED
      BY <3>2, <3>3 DEF Reviewed, Deadline
  <2>6. \A i \in DOMAIN chain' : Reviewed(i)'
    <3> SUFFICES ASSUME NEW i \in DOMAIN chain' PROVE Reviewed(i)'
      OBVIOUS
    <3>1. CASE i \in DOMAIN chain
      <4>1. chain'[i] = chain[i]
        BY <2>2, <3>1
      <4> QED
        BY <3>1, <4>1, ReviewedStays
    <3> QED
      BY <2>2, <2>5, <3>1
  <2> QED
    BY <2>3, <2>4, <2>6 DEF ChainOK
<1>3. ASSUME NEW n, ChainIsCut(n) PROVE ChainOK'
  <2>1. n \in 0 .. Len(chain) /\ chain' = SubSeq(chain, 1, n) /\ now' = now
    BY <1>3 DEF ChainIsCut
  <2>2. /\ DOMAIN chain' = 1 .. n /\ 1 .. n \subseteq DOMAIN chain /\ n \in Nat
        /\ \A i \in 1 .. n : chain'[i] = chain[i]
    BY <1>0, <2>1, CutChain
  <2>3. InOrder'
    <3> SUFFICES ASSUME NEW i \in 1 .. n
                 PROVE  /\ chain'[i].time <= now
                        /\ \A j \in 1 .. i : chain'[j].time <= chain'[i].time
      BY <2>1, <2>2 DEF InOrder
    <3>1. 1 .. i \subseteq 1 .. n
      BY <2>2
    <3> QED
      BY <1>0, <2>2, <3>1 DEF InOrder
  <2>4. Counted'
    <3> SUFFICES ASSUME NEW i \in 1 .. n, chain'[i].tx.by \in Owners
                 PROVE  chain'[i].tx.nonce =
                            Cardinality({j \in 1 .. i - 1 : chain'[j].tx.by = chain'[i].tx.by})
      BY <2>2 DEF Counted, NonceIn
    <3>1. 1 .. i - 1 \subseteq 1 .. n /\ chain'[i] = chain[i] /\ i \in DOMAIN chain
      BY <2>2
    <3>2. {j \in 1 .. i - 1 : chain'[j].tx.by = chain'[i].tx.by}
            = {j \in 1 .. i - 1 : chain[j].tx.by = chain[i].tx.by}
      BY <2>2, <3>1
    <3> QED
      BY <1>0, <3>1, <3>2 DEF Counted, NonceIn
  <2>5. \A i \in DOMAIN chain' : Reviewed(i)'
    BY <2>2, ReviewedStays
  <2> QED
    BY <2>3, <2>4, <2>5 DEF ChainOK
<1> QED
  BY <1>1, <1>2, <1>3, ChainMoves

-----------------------------------------------------------------------------
(* The rows. *)
LEMMA RowsStep ==
    ASSUME TInv, [Next]_vars PROVE RowsOK'
<1>0. /\ rows \in [Reviews -> RowShapes] /\ jobs \in [Reviews -> 0 .. MaxWorkers]
      /\ \A q, r \in Reviews : Holds(q) /\ Holds(r) => q = r
      /\ \A r \in Reviews : RowHolds(r)
  BY DEF TInv, ShapesOK, RowsOK
<1>1. CASE RowsRest
  <2>1. rows' = rows /\ asked' = asked
        /\ \A q \in Reviews : jobs'[q] # 0 => jobs[q] # 0 \/ rows[q].status \in Claimed
    BY <1>1 DEF RowsRest
  <2>2. \A r \in Reviews : RowHolds(r)'
    BY <1>0, <2>1 DEF RowHolds
  <2> QED
    BY <1>0, <2>1, <2>2 DEF RowsOK, Holds
<1>2. ASSUME NEW p \in Reviews, Prepare(p) PROVE RowsOK'
  <2>1. jobs' = jobs /\ asked' = asked
    BY <1>2 DEF Prepare
  <2>2. rows[p].status = "NONE" /\ rows'[p].status = "PREPARED" /\ rows'[p].owner \in Owners
    BY <1>2, PrepareRows
  <2>3. ASSUME NEW r \in Reviews \ {p} PROVE RowHolds(r)' /\ ~ Holds(r)'
    <3>1. CASE Lapsed(r)
      <4>1. SameReview(rows'[r], r) /\ rows'[r].status = "EXPIRED" /\ rows[r].status = "PREPARED"
        BY <1>2, <3>1, PrepareRows DEF Lapsed
      <4>2. jobs[r] = 0 /\ r \notin asked /\ rows[r].owner \in Owners
        BY <1>0, <4>1, RowFacts DEF TInv, RowHolds
      <4>3. "EXPIRED" \in Released /\ "EXPIRED" \notin HasHash \cup Included
        BY DEF Released, HasHash, Included
      <4> QED
        BY <2>1, <4>1, <4>2, <4>3 DEF RowHolds, SameReview, Holds
    <3>2. CASE ~ Lapsed(r)
      <4>1. rows'[r] = rows[r] /\ ~ Holds(r)
        BY <1>2, <3>2, PrepareRows
      <4> QED
        BY <1>0, <2>1, <4>1 DEF RowHolds, Holds
    <3> QED
      BY <3>1, <3>2
  <2>4. RowHolds(p)'
    <3>1. jobs[p] = 0 /\ p \notin asked
      BY <2>2, RowFacts DEF TInv
    <3>2. "PREPARED" \notin HasHash \cup Included
      BY DEF HasHash, Included
    <3> QED
      BY <2>1, <2>2, <3>1, <3>2 DEF RowHolds
  <2> QED
    BY <2>3, <2>4 DEF RowsOK
<1>3. ASSUME NEW p \in Reviews, NEW row, Advances(p, row) PROVE RowsOK'
  <2>1. /\ rows' = [rows EXCEPT ![p] = row] /\ SameReview(row, p) /\ Follows(row, p)
        /\ asked \subseteq asked' /\ asked' \subseteq asked \cup {p}
        /\ p \in asked' => row.status \in Claimed \cup Settled
        /\ \A q \in Reviews : jobs'[q] \in {0, jobs[q]}
        /\ jobs'[p] # 0 => row.status \in Claimed
    BY <1>3 DEF Advances
  <2>2. rows'[p] = row /\ \A q \in Reviews \ {p} : rows'[q] = rows[q]
    BY <1>0, <2>1
  <2>3. Holds(p)
    BY <2>1 DEF Follows, Holds
  <2>4. \A q \in Reviews : Holds(q)' => Holds(q)
    BY <2>2, <2>3 DEF Holds
  <2>5. RowHolds(p)'
    <3>1. rows[p].owner \in Owners
      BY <1>0, <2>3 DEF RowHolds, Holds
    <3> QED
      BY <2>1, <2>2, <3>1 DEF RowHolds, SameReview, Follows
  <2>6. \A q \in Reviews \ {p} : RowHolds(q)'
    BY <1>0, <2>1, <2>2 DEF RowHolds
  <2> QED
    BY <1>0, <2>4, <2>5, <2>6 DEF RowsOK
<1> QED
  BY <1>1, <1>2, <1>3, RowMoves

LEMMA SettledStep ==
    ASSUME TInv, [Next]_vars PROVE SettledOK'
<1>0. /\ rows \in [Reviews -> RowShapes]
      /\ \A r \in Reviews : rows[r].status \in Settled => Proven(r, rows[r].status, rows[r].hash)
  BY DEF TInv, ShapesOK, SettledOK
<1> SUFFICES ASSUME NEW r \in Reviews, NEW p, NEW b, p \in Settled,
                    rows'[r].status = p, rows'[r].hash = b
             PROVE  Proven(r, p, b)'
  BY DEF SettledOK
<1>1. CASE rows'[r] = rows[r]
  <2>1. Proven(r, p, b) /\ rows[r].status # "NONE"
    BY <1>0, <1>1, Literals
  <2> QED
    BY <2>1, ProvenStays
<1>2. CASE rows'[r] # rows[r]
  <2>1. PICK row : Advances(r, row)
    <3>1. ASSUME NEW q \in Reviews, Prepare(q) PROVE rows'[r] = rows[r]
      <4>1. "PREPARED" \notin Settled /\ "EXPIRED" \notin Settled
        BY DEF Settled
      <4> QED
        BY <3>1, <4>1, PrepareRows
    <3>2. ASSUME NEW q \in Reviews, NEW row, Advances(q, row), q # r PROVE rows'[r] = rows[r]
      BY <1>0, <3>2 DEF Advances
    <3> QED
      BY <1>2, <3>1, <3>2, RowMoves DEF RowsRest
  <2>2. rows'[r] = row /\ Follows(row, r)
    BY <1>0, <2>1 DEF Advances
  <2>3. Proven(r, p, b) /\ rows[r].status # "NONE"
    BY <2>2 DEF Follows
  <2> QED
    BY <2>3, ProvenStays
<1> QED
  BY <1>1, <1>2

-----------------------------------------------------------------------------
(* A settlement that does not wait is proven. *)
LEMMA NonceCounted ==
    ASSUME ShapesOK, ChainOK, NEW r \in Reviews, rows[r].owner \in Owners,
           NEW i \in Final, UsesNonce(i, r)
    PROVE  NonceUsed(r)
<1> DEFINE o == rows[r].owner
           Before == {j \in 1 .. i - 1 : chain[j].tx.by = o}
           All == {j \in Final : chain[j].tx.by = o}
<1>1. /\ i \in DOMAIN chain /\ DOMAIN chain = 1 .. Len(chain) /\ Len(chain) \in Nat
      /\ chain[i].time <= final /\ final \in Nat /\ rows[r].nonce \in Nat
      /\ \A j \in DOMAIN chain : chain[j].time \in Nat
      /\ Final \subseteq DOMAIN chain
  BY ChainShape, RowShape DEF Final, ShapesOK
<1>2. chain[i].tx.by = o /\ rows[r].nonce = Cardinality(Before)
  BY <1>1 DEF UsesNonce, ChainOK, Counted, NonceIn
<1>3. 1 .. i - 1 \subseteq Final /\ i \notin 1 .. i - 1
  <2>1. ASSUME NEW j \in 1 .. i - 1 PROVE j \in Final
    <3>1. j \in DOMAIN chain /\ j \in 1 .. i
      BY <1>1
    <3>2. chain[j].time <= chain[i].time
      BY <1>1, <3>1 DEF ChainOK, InOrder
    <3> QED
      BY <1>1, <3>1, <3>2 DEF Final
  <2> QED
    BY <1>1, <2>1
<1>4. Before \cup {i} \subseteq All /\ i \notin Before
  BY <1>2, <1>3
<1>5. IsFiniteSet(All)
  BY <1>1, Places
<1> HIDE DEF Before, All
<1>6. IsFiniteSet(Before)
  BY <1>4, <1>5, FS_Subset
<1>7. /\ Cardinality(Before \cup {i}) = Cardinality(Before) + 1
      /\ Cardinality(Before \cup {i}) <= Cardinality(All)
      /\ Cardinality(Before) \in Nat /\ Cardinality(All) \in Nat
  <2>1. IsFiniteSet(Before \cup {i}) /\ Cardinality(Before \cup {i}) = Cardinality(Before) + 1
    BY <1>4, <1>6, FS_AddElement
  <2> QED
    BY <1>4, <1>5, <1>6, <2>1, FS_Subset, FS_CardinalityType
<1>8. Cardinality(All) > rows[r].nonce
  BY <1>2, <1>7
<1> QED
  BY <1>8 DEF All, NonceUsed, NonceIn

LEMMA SettlementProven ==
    ASSUME ShapesOK, ChainOK, NEW r \in Reviews, rows[r].owner \in Owners,
           NEW bound \in BOOLEAN, NEW proof, proof = Settlement(r, bound), proof # Wait
    PROVE  proof \in Settled /\ Proven(r, proof, bound)
<1>0. /\ final \in Nat /\ Deadline(r) \in Nat
      /\ \A i \in DOMAIN chain : chain[i].time \in Nat
  BY ChainShape, RowShape DEF ShapesOK
<1>1. CASE ~ NonceUsed(r)
  <2>1. proof = "REVIEW_EXPIRED" /\ final > Deadline(r)
    BY <1>1 DEF Settlement, DeadlineFinal
  <2>2. ASSUME NEW i \in DOMAIN chain, chain[i].ok, chain[i].tx.review = r PROVE FALSE
    <3>1. r # 0
      BY Numbers
    <3>2. UsesNonce(i, r) /\ chain[i].time <= Deadline(r)
      BY <2>2, <3>1 DEF ChainOK, Reviewed, UsesNonce
    <3>3. i \in Final
      BY <1>0, <2>1, <3>2 DEF Final
    <3> QED
      BY <1>1, <3>2, <3>3, NonceCounted
  <2>3. r \notin Applied
    BY <2>2 DEF Applied, Entries, Range
  <2> QED
    BY <2>1, <2>3 DEF Proven, Settled
<1>2. CASE NonceUsed(r) /\ bound /\ Mined(Exact(r))
  <2>1. EntryOf(Exact(r)) \in Entries /\ EntryOf(Exact(r)).tx = Exact(r)
    BY <1>2 DEF Mined, EntryOf
  <2>2. PICK i \in DOMAIN chain : chain[i] = EntryOf(Exact(r))
    BY <2>1 DEF Entries, Range
  <2>3. ~ (chain[i].time > final)
    BY <1>2, <2>2 DEF Settlement
  <2>4. i \in Final /\ chain[i].tx = Exact(r)
    BY <1>0, <2>1, <2>2, <2>3 DEF Final
  <2>5. proof = IF chain[i].ok THEN "SETTLED_SUCCESS" ELSE "SETTLED_REVERT"
    BY <1>2, <2>2, <2>3 DEF Settlement, Outcome
  <2> QED
    BY <2>4, <2>5 DEF Proven, Settled
<1>3. CASE NonceUsed(r) /\ ~ (bound /\ Mined(Exact(r)))
  <2>1. proof = "NONCE_CONSUMED"
    BY <1>3 DEF Settlement
  <2>2. PICK i \in Final : UsesNonce(i, r)
    BY <1>3, NonceFound
  <2>3. bound => chain[i].tx # Exact(r)
    BY <1>3 DEF Final, Mined, Entries, Range
  <2> QED
    BY <2>1, <2>2, <2>3 DEF Proven, Settled
<1> QED
  BY <1>1, <1>2, <1>3

-----------------------------------------------------------------------------
(* The workers. *)
LEMMA JobStays ==
    ASSUME TInv, [Next]_vars, NEW r \in Reviews, rows[r].status \in Claimed \cup Settled
    PROVE  rows'[r].status \in Claimed \cup Settled /\ rows[r].status # "NONE"
BY RowsGoOn, Literals DEF RowGoesOn

\* One that does not move remembers what is still so.
LEMMA OthersRemember ==
    ASSUME TInv, [Next]_vars, NEW w \in Workers, pc'[w] = pc[w], local'[w] = local[w]
    PROVE  WorkerHolds(w)'
<1>1. WorkerHolds(w)
  BY DEF TInv, WorkersOK
<1>2. PICK l, r, row : l = local[w] /\ r = local[w].review /\ row = local[w].row
  OBVIOUS
<1>3. CASE pc[w] \in {"idle", "gone"}
  BY <1>3 DEF WorkerHolds, HasRow
<1>4. CASE pc[w] \notin {"idle", "gone"}
  <2>1. r \in Reviews /\ rows[r].status \in Claimed \cup Settled
    BY <1>1, <1>2, <1>4 DEF WorkerHolds, Job
  <2>2. rows'[r].status \in Claimed \cup Settled /\ rows[r].status # "NONE"
    BY <2>1, JobStays
  <2>3. pc[w] \in HasRow =>
          /\ row.status \in Claimed /\ row.revision <= rows'[r].revision
          /\ row.revision = rows'[r].revision => rows'[r] = row
    <3>1. SUFFICES ASSUME pc[w] \in HasRow
                   PROVE  /\ row.status \in Claimed /\ row.revision <= rows'[r].revision
                          /\ row.revision = rows'[r].revision => rows'[r] = row
      OBVIOUS
    <3>2. /\ row.status \in Claimed /\ row.revision <= rows[r].revision
          /\ row.revision = rows[r].revision => rows[r] = row
      BY <1>1, <1>2, <3>1 DEF WorkerHolds, Job, Read
    <3>3. row.revision \in Nat /\ rows[r].revision \in Nat
      <4>1. row \in RowShapes
        BY <1>2, LocalShape DEF Read, TInv
      <4> QED
        BY <2>1, <4>1, RowShape DEF RowShapes, TInv
    <3>4. rows'[r] = rows[r] \/ rows'[r].revision = rows[r].revision + 1
      BY <2>1, <2>2, RowsGoOn DEF RowGoesOn, SameReview
    <3> QED
      BY <3>2, <3>3, <3>4
  <2>4. pc[w] = "record" =>
          l.sees \in Settled /\ Proven(r, l.sees, row.hash)'
    <3>1. SUFFICES ASSUME pc[w] = "record"
                   PROVE  l.sees \in Settled /\ Proven(r, l.sees, row.hash)'
      OBVIOUS
    <3>2. l.sees \in Settled /\ Proven(r, l.sees, row.hash)
      BY <1>1, <1>2, <3>1 DEF WorkerHolds, Job, Read
    <3> QED
      BY <2>1, <2>2, <3>2, ProvenStays
  <2>5. /\ pc[w] \in {"receipt", "observe"} => row.hash
        /\ pc[w] = "observe" =>
              /\ l.sees \in {"REORGED"} \cup Included
              /\ l.sees \in Included => l.observation # NoEntry
    BY <1>1, <1>2 DEF WorkerHolds, Read
  <2>6. /\ Job(w)' = r /\ Read(w)' = row /\ local'[w] = l
    BY <1>2 DEF Job, Read
  <2> QED
    BY <2>1, <2>2, <2>3, <2>4, <2>5, <2>6 DEF WorkerHolds
<1> QED
  BY <1>3, <1>4

\* Steps of a worker that leave it with nothing to hold but its job.
LEMMA FinishingHolds ==
    ASSUME TInv, [Next]_vars, NEW w \in Workers, pc[w] \notin {"idle", "gone"}, Finishing(w)
    PROVE  WorkerHolds(w)'
<1>1. pc \in [Workers -> Labels]
  BY DEF TInv, ShapesOK
<1>2. pc'[w] = "finish" /\ local' = local
  BY <1>1 DEF Finishing, Go
<1>3. PICK r : r = local[w].review
  OBVIOUS
<1>4. r \in Reviews /\ rows[r].status \in Claimed \cup Settled
  BY <1>3 DEF TInv, WorkersOK, WorkerHolds, Job
<1>5. rows'[r].status \in Claimed \cup Settled /\ Job(w)' = r
  BY <1>2, <1>3, <1>4, JobStays DEF Job
<1> QED
  BY <1>2, <1>4, <1>5 DEF WorkerHolds, HasRow

LEMMA IdleHolds ==
    ASSUME NEW w \in Workers, pc'[w] = "idle" PROVE WorkerHolds(w)'
BY DEF WorkerHolds, HasRow

\* What a worker holds as it has a row in hand: the row read last.
LEMMA HoldsRow ==
    ASSUME NEW w \in Workers, NEW label \in {"receipt", "observe", "settle"},
           NEW r \in Reviews, NEW l, pc'[w] = label, local'[w] = l, l.review = r,
           rows'[r].status \in Claimed \cup Settled, l.row.status \in Claimed,
           l.row.revision <= rows'[r].revision,
           l.row.revision = rows'[r].revision => rows'[r] = l.row,
           label \in {"receipt", "observe"} => l.row.hash,
           label = "observe" => l.sees \in {"REORGED"} \cup Included,
           label = "observe" /\ l.sees \in Included => l.observation # NoEntry
    PROVE  WorkerHolds(w)'
<1>1. Job(w)' = r /\ Read(w)' = l.row
  BY DEF Job, Read
<1> QED
  BY <1>1 DEF WorkerHolds, HasRow

\* A worker whose row does not move keeps it from one step to the next.
LEMMA GoesOnHolding ==
    ASSUME TInv, NEW w \in Workers, pc[w] \in {"receipt", "observe", "settle"},
           pc' = [pc EXCEPT ![w] = "settle"], local' = local, rows' = rows
    PROVE  WorkerHolds(w)'
<1>1. pc'[w] = "settle"
  BY DEF TInv, ShapesOK
<1>2. PICK l, r : l = local[w] /\ r = l.review
  OBVIOUS
<1>3. /\ r \in Reviews /\ rows[r].status \in Claimed \cup Settled
      /\ l.row.status \in Claimed /\ l.row.revision <= rows[r].revision
      /\ l.row.revision = rows[r].revision => rows[r] = l.row
  BY <1>2 DEF TInv, WorkersOK, WorkerHolds, HasRow, Job, Read
<1> QED
  BY <1>1, <1>2, <1>3, HoldsRow

LEMMA LeaseHolds ==
    ASSUME TInv, NEW w \in Workers, Lease(w) PROVE WorkerHolds(w)'
<1>1. PICK r \in Reviews : /\ rows[r].status \in Claimed
                           /\ local' = [local EXCEPT ![w].review = r]
  BY DEF Lease
<1>2. pc' = [pc EXCEPT ![w] = "get"] /\ rows' = rows
  BY DEF Lease, Go
<1>3. pc \in [Workers -> Labels] /\ local \in [Workers -> Locals] /\ local[w] \in Locals
  BY DEF TInv, ShapesOK
<1>4. pc'[w] = "get" /\ Job(w)' = r
  BY <1>1, <1>2, <1>3 DEF Job, Locals
<1> QED
  BY <1>1, <1>2, <1>4 DEF WorkerHolds, HasRow

LEMMA GetHolds ==
    ASSUME TInv, [Next]_vars, NEW w \in Workers, Get(w) PROVE WorkerHolds(w)'
<1>0. pc \in [Workers -> Labels] /\ local \in [Workers -> Locals] /\ local[w] \in Locals
  BY DEF TInv, ShapesOK
<1>1. pc[w] = "get" /\ rows' = rows
  BY DEF Get, At, journal
<1>2. CASE ~ Holds(Job(w))
  BY <1>1, <1>2, FinishingHolds DEF Get
<1>3. CASE Holds(Job(w))
  <2>1. PICK r : r = local[w].review
    OBVIOUS
  <2>2. r \in Reviews /\ rows[r].status \in Claimed \cup Settled /\ rows[r] \in RowShapes
    BY <1>1, <2>1, RowShape DEF TInv, WorkersOK, WorkerHolds, Job
  <2>3. rows[r].status \in Claimed
    BY <1>3, <2>1, <2>2, Literals DEF Holds, Job
  <2>4. PICK label \in {"receipt", "settle"} :
          /\ pc' = [pc EXCEPT ![w] = label]
          /\ label = "receipt" => rows[r].hash
    BY <1>3, <2>1 DEF Get, Go, Job
  <2>5. PICK l : l = local'[w]
    OBVIOUS
  <2>6. l.review = r /\ l.row = rows[r]
    BY <1>0, <1>3, <2>1, <2>5 DEF Get, Job, Locals
  <2>7. pc'[w] = label
    BY <1>0, <2>4
  <2>8. l.row.revision <= rows'[r].revision
    BY <1>1, <2>2, <2>6 DEF RowShapes
  <2> QED
    BY <1>1, <2>2, <2>3, <2>4, <2>5, <2>6, <2>7, <2>8, HoldsRow
<1> QED
  BY <1>2, <1>3

LEMMA ReceiptHolds ==
    ASSUME TInv, NEW w \in Workers, Receipt(w) PROVE WorkerHolds(w)'
<1>0. pc \in [Workers -> Labels] /\ local \in [Workers -> Locals] /\ local[w] \in Locals
  BY DEF TInv, ShapesOK
<1>1. pc[w] = "receipt" /\ rows' = rows
  BY DEF Receipt, At, journal
<1>2. PICK r : r = local[w].review
  OBVIOUS
<1>3. /\ r \in Reviews /\ rows[r].status \in Claimed \cup Settled
      /\ local[w].row.status \in Claimed /\ local[w].row.revision <= rows[r].revision
      /\ local[w].row.revision = rows[r].revision => rows[r] = local[w].row
      /\ local[w].row.hash
  BY <1>1, <1>2 DEF TInv, WorkersOK, WorkerHolds, HasRow, Job, Read
<1> DEFINE Saw(status, e) ==
             /\ local' = [local EXCEPT ![w].sees = status, ![w].observation = e]
             /\ pc' = [pc EXCEPT ![w] = "observe"]
<1>4. ASSUME NEW status, NEW e, Saw(status, e), status \in {"REORGED"} \cup Included,
             status \in Included => e # NoEntry
      PROVE  WorkerHolds(w)'
  <2>1. PICK l : l = local'[w]
    OBVIOUS
  <2>2. l.review = r /\ l.row = local[w].row /\ l.sees = status /\ l.observation = e
    BY <1>0, <1>2, <1>4, <2>1 DEF Locals
  <2>3. pc'[w] = "observe"
    BY <1>0, <1>4
  <2> QED
    BY <1>1, <1>3, <1>4, <2>1, <2>2, <2>3, HoldsRow
<1>5. CASE pc' = [pc EXCEPT ![w] = "settle"] /\ local' = local
  BY <1>1, <1>5, GoesOnHolding
<1>6. Mined(Exact(r)) =>
        /\ EntryOf(Exact(r)) # NoEntry
        /\ Outcome(EntryOf(Exact(r)), "INCLUDED_SUCCESS", "INCLUDED_REVERT") \in Included
  <2>1. Mined(Exact(r)) => EntryOf(Exact(r)).tx = Exact(r)
    BY DEF Mined, EntryOf
  <2>2. Exact(r) # NoEntry.tx
    BY <1>3, Numbers DEF Exact, NoEntry, Other
  <2> QED
    BY <2>1, <2>2 DEF Outcome, Included
<1>7. \/ pc' = [pc EXCEPT ![w] = "settle"] /\ local' = local
      \/ Saw("REORGED", NoEntry)
      \/ /\ Mined(Exact(r))
         /\ Saw(Outcome(EntryOf(Exact(r)), "INCLUDED_SUCCESS", "INCLUDED_REVERT"),
                EntryOf(Exact(r)))
  BY <1>2 DEF Receipt, Go, Job
<1>8. "REORGED" \notin Included
  BY DEF Included
<1> HIDE DEF Saw
<1> QED
  BY <1>4, <1>5, <1>6, <1>7, <1>8

LEMMA ObserveHolds ==
    ASSUME TInv, [Next]_vars, NEW w \in Workers, Observe(w) PROVE WorkerHolds(w)'
<1>0. /\ pc \in [Workers -> Labels] /\ local \in [Workers -> Locals] /\ local[w] \in Locals
      /\ rows \in [Reviews -> RowShapes]
  BY DEF TInv, ShapesOK
<1>1. pc[w] = "observe"
  BY DEF Observe, At
<1>2. PICK r : r = local[w].review
  OBVIOUS
<1>3. /\ r \in Reviews /\ rows[r].status \in Claimed \cup Settled /\ rows[r] \in RowShapes
      /\ local[w].sees \in {"REORGED"} \cup Included
  BY <1>0, <1>1, <1>2 DEF TInv, WorkersOK, WorkerHolds, Job
<1>4. local[w].sees \in Claimed
  BY <1>3 DEF Claimed
<1>5. CASE Finishing(w)
  BY <1>1, <1>5, FinishingHolds
<1>6. CASE ~ Finishing(w)
  <2>1. /\ pc' = [pc EXCEPT ![w] = "settle"]
        /\ local' = [local EXCEPT ![w].row = rows'[r]]
        /\ rows'[r].status = local[w].sees
    <3>1. CASE /\ rows' = [rows EXCEPT ![Job(w)] = Observed(w)]
               /\ local' = [local EXCEPT ![w].row = Observed(w)] /\ Go(w, "settle")
      <4>1. rows'[r] = Observed(w)
        BY <1>0, <1>2, <1>3, <3>1 DEF Job
      <4>2. Observed(w).status = local[w].sees
        BY <1>2, <1>3 DEF Observed, RowShapes, Job
      <4> QED
        BY <3>1, <4>1, <4>2 DEF Go
    <3>2. CASE /\ AlreadyObserved(w) /\ local' = [local EXCEPT ![w].row = rows[Job(w)]]
               /\ Go(w, "settle") /\ UNCHANGED rows
      BY <1>2, <3>2 DEF AlreadyObserved, Job, Go
    <3> QED
      BY <1>6, <3>1, <3>2 DEF Observe
  <2>2. PICK l : l = local'[w]
    OBVIOUS
  <2>3. l.review = r /\ l.row = rows'[r] /\ pc'[w] = "settle"
    BY <1>0, <1>2, <2>1, <2>2 DEF Locals
  <2>4. rows'[r].status \in Claimed \cup Settled
    BY <1>4, <2>1
  <2>5. rows'[r].revision <= rows'[r].revision
    <3>1. rows'[r].revision \in Nat
      <4>1. rows[r].revision \in Nat
        BY <1>3 DEF RowShapes
      <4> QED
        BY <1>3, <4>1, RowsGoOn, Literals DEF RowGoesOn, SameReview
    <3> QED
      BY <3>1
  <2> QED
    BY <1>3, <1>4, <2>1, <2>2, <2>3, <2>4, <2>5, HoldsRow
<1> QED
  BY <1>5, <1>6

LEMMA SettleHolds ==
    ASSUME TInv, [Next]_vars, NEW w \in Workers, Settle(w) PROVE WorkerHolds(w)'
<1>0. pc \in [Workers -> Labels] /\ local \in [Workers -> Locals] /\ local[w] \in Locals
  BY DEF TInv, ShapesOK
<1>1. pc[w] = "settle" /\ rows' = rows
  BY DEF Settle, At, journal
<1>2. PICK r, b, proof : /\ r = local[w].review /\ b = local[w].row.hash
                         /\ proof = Settlement(r, b)
  OBVIOUS
<1>3. /\ r \in Reviews /\ rows[r].status \in Claimed \cup Settled
      /\ local[w].row.status \in Claimed /\ local[w].row.revision <= rows[r].revision
      /\ local[w].row.revision = rows[r].revision => rows[r] = local[w].row
  BY <1>1, <1>2 DEF TInv, WorkersOK, WorkerHolds, HasRow, Job, Read
<1>4. CASE Finishing(w)
  BY <1>1, <1>4, FinishingHolds
<1>5. CASE ~ Finishing(w)
  <2>1. /\ proof # Wait /\ local' = [local EXCEPT ![w].sees = proof]
        /\ pc' = [pc EXCEPT ![w] = "record"]
    BY <1>2, <1>5 DEF Settle, Go, Job, Read
  <2>2. b \in BOOLEAN
    BY <1>2, LocalShape DEF Read, RowShapes, TInv
  <2>3. rows[r].owner \in Owners /\ rows[r].status # "NONE"
    BY <1>3, Literals DEF TInv, RowsOK, RowHolds
  <2>4. proof \in Settled /\ Proven(r, proof, b)
    BY <1>2, <1>3, <2>1, <2>2, <2>3, SettlementProven DEF TInv
  <2>5. Proven(r, proof, b)'
    BY <1>3, <2>3, <2>4, ProvenStays
  <2>6. PICK l : l = local'[w]
    OBVIOUS
  <2>7. l.review = r /\ l.row = local[w].row /\ l.sees = proof /\ pc'[w] = "record"
    BY <1>0, <1>2, <2>1, <2>6 DEF Locals
  <2>8. Job(w)' = r /\ Read(w)' = l.row /\ local'[w].sees = proof
    BY <2>6, <2>7 DEF Job, Read
  <2>9. l.row.hash = b
    BY <1>2, <2>7
  <2> QED
    BY <1>1, <1>3, <2>4, <2>5, <2>7, <2>8, <2>9 DEF WorkerHolds, HasRow
<1> QED
  BY <1>4, <1>5

\* A worker's own step,
LEMMA OwnStepHolds ==
    ASSUME TInv, [Next]_vars, NEW w \in Workers, WorkerStep(w) \/ CallFails(w) \/ Die(w)
    PROVE  WorkerHolds(w)'
<1>0. pc \in [Workers -> Labels]
  BY DEF TInv, ShapesOK
<1>1. CASE Lease(w)
  BY <1>1, LeaseHolds
<1>2. CASE Get(w)
  BY <1>2, GetHolds
<1>3. CASE Receipt(w)
  BY <1>3, ReceiptHolds
<1>4. CASE Observe(w)
  BY <1>4, ObserveHolds
<1>5. CASE Settle(w)
  BY <1>5, SettleHolds
<1>6. CASE Record(w)
  <2>1. pc[w] = "record" /\ Finishing(w)
    BY <1>6 DEF Record, At
  <2> QED
    BY <2>1, FinishingHolds
<1>7. CASE Finish(w) \/ Die(w)
  <2>1. pc'[w] = "idle"
    BY <1>0, <1>7 DEF Finish, Die, Go
  <2> QED
    BY <2>1, IdleHolds
<1>8. CASE CallFails(w)
  <2>1. CASE At(w, "receipt") /\ Go(w, "settle") /\ UNCHANGED <<journal, local>>
    BY <2>1, GoesOnHolding DEF At, Go, journal
  <2>2. CASE pc[w] \in {"get", "observe", "settle", "record"} /\ Finishing(w)
    BY <2>2, FinishingHolds
  <2> QED
    BY <1>8, <2>1, <2>2 DEF CallFails, At
<1> QED
  BY <1>1, <1>2, <1>3, <1>4, <1>5, <1>6, <1>7, <1>8 DEF WorkerStep

\* and a step that is another's.
LEMMA WorkerAlone ==
    ASSUME TInv, NEW w \in Workers, WorkerStep(w) \/ CallFails(w) \/ Die(w),
           NEW v \in Workers, v # w
    PROVE  pc'[v] = pc[v] /\ local'[v] = local[v]
<1>0. pc \in [Workers -> Labels] /\ local \in [Workers -> Locals]
  BY DEF TInv, ShapesOK
<1>1. ASSUME NEW label, Go(w, label) PROVE pc'[v] = pc[v]
  BY <1>0, <1>1 DEF Go
<1>2. CASE Lease(w)
  BY <1>0, <1>1, <1>2 DEF Lease
<1>3. CASE Get(w)
  BY <1>0, <1>1, <1>3 DEF Get, Finishing
<1>4. CASE Receipt(w)
  BY <1>0, <1>1, <1>4 DEF Receipt
<1>5. CASE Observe(w)
  BY <1>0, <1>1, <1>5 DEF Observe, Finishing
<1>6. CASE Settle(w)
  BY <1>0, <1>1, <1>6 DEF Settle, Finishing
<1>7. CASE Record(w)
  BY <1>1, <1>7 DEF Record, Finishing
<1>8. CASE Finish(w) \/ Die(w)
  BY <1>0, <1>1, <1>8 DEF Finish, Die
<1>9. CASE CallFails(w)
  BY <1>1, <1>9 DEF CallFails, Finishing
<1> QED
  BY <1>2, <1>3, <1>4, <1>5, <1>6, <1>7, <1>8, <1>9 DEF WorkerStep

LEMMA WorkersStep ==
    ASSUME TInv, [Next]_vars PROVE WorkersOK'
<1> SUFFICES ASSUME NEW w \in Workers PROVE WorkerHolds(w)'
  BY DEF WorkersOK
<1>1. CASE UNCHANGED workerVars
  BY <1>1, OthersRemember DEF workerVars
<1>2. ASSUME NEW v \in Workers, WorkerStep(v) \/ CallFails(v) \/ Die(v)
      PROVE  WorkerHolds(w)'
  <2>1. CASE v = w
    BY <1>2, <2>1, OwnStepHolds
  <2>2. CASE v # w
    BY <1>2, <2>2, WorkerAlone, OthersRemember
  <2> QED
    BY <2>1, <2>2
<1>3. ASSUME NEW r \in Reviews, OwnerStep(r) \/ LeaseEnds(r) PROVE UNCHANGED workerVars
  BY <1>3 DEF OwnerStep, Prepare, CancelPrepared, Check, Claim, MarkUnknown, Recover, LeaseEnds
<1>4. CASE Mine \/ OtherTransaction \/ Reorganise \/ Finalize \/ Tick
  BY <1>1, <1>4 DEF Mine, OtherTransaction, Reorganise, Finalize, Tick
<1>5. CASE UNCHANGED vars
  BY <1>1, <1>5 DEF vars
<1> QED
  BY <1>1, <1>2, <1>3, <1>4, <1>5 DEF Next

-----------------------------------------------------------------------------
(* The shapes. *)
LEMMA RowsShaped ==
    ASSUME TInv, [Next]_vars
    PROVE  /\ rows' \in [Reviews -> RowShapes] /\ jobs' \in [Reviews -> 0 .. MaxWorkers]
           /\ asked' \subseteq Reviews
<1>0. /\ rows \in [Reviews -> RowShapes] /\ jobs \in [Reviews -> 0 .. MaxWorkers]
      /\ asked \subseteq Reviews
  BY DEF TInv, ShapesOK
<1>1. CASE RowsRest
  BY <1>0, <1>1 DEF RowsRest
<1>2. ASSUME NEW r \in Reviews, Prepare(r)
      PROVE  rows' \in [Reviews -> RowShapes] /\ jobs' = jobs /\ asked' = asked
  BY <1>2, PrepareRows DEF Prepare
<1>3. ASSUME NEW r \in Reviews, NEW row, Advances(r, row)
      PROVE  /\ rows' \in [Reviews -> RowShapes] /\ jobs' \in [Reviews -> 0 .. MaxWorkers]
             /\ asked' \subseteq Reviews
  BY <1>0, <1>3 DEF Advances
<1> QED
  BY <1>0, <1>1, <1>2, <1>3, RowMoves

LEMMA ChainShaped ==
    ASSUME TInv, [Next]_vars
    PROVE  /\ chain' \in Seq(EntryShapes) /\ final' \in Nat /\ now' \in Nat
           /\ final' <= now' /\ now' <= MaxTime
<1>0. /\ ShapesOK /\ chain \in Seq(EntryShapes) /\ final \in Nat /\ now \in Nat
      /\ final <= now /\ now <= MaxTime
  BY DEF TInv, ShapesOK
<1>1. CASE ChainRests
  BY <1>0, <1>1 DEF ChainRests
<1>2. ASSUME NEW e, ChainGrows(e)
      PROVE  chain' \in Seq(EntryShapes) /\ final' = final /\ now' = now
  BY <1>0, <1>2, GrownChain DEF ChainGrows, NewEntry
<1>3. ASSUME NEW n, ChainIsCut(n)
      PROVE  chain' \in Seq(EntryShapes) /\ final' = final /\ now' = now
  BY <1>0, <1>3, CutChain DEF ChainIsCut
<1> QED
  BY <1>0, <1>1, <1>2, <1>3, ChainMoves

\* What a worker's next memory is made of.
LEMMA LocalChange ==
    ASSUME NEW l \in Locals, NEW r \in Reviews, NEW row \in RowShapes,
           NEW s \in Statuses \cup {None}, NEW e \in EntryShapes
    PROVE  /\ [l EXCEPT !.review = r] \in Locals /\ [l EXCEPT !.row = row] \in Locals
           /\ [l EXCEPT !.sees = s] \in Locals
           /\ [l EXCEPT !.sees = s, !.observation = e] \in Locals
<1>1. r \in 0 .. MaxReviews
  BY Numbers DEF Reviews
<1> QED
  BY <1>1 DEF Locals

LEMMA ObservedShape ==
    ASSUME ShapesOK, NEW w \in Workers, Job(w) \in Reviews, local[w].sees \in Statuses
    PROVE  Observed(w) \in RowShapes
<1>1. PICK x, s, e, n :
        /\ x = rows[Job(w)] /\ s = local[w].sees /\ e = local[w].observation
        /\ n = x.revision + 1
  OBVIOUS
<1>2. x \in RowShapes /\ e \in EntryShapes
  BY <1>1, RowShape, LocalShape
<1>3. n \in Nat
  BY <1>1, <1>2 DEF RowShapes
<1>4. [x EXCEPT !.status = s, !.revision = n, !.observation = e] \in RowShapes
  BY <1>1, <1>2, <1>3 DEF RowShapes
<1> QED
  BY <1>1, <1>4 DEF Observed

LEMMA LocalsShaped ==
    ASSUME TInv, NEW w \in Workers, WorkerStep(w) \/ CallFails(w) \/ Die(w)
    PROVE  \/ local' = local
           \/ \E l \in Locals : local' = [local EXCEPT ![w] = l]
<1> USE DEF TInv
<1>0. local \in [Workers -> Locals] /\ local[w] \in Locals
  BY DEF ShapesOK
<1>1. pc[w] \notin {"idle", "gone"} => Job(w) \in Reviews
  BY DEF WorkersOK, WorkerHolds
<1>2. CASE Lease(w)
  <2>1. PICK r \in Reviews : local' = [local EXCEPT ![w].review = r]
    BY <1>2 DEF Lease
  <2>2. [local[w] EXCEPT !.review = r] \in Locals
    BY <1>0, LocalChange, Literals
  <2> QED
    BY <1>0, <2>1, <2>2
<1>3. CASE Get(w)
  <2>1. \/ local' = local
        \/ local' = [local EXCEPT ![w].row = rows[Job(w)]]
    BY <1>3 DEF Get, Finishing
  <2>2. rows[Job(w)] \in RowShapes
    BY <1>1, <1>3, RowShape DEF Get, At
  <2>3. [local[w] EXCEPT !.row = rows[Job(w)]] \in Locals
    BY <1>0, <2>2, LocalChange, Literals DEF Locals
  <2> QED
    BY <1>0, <2>1, <2>3
<1>4. CASE Receipt(w)
  <2>1. PICK tx : tx = Exact(Job(w))
    OBVIOUS
  <2>2. \/ local' = local
        \/ local' = [local EXCEPT ![w].sees = "REORGED", ![w].observation = NoEntry]
        \/ /\ Mined(tx)
           /\ local' = [local EXCEPT
                 ![w].sees = Outcome(EntryOf(tx), "INCLUDED_SUCCESS", "INCLUDED_REVERT"),
                 ![w].observation = EntryOf(tx)]
    BY <1>4, <2>1 DEF Receipt
  <2>3. Mined(tx) => EntryOf(tx) \in EntryShapes
    BY ChainShape DEF Mined, EntryOf, Entries, Range
  <2>4. /\ "REORGED" \in Statuses
        /\ Outcome(EntryOf(tx), "INCLUDED_SUCCESS", "INCLUDED_REVERT") \in Statuses
    BY DEF Statuses, Claimed, Included, Outcome
  <2>5. ASSUME NEW s \in Statuses, NEW e \in EntryShapes,
               local' = [local EXCEPT ![w].sees = s, ![w].observation = e]
        PROVE  \E l \in Locals : local' = [local EXCEPT ![w] = l]
    <3>1. [local[w] EXCEPT !.sees = s, !.observation = e] \in Locals
      BY <1>0 DEF Locals
    <3> QED
      BY <1>0, <2>5, <3>1
  <2> QED
    BY <2>2, <2>3, <2>4, <2>5, Literals
<1>5. CASE Observe(w)
  <2>1. \/ local' = local
        \/ local' = [local EXCEPT ![w].row = Observed(w)]
        \/ local' = [local EXCEPT ![w].row = rows[Job(w)]]
    BY <1>5 DEF Observe, Finishing
  <2>2. Job(w) \in Reviews /\ local[w].sees \in Statuses
    BY <1>5 DEF Observe, At, WorkersOK, WorkerHolds, Statuses, Claimed
  <2>3. rows[Job(w)] \in RowShapes /\ Observed(w) \in RowShapes
    BY <2>2, RowShape, ObservedShape
  <2>4. ASSUME NEW row \in RowShapes, local' = [local EXCEPT ![w].row = row]
        PROVE  \E l \in Locals : local' = [local EXCEPT ![w] = l]
    <3>1. [local[w] EXCEPT !.row = row] \in Locals
      BY <1>0 DEF Locals
    <3> QED
      BY <1>0, <2>4, <3>1
  <2> QED
    BY <2>1, <2>3, <2>4
<1>6. CASE Settle(w)
  <2>1. PICK r, b, proof : /\ r = Job(w) /\ b = Read(w).hash /\ proof = Settlement(r, b)
    OBVIOUS
  <2>2. \/ local' = local
        \/ proof # Wait /\ local' = [local EXCEPT ![w].sees = proof]
    BY <1>6, <2>1 DEF Settle, Finishing
  <2>3. r \in Reviews /\ rows[r].status \in Claimed \cup Settled
    BY <1>6, <2>1 DEF Settle, At, WorkersOK, WorkerHolds
  <2>4. rows[r].owner \in Owners /\ b \in BOOLEAN
    BY <2>1, <2>3, Literals, LocalShape DEF RowsOK, RowHolds, RowShapes
  <2>5. proof # Wait => proof \in Statuses
    BY <2>1, <2>3, <2>4, SettlementProven DEF Statuses, Released
  <2>6. proof # Wait => [local[w] EXCEPT !.sees = proof] \in Locals
    BY <1>0, <2>5 DEF Locals
  <2> QED
    BY <1>0, <2>2, <2>6
<1>7. CASE Record(w)
  BY <1>7 DEF Record, Finishing
<1>8. CASE Finish(w) \/ Die(w)
  BY <1>8, Literals DEF Finish, Die
<1>9. CASE CallFails(w)
  BY <1>9 DEF CallFails, Finishing
<1> QED
  BY <1>2, <1>3, <1>4, <1>5, <1>6, <1>7, <1>8, <1>9 DEF WorkerStep

LEMMA LabelsShaped ==
    ASSUME TInv, NEW w \in Workers, WorkerStep(w) \/ CallFails(w) \/ Die(w)
    PROVE  \E label \in Labels : pc' = [pc EXCEPT ![w] = label]
<1>1. {"idle", "get", "receipt", "observe", "settle", "record", "finish"} \subseteq Labels
  BY DEF Labels
<1>2. PICK label \in {"idle", "get", "receipt", "observe", "settle", "record", "finish"} :
        Go(w, label)
  BY DEF WorkerStep, Lease, Get, Receipt, Observe, Settle, Record, Finish, CallFails, Die,
     Finishing
<1> QED
  BY <1>1, <1>2 DEF Go

LEMMA ShapesStep ==
    ASSUME TInv, [Next]_vars PROVE ShapesOK'
<1>0. /\ checked \subseteq Reviews /\ orphaned \subseteq Reviews
      /\ fork \in Nat /\ faults \in Nat
      /\ pc \in [Workers -> Labels] /\ local \in [Workers -> Locals]
  BY DEF TInv, ShapesOK
<1>1. /\ checked' \subseteq Reviews /\ orphaned' \subseteq Reviews
      /\ fork' \in Nat /\ faults' \in Nat
  <2>1. ASSUME NEW r \in Reviews, OwnerStep(r) \/ LeaseEnds(r)
        PROVE  checked' \subseteq Reviews /\ UNCHANGED <<orphaned, fork, faults>>
    BY <1>0, <2>1 DEF OwnerStep, Prepare, CancelPrepared, Check, Claim, MarkUnknown, Recover,
       LeaseEnds, chainVars
  <2>2. ASSUME NEW w \in Workers, WorkerStep(w) PROVE UNCHANGED <<checked, orphaned, fork, faults>>
    BY <2>2 DEF WorkerStep, Lease, Get, Receipt, Observe, Settle, Record, Finish, chainVars
  <2>3. ASSUME NEW w \in Workers, CallFails(w) \/ Die(w)
        PROVE  UNCHANGED <<checked, orphaned, fork>> /\ faults' = faults + 1
    BY <2>3 DEF CallFails, Die, Fault, chainVars
  <2>4. CASE Mine \/ OtherTransaction \/ Finalize \/ Tick
    BY <1>0, <2>4 DEF Mine, OtherTransaction, Finalize, Tick
  <2>5. CASE Reorganise
    BY <1>0, <2>5 DEF Reorganise
  <2>6. CASE UNCHANGED vars
    BY <1>0, <2>6 DEF vars, chainVars
  <2> QED
    BY <1>0, <2>1, <2>2, <2>3, <2>4, <2>5, <2>6 DEF Next
<1>2. pc' \in [Workers -> Labels] /\ local' \in [Workers -> Locals]
  <2>1. ASSUME NEW w \in Workers, WorkerStep(w) \/ CallFails(w) \/ Die(w)
        PROVE  pc' \in [Workers -> Labels] /\ local' \in [Workers -> Locals]
    <3>1. pc' \in [Workers -> Labels]
      BY <1>0, <2>1, LabelsShaped
    <3>2. local' \in [Workers -> Locals]
      BY <1>0, <2>1, LocalsShaped
    <3> QED
      BY <3>1, <3>2
  <2>2. ASSUME NEW r \in Reviews, OwnerStep(r) \/ LeaseEnds(r) PROVE UNCHANGED workerVars
    BY <2>2 DEF OwnerStep, Prepare, CancelPrepared, Check, Claim, MarkUnknown, Recover, LeaseEnds
  <2>3. CASE Mine \/ OtherTransaction \/ Reorganise \/ Finalize \/ Tick
    BY <1>0, <2>3 DEF Mine, OtherTransaction, Reorganise, Finalize, Tick, workerVars
  <2>4. CASE UNCHANGED vars
    BY <1>0, <2>4 DEF vars, workerVars
  <2> QED
    BY <1>0, <2>1, <2>2, <2>3, <2>4 DEF Next, workerVars
<1> QED
  BY <1>1, <1>2, RowsShaped, ChainShaped DEF ShapesOK

-----------------------------------------------------------------------------
(* The invariant. *)
LEMMA InitTInv == Init => TInv
<1> SUFFICES ASSUME Init PROVE TInv
  OBVIOUS
<1>1. /\ \A r \in Reviews : rows[r] = NoRow /\ jobs[r] = 0
      /\ \A w \in Workers : pc[w] = "idle"
      /\ chain = <<>> /\ asked = {}
  BY DEF Init
<1>2. \A r \in Reviews : rows[r].status = "NONE" /\ ~ Holds(r)
  BY <1>1 DEF NoRow, Holds
<1>3. ShapesOK
  <2>1. /\ rows \in [Reviews -> RowShapes] /\ jobs \in [Reviews -> 0 .. MaxWorkers]
        /\ local \in [Workers -> Locals]
    BY Literals, Numbers DEF Init
  <2>2. pc \in [Workers -> Labels]
    BY DEF Init, Labels
  <2>3. /\ checked \subseteq Reviews /\ asked \subseteq Reviews /\ orphaned \subseteq Reviews
        /\ final \in Nat /\ now \in Nat /\ final <= now /\ now <= MaxTime
        /\ fork \in Nat /\ faults \in Nat
    BY Numbers DEF Init
  <2>4. chain \in Seq(EntryShapes)
    BY <1>1
  <2> QED
    BY <2>1, <2>2, <2>3, <2>4 DEF ShapesOK
<1>4. RowsOK
  <2>1. "NONE" \notin HasHash \cup Included \cup Claimed
    BY DEF HasHash, Included, Claimed
  <2> QED
    BY <1>1, <1>2, <2>1 DEF RowsOK, RowHolds
<1>5. ChainOK
  BY <1>1 DEF ChainOK, InOrder, Counted
<1>6. SettledOK
  BY <1>2 DEF SettledOK, Settled
<1>7. WorkersOK
  BY <1>1 DEF WorkersOK, WorkerHolds, HasRow
<1> QED
  BY <1>3, <1>4, <1>5, <1>6, <1>7 DEF TInv

LEMMA TInvHolds == Spec => []TInv
<1>1. TInv /\ [Next]_vars => TInv'
  BY ShapesStep, RowsStep, ChainStep, SettledStep, WorkersStep DEF TInv
<1> QED
  BY InitTInv, <1>1, PTL DEF Spec

-----------------------------------------------------------------------------
(* Which places decide about a review: one whose wallet was not asked is   *)
(* in no entry, and of one with an entry of its nonce, that entry says it. *)
Decided ==
    /\ \A r \in Reviews : r \notin asked => r \notin Applied
    /\ \A r \in Reviews : \A i \in DOMAIN chain :
          rows[r].owner \in Owners /\ UsesNonce(i, r) =>
              /\ r \in Applied <=> chain[i].ok /\ chain[i].tx.review = r
              /\ \A k \in DOMAIN chain : UsesNonce(k, r) => k = i

LEMMA DecidedHolds == TInv => Decided
<1> SUFFICES ASSUME TInv PROVE Decided
  OBVIOUS
<1> USE DEF TInv
<1>1. ASSUME NEW r \in Reviews, r \in Applied
      PROVE  \E k \in DOMAIN chain : /\ chain[k].ok /\ chain[k].tx.review = r
                                     /\ r \in asked /\ UsesNonce(k, r)
  <2>1. PICK k \in DOMAIN chain : chain[k].ok /\ chain[k].tx.review = r
    BY <1>1 DEF Applied, Entries, Range
  <2>2. r # 0
    BY Numbers
  <2>3. r \in asked /\ UsesNonce(k, r)
    BY <2>1, <2>2 DEF ChainOK, Reviewed, UsesNonce
  <2> QED
    BY <2>1, <2>3
<1>2. ASSUME NEW r \in Reviews, NEW i \in DOMAIN chain, NEW k \in DOMAIN chain,
             rows[r].owner \in Owners, UsesNonce(i, r), UsesNonce(k, r)
      PROVE  k = i
  BY <1>2, OneUse DEF UsesNonce
<1>3. ASSUME NEW r \in Reviews, NEW i \in DOMAIN chain, chain[i].ok, chain[i].tx.review = r
      PROVE  r \in Applied
  BY <1>3 DEF Applied, Entries, Range
<1> QED
  BY <1>1, <1>2, <1>3 DEF Decided

(* Rows keep their shape, one review holds the Punk whoever owns it, and a *)
(* row has a hash and an observation in the states that need them: what    *)
(* the store's column checks and its one-active index demand.              *)
THEOREM TrainingTypes == Spec => []TrainingTypeOK
<1>1. TInv => TrainingTypeOK
  <2> SUFFICES ASSUME TInv PROVE TrainingTypeOK
    OBVIOUS
  <2>1. DOMAIN rows = Reviews /\ DOMAIN jobs = Reviews
    BY DEF TInv, ShapesOK
  <2>2. \A r \in Reviews : rows[r].status \in {"NONE", "PREPARED"} \cup Claimed \cup Released
    BY RowShape DEF TInv, RowShapes, Statuses
  <2>3. \A r \in Reviews :
          /\ rows[r].status \in HasHash => rows[r].hash
          /\ rows[r].status \in Included => rows[r].observation # NoEntry
          /\ jobs[r] # 0 => rows[r].status \in Claimed
    BY DEF TInv, RowsOK, RowHolds
  <2>4. \A q, r \in Reviews : Holds(q) /\ Holds(r) => q = r
    BY DEF TInv, RowsOK
  <2>5. checked \subseteq Reviews /\ asked \subseteq Reviews /\ final <= now /\ now <= MaxTime
    BY DEF TInv, ShapesOK
  <2> QED
    BY <2>1, <2>2, <2>3, <2>4, <2>5 DEF TrainingTypeOK, HasHash
<1> QED
  BY TInvHolds, <1>1, PTL

(* What a settled row says is what the finalized chain holds, for good:    *)
(* the settlement was proven when it was recorded, what is final stays,    *)
(* and no other place can have the nonce.                                  *)
THEOREM SettledStaysTrue == Spec => []SettledIsTrue
<1>1. TInv => SettledIsTrue
  <2> SUFFICES ASSUME TInv, NEW r \in Reviews
               PROVE  /\ rows[r].status = "SETTLED_SUCCESS" =>
                            \E i \in {i \in Final : chain[i].tx = Exact(r)} : chain[i].ok
                      /\ rows[r].status = "SETTLED_REVERT" =>
                            \E i \in {i \in Final : chain[i].tx = Exact(r)} : ~ chain[i].ok
                      /\ rows[r].status = "NONCE_CONSUMED" /\ rows[r].hash =>
                            {i \in Final : chain[i].tx = Exact(r)} = {}
                      /\ rows[r].status = "REVIEW_EXPIRED" => r \notin Applied
    BY DEF SettledIsTrue
  <2>1. rows[r].status \in Settled => Proven(r, rows[r].status, rows[r].hash)
    BY DEF TInv, SettledOK
  <2>2. ASSUME rows[r].status = "NONCE_CONSUMED", rows[r].hash,
               NEW k \in Final, chain[k].tx = Exact(r)
        PROVE  FALSE
    <3>1. PICK i \in Final : UsesNonce(i, r) /\ chain[i].tx # Exact(r)
      BY <2>1, <2>2 DEF Proven, Settled
    <3>2. rows[r].owner \in Owners
      BY <2>2 DEF TInv, RowsOK, RowHolds
    <3>3. UsesNonce(k, r) /\ i \in DOMAIN chain /\ k \in DOMAIN chain
      BY <2>2 DEF UsesNonce, Exact, Final
    <3>4. k = i
      BY <3>1, <3>2, <3>3, DecidedHolds DEF Decided
    <3> QED
      BY <2>2, <3>1, <3>4
  <2> QED
    BY <2>1, <2>2 DEF Proven, Settled
<1> QED
  BY TInvHolds, <1>1, PTL

(* A hold that is released is over: its row does not change any more, and  *)
(* neither does whether the review was applied.  A review that was never   *)
(* asked for is in no block; one whose nonce is final is decided there;    *)
(* and one whose deadline is final cannot be applied after it.             *)
THEOREM ReleasedForGood == Spec => ReleasedIsOver
<1>1. ASSUME TInv, TInv', Decided, Decided', [Next]_vars,
             NEW r \in Reviews, rows[r].status \in Released
      PROVE  rows'[r] = rows[r] /\ (r \in Applied' <=> r \in Applied)
  <2>1. /\ rows'[r] = rows[r] /\ rows[r].status # "NONE"
        /\ rows[r].owner \in Owners
    BY <1>1, RowsGoOn, Literals DEF RowGoesOn, TInv, RowsOK, RowHolds
  <2>2. CASE rows[r].status \notin Settled
    <3>1. rows[r].status \notin Claimed
      BY <1>1, Literals
    <3>2. r \notin asked
      BY <1>1, <2>2, <3>1 DEF TInv, RowsOK, RowHolds
    <3>3. r \notin asked'
      BY <1>1, <2>1, <2>2, <3>1 DEF TInv, RowsOK, RowHolds
    <3> QED
      BY <1>1, <2>1, <3>2, <3>3 DEF Decided
  <2>3. CASE rows[r].status = "REVIEW_EXPIRED"
    <3>1. final > Deadline(r) /\ r \notin Applied
      BY <1>1, <2>3 DEF TInv, SettledOK, Proven, Settled
    <3> QED
      BY <1>1, <2>1, <3>1, TooLate
  <2>4. CASE rows[r].status \in {"SETTLED_SUCCESS", "SETTLED_REVERT", "NONCE_CONSUMED"}
    <3>1. PICK i \in Final : UsesNonce(i, r)
      <4>1. PICK p, b : p = rows[r].status /\ b = rows[r].hash
        OBVIOUS
      <4>2. p \in {"SETTLED_SUCCESS", "SETTLED_REVERT", "NONCE_CONSUMED"} /\ Proven(r, p, b)
        BY <1>1, <2>4, <4>1 DEF TInv, SettledOK, Settled
      <4>3. \E i \in Final : chain[i].tx = Exact(r) \/ UsesNonce(i, r)
        BY <4>2 DEF Proven
      <4> QED
        BY <4>3 DEF UsesNonce, Exact
    <3>2. i \in Final' /\ chain'[i] = chain[i]
      BY <1>1, FinalStays
    <3>3. i \in DOMAIN chain /\ i \in DOMAIN chain'
      BY <3>1, <3>2 DEF Final
    <3>4. r \in Applied <=> chain[i].ok /\ chain[i].tx.review = r
      BY <1>1, <2>1, <3>1, <3>3 DEF Decided
    <3>5. UsesNonce(i, r)' /\ rows'[r].owner \in Owners
      BY <2>1, <3>1, <3>2 DEF UsesNonce
    <3>6. r \in Applied' <=> chain'[i].ok /\ chain'[i].tx.review = r
      BY <1>1, <3>3, <3>5 DEF Decided
    <3> QED
      BY <2>1, <3>2, <3>4, <3>6
  <2> QED
    BY <1>1, <2>2, <2>3, <2>4 DEF Settled
<1>2. TInv /\ TInv' /\ Decided /\ Decided' /\ [Next]_vars =>
        [\A r \in Reviews : rows[r].status \in Released =>
              rows'[r] = rows[r] /\ HasApplied(r)' = HasApplied(r)]_vars
  <2>1. ASSUME NEW r PROVE HasApplied(r) \in BOOLEAN /\ HasApplied(r)' \in BOOLEAN
    BY DEF HasApplied
  <2> QED
    BY <1>1 DEF HasApplied
<1> QED
  BY TInvHolds, DecidedHolds, <1>2, PTL DEF Spec, ReleasedIsOver
=============================================================================
