------------------------------ MODULE ChainIndexer ------------------------------
(***************************************************************************)
(* The broker's chain indexer: ReorgAwareIndexer over the Postgres         *)
(* repository.  Each stream of logs has a checkpoint; a run of one stream  *)
(* compares its checkpoint's hash with the chain's, rewinds every stream   *)
(* when they differ, and then inserts the logs up to a number of blocks    *)
(* below the head, a batch and its checkpoint in one database transaction. *)
(* A job runs the streams it was asked for in turn.  A lock lets one job   *)
(* work at a time; it may die between transactions.                        *)
(*                                                                         *)
(* One Punk: its transfers, the activation of its account, a purchase of   *)
(* that account, and a sale on Seaport from which an opportunity is made.  *)
(* A transaction keeps its name when a reorganisation moves it.            *)
(***************************************************************************)
EXTENDS Integers, Sequences, FiniteSets

CONSTANTS
    Confirmations,  \* blocks below the head that are not indexed (20)
    Window,         \* how far a rewind goes below its checkpoint (64)
    BatchSize,      \* blocks per database transaction (1000)
    BlocksPerRun,   \* (10000)
    Jobs,           \* the sequences of streams the one schedule of a
                    \* deployment may ask for: one is chosen and kept
    MaxHeight, MaxReorgs, MaxFaults     \* bounds

ASSUME IndexerAssumption ==
    /\ {Confirmations, Window, MaxHeight, MaxReorgs, MaxFaults} \subseteq Nat
    /\ {BatchSize, BlocksPerRun} \subseteq Nat \ {0}
    /\ Jobs \subseteq Seq({"transfers", "seaport", "activations", "acquisitions"}) \ {<<>>}

VARIABLES
    chain,          \* the blocks above the first
    fork,           \* how many times the chain was reorganised
    checkpoints, rows, purchases, opportunities,
    owner,          \* owner_snapshot and its block
    account,        \* the block the Punk's account was observed at
    cleared,        \* history: a rewind cleared the owner, no transfer named one since
    requested,      \* the job's streams
    run, faults

database == <<checkpoints, rows, purchases, opportunities, owner, account, cleared>>
vars == <<chain, fork, database, requested, run, faults>>

None == "none"
NoBlock == [number |-> 0, fork |-> 0]
Streams == {"transfers", "activations", "acquisitions", "seaport"}
StreamOf == [give |-> "transfers", back |-> "transfers", activate |-> "activations",
             buy |-> "acquisitions", sell |-> "seaport"]
Txs == DOMAIN StreamOf
StartBlock == 1
Requested == {requested[i] : i \in DOMAIN requested}
NextStream(todo) == [todo |-> todo, at |-> "read", next |-> 0, head |-> 0]
Idle == NextStream(requested)
stream == Head(run.todo)

Least(a, b) == IF a < b THEN a ELSE b
Most(a, b) == IF a < b THEN b ELSE a

(***************************************************************************)
(* The chain.                                                              *)
(***************************************************************************)
Height == Len(chain)
Block(n) == [number |-> n, fork |-> chain[n].fork]
Canonical(b) == b.number \in 1 .. Height /\ b = Block(b.number)
Logs(s, from, to) ==
    {tx \in Txs : StreamOf[tx] = s /\ \E n \in from .. to : tx \in chain[n].txs}
BlockOf(tx) == CHOOSE n \in 1 .. Height : tx \in chain[n].txs
Mined == {tx \in Txs : \E n \in 1 .. Height : tx \in chain[n].txs}
\* The owner after block n: in one block the Punk is given before it is given back,
\* and its account is activated before both.
OwnerAt(n) ==
    LET past == Logs("transfers", 1, n)
    IN  IF past = {"give"} THEN "buyer" ELSE "seller"

SafeHead == Most(Height - Confirmations, 0)

Init ==
    /\ chain = <<>> /\ fork = 0
    /\ checkpoints = [s \in Streams |-> NoBlock]
    /\ rows = [tx \in Txs |-> NoBlock]
    /\ purchases = 0 /\ opportunities = [block |-> 0, canonical |-> FALSE]
    /\ owner = [to |-> None, block |-> 0] /\ account = 0 /\ cleared = FALSE
    /\ requested \in Jobs /\ run = Idle /\ faults = 0

Grow ==
    /\ Height < MaxHeight
    /\ \E txs \in SUBSET {tx \in Txs \ Mined : StreamOf[tx] \in Requested} :
          /\ "back" \in txs => "give" \in Mined \cup txs
          /\ chain' = Append(chain, [fork |-> fork, txs |-> txs])
    /\ UNCHANGED <<fork, database, requested, run, faults>>

\* No reorganisation is waiting to be seen.
Replaced(b) == b # NoBlock /\ ~ Canonical(b)
Consistent == \A s \in Streams : ~ Replaced(checkpoints[s])

\* What the code relies on.  A block a run may index does not change during that run.
\* A block that changes between runs is within the window below every checkpoint, it is
\* not below all of them if a log of it or above it is kept, so that a run will see it,
\* and the reorganisation before it has been seen.
Recoverable(n) ==
    /\ run.at # "read" => n > run.head
    /\ \A s \in Streams : n >= checkpoints[s].number - Window
    /\ \A tx \in Txs : rows[tx].number >= n => \E s \in Streams : checkpoints[s].number >= n
    /\ Consistent

Reorganise ==
    /\ fork < MaxReorgs
    /\ \E n \in 1 .. Height : Recoverable(n) /\ chain' = SubSeq(chain, 1, n - 1)
    /\ fork' = fork + 1
    /\ UNCHANGED <<database, requested, run, faults>>

(***************************************************************************)
(* A run of one stream.                                                    *)
(***************************************************************************)
NotClamped(cp) == IF Replaced(cp) THEN cp.number - Window                    \* mutant
                  ELSE Most(cp.number + 1, StartBlock)
FirstOf(cp) == Most(IF Replaced(cp) THEN cp.number - Window ELSE cp.number + 1, StartBlock)
\* The stream is done, and with the last one the job.
Done == run' = IF Len(run.todo) > 1 THEN NextStream(Tail(run.todo)) ELSE Idle

\* The head, the checkpoint and its hash are read.
Read ==
    LET cp == checkpoints[stream]
        next == FirstOf(cp)
    IN  /\ run.at = "read" /\ cp.number <= Height
        /\ IF Replaced(cp) \/ next <= SafeHead
           THEN run' = [run EXCEPT !.at = IF Replaced(cp) THEN "rewind" ELSE "insert",
                                   !.next = next, !.head = Least(next + BlocksPerRun - 1, SafeHead)]
           ELSE Done
        /\ UNCHANGED <<chain, fork, database, requested, faults>>

\* The chain is shorter than the checkpoint for now: no hash, the job fails.
ReadFails ==
    /\ run.at = "read" /\ checkpoints[stream].number > Height
    /\ run' = Idle
    /\ UNCHANGED <<chain, fork, database, requested, faults>>

Continue(next) ==
    IF next <= run.head THEN run' = [run EXCEPT !.next = next, !.at = "insert"] ELSE Done

\* Everything from a block on is forgotten, for every stream; what is below stays.
ForgetOwn(n) == [checkpoints EXCEPT ![stream] = NoBlock]                 \* mutant
ForgetCheckpoints(n) == [s \in Streams |-> NoBlock]
Rewind ==
    LET n == run.next
        Gone(b) == b >= n
    IN  /\ run.at = "rewind"
        /\ checkpoints' = ForgetCheckpoints(n)
        /\ rows' = [tx \in Txs |-> IF Gone(rows[tx].number) THEN NoBlock ELSE rows[tx]]
        /\ purchases' = IF Gone(purchases) THEN 0 ELSE purchases
        /\ account' = IF Gone(account) THEN 0 ELSE account
        /\ owner' = IF Gone(owner.block) THEN [to |-> None, block |-> 0] ELSE owner
        /\ cleared' = (cleared \/ Gone(owner.block))
        /\ opportunities' = IF Gone(opportunities.block)
                            THEN [opportunities EXCEPT !.canonical = FALSE] ELSE opportunities
        /\ Continue(n)
        /\ UNCHANGED <<chain, fork, requested, faults>>

\* insertLogs: a log that is there already keeps its block, and is projected again.
Inserted(logs) ==
    [tx \in Txs |-> IF tx \in logs /\ rows[tx] = NoBlock THEN Block(BlockOf(tx)) ELSE rows[tx]]

\* The owner of the last transfer counts from its block on; the owner an activation
\* names only above the block already known.
LaterOwner(tx) == BlockOf(tx) > owner.block                                  \* mutant
NamesOwner(tx) == BlockOf(tx) >= owner.block
Transferred(logs) ==
    LET last == IF "back" \in logs THEN "back" ELSE "give"
    IN  IF logs \cap {"give", "back"} # {} /\ NamesOwner(last)
        THEN [to |-> OwnerAt(BlockOf(last)), block |-> BlockOf(last)]
        ELSE IF "activate" \in logs /\ BlockOf("activate") > owner.block
        THEN [to |-> OwnerAt(BlockOf("activate") - 1), block |-> BlockOf("activate")]
        ELSE owner

\* A purchase is listed when its account is known: now, or with the activation.
Listed(logs) ==
    IF /\ purchases = 0 /\ account' # 0
       /\ "buy" \in logs \/ ("activate" \in logs /\ rows["buy"] # NoBlock)
    THEN IF "buy" \in logs THEN BlockOf("buy") ELSE rows["buy"].number
    ELSE purchases

\* The checkpoint is saved with every batch, an empty one too.
SavedWithLogs(to, logs) ==                                                   \* mutant
    IF checkpoints[stream].number <= to /\ logs # {}
    THEN [checkpoints EXCEPT ![stream] = Block(to)] ELSE checkpoints
Saved(to, logs) ==
    IF checkpoints[stream].number <= to
    THEN [checkpoints EXCEPT ![stream] = Block(to)] ELSE checkpoints

Insert ==
    LET to == Least(run.next + BatchSize - 1, run.head)
        logs == Logs(stream, run.next, to)
    IN  /\ run.at = "insert"
        /\ rows' = Inserted(logs)
        /\ account' = IF "activate" \in logs THEN Most(account, BlockOf("activate")) ELSE account
        /\ owner' = Transferred(logs)
        /\ cleared' = (cleared /\ ~ (\E tx \in logs \cap {"give", "back"} : NamesOwner(tx)))
        /\ purchases' = Listed(logs)
        /\ opportunities' = IF "sell" \in logs
                            THEN [block |-> BlockOf("sell"), canonical |-> TRUE] ELSE opportunities
        /\ checkpoints' = Saved(to, logs)
        /\ Continue(to + 1)
        /\ UNCHANGED <<chain, fork, requested, faults>>

\* The process dies or a call fails: the lock is gone, the last transaction stays.
Fail ==
    /\ run # Idle /\ faults < MaxFaults
    /\ run' = Idle /\ faults' = faults + 1
    /\ UNCHANGED <<chain, fork, database, requested>>

Work == Read \/ ReadFails \/ Rewind \/ Insert
Next == Grow \/ Reorganise \/ Work \/ Fail

\* The job is scheduled for ever, and the chain goes on.
Spec == Init /\ [][Next]_vars /\ WF_vars(Grow) /\ WF_vars(Work)

(***************************************************************************)
(* Properties.                                                             *)
(***************************************************************************)
(* Blocks are heights, and a run of a stream stays between the block it    *)
(* may start at and its head, after a rewind near the first blocks too.    *)
IndexerTypeOK ==
    /\ \A s \in Streams : checkpoints[s].number \in 0 .. MaxHeight
    /\ \A tx \in Txs : rows[tx].number \in 0 .. MaxHeight
    /\ {purchases, account, owner.block, opportunities.block} \subseteq 0 .. MaxHeight
    /\ owner.to = None <=> owner.block = 0
    /\ stream \in Requested
    /\ run.at # "read" => run.next >= StartBlock
    /\ run.at = "insert" => run.next <= run.head

(* Once the reorganisation has been seen every log kept is the chain's, at *)
(* its block, whichever stream saw it and however far the others were, and *)
(* no log up to a checkpoint is missing.                                   *)
RowsAreTheChains ==
    Consistent =>
        /\ \A tx \in Txs : rows[tx] # NoBlock =>
              tx \in Mined /\ rows[tx] = Block(BlockOf(tx))
        /\ \A s \in Streams : \A tx \in Logs(s, StartBlock, checkpoints[s].number) :
              rows[tx] # NoBlock

(* What is derived follows: the owner is that of the chain at the          *)
(* checkpoint of the transfers, an opportunity counts while its sale is    *)
(* kept, and a purchase that is kept is listed when its account is known.  *)
(* An owner that a rewind cleared is left out until a transfer names one:  *)
(* the activation may fill it in from before transfers that were kept.     *)
ProjectionsFollow ==
    Consistent =>
        /\ ~ cleared /\ owner.to # None /\ owner.block <= checkpoints["transfers"].number
              => owner.to = OwnerAt(checkpoints["transfers"].number)
        /\ opportunities.canonical <=> rows["sell"] # NoBlock
        /\ account = rows["activate"].number
        /\ account # 0 /\ rows["buy"] # NoBlock => purchases = rows["buy"].number
        /\ purchases # 0 => rows["buy"].number = purchases

(* The index reaches the safe head in the end, of the chain as it is then, *)
(* whatever was rewound or died.                                           *)
IndexCatchesUp ==
    []<>(\A s \in Requested : SafeHead > 0 => checkpoints[s] = Block(SafeHead))
=============================================================================
