------------------------ MODULE ChainIndexer_proofs ------------------------
(***************************************************************************)
(* The index follows the chain, for any window, any batch and run length,  *)
(* any number of reorganisations and any jobs.                             *)
(***************************************************************************)
EXTENDS ChainIndexer, TLAPS

Blocks == [number : Nat, fork : Nat]
Events == {"give", "back", "activate", "buy", "sell"}
Transfers == {"give", "back"}

(* Shapes.  A transaction is in one block at most, and the Punk is given   *)
(* before it is given back.                                                *)
ChainOK ==
    /\ chain \in Seq([fork : Nat, txs : SUBSET Events]) /\ Height <= MaxHeight
    /\ fork \in Nat
    /\ \A n \in 1 .. Height : chain[n].fork <= fork
    /\ \A m, n \in 1 .. Height : \A tx \in chain[m].txs \cap chain[n].txs : m = n
    /\ \A n \in 1 .. Height : "back" \in chain[n].txs =>
          \E m \in 1 .. n : "give" \in chain[m].txs
DatabaseOK ==
    /\ checkpoints \in [Streams -> Blocks] /\ rows \in [Events -> Blocks]
    /\ purchases \in Nat /\ account \in Nat /\ cleared \in BOOLEAN
    /\ owner \in [to : {None, "buyer", "seller"}, block : Nat]
    /\ opportunities \in [block : Nat, canonical : BOOLEAN]
    /\ \A s \in Streams : checkpoints[s].number <= MaxHeight
    /\ \A tx \in Events : rows[tx].number <= MaxHeight
    /\ \A tx \in Events : rows[tx].number = 0 => rows[tx] = NoBlock
    /\ \A s \in Streams : checkpoints[s].number = 0 => checkpoints[s] = NoBlock
    /\ {purchases, account, owner.block, opportunities.block} \subseteq 0 .. MaxHeight
    /\ owner.to = None <=> owner.block = 0
RunOK ==
    /\ requested \in Jobs /\ faults \in Nat
    /\ run \in [todo : Seq(Streams) \ {<<>>}, at : {"read", "rewind", "insert"},
                next : Nat, head : Nat]
    /\ \A i \in DOMAIN run.todo : run.todo[i] \in Requested
    /\ run.at # "read" => run.next >= StartBlock /\ run.head <= Height
    /\ run.at = "rewind" => /\ Replaced(checkpoints[stream])
                            /\ run.next = FirstOf(checkpoints[stream])
    /\ run.at = "insert" => /\ run.next <= run.head
                            /\ checkpoints[stream].number < run.next
                            /\ ~ Replaced(checkpoints[stream])

(* A block that was dropped is of an earlier fork than what comes in its   *)
(* place.                                                                  *)
OldForks ==
    /\ \A s \in Streams : /\ checkpoints[s].fork <= fork
                          /\ checkpoints[s].number > Height => checkpoints[s].fork < fork
    /\ \A tx \in Events : /\ rows[tx].fork <= fork
                          /\ rows[tx].number > Height => rows[tx].fork < fork

(* What the rewind that has to come will forget: every block that is not   *)
(* below the window of some checkpoint that was replaced.  What will be    *)
(* mined is of it.                                                         *)
Doomed(k) ==
    /\ ~ Consistent /\ k >= 1
    /\ \A s \in Streams : Replaced(checkpoints[s]) => k >= checkpoints[s].number - Window
    /\ run.at = "rewind" => k >= run.next
NextIsDoomed == ~ Consistent => Doomed(Height + 1)

(* A row is the chain's, or it is forgotten by that rewind, and so is what *)
(* the chain has of the transaction.                                       *)
True(tx) == tx \in Mined /\ rows[tx] = Block(BlockOf(tx))
RowsTrueOrDoomed ==
    \A tx \in Events : rows[tx] # NoBlock =>
        True(tx) \/ (Doomed(rows[tx].number) /\ (tx \in Mined => Doomed(BlockOf(tx))))

(* Up to where a stream has been read; a run that has rewound goes on from *)
(* there.                                                                  *)
ReadTo(s) == IF run.at = "insert" /\ stream = s THEN run.next - 1 ELSE checkpoints[s].number
NothingMissing ==
    \A tx \in Mined : BlockOf(tx) <= ReadTo(StreamOf[tx]) /\ ~ Doomed(BlockOf(tx))
        => rows[tx] # NoBlock

(* What is derived from a transaction's row has its block, or both are     *)
(* forgotten.                                                              *)
Follows(k, tx) ==
    \/ k = rows[tx].number
    \/ rows[tx] # NoBlock /\ Doomed(k) /\ Doomed(rows[tx].number)
DerivedFollow ==
    /\ Follows(account, "activate")
    /\ opportunities.canonical <=> rows["sell"] # NoBlock
    /\ opportunities.canonical => Follows(opportunities.block, "sell")
    /\ purchases # 0 => rows["buy"] # NoBlock /\ Follows(purchases, "buy")
    /\ account # 0 /\ rows["buy"] # NoBlock => purchases # 0

(* The owner: written for a row's block; not before a transfer that was    *)
(* read; and the chain's after that block, or before it when an activation *)
(* wrote it and no transfer of the block was read.                         *)
OwnerHasRow ==
    owner.block # 0 /\ ~ Doomed(owner.block) => \E tx \in Events : rows[tx].number = owner.block
TransfersCounted ==
    ~ cleared => \A tx \in Transfers \cap Mined :
        BlockOf(tx) <= ReadTo("transfers") /\ ~ Doomed(BlockOf(tx)) => BlockOf(tx) <= owner.block
OwnerTrue ==
    ~ cleared /\ owner.block # 0 /\ ~ Doomed(owner.block) =>
        \/ owner.to = OwnerAt(owner.block)
        \/ /\ owner.to = OwnerAt(owner.block - 1)
           /\ owner.block <= ReadTo("transfers") => chain[owner.block].txs \cap Transfers = {}

IInv == /\ ChainOK /\ DatabaseOK /\ RunOK /\ OldForks
        /\ NextIsDoomed /\ RowsTrueOrDoomed /\ NothingMissing
        /\ DerivedFollow /\ OwnerHasRow /\ TransfersCounted /\ OwnerTrue

-----------------------------------------------------------------------------
(* The names, and what the assumption says.                                *)
LEMMA Names ==
    /\ Txs = Events /\ DOMAIN StreamOf = Events
    /\ \A tx \in Events : StreamOf[tx] \in Streams
    /\ \A tx \in Events : StreamOf[tx] = "transfers" <=> tx \in Transfers
    /\ \A tx \in Events : /\ StreamOf[tx] = "activations" <=> tx = "activate"
                          /\ StreamOf[tx] = "acquisitions" <=> tx = "buy"
                          /\ StreamOf[tx] = "seaport" <=> tx = "sell"
BY DEF Txs, StreamOf, Events, Streams, Transfers

LEMMA Numbers ==
    ASSUME IndexerAssumption
    PROVE  /\ Confirmations \in Nat /\ Window \in Nat /\ MaxHeight \in Nat
           /\ BatchSize \in Nat \ {0} /\ BlocksPerRun \in Nat \ {0}
           /\ Jobs \subseteq Seq(Streams) \ {<<>>}
<1>1. {"transfers", "seaport", "activations", "acquisitions"} = Streams
  BY DEF Streams
<1> QED BY <1>1 DEF IndexerAssumption

LEMMA Heights == ASSUME ChainOK
                 PROVE  /\ Height \in Nat
                        /\ \A n \in 1 .. Height : chain[n].fork \in Nat /\ chain[n].txs \subseteq Events
<1> DEFINE B == [fork : Nat, txs : SUBSET Events]
<1>1. chain \in Seq(B)
  BY DEF ChainOK
<1>2. \A b \in B : b.fork \in Nat /\ b.txs \subseteq Events
  OBVIOUS
<1> HIDE DEF B
<1> QED BY <1>1, <1>2 DEF Height

(* The block of a transaction is the one it is in.                         *)
LEMMA BlockIs ==
    ASSUME ChainOK
    PROVE  /\ \A tx \in Mined : /\ tx \in Events /\ BlockOf(tx) \in 1 .. Height
                                /\ tx \in chain[BlockOf(tx)].txs
           /\ \A n \in 1 .. Height : \A tx \in chain[n].txs :
                 tx \in Mined /\ tx \in Events /\ BlockOf(tx) = n
<1>1. ASSUME NEW tx, NEW n \in 1 .. Height, tx \in chain[n].txs
      PROVE  BlockOf(tx) \in 1 .. Height /\ tx \in chain[BlockOf(tx)].txs /\ BlockOf(tx) = n
  <2>1. BlockOf(tx) \in 1 .. Height /\ tx \in chain[BlockOf(tx)].txs
    BY <1>1 DEF BlockOf
  <2> QED BY <1>1, <2>1 DEF ChainOK
<1>2. \A tx \in Mined : tx \in Events /\ \E n \in 1 .. Height : tx \in chain[n].txs
  BY Names DEF Mined
<1>3. \A n \in 1 .. Height : \A tx \in chain[n].txs : tx \in Mined /\ tx \in Events
  BY Heights, Names DEF Mined
<1> QED BY <1>1, <1>2, <1>3

LEMMA LogsAre ==
    ASSUME ChainOK, NEW from \in Nat \ {0}, NEW to \in Int, to <= Height, NEW s
    PROVE  Logs(s, from, to) =
              {tx \in Mined : StreamOf[tx] = s /\ from <= BlockOf(tx) /\ BlockOf(tx) <= to}
<1>1. ASSUME NEW tx \in Logs(s, from, to)
      PROVE  tx \in Mined /\ StreamOf[tx] = s /\ from <= BlockOf(tx) /\ BlockOf(tx) <= to
  <2>1. PICK n \in from .. to : tx \in chain[n].txs
    BY DEF Logs
  <2>2. n \in 1 .. Height
    BY Heights
  <2> QED BY <2>1, <2>2, BlockIs DEF Logs
<1>2. ASSUME NEW tx \in Mined, StreamOf[tx] = s, from <= BlockOf(tx), BlockOf(tx) <= to
      PROVE  tx \in Logs(s, from, to)
  <2>1. BlockOf(tx) \in from .. to /\ tx \in chain[BlockOf(tx)].txs /\ tx \in Txs
    BY <1>2, BlockIs, Heights, Names
  <2> QED BY <1>2, <2>1 DEF Logs
<1> QED BY <1>1, <1>2

LEMMA OwnersAre ==
    ASSUME ChainOK, NEW n \in Int, n <= Height
    PROVE  /\ OwnerAt(n) \in {"buyer", "seller"}
           /\ OwnerAt(n) = "buyer" <=> {tx \in Transfers \cap Mined : BlockOf(tx) <= n} = {"give"}
<1>1. Logs("transfers", 1, n) = {tx \in Transfers \cap Mined : BlockOf(tx) <= n}
  <2>1. \A tx \in Mined : 1 <= BlockOf(tx) /\ (StreamOf[tx] = "transfers" <=> tx \in Transfers)
    BY BlockIs, Names
  <2> QED BY <2>1, LogsAre
<1> QED BY <1>1 DEF OwnerAt

(* A run's stream is one of the job's.                                     *)
LEMMA StreamIs ==
    ASSUME IndexerAssumption, RunOK PROVE stream \in Streams /\ stream \in Requested
<1>1. run.todo \in Seq(Streams) /\ run.todo # <<>>
  BY DEF RunOK
<1>2. 1 \in DOMAIN run.todo /\ Head(run.todo) = run.todo[1] /\ run.todo[1] \in Streams
  BY <1>1
<1> QED BY <1>2 DEF stream, RunOK

LEMMA IdleOK ==
    ASSUME IndexerAssumption, requested \in Jobs
    PROVE  /\ Idle \in [todo : Seq(Streams) \ {<<>>}, at : {"read", "rewind", "insert"},
                        next : Nat, head : Nat]
           /\ Idle.at = "read" /\ \A i \in DOMAIN Idle.todo : Idle.todo[i] \in Requested
<1>1. requested \in Seq(Streams) \ {<<>>}
  BY Numbers
<1> QED BY <1>1 DEF Idle, NextStream, Requested

(* Init establishes the invariant.                                         *)
LEMMA InitIInv == ASSUME IndexerAssumption, Init PROVE IInv
<1> USE DEF Init
<1>1. ChainOK
  BY Numbers DEF ChainOK, Height
<1>2. DatabaseOK
  <2>1. NoBlock \in Blocks /\ NoBlock.number = 0
    BY DEF Blocks, NoBlock
  <2>2. /\ checkpoints = [s \in Streams |-> NoBlock] /\ rows = [tx \in Events |-> NoBlock]
        /\ purchases = 0 /\ opportunities = [block |-> 0, canonical |-> FALSE]
        /\ owner = [to |-> None, block |-> 0] /\ account = 0 /\ cleared = FALSE
    BY Names
  <2>3. checkpoints \in [Streams -> Blocks] /\ rows \in [Events -> Blocks]
    BY <2>1, <2>2
  <2>4. /\ owner \in [to : {None, "buyer", "seller"}, block : Nat]
        /\ opportunities \in [block : Nat, canonical : BOOLEAN]
        /\ owner.block = 0 /\ owner.to = None /\ opportunities.block = 0
    BY <2>2
  <2>5. /\ \A s \in Streams : checkpoints[s].number = 0 /\ checkpoints[s] = NoBlock
        /\ \A tx \in Events : rows[tx].number = 0 /\ rows[tx] = NoBlock
    BY <2>1, <2>2
  <2>6. {purchases, account, owner.block, opportunities.block} \subseteq 0 .. MaxHeight
    BY <2>2, <2>4, Numbers
  <2>7. purchases \in Nat /\ account \in Nat /\ 0 <= MaxHeight
    BY <2>2, Numbers
  <2>8. cleared \in BOOLEAN
    BY <2>2, Zenon
  <2> QED BY <2>3, <2>4, <2>5, <2>6, <2>7, <2>8 DEF DatabaseOK
<1>3. RunOK
  BY IdleOK DEF RunOK
<1>4. OldForks
  BY Names DEF OldForks, NoBlock, Height
<1>5. Consistent
  BY DEF Consistent, Replaced
<1>6. Mined = {}
  BY DEF Mined, Height
<1>7. \A tx \in Events : rows[tx] = NoBlock
  BY Names
<1>8. NextIsDoomed /\ RowsTrueOrDoomed /\ NothingMissing
  BY <1>5, <1>6, <1>7 DEF NextIsDoomed, RowsTrueOrDoomed, NothingMissing
<1>9. DerivedFollow
  BY <1>7 DEF DerivedFollow, Follows, Events, NoBlock
<1>10. OwnerHasRow /\ TransfersCounted /\ OwnerTrue
  BY <1>6 DEF OwnerHasRow, TransfersCounted, OwnerTrue
<1> QED BY <1>1, <1>2, <1>3, <1>4, <1>8, <1>9, <1>10 DEF IInv

-----------------------------------------------------------------------------
(* When nothing but the run moves: the invariant speaks of what has been   *)
(* read, which does not grow, and of what is doomed, which does not        *)
(* shrink.                                                                 *)
LEMMA RunMoves ==
    ASSUME IndexerAssumption, IInv, UNCHANGED <<chain, fork, database>>, RunOK',
           \A k \in Int : Doomed(k) => Doomed(k)',
           \A s \in Streams : ReadTo(s) \in Int /\ ReadTo(s)' \in Int /\ ReadTo(s)' <= ReadTo(s)
    PROVE  IInv'
<1> USE DEF database
<1>1. ChainOK' /\ DatabaseOK' /\ OldForks'
  BY DEF IInv, ChainOK, DatabaseOK, OldForks, Height
<1>2. Height' = Height /\ Mined' = Mined /\ (Consistent' <=> Consistent)
      /\ \A tx : BlockOf(tx)' = BlockOf(tx) /\ (True(tx)' <=> True(tx))
  BY DEF Height, Mined, Consistent, BlockOf, True, Replaced, Canonical, Block
<1>3. /\ Height \in Nat
      /\ \A tx \in Mined : BlockOf(tx) \in Int /\ StreamOf[tx] \in Streams /\ tx \in Events
      /\ \A tx \in Events : rows[tx].number \in Int
      /\ account \in Int /\ purchases \in Int /\ owner.block \in Int /\ opportunities.block \in Int
  BY Heights, BlockIs, Names DEF IInv, DatabaseOK, Blocks
<1>4. NextIsDoomed'
  BY <1>2, <1>3 DEF IInv, NextIsDoomed
<1>5. RowsTrueOrDoomed'
  BY <1>2, <1>3 DEF IInv, RowsTrueOrDoomed
<1>6. NothingMissing'
  BY <1>2, <1>3 DEF IInv, NothingMissing
<1>7. DerivedFollow'
  <2>1. \A k \in Int : \A tx \in Events : Follows(k, tx) => Follows(k, tx)'
    BY <1>3 DEF Follows
  <2> QED BY <1>3, <2>1 DEF IInv, DerivedFollow, Events
<1>8. OwnerHasRow'
  BY <1>2, <1>3 DEF IInv, OwnerHasRow
<1>9. TransfersCounted'
  BY <1>2, <1>3 DEF IInv, TransfersCounted, Streams
<1>10. OwnerTrue'
  <2>1. \A n : OwnerAt(n)' = OwnerAt(n)
    BY DEF OwnerAt, Logs
  <2> QED BY <1>2, <1>3, <2>1 DEF IInv, OwnerTrue, Streams
<1> QED BY <1>1, <1>4, <1>5, <1>6, <1>7, <1>8, <1>9, <1>10 DEF IInv

(* A run that is over leaves a run that has read nothing yet.              *)
LEMMA DoneOK ==
    ASSUME IndexerAssumption, RunOK, requested' = requested, faults' \in Nat, Done \/ run' = Idle
    PROVE  RunOK' /\ run'.at = "read"
<1> DEFINE T == [todo : Seq(Streams) \ {<<>>}, at : {"read", "rewind", "insert"},
                 next : Nat, head : Nat]
<1>1. requested \in Jobs /\ run.todo \in Seq(Streams) /\ run.todo # <<>>
  BY DEF RunOK
<1>2. CASE run' = Idle
  <2>1. run' \in T /\ run'.at = "read" /\ \A i \in DOMAIN run'.todo : run'.todo[i] \in Requested
    BY <1>1, <1>2, IdleOK
  <2>2. \A i \in DOMAIN run'.todo : run'.todo[i] \in Requested'
    BY <2>1 DEF Requested
  <2> QED BY <1>1, <2>1, <2>2 DEF RunOK
<1>3. CASE Len(run.todo) > 1 /\ run' = NextStream(Tail(run.todo))
  <2>1. PICK t : t = Tail(run.todo)
    OBVIOUS
  <2>2. t \in Seq(Streams) /\ t # <<>> /\ DOMAIN t = 1 .. (Len(run.todo) - 1)
    <3>1. t \in Seq(Streams) /\ Len(t) = Len(run.todo) - 1
      BY <1>1, <2>1
    <3>2. DOMAIN t = 1 .. Len(t)
      BY <3>1
    <3>3. t # <<>>
      BY <1>3, <3>1
    <3> QED BY <3>1, <3>2, <3>3
  <2>3. \A i \in DOMAIN t : t[i] = run.todo[i + 1] /\ i + 1 \in DOMAIN run.todo
    BY <1>1, <1>3, <2>1
  <2>4. \A i \in DOMAIN t : t[i] \in Requested'
    BY <2>3 DEF RunOK, Requested
  <2>5. run' = [todo |-> t, at |-> "read", next |-> 0, head |-> 0]
    BY <1>3, <2>1 DEF NextStream
  <2>6. run' \in T /\ run'.at = "read" /\ run'.todo = t
    BY <2>2, <2>5
  <2> QED BY <1>1, <2>4, <2>6 DEF RunOK
<1> QED BY <1>2, <1>3 DEF Done

LEMMA CheckpointsTyped ==
    ASSUME DatabaseOK
    PROVE  \A s \in Streams : checkpoints[s].number \in Nat /\ checkpoints[s] \in Blocks
BY DEF DatabaseOK, Blocks

LEMMA ReadToTyped ==
    ASSUME IndexerAssumption, DatabaseOK, RunOK
    PROVE  /\ \A s \in Streams : ReadTo(s) \in Int /\ checkpoints[s].number <= ReadTo(s)
           /\ run.at = "insert" => ReadTo(stream) = run.next - 1
           /\ \A s \in Streams : run.at # "insert" \/ s # stream =>
                 ReadTo(s) = checkpoints[s].number
<1>1. run.next \in Nat
  BY DEF RunOK
<1> QED BY <1>1, CheckpointsTyped DEF ReadTo, RunOK

(* A job that ends or fails forgets no more than its place.                *)
LEMMA EndStep ==
    ASSUME IndexerAssumption, IInv, requested' = requested, faults' \in Nat,
           UNCHANGED <<chain, fork, database>>, Done \/ run' = Idle
    PROVE  IInv'
<1>0. RunOK /\ DatabaseOK
  BY DEF IInv
<1>1. RunOK' /\ run'.at = "read"
  BY <1>0, DoneOK
<1>2. \A k \in Int : Doomed(k) => Doomed(k)'
  BY <1>1 DEF Doomed, Consistent, Replaced, Canonical, Block, Height, database
<1>3. \A s \in Streams : ReadTo(s) \in Int /\ ReadTo(s)' \in Int /\ ReadTo(s)' <= ReadTo(s)
  <2>1. \A s \in Streams : ReadTo(s)' = checkpoints[s].number
    BY <1>1 DEF ReadTo, database
  <2> QED BY <1>0, <2>1, ReadToTyped, CheckpointsTyped
<1> QED BY <1>1, <1>2, <1>3, RunMoves

LEMMA SafeHeadBelow ==
    ASSUME IndexerAssumption, ChainOK PROVE SafeHead \in Nat /\ SafeHead <= Height
BY Numbers, Heights DEF SafeHead, Most

(* The rewind begins at a block that all of what is doomed lies at or      *)
(* above, the insertion at the block after the checkpoint.                 *)
LEMMA ReadStep == ASSUME IndexerAssumption, IInv, Read PROVE IInv'
<1> DEFINE cp == checkpoints[stream]
           next == FirstOf(cp)
           head == Least(next + BlocksPerRun - 1, SafeHead)
           at == IF Replaced(cp) THEN "rewind" ELSE "insert"
<1>0. /\ ChainOK /\ DatabaseOK /\ RunOK /\ run.at = "read" /\ stream \in Streams
      /\ UNCHANGED <<chain, fork, database, requested, faults>> /\ faults' \in Nat
  BY StreamIs DEF IInv, Read, RunOK
<1>1. CASE ~ (Replaced(cp) \/ next <= SafeHead)
  <2>1. Done
    BY <1>1 DEF Read
  <2> QED BY <1>0, <2>1, EndStep
<1>2. CASE Replaced(cp) \/ next <= SafeHead
  <2>1. run' = [run EXCEPT !.at = at, !.next = next, !.head = head]
    BY <1>2 DEF Read
  <2>2. cp.number \in Nat /\ Window \in Nat /\ BlocksPerRun \in Nat \ {0}
    BY <1>0, CheckpointsTyped, Numbers
  <2>3. /\ next \in Nat /\ next >= 1
        /\ Replaced(cp) => next >= cp.number - Window
                           /\ \A k \in Int : k >= 1 /\ k >= cp.number - Window => k >= next
        /\ ~ Replaced(cp) => next = cp.number + 1
    BY <2>2 DEF FirstOf, Most, StartBlock
  <2>4. /\ head \in Nat /\ head <= SafeHead /\ head <= Height
        /\ ~ Replaced(cp) => next <= head
    <3>1. SafeHead \in Nat /\ SafeHead <= Height /\ Height \in Nat
      BY <1>0, SafeHeadBelow, Heights
    <3> HIDE DEF next
    <3> QED BY <1>2, <2>2, <2>3, <3>1 DEF Least
  <2> HIDE DEF next, head
  <2>5. at \in {"read", "rewind", "insert"} /\ at # "read"
    OBVIOUS
  <2>6. /\ run' \in [todo : Seq(Streams) \ {<<>>}, at : {"read", "rewind", "insert"},
                     next : Nat, head : Nat]
        /\ run'.todo = run.todo /\ run'.at = at /\ run'.next = next /\ run'.head = head
    <3> HIDE DEF at
    <3> QED BY <1>0, <2>1, <2>3, <2>4, <2>5 DEF RunOK
  <2>7. stream' = stream /\ checkpoints' = checkpoints /\ cp' = cp
    BY <1>0, <2>6 DEF stream, database
  <2>8. Height' = Height /\ (Replaced(cp)' <=> Replaced(cp)) /\ (Consistent' <=> Consistent)
    BY <1>0, <2>7 DEF Height, Replaced, Canonical, Block, Consistent, database
  <2>9. RunOK'
    <3>1. FirstOf(cp)' = next
      BY <2>7, <2>8 DEF FirstOf, next
    <3>2. /\ requested' = requested /\ requested \in Jobs /\ faults' \in Nat
          /\ \A i \in DOMAIN run.todo : run.todo[i] \in Requested
      BY <1>0 DEF RunOK
    <3>3. \A i \in DOMAIN run'.todo : run'.todo[i] \in Requested'
      BY <2>6, <3>2 DEF Requested
    <3> QED BY <2>2, <2>3, <2>4, <2>6, <2>7, <2>8, <3>1, <3>2, <3>3 DEF RunOK, StartBlock
  <2>10. \A k \in Int : Doomed(k) => Doomed(k)'
    <3>1. \A s \in Streams : Replaced(checkpoints[s])' <=> Replaced(checkpoints[s])
      BY <1>0, <2>7, <2>8 DEF Replaced, Canonical, Block, Height, database
    <3> QED BY <1>0, <2>3, <2>6, <2>7, <2>8, <3>1 DEF Doomed
  <2>11. \A s \in Streams : ReadTo(s) \in Int /\ ReadTo(s)' \in Int /\ ReadTo(s)' <= ReadTo(s)
    <3>1. \A s \in Streams : ReadTo(s) = checkpoints[s].number /\ checkpoints[s].number \in Nat
      BY <1>0, ReadToTyped, CheckpointsTyped
    <3>2. \A s \in Streams : ReadTo(s)' = checkpoints[s].number
      BY <2>2, <2>3, <2>6, <2>7 DEF ReadTo
    <3> QED BY <3>1, <3>2
  <2> QED BY <1>0, <2>9, <2>10, <2>11, RunMoves
<1> QED BY <1>1, <1>2

-----------------------------------------------------------------------------
(* A rewind leaves what lies below its block, and that is true: what is    *)
(* doomed is at its block or above.                                        *)
LEMMA RewindStep == ASSUME IndexerAssumption, IInv, Rewind PROVE IInv'
<1>0. /\ ChainOK /\ DatabaseOK /\ RunOK /\ run.at = "rewind" /\ stream \in Streams
      /\ UNCHANGED <<chain, fork, requested, faults>> /\ faults' \in Nat
  BY StreamIs DEF IInv, Rewind, RunOK
<1>1. PICK n : n = run.next
  OBVIOUS
<1> DEFINE Cut(k) == IF k >= n THEN 0 ELSE k
<1>2. /\ checkpoints' = [s \in Streams |-> NoBlock]
      /\ rows' = [tx \in Events |-> IF rows[tx].number >= n THEN NoBlock ELSE rows[tx]]
      /\ purchases' = Cut(purchases) /\ account' = Cut(account)
      /\ owner' = IF owner.block >= n THEN [to |-> None, block |-> 0] ELSE owner
      /\ cleared' = (cleared \/ owner.block >= n)
      /\ opportunities' = IF opportunities.block >= n
                          THEN [opportunities EXCEPT !.canonical = FALSE] ELSE opportunities
      /\ Continue(n)
  BY <1>1, Names DEF Rewind, ForgetCheckpoints
<1>3. /\ n \in Nat /\ n >= 1 /\ \A k \in Int : Doomed(k) => k >= n
      /\ n <= checkpoints[stream].number
  <2>1. /\ n \in Nat /\ n >= 1 /\ n = FirstOf(checkpoints[stream])
        /\ Replaced(checkpoints[stream])
    BY <1>0, <1>1 DEF RunOK, StartBlock
  <2>2. checkpoints[stream].number \in Nat /\ checkpoints[stream].number # 0
    BY <1>0, <2>1, CheckpointsTyped DEF DatabaseOK, Replaced
  <2>3. n <= checkpoints[stream].number
    BY <2>1, <2>2, Numbers DEF FirstOf, Most, StartBlock
  <2> QED BY <1>0, <1>1, <2>1, <2>3 DEF Doomed
<1>4. /\ Consistent' /\ \A k \in Int : ~ Doomed(k)'
  BY <1>2 DEF Consistent, Doomed, Replaced
<1>5. /\ Height' = Height /\ Mined' = Mined /\ \A tx : BlockOf(tx)' = BlockOf(tx)
      /\ \A m : OwnerAt(m)' = OwnerAt(m) /\ Block(m)' = Block(m)
  BY <1>0 DEF Height, Mined, BlockOf, OwnerAt, Logs, Block
<1>6. \/ run' = [run EXCEPT !.next = n, !.at = "insert"] /\ n <= run.head
      \/ Done
  BY <1>2 DEF Continue
<1>7. RunOK' /\ \/ run'.at = "insert" /\ stream' = stream /\ run'.next = n
                \/ run'.at = "read"
  <2>1. CASE Done
    BY <1>0, <2>1, DoneOK
  <2>2. CASE run' = [run EXCEPT !.next = n, !.at = "insert"] /\ n <= run.head
    <3>1. /\ run' \in [todo : Seq(Streams) \ {<<>>}, at : {"read", "rewind", "insert"},
                       next : Nat, head : Nat]
          /\ run'.todo = run.todo /\ run'.at = "insert" /\ run'.next = n /\ run'.head = run.head
      BY <1>0, <1>3, <2>2 DEF RunOK
    <3>2. stream' = stream /\ checkpoints'[stream] = NoBlock
      BY <1>0, <1>2, <3>1 DEF stream
    <3>3. ~ Replaced(checkpoints[stream])' /\ checkpoints'[stream].number = 0
      BY <3>2 DEF Replaced, NoBlock
    <3>4. /\ requested' \in Jobs /\ run.head <= Height
          /\ \A i \in DOMAIN run'.todo : run'.todo[i] \in Requested'
      BY <1>0, <3>1 DEF RunOK, Requested
    <3> QED BY <1>0, <1>3, <1>5, <2>2, <3>1, <3>2, <3>3, <3>4 DEF RunOK, StartBlock
  <2> QED BY <1>6, <2>1, <2>2
<1>8. /\ \A tx \in Events : rows[tx].number \in Nat
      /\ \A tx \in Mined : tx \in Events /\ BlockOf(tx) \in Nat /\ BlockOf(tx) >= 1
      /\ owner.block \in Nat /\ opportunities.block \in Nat /\ purchases \in Nat /\ account \in Nat
      /\ Height \in Nat
  BY <1>0, BlockIs, Heights DEF DatabaseOK, Blocks
<1>9. ASSUME NEW tx \in Events
      PROVE  /\ rows'[tx] = IF rows[tx].number >= n THEN NoBlock ELSE rows[tx]
             /\ rows'[tx].number = Cut(rows[tx].number)
             /\ rows'[tx] # NoBlock => rows'[tx] = rows[tx] /\ True(tx)
             /\ \A k \in Int : Follows(k, tx) => Cut(k) = rows'[tx].number
  <2>1. rows'[tx] = IF rows[tx].number >= n THEN NoBlock ELSE rows[tx]
    BY <1>2
  <2>2. rows'[tx].number = Cut(rows[tx].number)
    BY <2>1 DEF NoBlock
  <2>3. rows'[tx] # NoBlock => rows'[tx] = rows[tx] /\ True(tx)
    BY <1>3, <1>8, <2>1 DEF IInv, RowsTrueOrDoomed
  <2>4. \A k \in Int : Follows(k, tx) => Cut(k) = rows'[tx].number
    BY <1>3, <1>8, <2>2 DEF Follows
  <2> QED BY <2>1, <2>2, <2>3, <2>4
<1>10. \A s \in Streams : /\ ReadTo(s)' \in Int /\ ReadTo(s)' <= ReadTo(s) /\ ReadTo(s) \in Int
                          /\ ReadTo(s)' < n
  <2>1. \A s \in Streams : /\ ReadTo(s) = checkpoints[s].number /\ ReadTo(s) \in Nat
                           /\ checkpoints'[s].number = 0
    BY <1>0, <1>2, ReadToTyped, CheckpointsTyped DEF NoBlock
  <2> QED BY <1>3, <1>7, <2>1 DEF ReadTo
<1>11. ChainOK' /\ DatabaseOK' /\ OldForks'
  <2>1. ChainOK'
    BY <1>0, <1>5 DEF ChainOK
  <2>2. NoBlock \in Blocks /\ NoBlock.number = 0 /\ NoBlock.fork = 0
    BY DEF Blocks, NoBlock
  <2>3. /\ checkpoints' \in [Streams -> Blocks]
        /\ \A s \in Streams : checkpoints'[s] = NoBlock
    BY <1>2, <2>2
  <2>4. rows' \in [Events -> Blocks] /\ \A tx \in Events : rows'[tx] \in {NoBlock, rows[tx]}
    BY <1>0, <1>2, <2>2 DEF DatabaseOK
  <2>5. /\ owner' \in [to : {None, "buyer", "seller"}, block : Nat]
        /\ owner'.to = None <=> owner'.block = 0
        /\ owner'.block \in {0, owner.block}
    BY <1>0, <1>2 DEF DatabaseOK
  <2>6. /\ opportunities' \in [block : Nat, canonical : BOOLEAN]
        /\ opportunities'.block = opportunities.block
    BY <1>0, <1>2 DEF DatabaseOK
  <2>7. /\ purchases' \in {0, purchases} /\ account' \in {0, account}
        /\ MaxHeight \in Nat
    BY <1>2, Numbers
  <2>8. cleared' \in BOOLEAN
    BY <1>2
  <2>9. DatabaseOK'
    BY <1>0, <2>2, <2>3, <2>4, <2>5, <2>6, <2>7, <2>8 DEF DatabaseOK
  <2>10. OldForks'
    BY <1>0, <1>5, <1>8, <2>2, <2>3, <2>4 DEF IInv, OldForks, ChainOK
  <2> QED BY <2>1, <2>9, <2>10
<1>12. NextIsDoomed' /\ RowsTrueOrDoomed'
  BY <1>4, <1>5, <1>9 DEF NextIsDoomed, RowsTrueOrDoomed, True
<1>13. NothingMissing'
  <2>1. ASSUME NEW tx \in Mined, BlockOf(tx) <= ReadTo(StreamOf[tx])' PROVE rows'[tx] # NoBlock
    <3>1. /\ tx \in Events /\ StreamOf[tx] \in Streams /\ BlockOf(tx) \in Nat
          /\ BlockOf(tx) < n /\ BlockOf(tx) <= ReadTo(StreamOf[tx])
      BY <1>3, <1>8, <1>10, <2>1, Names
    <3>2. rows[tx] # NoBlock /\ ~ Doomed(BlockOf(tx))
      BY <1>3, <3>1 DEF IInv, NothingMissing
    <3>3. rows[tx] = Block(BlockOf(tx))
      BY <3>1, <3>2 DEF IInv, RowsTrueOrDoomed, True
    <3>4. rows[tx].number = BlockOf(tx)
      BY <3>3 DEF Block
    <3> QED BY <1>3, <1>8, <1>9, <3>1, <3>2, <3>4
  <2> QED BY <1>5, <2>1 DEF NothingMissing
<1>14. DerivedFollow'
  <2>1. /\ "activate" \in Events /\ "buy" \in Events /\ "sell" \in Events
    BY DEF Events
  <2>2. Follows(account, "activate")'
    BY <1>2, <1>8, <1>9, <2>1 DEF IInv, DerivedFollow, Follows
  <2>3. \A tx \in Events : /\ rows[tx].number = 0 <=> rows[tx] = NoBlock
                           /\ rows'[tx].number = 0 <=> rows'[tx] = NoBlock
    BY <1>0, <1>11 DEF DatabaseOK, NoBlock
  <2>4. /\ opportunities'.canonical <=> rows'["sell"] # NoBlock
        /\ opportunities'.canonical => Follows(opportunities.block, "sell")'
    <3>1. /\ opportunities.canonical <=> rows["sell"] # NoBlock
          /\ opportunities.canonical => Cut(opportunities.block) = rows'["sell"].number
      BY <1>8, <1>9, <2>1 DEF IInv, DerivedFollow
    <3>2. opportunities \in [block : Nat, canonical : BOOLEAN]
      BY <1>0 DEF DatabaseOK
    <3>3. CASE opportunities.block >= n
      <4>1. opportunities'.canonical = FALSE
        BY <1>2, <3>2, <3>3
      <4>2. rows'["sell"] = NoBlock
        BY <1>9, <2>1, <2>3, <3>1, <3>3
      <4> QED BY <4>1, <4>2
    <3>4. CASE ~ (opportunities.block >= n)
      <4>1. opportunities' = opportunities
        BY <1>2, <3>4
      <4>2. opportunities.canonical => opportunities.block = rows'["sell"].number
        BY <3>1, <3>4
      <4>3. rows["sell"] # NoBlock /\ opportunities.canonical => rows'["sell"] # NoBlock
        <5>1. opportunities.canonical => rows["sell"].number = opportunities.block
          BY <1>3, <1>8, <3>4 DEF IInv, DerivedFollow, Follows
        <5> QED BY <1>9, <2>1, <3>4, <5>1
      <4>4. rows["sell"] = NoBlock => rows'["sell"] = NoBlock
        BY <1>9, <2>1
      <4> QED BY <3>1, <4>1, <4>2, <4>3, <4>4 DEF Follows
    <3> QED BY <3>3, <3>4
  <2>5. /\ purchases' # 0 => rows'["buy"] # NoBlock /\ Follows(purchases, "buy")'
        /\ account' # 0 /\ rows'["buy"] # NoBlock => purchases' # 0
    <3>1. /\ purchases # 0 => rows["buy"] # NoBlock /\ Follows(purchases, "buy")
          /\ account # 0 /\ rows["buy"] # NoBlock => purchases # 0
      BY DEF IInv, DerivedFollow
    <3>2. purchases # 0 => Cut(purchases) = rows'["buy"].number
      BY <1>8, <1>9, <2>1, <3>1
    <3>3. rows'["buy"] # NoBlock => rows'["buy"] = rows["buy"]
      BY <1>9, <2>1
    <3>4. purchases' # 0 => rows'["buy"].number = purchases'
      BY <1>2, <3>2
    <3>5. purchases' # 0 => rows'["buy"] # NoBlock
      BY <2>1, <2>3, <3>4
    <3>6. account' # 0 => account # 0
      BY <1>2
    <3>7. account' # 0 /\ rows'["buy"] # NoBlock => purchases' # 0
      BY <1>2, <2>1, <2>3, <3>1, <3>2, <3>3, <3>6
    <3> QED BY <3>4, <3>5, <3>7 DEF Follows
  <2> QED BY <2>2, <2>4, <2>5 DEF DerivedFollow
<1>15. /\ owner'.block # 0 => owner.block < n /\ owner' = owner /\ ~ Doomed(owner.block)
       /\ ~ cleared' => ~ cleared /\ owner.block < n /\ owner' = owner
  <2>1. CASE owner.block >= n
    <3>1. owner'.block = 0 /\ cleared'
      BY <1>2, <2>1
    <3> QED BY <3>1
  <2>2. CASE ~ (owner.block >= n)
    <3>1. owner' = owner /\ owner.block < n /\ ~ Doomed(owner.block)
      BY <1>2, <1>3, <1>8, <2>2
    <3>2. ~ cleared' => ~ cleared
      BY <1>2
    <3> QED BY <3>1, <3>2
  <2> QED BY <2>1, <2>2
<1>16. OwnerHasRow'
  <2>1. ASSUME owner'.block # 0 PROVE \E tx \in Events : rows'[tx].number = owner'.block
    <3>1. PICK tx \in Events : rows[tx].number = owner.block
      BY <1>15, <2>1 DEF IInv, OwnerHasRow
    <3>2. owner' = owner /\ owner.block < n
      BY <1>15, <2>1
    <3>3. rows'[tx].number = owner.block
      BY <1>3, <1>8, <1>9, <3>1, <3>2
    <3> QED BY <3>2, <3>3
  <2> QED BY <2>1 DEF OwnerHasRow
<1>17. "transfers" \in Streams
  BY DEF Streams
<1>18. TransfersCounted'
  <2>1. ASSUME ~ cleared', NEW tx \in Transfers \cap Mined, BlockOf(tx) <= ReadTo("transfers")'
        PROVE  BlockOf(tx) <= owner'.block
    <3>1. /\ BlockOf(tx) \in Nat /\ BlockOf(tx) < n /\ BlockOf(tx) <= ReadTo("transfers")
      BY <1>3, <1>8, <1>10, <1>17, <2>1
    <3>2. ~ Doomed(BlockOf(tx))
      BY <1>3, <3>1
    <3> QED BY <1>15, <2>1, <3>1, <3>2 DEF IInv, TransfersCounted
  <2> QED BY <1>5, <2>1 DEF TransfersCounted
<1>19. OwnerTrue'
  <2>1. ASSUME ~ cleared', owner'.block # 0
        PROVE  \/ owner'.to = OwnerAt(owner'.block)
               \/ /\ owner'.to = OwnerAt(owner'.block - 1)
                  /\ owner'.block <= ReadTo("transfers")' =>
                        chain[owner'.block].txs \cap Transfers = {}
    <3>1. ~ cleared /\ owner' = owner /\ owner.block # 0 /\ ~ Doomed(owner.block)
      BY <1>15, <2>1
    <3>2. owner.block <= ReadTo("transfers")' => owner.block <= ReadTo("transfers")
      BY <1>8, <1>10, <1>17
    <3> QED BY <3>1, <3>2 DEF IInv, OwnerTrue
  <2> QED BY <1>0, <1>5, <2>1 DEF OwnerTrue
<1> QED BY <1>7, <1>11, <1>12, <1>13, <1>14, <1>16, <1>18, <1>19 DEF IInv

-----------------------------------------------------------------------------
(* Another chain with the same first blocks has the same there.            *)
LEMMA SamePrefix ==
    ASSUME ChainOK, ChainOK', NEW m \in Nat, m <= Height, m <= Height',
           \A i \in 1 .. m : chain'[i] = chain[i]
    PROVE  /\ \A tx : tx \in Mined /\ BlockOf(tx) <= m => tx \in Mined' /\ BlockOf(tx)' = BlockOf(tx)
           /\ \A tx : tx \in Mined' /\ BlockOf(tx)' <= m => tx \in Mined /\ BlockOf(tx)' = BlockOf(tx)
           /\ \A tx \in Mined' : BlockOf(tx)' \in 1 .. Height' /\ tx \in chain'[BlockOf(tx)'].txs
           /\ \A k \in Int : k <= m => OwnerAt(k)' = OwnerAt(k)
           /\ \A k \in 1 .. m : Block(k)' = Block(k)
<1>0. Height \in Nat /\ Height' \in Nat
  BY DEF ChainOK, Height
<1>1. ASSUME NEW tx, NEW n \in 1 .. Height', tx \in chain'[n].txs
      PROVE  BlockOf(tx)' \in 1 .. Height' /\ tx \in chain'[BlockOf(tx)'].txs /\ BlockOf(tx)' = n
  <2>1. BlockOf(tx)' \in 1 .. Height' /\ tx \in chain'[BlockOf(tx)'].txs
    BY <1>1 DEF BlockOf
  <2> QED BY <1>1, <2>1 DEF ChainOK
<1>2. \A tx \in Mined' : tx \in Events /\ \E n \in 1 .. Height' : tx \in chain'[n].txs
  BY Names DEF Mined
<1>3. \A tx \in Mined' : BlockOf(tx)' \in 1 .. Height' /\ tx \in chain'[BlockOf(tx)'].txs
  BY <1>1, <1>2
<1>4. ASSUME NEW tx, tx \in Mined, BlockOf(tx) <= m
      PROVE  tx \in Mined' /\ BlockOf(tx)' = BlockOf(tx)
  <2>1. BlockOf(tx) \in 1 .. m /\ tx \in chain[BlockOf(tx)].txs /\ tx \in Events
    BY <1>0, <1>4, BlockIs
  <2>2. BlockOf(tx) \in 1 .. Height' /\ tx \in chain'[BlockOf(tx)].txs
    BY <1>0, <2>1
  <2>3. tx \in Mined'
    BY <2>1, <2>2, Names DEF Mined
  <2> QED BY <1>1, <2>2, <2>3
<1>5. ASSUME NEW tx, tx \in Mined', BlockOf(tx)' <= m
      PROVE  tx \in Mined /\ BlockOf(tx)' = BlockOf(tx)
  <2>1. BlockOf(tx)' \in 1 .. m /\ tx \in chain[BlockOf(tx)'].txs
    BY <1>0, <1>3, <1>5
  <2> QED BY <1>0, <2>1, BlockIs
<1>6. ASSUME NEW k \in Int, k <= m PROVE OwnerAt(k)' = OwnerAt(k)
  <2>1. \A n \in 1 .. k : chain'[n] = chain[n]
    BY <1>6
  <2>2. Logs("transfers", 1, k)' = Logs("transfers", 1, k)
    BY <2>1 DEF Logs
  <2> QED BY <2>2 DEF OwnerAt
<1>7. \A k \in 1 .. m : Block(k)' = Block(k)
  BY DEF Block
<1> QED BY <1>3, <1>4, <1>5, <1>6, <1>7

(* While no reorganisation waits to be seen nothing is doomed, every row   *)
(* is true and no stream has read past the chain.                          *)
LEMMA WhenConsistent ==
    ASSUME IndexerAssumption, IInv, Consistent
    PROVE  /\ \A k : ~ Doomed(k)
           /\ \A tx \in Events : rows[tx] # NoBlock => True(tx)
           /\ \A s \in Streams : ReadTo(s) \in Int /\ ReadTo(s) <= Height
           /\ run.at # "rewind"
<1>1. \A k : ~ Doomed(k)
  BY DEF Doomed
<1>2. /\ RunOK /\ DatabaseOK /\ ChainOK /\ Height \in Nat /\ stream \in Streams
  BY Heights, StreamIs DEF IInv
<1>3. \A s \in Streams : checkpoints[s].number \in Nat /\ checkpoints[s].number <= Height
  BY <1>2, CheckpointsTyped DEF Consistent, Replaced, Canonical, NoBlock
<1>4. run.at = "insert" => run.next - 1 \in Int /\ run.next - 1 <= Height
  BY <1>2 DEF RunOK
<1>5. \A s \in Streams : ReadTo(s) \in Int /\ ReadTo(s) <= Height
  BY <1>3, <1>4 DEF ReadTo
<1>6. run.at # "rewind"
  BY <1>2 DEF RunOK, Consistent
<1> QED BY <1>1, <1>5, <1>6 DEF IInv, RowsTrueOrDoomed

(* The block the owner is known from is one of the chain, unless doomed.   *)
LEMMA OwnerBlock ==
    ASSUME IInv, owner.block # 0, ~ Doomed(owner.block)
    PROVE  owner.block \in 1 .. Height /\ \E tx \in Events : True(tx) /\ rows[tx].number = owner.block
<1>1. PICK tx \in Events : rows[tx].number = owner.block
  BY DEF IInv, OwnerHasRow
<1>2. rows[tx] # NoBlock
  BY <1>1 DEF NoBlock
<1>3. True(tx)
  BY <1>1, <1>2 DEF IInv, RowsTrueOrDoomed
<1>4. BlockOf(tx) \in 1 .. Height /\ rows[tx].number = BlockOf(tx)
  BY <1>3, BlockIs DEF True, IInv, Block
<1> QED BY <1>1, <1>3, <1>4

(* A new block: what was replaced stays so, since the block is of the      *)
(* present fork, and what it brings has not been read.                     *)
LEMMA GrowStep == ASSUME IndexerAssumption, IInv, Grow PROVE IInv'
<1>0. /\ ChainOK /\ DatabaseOK /\ RunOK /\ OldForks /\ Height \in Nat /\ Height < MaxHeight
      /\ UNCHANGED <<fork, checkpoints, rows, purchases, opportunities, owner, account, cleared,
                     requested, run, faults>>
      /\ fork \in Nat /\ MaxHeight \in Nat
  BY Heights, Numbers DEF IInv, Grow, database, ChainOK
<1>1. PICK txs : /\ txs \subseteq Events \ Mined
                 /\ "back" \in txs => "give" \in Mined \cup txs
                 /\ chain' = Append(chain, [fork |-> fork, txs |-> txs])
  BY Names DEF Grow
<1>2. /\ Height' = Height + 1 /\ \A i \in 1 .. Height : chain'[i] = chain[i]
      /\ chain'[Height + 1] = [fork |-> fork, txs |-> txs]
  BY <1>0, <1>1 DEF ChainOK, Height
<1>3. ChainOK'
  <2>1. chain' \in Seq([fork : Nat, txs : SUBSET Events]) /\ Height' <= MaxHeight
    BY <1>0, <1>1, <1>2 DEF ChainOK
  <2>2. \A n \in 1 .. Height' : chain'[n].fork <= fork'
    BY <1>0, <1>2 DEF ChainOK
  <2>3. \A m, n \in 1 .. Height' : \A tx \in chain'[m].txs \cap chain'[n].txs : m = n
    <3>1. \A n \in 1 .. Height : chain[n].txs \cap txs = {}
      BY <1>0, <1>1, BlockIs
    <3> QED BY <1>0, <1>2, <3>1 DEF ChainOK
  <2>4. \A n \in 1 .. Height' : "back" \in chain'[n].txs =>
            \E m \in 1 .. n : "give" \in chain'[m].txs
    <3>1. ASSUME NEW n \in 1 .. Height, "back" \in chain'[n].txs
          PROVE  \E m \in 1 .. n : "give" \in chain'[m].txs
      <4>1. PICK m \in 1 .. n : "give" \in chain[m].txs
        BY <1>0, <1>2, <3>1 DEF ChainOK
      <4> QED BY <1>0, <1>2, <4>1
    <3>2. ASSUME "back" \in txs PROVE \E m \in 1 .. (Height + 1) : "give" \in chain'[m].txs
      <4>1. CASE "give" \in Mined
        BY <1>0, <1>2, <4>1, BlockIs
      <4>2. CASE "give" \in txs
        BY <1>0, <1>2, <4>2
      <4> QED BY <1>1, <3>2, <4>1, <4>2
    <3> QED BY <1>0, <1>2, <3>1, <3>2
  <2> QED BY <1>0, <2>1, <2>2, <2>3, <2>4 DEF ChainOK
<1>h. PICK h \in Nat : h = Height + 1
  BY <1>0
<1>4. /\ \A tx \in Mined : tx \in Mined' /\ BlockOf(tx)' = BlockOf(tx)
      /\ \A tx \in Mined' : \/ tx \in Mined /\ BlockOf(tx)' = BlockOf(tx)
                            \/ tx \notin Mined /\ BlockOf(tx)' = h
      /\ \A k \in Int : k <= Height => OwnerAt(k)' = OwnerAt(k)
      /\ \A k \in 1 .. Height : Block(k)' = Block(k)
      /\ Block(h)' = [number |-> h, fork |-> fork]
  <2>0. Height \in Nat /\ Height <= Height /\ Height <= Height' /\ Height' = Height + 1 /\ ChainOK
    BY <1>0, <1>2
  <2>1. \A i \in 1 .. Height : chain'[i] = chain[i]
    BY <1>2
  <2>2. \A tx \in Mined : BlockOf(tx) \in 1 .. Height
    BY <2>0, BlockIs
  <2>3. Block(h)' = [number |-> h, fork |-> fork]
    BY <1>2, <1>h DEF Block
  <2>4. PICK m \in Nat : m = Height
    BY <2>0
  <2>5. m <= Height /\ m <= Height' /\ \A i \in 1 .. m : chain'[i] = chain[i]
    BY <2>0, <2>1, <2>4
  <2>6. /\ \A tx : tx \in Mined /\ BlockOf(tx) <= m => tx \in Mined' /\ BlockOf(tx)' = BlockOf(tx)
        /\ \A tx : tx \in Mined' /\ BlockOf(tx)' <= m => tx \in Mined /\ BlockOf(tx)' = BlockOf(tx)
        /\ \A tx \in Mined' : BlockOf(tx)' \in 1 .. Height'
        /\ \A k \in Int : k <= m => OwnerAt(k)' = OwnerAt(k)
        /\ \A k \in 1 .. m : Block(k)' = Block(k)
    BY <1>3, <2>0, <2>5, SamePrefix
  <2>7. \A tx \in Mined : tx \in Mined' /\ BlockOf(tx)' = BlockOf(tx)
    BY <2>2, <2>4, <2>6
  <2>8. ASSUME NEW tx \in Mined'
        PROVE  \/ tx \in Mined /\ BlockOf(tx)' = BlockOf(tx)
               \/ tx \notin Mined /\ BlockOf(tx)' = h
    <3>1. BlockOf(tx)' \in 1 .. h
      BY <1>h, <2>0, <2>6
    <3> QED BY <1>h, <2>0, <2>4, <2>6, <2>7, <3>1
  <2> QED BY <2>3, <2>4, <2>6, <2>7, <2>8
<1>5. /\ \A s \in Streams : Replaced(checkpoints[s])' <=> Replaced(checkpoints[s])
      /\ \A tx \in Events : True(tx)' <=> True(tx)
  <2>1. ASSUME NEW b \in Blocks, b.number > Height => b.fork < fork
        PROVE  Canonical(b)' <=> Canonical(b)
    <3>0. Height \in Nat /\ Height' = h /\ h = Height + 1 /\ fork \in Nat
      BY <1>0, <1>2, <1>h
    <3>1. b.number \in Nat /\ b.fork \in Nat
      BY DEF Blocks
    <3>2. CASE b.number \in 1 .. Height
      <4>1. PICK k : k = b.number
        OBVIOUS
      <4>2. k \in 1 .. Height /\ Block(k)' = Block(k) /\ b.number \in 1 .. Height'
        BY <1>4, <3>0, <3>2, <4>1
      <4>3. Block(b.number)' = Block(k)' /\ Block(b.number) = Block(k)
        BY <4>1
      <4> QED BY <3>2, <4>2, <4>3 DEF Canonical
    <3>3. CASE b.number = h
      <4>1. b.fork < fork /\ b.number \notin 1 .. Height
        BY <2>1, <3>0, <3>3
      <4>2. b # [number |-> h, fork |-> fork]
        BY <3>0, <3>1, <4>1
      <4>3. Block(b.number)' = [number |-> h, fork |-> fork]
        BY <1>4, <3>3
      <4> QED BY <4>1, <4>2, <4>3 DEF Canonical
    <3>4. CASE b.number \notin 1 .. h
      BY <3>0, <3>4 DEF Canonical
    <3> QED BY <3>0, <3>1, <3>2, <3>3, <3>4
  <2>2. \A s \in Streams : Replaced(checkpoints[s])' <=> Replaced(checkpoints[s])
    BY <1>0, <2>1 DEF Replaced, OldForks, DatabaseOK
  <2>3. ASSUME NEW tx \in Events PROVE True(tx)' <=> True(tx)
    <3>1. CASE tx \in Mined
      BY <1>0, <1>4, <3>1, BlockIs DEF True
    <3>2. CASE tx \notin Mined
      <4>1. ASSUME tx \in Mined', rows[tx] = Block(h)' PROVE FALSE
        <5>1. rows[tx].number = Height + 1 /\ rows[tx].fork = fork
          BY <1>4, <1>h, <4>1
        <5>2. rows[tx].fork < fork
          BY <1>0, <5>1 DEF OldForks
        <5> QED BY <1>0, <5>1, <5>2
      <4>2. rows' = rows
        BY <1>0
      <4>3. ~ True(tx)
        BY <3>2 DEF True
      <4>4. ASSUME True(tx)' PROVE FALSE
        <5>1. tx \in Mined' /\ rows[tx] = Block(BlockOf(tx))'
          BY <4>2, <4>4 DEF True
        <5>2. BlockOf(tx)' = h
          BY <1>4, <3>2, <5>1
        <5>3. Block(BlockOf(tx))' = Block(h)'
          BY <5>2 DEF Block
        <5> QED BY <4>1, <5>1, <5>3
      <4> QED BY <4>3, <4>4
    <3> QED BY <3>1, <3>2
  <2> QED BY <2>2, <2>3
<1>6. /\ Consistent' <=> Consistent
      /\ \A k : Doomed(k)' <=> Doomed(k)
      /\ \A s : ReadTo(s)' = ReadTo(s)
  BY <1>0, <1>5 DEF Consistent, Doomed, ReadTo, stream
<1>7. DatabaseOK'
  BY <1>0 DEF DatabaseOK
<1>8. RunOK'
  <2>1. stream \in Streams /\ stream' = stream
    BY <1>0, StreamIs DEF stream
  <2>2. FirstOf(checkpoints[stream])' = FirstOf(checkpoints[stream])
    BY <1>0, <1>5, <2>1 DEF FirstOf
  <2>3. Requested' = Requested /\ (Replaced(checkpoints[stream])' <=> Replaced(checkpoints[stream]))
    BY <1>0, <1>5, <2>1 DEF Requested
  <2>4. run.head <= Height => run.head <= Height'
    BY <1>0, <1>2 DEF RunOK
  <2>5. /\ requested' = requested /\ faults' = faults /\ run' = run /\ checkpoints' = checkpoints
        /\ RunOK
    BY <1>0
  <2> QED BY <2>1, <2>2, <2>3, <2>4, <2>5 DEF RunOK
<1>9. OldForks'
  <2>1. /\ \A s \in Streams : checkpoints[s].number \in Nat
        /\ \A tx \in Events : rows[tx].number \in Nat
    BY <1>0, CheckpointsTyped DEF DatabaseOK, Blocks
  <2>2. Height \in Nat /\ Height' = Height + 1 /\ checkpoints' = checkpoints /\ rows' = rows
        /\ fork' = fork
    BY <1>0, <1>2
  <2>3. /\ \A s \in Streams : /\ checkpoints[s].fork <= fork
                              /\ checkpoints[s].number > Height' => checkpoints[s].fork < fork
        /\ \A tx \in Events : /\ rows[tx].fork <= fork
                              /\ rows[tx].number > Height' => rows[tx].fork < fork
    BY <1>0, <2>1, <2>2 DEF OldForks
  <2>4. ASSUME NEW s \in Streams
        PROVE  /\ (checkpoints[s].fork <= fork)'
               /\ (checkpoints[s].number > Height => checkpoints[s].fork < fork)'
    <3>1. checkpoints'[s] = checkpoints[s] /\ fork' = fork
      BY <2>2
    <3> QED BY <2>3, <3>1
  <2>5. ASSUME NEW tx \in Events
        PROVE  /\ (rows[tx].fork <= fork)'
               /\ (rows[tx].number > Height => rows[tx].fork < fork)'
    <3>1. rows'[tx] = rows[tx] /\ fork' = fork
      BY <2>2
    <3> QED BY <2>3, <3>1
  <2> QED BY <2>4, <2>5 DEF OldForks
<1>10. NextIsDoomed'
  <2>1. ASSUME ~ Consistent PROVE Doomed(h + 1)'
    <3>1. Doomed(h)
      BY <1>h, <2>1 DEF IInv, NextIsDoomed
    <3>2. run.at = "rewind" => run.next \in Nat
      BY <1>0 DEF RunOK
    <3>3. \A s \in Streams : checkpoints[s].number - Window \in Int
      BY <1>0, CheckpointsTyped, Numbers
    <3>4. Doomed(h + 1)
      BY <3>1, <3>2, <3>3 DEF Doomed
    <3> QED BY <1>6, <3>4
  <2>2. Height' + 1 = h + 1
    BY <1>2, <1>h
  <2> QED BY <1>6, <2>1, <2>2 DEF NextIsDoomed
<1>11. ASSUME ~ Doomed(h) PROVE Consistent /\ \A s \in Streams : ReadTo(s) < h
  <2>1. Consistent
    BY <1>h, <1>11 DEF IInv, NextIsDoomed
  <2> QED BY <1>0, <1>h, <2>1, WhenConsistent
<1>12. RowsTrueOrDoomed'
  <2>1. ASSUME NEW tx \in Events, rows[tx] # NoBlock, ~ True(tx)
        PROVE  Doomed(rows[tx].number) /\ (tx \in Mined' => Doomed(BlockOf(tx)'))
    <3>1. Doomed(rows[tx].number) /\ (tx \in Mined => Doomed(BlockOf(tx)))
      BY <2>1 DEF IInv, RowsTrueOrDoomed
    <3>2. Doomed(h)
      BY <1>h, <3>1 DEF IInv, NextIsDoomed, Doomed
    <3> QED BY <1>4, <3>1, <3>2
  <2> QED BY <1>0, <1>5, <1>6, <2>1 DEF RowsTrueOrDoomed
<1>13. NothingMissing'
  <2>1. ASSUME NEW tx \in Mined', BlockOf(tx)' <= ReadTo(StreamOf[tx]), ~ Doomed(BlockOf(tx)')
        PROVE  rows[tx] # NoBlock
    <3>1. tx \in Events /\ StreamOf[tx] \in Streams
      BY Names DEF Mined
    <3>2. tx \in Mined /\ BlockOf(tx)' = BlockOf(tx)
      <4>1. CASE tx \notin Mined /\ BlockOf(tx)' = h
        <5>1. ReadTo(StreamOf[tx]) < h /\ ReadTo(StreamOf[tx]) \in Int
          BY <1>0, <1>11, <2>1, <3>1, <4>1, ReadToTyped
        <5> QED BY <1>0, <2>1, <4>1, <5>1
      <4> QED BY <1>4, <4>1
    <3> QED BY <2>1, <3>2 DEF IInv, NothingMissing
  <2> QED BY <1>0, <1>6, <2>1 DEF NothingMissing
<1>14. DerivedFollow'
  BY <1>0, <1>6 DEF IInv, DerivedFollow, Follows
<1>15. OwnerHasRow'
  BY <1>0, <1>6 DEF IInv, OwnerHasRow
<1>16. TransfersCounted'
  <2>1. ASSUME ~ cleared, NEW tx \in Transfers \cap Mined', BlockOf(tx)' <= ReadTo("transfers"),
               ~ Doomed(BlockOf(tx)')
        PROVE  BlockOf(tx)' <= owner.block
    <3>1. "transfers" \in Streams
      BY DEF Streams
    <3>2. tx \in Mined /\ BlockOf(tx)' = BlockOf(tx)
      <4>1. CASE tx \notin Mined /\ BlockOf(tx)' = h
        <5>1. ReadTo("transfers") < h /\ ReadTo("transfers") \in Int
          BY <1>0, <1>11, <2>1, <3>1, <4>1, ReadToTyped
        <5> QED BY <1>0, <2>1, <4>1, <5>1
      <4> QED BY <1>4, <4>1
    <3> QED BY <2>1, <3>2 DEF IInv, TransfersCounted
  <2> QED BY <1>0, <1>6, <2>1 DEF TransfersCounted
<1>17. OwnerTrue'
  <2>1. ASSUME ~ cleared, owner.block # 0, ~ Doomed(owner.block)
        PROVE  \/ owner.to = OwnerAt(owner.block)'
               \/ /\ owner.to = OwnerAt(owner.block - 1)'
                  /\ owner.block <= ReadTo("transfers") => chain'[owner.block].txs \cap Transfers = {}
    <3>1. owner.block \in 1 .. Height
      BY <2>1, OwnerBlock
    <3>2. PICK k : k = owner.block
      OBVIOUS
    <3>3. /\ k \in 1 .. Height /\ k - 1 \in Int /\ k - 1 <= Height /\ k \in Int /\ k <= Height
      BY <1>0, <3>1, <3>2
    <3>4. OwnerAt(k)' = OwnerAt(k) /\ OwnerAt(k - 1)' = OwnerAt(k - 1) /\ chain'[k] = chain[k]
      BY <1>2, <1>4, <3>3
    <3>5. \/ owner.to = OwnerAt(k)
          \/ /\ owner.to = OwnerAt(k - 1)
             /\ k <= ReadTo("transfers") => chain[k].txs \cap Transfers = {}
      BY <2>1, <3>2 DEF IInv, OwnerTrue
    <3>6. OwnerAt(owner.block)' = OwnerAt(k)' /\ OwnerAt(owner.block - 1)' = OwnerAt(k - 1)'
      BY <1>0, <3>2
    <3> QED BY <1>0, <3>2, <3>4, <3>5, <3>6
  <2> QED BY <1>0, <1>6, <2>1 DEF OwnerTrue
<1> QED BY <1>3, <1>7, <1>8, <1>9, <1>10, <1>12, <1>13, <1>14, <1>15, <1>16, <1>17 DEF IInv

(* A reorganisation takes every block from one on away.  The checkpoints   *)
(* at or above it are replaced then, and all that is kept from that block  *)
(* on is doomed: it is within the window of all of them.                   *)
LEMMA ReorganiseStep == ASSUME IndexerAssumption, IInv, Reorganise PROVE IInv'
<1>0. /\ ChainOK /\ DatabaseOK /\ RunOK /\ OldForks /\ Height \in Nat /\ stream \in Streams
      /\ UNCHANGED <<checkpoints, rows, purchases, opportunities, owner, account, cleared,
                     requested, run, faults>>
      /\ fork \in Nat /\ fork' = fork + 1 /\ MaxHeight \in Nat /\ Window \in Nat
  BY Heights, Numbers, StreamIs DEF IInv, Reorganise, database, ChainOK
<1>1. PICK n \in 1 .. Height : Recoverable(n) /\ chain' = SubSeq(chain, 1, n - 1)
  BY DEF Reorganise
<1>2. /\ Consistent
      /\ run.at # "read" => n > run.head
      /\ \A s \in Streams : n >= checkpoints[s].number - Window
      /\ \A tx \in Events : rows[tx].number >= n => \E s \in Streams : checkpoints[s].number >= n
  BY <1>1, Names DEF Recoverable
<1>m. PICK m \in Nat : m = n - 1
  BY <1>0, <1>1
<1>3. /\ \A k : ~ Doomed(k)
      /\ \A tx \in Events : rows[tx] # NoBlock => True(tx)
      /\ \A s \in Streams : ReadTo(s) \in Int /\ ReadTo(s) <= Height
      /\ run.at # "rewind"
  <2>1. Consistent
    BY <1>2
  <2> QED BY <2>1, WhenConsistent
<1>4. /\ Height' = m /\ \A i \in 1 .. m : chain'[i] = chain[i]
      /\ chain' \in Seq([fork : Nat, txs : SUBSET Events])
      /\ m < Height /\ n \in Nat /\ n = m + 1
  <2>1. PICK B : B = [fork : Nat, txs : SUBSET Events]
    OBVIOUS
  <2>2. chain \in Seq(B) /\ Len(chain) = Height /\ chain' = SubSeq(chain, 1, m)
    BY <1>0, <1>1, <1>m, <2>1 DEF ChainOK, Height
  <2>3. m < Height /\ n \in Nat /\ n = m + 1
    BY <1>0, <1>1, <1>m
  <2>4. /\ Len(chain') = m /\ \A i \in 1 .. m : chain'[i] = chain[i]
        /\ chain' \in Seq(B)
    BY <1>0, <2>2, <2>3
  <2> QED BY <2>1, <2>3, <2>4 DEF Height
<1>5. ChainOK'
  <2>1. Height' <= MaxHeight /\ fork' \in Nat
    BY <1>0, <1>4 DEF ChainOK
  <2>2. \A i \in 1 .. Height' : chain'[i].fork <= fork'
    <3>1. \A i \in 1 .. Height : chain[i].fork \in Nat /\ chain[i].fork <= fork
      BY <1>0, Heights DEF ChainOK
    <3>2. fork \in Nat /\ fork' = fork + 1 /\ \A i \in 1 .. m : i \in 1 .. Height
      BY <1>0, <1>4
    <3>3. ASSUME NEW i \in 1 .. m PROVE chain'[i].fork <= fork'
      <4>1. chain'[i] = chain[i] /\ chain[i].fork \in Nat /\ chain[i].fork <= fork
        BY <1>4, <3>1, <3>2
      <4> QED BY <3>2, <4>1
    <3> QED BY <1>4, <3>3
  <2>0. /\ \A i, j \in 1 .. Height : \A tx \in chain[i].txs \cap chain[j].txs : i = j
        /\ \A i \in 1 .. Height : "back" \in chain[i].txs =>
              \E j \in 1 .. i : "give" \in chain[j].txs
    BY <1>0 DEF ChainOK
  <2>9. \A i \in 1 .. m : i \in 1 .. Height
    BY <1>0, <1>4
  <2>3. \A i, j \in 1 .. Height' : \A tx \in chain'[i].txs \cap chain'[j].txs : i = j
    BY <1>4, <2>0, <2>9
  <2>4. \A i \in 1 .. Height' : "back" \in chain'[i].txs =>
            \E j \in 1 .. i : "give" \in chain'[j].txs
    <3>1. ASSUME NEW i \in 1 .. m, "back" \in chain[i].txs
          PROVE  \E j \in 1 .. i : "give" \in chain'[j].txs
      <4>1. i \in 1 .. Height
        BY <1>0, <1>4
      <4>2. PICK j \in 1 .. i : "give" \in chain[j].txs
        BY <2>0, <3>1, <4>1
      <4>3. j \in 1 .. m
        BY <1>m, <4>2
      <4>4. chain'[j] = chain[j]
        BY <1>4, <4>3
      <4> QED BY <4>2, <4>4
    <3> QED BY <1>4, <3>1
  <2> QED BY <1>4, <2>1, <2>2, <2>3, <2>4 DEF ChainOK
<1>6. /\ \A tx : tx \in Mined /\ BlockOf(tx) <= m => tx \in Mined' /\ BlockOf(tx)' = BlockOf(tx)
      /\ \A tx \in Mined' : /\ BlockOf(tx)' \in 1 .. m /\ tx \in Mined
                            /\ BlockOf(tx)' = BlockOf(tx)
      /\ \A k \in Int : k <= m => OwnerAt(k)' = OwnerAt(k)
      /\ \A k \in 1 .. m : Block(k)' = Block(k)
  <2>1. ChainOK /\ m <= Height /\ m <= Height' /\ \A i \in 1 .. m : chain'[i] = chain[i]
    BY <1>0, <1>4
  <2>2. /\ \A tx : tx \in Mined /\ BlockOf(tx) <= m => tx \in Mined' /\ BlockOf(tx)' = BlockOf(tx)
        /\ \A tx : tx \in Mined' /\ BlockOf(tx)' <= m => tx \in Mined /\ BlockOf(tx)' = BlockOf(tx)
        /\ \A tx \in Mined' : BlockOf(tx)' \in 1 .. Height'
        /\ \A k \in Int : k <= m => OwnerAt(k)' = OwnerAt(k)
        /\ \A k \in 1 .. m : Block(k)' = Block(k)
    BY <1>5, <2>1, SamePrefix
  <2>3. \A tx \in Mined' : BlockOf(tx)' \in 1 .. m
    BY <1>4, <2>2
  <2> QED BY <2>2, <2>3
<1>7. \A s \in Streams : Replaced(checkpoints[s])' <=> checkpoints[s].number >= n
  <2> SUFFICES ASSUME NEW s \in Streams
               PROVE  Replaced(checkpoints[s])' <=> checkpoints[s].number >= n
    OBVIOUS
  <2>1. PICK b : b = checkpoints[s]
    OBVIOUS
  <2>2. b \in Blocks /\ b.number \in Nat /\ (b.number = 0 => b = NoBlock) /\ checkpoints'[s] = b
    BY <1>0, <2>1, CheckpointsTyped DEF DatabaseOK
  <2>3. b = NoBlock \/ (b.number \in 1 .. Height /\ b = Block(b.number))
    BY <1>2, <2>1 DEF Consistent, Replaced, Canonical
  <2>4. CASE b.number >= n
    <3>1. b # NoBlock /\ b.number \notin 1 .. Height'
      BY <1>4, <2>2, <2>4 DEF NoBlock
    <3> QED BY <2>1, <2>2, <2>4, <3>1 DEF Replaced, Canonical
  <2>5. CASE b = NoBlock
    BY <1>4, <2>1, <2>2, <2>5 DEF Replaced, NoBlock
  <2>6. CASE b # NoBlock /\ ~ (b.number >= n)
    <3>1. PICK k : k = b.number
      OBVIOUS
    <3>2. k \in 1 .. m /\ b = Block(k)
      BY <1>4, <2>2, <2>3, <2>6, <3>1
    <3>3. Block(k)' = b /\ k \in 1 .. Height'
      BY <1>4, <1>6, <3>2
    <3>4. Canonical(b)'
      BY <3>1, <3>3 DEF Canonical
    <3> QED BY <2>1, <2>2, <2>6, <3>4 DEF Replaced
  <2> QED BY <2>4, <2>5, <2>6
<1>8. ASSUME NEW k \in Int, k >= n, \E s \in Streams : checkpoints[s].number >= n
      PROVE  Doomed(k)'
  <2>1. ~ Consistent'
    BY <1>0, <1>7, <1>8 DEF Consistent
  <2>2. k >= 1
    BY <1>4, <1>8
  <2>3. \A s \in Streams : k >= checkpoints'[s].number - Window
    <3>1. \A s \in Streams : /\ checkpoints[s].number \in Nat /\ n >= checkpoints[s].number - Window
                             /\ checkpoints'[s] = checkpoints[s]
      BY <1>0, <1>2, CheckpointsTyped
    <3> QED BY <1>0, <1>4, <1>8, <3>1
  <2>4. run' = run
    BY <1>0
  <2> QED BY <1>3, <2>1, <2>2, <2>3, <2>4 DEF Doomed
<1>9. ~ Consistent' => \A k \in Int : k >= n => Doomed(k)'
  <2>1. ~ Consistent' => \E s \in Streams : checkpoints[s].number >= n
    BY <1>7 DEF Consistent
  <2> QED BY <1>8, <2>1
<1>10. stream' = stream /\ \A s : ReadTo(s)' = ReadTo(s)
  BY <1>0 DEF ReadTo, stream
<1>11. DatabaseOK'
  BY <1>0 DEF DatabaseOK
<1>12. RunOK'
  <2>1. run' = run /\ requested' = requested /\ faults' = faults /\ Requested' = Requested
    BY <1>0 DEF Requested
  <2>2. run.at # "read" => run.head <= Height'
    BY <1>0, <1>2, <1>4 DEF RunOK
  <2>3. run.at = "insert" => ~ Replaced(checkpoints[stream])'
    <3>1. ASSUME run.at = "insert" PROVE checkpoints[stream].number < n
      <4>1. /\ run.next <= run.head /\ checkpoints[stream].number < run.next /\ run.head < n
            /\ run.next \in Nat /\ run.head \in Nat
        BY <1>0, <1>2, <1>4, <3>1 DEF RunOK
      <4> QED BY <1>0, <1>4, <4>1, CheckpointsTyped
    <3>2. checkpoints[stream].number \in Nat
      BY <1>0, CheckpointsTyped
    <3>3. PICK s \in Streams : s = stream
      BY <1>0
    <3>4. run.at = "insert" => ~ Replaced(checkpoints[s])'
      BY <1>4, <1>7, <3>1, <3>2, <3>3
    <3>5. checkpoints'[stream'] = checkpoints'[s]
      BY <1>10, <3>3
    <3> QED BY <3>4, <3>5 DEF Replaced, Canonical
  <2>4. checkpoints' = checkpoints
    BY <1>0
  <2> QED BY <1>0, <1>3, <1>10, <2>1, <2>2, <2>3, <2>4 DEF RunOK
<1>13. OldForks'
  <2>1. ASSUME NEW s \in Streams
        PROVE  /\ (checkpoints[s].fork <= fork)'
               /\ (checkpoints[s].number > Height => checkpoints[s].fork < fork)'
    <3>1. checkpoints'[s] = checkpoints[s] /\ checkpoints[s].fork \in Nat
      BY <1>0, CheckpointsTyped DEF Blocks
    <3> QED BY <1>0, <3>1 DEF OldForks
  <2>2. ASSUME NEW tx \in Events
        PROVE  /\ (rows[tx].fork <= fork)'
               /\ (rows[tx].number > Height => rows[tx].fork < fork)'
    <3>1. rows'[tx] = rows[tx] /\ rows[tx].fork \in Nat
      BY <1>0 DEF DatabaseOK, Blocks
    <3> QED BY <1>0, <3>1 DEF OldForks
  <2> QED BY <2>1, <2>2 DEF OldForks
<1>14. NextIsDoomed'
  <2>1. Height' + 1 = n
    BY <1>4
  <2>2. ~ Consistent' => Doomed(n)'
    BY <1>4, <1>9
  <2> QED BY <2>1, <2>2 DEF NextIsDoomed
<1>15. RowsTrueOrDoomed'
  <2>1. ASSUME NEW tx \in Events, rows[tx] # NoBlock
        PROVE  True(tx)' \/ (Doomed(rows[tx].number)' /\ tx \notin Mined')
    <3>1. /\ tx \in Mined /\ rows[tx] = Block(BlockOf(tx)) /\ rows[tx].number = BlockOf(tx)
          /\ BlockOf(tx) \in 1 .. Height
      BY <1>0, <1>3, <2>1, BlockIs DEF True, Block
    <3>2. CASE BlockOf(tx) <= m
      <4>1. PICK k : k = BlockOf(tx)
        OBVIOUS
      <4>2. k \in 1 .. m /\ tx \in Mined' /\ BlockOf(tx)' = k /\ Block(k)' = Block(k)
        BY <1>0, <1>6, <3>1, <3>2, <4>1
      <4>3. rows'[tx] = Block(k)
        BY <1>0, <3>1, <4>1
      <4> QED BY <4>2, <4>3 DEF True
    <3>3. CASE BlockOf(tx) >= n
      <4>1. PICK k \in Int : k = rows[tx].number /\ k >= n
        BY <3>1, <3>3
      <4>2. Doomed(k)'
        BY <1>2, <1>8, <4>1
      <4>3. rows'[tx].number = k
        BY <1>0, <4>1
      <4>4. tx \notin Mined'
        BY <1>4, <1>6, <3>1, <3>3
      <4> QED BY <4>2, <4>3, <4>4
    <3> QED BY <1>0, <1>4, <3>1, <3>2, <3>3
  <2> QED BY <1>0, <2>1 DEF RowsTrueOrDoomed
<1>16. NothingMissing'
  <2>1. ASSUME NEW tx \in Mined', BlockOf(tx)' <= ReadTo(StreamOf[tx]) PROVE rows[tx] # NoBlock
    <3>1. tx \in Mined /\ BlockOf(tx) <= ReadTo(StreamOf[tx])
      BY <1>6, <2>1
    <3> QED BY <1>3, <3>1 DEF IInv, NothingMissing
  <2> QED BY <1>0, <1>10, <2>1 DEF NothingMissing
<1>17. DerivedFollow'
  <2>1. \A k : \A tx \in Events : Follows(k, tx) => Follows(k, tx)'
    BY <1>0, <1>3 DEF Follows
  <2> QED BY <1>0, <2>1 DEF IInv, DerivedFollow, Events
<1>18. ASSUME owner.block # 0
       PROVE  /\ owner.block \in 1 .. Height
              /\ \E tx \in Events : rows[tx].number = owner.block
              /\ owner.block >= n => \E s \in Streams : checkpoints[s].number >= n
  <2>1. ~ Doomed(owner.block)
    BY <1>3
  <2>2. owner.block \in 1 .. Height /\ \E tx \in Events : rows[tx].number = owner.block
    BY <1>18, <2>1, OwnerBlock
  <2> QED BY <1>2, <2>2
<1>19. OwnerHasRow'
  BY <1>0, <1>18 DEF OwnerHasRow
<1>20. TransfersCounted'
  <2>1. ASSUME ~ cleared, NEW tx \in Transfers \cap Mined', BlockOf(tx)' <= ReadTo("transfers")
        PROVE  BlockOf(tx)' <= owner.block
    <3>1. tx \in Mined /\ BlockOf(tx)' = BlockOf(tx)
      BY <1>6, <2>1
    <3> QED BY <1>3, <2>1, <3>1 DEF IInv, TransfersCounted
  <2> QED BY <1>0, <1>10, <2>1 DEF TransfersCounted
<1>21. OwnerTrue'
  <2>1. PICK k : k = owner.block
    OBVIOUS
  <2>2. ASSUME ~ cleared, k # 0, ~ Doomed(k)'
        PROVE  \/ owner.to = OwnerAt(k)'
               \/ /\ owner.to = OwnerAt(k - 1)'
                  /\ k <= ReadTo("transfers") => chain'[k].txs \cap Transfers = {}
    <3>1. k \in 1 .. Height /\ (k >= n => \E s \in Streams : checkpoints[s].number >= n)
      BY <1>18, <2>1, <2>2
    <3>2. ~ (k >= n)
      BY <1>0, <1>8, <2>2, <3>1
    <3>3. k \in 1 .. m /\ k \in Int /\ k <= m /\ k - 1 \in Int /\ k - 1 <= m
      BY <1>0, <1>4, <3>1, <3>2
    <3>4. OwnerAt(k)' = OwnerAt(k) /\ OwnerAt(k - 1)' = OwnerAt(k - 1) /\ chain'[k] = chain[k]
      BY <1>4, <1>6, <3>3
    <3>5. \/ owner.to = OwnerAt(k)
          \/ /\ owner.to = OwnerAt(k - 1)
             /\ k <= ReadTo("transfers") => chain[k].txs \cap Transfers = {}
      BY <1>3, <2>1, <2>2 DEF IInv, OwnerTrue
    <3> QED BY <3>4, <3>5
  <2>3. owner' = owner /\ owner'.block = k /\ cleared' = cleared
    BY <1>0, <2>1
  <2> QED BY <1>10, <2>2, <2>3 DEF OwnerTrue
<1> QED BY <1>5, <1>11, <1>12, <1>13, <1>14, <1>15, <1>16, <1>17, <1>19, <1>20, <1>21 DEF IInv

-----------------------------------------------------------------------------
(* What a batch is: the transactions of its stream that the chain has in   *)
(* its blocks, and the checkpoint moves to the last of them.               *)
Batch(s, n, to, logs) ==
    /\ s \in Streams /\ s = stream /\ n = run.next
    /\ n \in Nat /\ to \in Nat /\ 1 <= n /\ n <= to /\ to <= run.head /\ to <= Height
    /\ logs = {tx \in Mined : StreamOf[tx] = s /\ n <= BlockOf(tx) /\ BlockOf(tx) <= to}
    /\ checkpoints[s].number < n /\ ~ Replaced(checkpoints[s])
    /\ checkpoints' = [checkpoints EXCEPT ![s] = Block(to)]
    /\ rows' = [tx \in Events |->
                  IF tx \in logs /\ rows[tx] = NoBlock THEN Block(BlockOf(tx)) ELSE rows[tx]]
    /\ account' = IF "activate" \in logs THEN Most(account, BlockOf("activate")) ELSE account
    /\ owner' = Transferred(logs)
    /\ cleared' = (cleared /\ ~ (\E tx \in logs \cap Transfers : NamesOwner(tx)))
    /\ purchases' = Listed(logs)
    /\ opportunities' = IF "sell" \in logs
                        THEN [block |-> BlockOf("sell"), canonical |-> TRUE] ELSE opportunities
    /\ Continue(to + 1)

LEMMA InsertIs == ASSUME IndexerAssumption, IInv, Insert PROVE \E s, n, to, logs : Batch(s, n, to, logs)
<1>0. /\ ChainOK /\ DatabaseOK /\ RunOK /\ run.at = "insert" /\ stream \in Streams
      /\ BatchSize \in Nat \ {0} /\ Height \in Nat
  BY StreamIs, Numbers, Heights DEF IInv, Insert
<1>1. PICK s : s = stream
  OBVIOUS
<1>2. PICK n : n = run.next
  OBVIOUS
<1>3. PICK to : to = Least(run.next + BatchSize - 1, run.head)
  OBVIOUS
<1>4. PICK logs : logs = Logs(stream, run.next, to)
  OBVIOUS
<1>5. /\ n \in Nat /\ 1 <= n /\ n <= run.head /\ run.head \in Nat /\ run.head <= Height
      /\ checkpoints[s].number < n /\ ~ Replaced(checkpoints[s])
  BY <1>0, <1>1, <1>2 DEF RunOK, StartBlock
<1>6. to \in Nat /\ n <= to /\ to <= run.head /\ to <= Height
  BY <1>0, <1>2, <1>3, <1>5 DEF Least
<1>7. logs = {tx \in Mined : StreamOf[tx] = s /\ n <= BlockOf(tx) /\ BlockOf(tx) <= to}
  <2>1. n \in Nat \ {0} /\ to \in Int /\ logs = Logs(s, n, to)
    BY <1>1, <1>2, <1>4, <1>5, <1>6
  <2> QED BY <1>0, <1>6, <2>1, LogsAre
<1>8. /\ rows' = Inserted(logs)
      /\ account' = IF "activate" \in logs THEN Most(account, BlockOf("activate")) ELSE account
      /\ owner' = Transferred(logs)
      /\ cleared' = (cleared /\ ~ (\E tx \in logs \cap {"give", "back"} : NamesOwner(tx)))
      /\ purchases' = Listed(logs)
      /\ opportunities' = IF "sell" \in logs
                          THEN [block |-> BlockOf("sell"), canonical |-> TRUE] ELSE opportunities
      /\ checkpoints' = Saved(to, logs)
      /\ Continue(to + 1)
  BY <1>3, <1>4 DEF Insert
<1>9. checkpoints' = [checkpoints EXCEPT ![s] = Block(to)]
  <2>1. checkpoints[s].number \in Nat
    BY <1>0, <1>1, CheckpointsTyped
  <2>2. checkpoints[stream].number <= to
    BY <1>1, <1>5, <1>6, <2>1
  <2> QED BY <1>1, <1>8, <2>2 DEF Saved
<1>10. rows' = [tx \in Events |->
                  IF tx \in logs /\ rows[tx] = NoBlock THEN Block(BlockOf(tx)) ELSE rows[tx]]
  BY <1>8, Names DEF Inserted
<1>11. cleared' = (cleared /\ ~ (\E tx \in logs \cap Transfers : NamesOwner(tx)))
  BY <1>8 DEF Transfers
<1>12. s \in Streams
  BY <1>0, <1>1
<1>13. Batch(s, n, to, logs)
  BY <1>1, <1>2, <1>5, <1>6, <1>7, <1>8, <1>9, <1>10, <1>11, <1>12 DEF Batch
<1> QED BY <1>13

(* What the chain says of a batch's transactions, and what becomes of the  *)
(* rows and of the place of the run.                                       *)
LEMMA BatchFacts ==
    ASSUME IndexerAssumption, IInv, Insert, NEW s, NEW n, NEW to, NEW logs, Batch(s, n, to, logs)
    PROVE  /\ RunOK'
           /\ Height' = Height /\ Mined' = Mined /\ \A tx : BlockOf(tx)' = BlockOf(tx)
           /\ \A m : OwnerAt(m)' = OwnerAt(m) /\ Block(m)' = Block(m)
           /\ \A r \in Streams : Replaced(checkpoints[r])' <=> Replaced(checkpoints[r])
           /\ Consistent' <=> Consistent
           /\ \A k : Doomed(k)' <=> Doomed(k)
           /\ ReadTo(s) = n - 1 /\ ReadTo(s)' = to
           /\ \A r \in Streams : r # s => ReadTo(r)' = ReadTo(r)
           /\ \A r \in Streams : ReadTo(r) \in Int
<1>0. /\ ChainOK /\ DatabaseOK /\ RunOK /\ run.at = "insert" /\ stream \in Streams /\ stream = s
      /\ UNCHANGED <<chain, fork, requested, faults>> /\ faults' \in Nat /\ Height \in Nat
  BY StreamIs, Heights DEF IInv, Insert, RunOK, Batch
<1>1. /\ n \in Nat /\ to \in Nat /\ 1 <= n /\ n <= to /\ to <= Height /\ n = run.next
      /\ ~ Replaced(checkpoints[s])
      /\ checkpoints' = [checkpoints EXCEPT ![s] = Block(to)]
      /\ Continue(to + 1)
  BY DEF Batch
<1>2. /\ Height' = Height /\ Mined' = Mined /\ \A tx : BlockOf(tx)' = BlockOf(tx)
      /\ \A m : OwnerAt(m)' = OwnerAt(m) /\ Block(m)' = Block(m)
  BY <1>0 DEF Height, Mined, BlockOf, OwnerAt, Logs, Block
<1>3. /\ checkpoints'[s] = Block(to) /\ checkpoints'[s].number = to
      /\ \A r \in Streams : r # s => checkpoints'[r] = checkpoints[r]
  <2>1. checkpoints \in [Streams -> Blocks]
    BY <1>0 DEF DatabaseOK
  <2>2. Block(to).number = to
    BY DEF Block
  <2> QED BY <1>0, <1>1, <2>1, <2>2
<1>4. Canonical(Block(to))'
  <2>1. Block(to)' = Block(to) /\ Block(to).number = to /\ to \in 1 .. Height'
    BY <1>0, <1>1, <1>2 DEF Block
  <2>2. PICK b : b = Block(to)
    OBVIOUS
  <2>3. Block(b.number)' = b /\ b.number \in 1 .. Height'
    BY <2>1, <2>2
  <2>4. Canonical(b)'
    BY <2>3 DEF Canonical
  <2> QED BY <2>1, <2>2, <2>4 DEF Canonical
<1>5. \A r \in Streams : Replaced(checkpoints[r])' <=> Replaced(checkpoints[r])
  <2>1. ASSUME NEW r \in Streams PROVE Replaced(checkpoints[r])' <=> Replaced(checkpoints[r])
    <3>1. CASE r = s
      <4>1. checkpoints'[r] = Block(to)' /\ ~ Replaced(checkpoints[r])
        BY <1>1, <1>2, <1>3, <3>1
      <4> QED BY <1>4, <4>1 DEF Replaced, Canonical
    <3>2. CASE r # s
      BY <1>0, <1>3, <3>2 DEF Replaced, Canonical, Height, Block
    <3> QED BY <3>1, <3>2
  <2> QED BY <2>1
<1>6. Consistent' <=> Consistent
  BY <1>5 DEF Consistent
<1>7. \/ run' = [run EXCEPT !.next = to + 1, !.at = "insert"] /\ to + 1 <= run.head
      \/ Done
  BY <1>1 DEF Continue
<1>8. RunOK' /\ \/ run'.at = "insert" /\ stream' = stream /\ run'.next = to + 1
                \/ run'.at = "read"
  <2>1. CASE Done
    BY <1>0, <2>1, DoneOK
  <2>2. CASE run' = [run EXCEPT !.next = to + 1, !.at = "insert"] /\ to + 1 <= run.head
    <3>0. to + 1 \in Nat /\ to + 1 >= 1 /\ to < to + 1
      BY <1>1
    <3>1. /\ run' \in [todo : Seq(Streams) \ {<<>>}, at : {"read", "rewind", "insert"},
                       next : Nat, head : Nat]
          /\ run'.todo = run.todo /\ run'.at = "insert" /\ run'.next = to + 1
          /\ run'.head = run.head
      BY <1>0, <2>2, <3>0 DEF RunOK
    <3>2. stream' = s
      BY <1>0, <3>1 DEF stream
    <3>3. ~ Replaced(checkpoints[s])' /\ checkpoints'[s].number = to
      BY <1>0, <1>1, <1>3, <1>5
    <3>4. ~ Replaced(checkpoints[stream])' /\ checkpoints'[stream'].number = to
      BY <3>2, <3>3 DEF Replaced, Canonical
    <3>5. /\ requested' \in Jobs /\ run.head <= Height
          /\ \A i \in DOMAIN run'.todo : run'.todo[i] \in Requested'
      BY <1>0, <3>1 DEF RunOK, Requested
    <3>6. /\ run'.at # "read" => run'.next >= 1 /\ run'.head <= Height'
          /\ run'.at # "rewind"
          /\ run'.next <= run'.head /\ checkpoints'[stream'].number < run'.next
      BY <1>2, <2>2, <3>0, <3>1, <3>4, <3>5
    <3>7. RunOK'
      BY <1>0, <3>1, <3>4, <3>5, <3>6 DEF RunOK, StartBlock
    <3> QED BY <1>0, <3>1, <3>2, <3>7
  <2> QED BY <1>7, <2>1, <2>2
<1>9. \A k : Doomed(k)' <=> Doomed(k)
  <2>1. \A r \in Streams : Replaced(checkpoints[r])' => checkpoints'[r] = checkpoints[r]
    BY <1>1, <1>3, <1>5
  <2>2. run.at # "rewind" /\ run'.at # "rewind"
    BY <1>0, <1>8
  <2>3. \A r \in Streams : Replaced(checkpoints[r])' <=> Replaced(checkpoints[r])
    BY <1>5
  <2>4. ASSUME NEW k
        PROVE  (\A r \in Streams : Replaced(checkpoints[r])' => k >= checkpoints'[r].number - Window)
               <=> (\A r \in Streams : Replaced(checkpoints[r]) => k >= checkpoints[r].number - Window)
    BY <2>1, <2>3
  <2> QED BY <1>6, <2>2, <2>4 DEF Doomed
<1>10. /\ ReadTo(s) = n - 1 /\ ReadTo(s)' = to
       /\ \A r \in Streams : r # s => ReadTo(r)' = ReadTo(r)
       /\ \A r \in Streams : ReadTo(r) \in Int
  <2>1. /\ ReadTo(s) = n - 1
        /\ \A r \in Streams : ReadTo(r) \in Int
        /\ \A r \in Streams : r # s => ReadTo(r) = checkpoints[r].number
    BY <1>0, <1>1, ReadToTyped
  <2>2. CASE run'.at = "read"
    BY <1>3, <2>1, <2>2 DEF ReadTo
  <2>3. CASE run'.at = "insert" /\ stream' = stream /\ run'.next = to + 1
    <3>1. ReadTo(s)' = to
      BY <1>0, <1>1, <2>3 DEF ReadTo
    <3>2. \A r \in Streams : r # s => ReadTo(r)' = checkpoints'[r].number
      BY <1>0, <2>3 DEF ReadTo
    <3> QED BY <1>3, <2>1, <3>1, <3>2
  <2> QED BY <1>8, <2>2, <2>3
<1> QED BY <1>2, <1>5, <1>6, <1>8, <1>9, <1>10

(* The row of a transaction of the batch is its block's, or is doomed with *)
(* it; no other row changes.                                               *)
LEMMA BatchRows ==
    ASSUME IndexerAssumption, IInv, Insert, NEW s, NEW n, NEW to, NEW logs, Batch(s, n, to, logs)
    PROVE  /\ rows' \in [Events -> Blocks] /\ \A tx \in Events : rows'[tx].number <= MaxHeight
           /\ \A tx \in Events : /\ rows'[tx].number = 0 => rows'[tx] = NoBlock
                                 /\ rows'[tx].fork <= fork
                                 /\ rows'[tx].number > Height => rows'[tx].fork < fork
           /\ \A tx \in logs : /\ tx \in Mined /\ tx \in Events /\ BlockOf(tx) \in 1 .. Height
                               /\ StreamOf[tx] = s /\ n <= BlockOf(tx) /\ BlockOf(tx) <= to
                               /\ rows'[tx] # NoBlock /\ Follows(BlockOf(tx), tx)'
                               /\ rows[tx] = NoBlock => rows'[tx] = Block(BlockOf(tx))
           /\ \A tx \in Events : tx \notin logs \/ rows[tx] # NoBlock => rows'[tx] = rows[tx]
<1>0. /\ ChainOK /\ DatabaseOK /\ OldForks /\ Height \in Nat /\ Height <= MaxHeight /\ MaxHeight \in Nat
      /\ fork \in Nat /\ \A i \in 1 .. Height : chain[i].fork \in Nat /\ chain[i].fork <= fork
  BY Heights, Numbers DEF IInv, ChainOK
<1>1. \A tx \in logs : /\ tx \in Mined /\ tx \in Events /\ BlockOf(tx) \in 1 .. Height
                       /\ StreamOf[tx] = s /\ n <= BlockOf(tx) /\ BlockOf(tx) <= to
  BY <1>0, BlockIs DEF Batch
<1>2. /\ rows \in [Events -> Blocks]
      /\ rows' = [tx \in Events |->
                    IF tx \in logs /\ rows[tx] = NoBlock THEN Block(BlockOf(tx)) ELSE rows[tx]]
  BY <1>0 DEF Batch, DatabaseOK
<1>3. ASSUME NEW k \in 1 .. Height
      PROVE  /\ Block(k) \in Blocks /\ Block(k).number = k /\ Block(k) # NoBlock
             /\ Block(k).fork <= fork /\ k <= MaxHeight /\ k # 0 /\ ~ (k > Height)
  <2>1. chain[k].fork \in Nat /\ chain[k].fork <= fork /\ k \in Nat /\ k # 0 /\ k <= MaxHeight
        /\ ~ (k > Height)
    BY <1>0
  <2>2. Block(k) \in Blocks /\ Block(k).number = k /\ Block(k).fork = chain[k].fork
    BY <2>1 DEF Block, Blocks
  <2>3. Block(k) # NoBlock
    BY <2>1, <2>2 DEF NoBlock
  <2> QED BY <2>1, <2>2, <2>3
<1>4. ASSUME NEW tx \in Events
      PROVE  /\ rows'[tx] \in Blocks /\ rows'[tx].number <= MaxHeight
             /\ rows'[tx].number = 0 => rows'[tx] = NoBlock
             /\ rows'[tx].fork <= fork
             /\ rows'[tx].number > Height => rows'[tx].fork < fork
  <2>1. CASE tx \in logs /\ rows[tx] = NoBlock
    <3>1. PICK k \in 1 .. Height : rows'[tx] = Block(k)
      BY <1>1, <1>2, <2>1
    <3> QED BY <1>3, <3>1
  <2>2. CASE ~ (tx \in logs /\ rows[tx] = NoBlock)
    <3>1. rows'[tx] = rows[tx]
      BY <1>2, <2>2
    <3>2. /\ rows[tx] \in Blocks /\ rows[tx].number <= MaxHeight
          /\ rows[tx].number = 0 => rows[tx] = NoBlock
      BY <1>0 DEF DatabaseOK
    <3>3. rows[tx].fork <= fork /\ (rows[tx].number > Height => rows[tx].fork < fork)
      BY <1>0 DEF OldForks
    <3> QED BY <3>1, <3>2, <3>3
  <2> QED BY <2>1, <2>2
<1>5. \A tx \in Events : tx \notin logs \/ rows[tx] # NoBlock => rows'[tx] = rows[tx]
  BY <1>2
<1>6. ASSUME NEW tx \in logs
      PROVE  /\ rows'[tx] # NoBlock /\ Follows(BlockOf(tx), tx)'
             /\ rows[tx] = NoBlock => rows'[tx] = Block(BlockOf(tx))
  <2>1. PICK k \in 1 .. Height : k = BlockOf(tx)
    BY <1>1
  <2>2. tx \in Events /\ tx \in Mined /\ BlockOf(tx)' = k
    BY <1>1, <2>1, BatchFacts
  <2>3. CASE rows[tx] = NoBlock
    <3>1. rows'[tx] = Block(k) /\ rows'[tx].number = k /\ rows'[tx] # NoBlock
      BY <1>2, <1>3, <2>1, <2>2, <2>3
    <3> QED BY <2>1, <2>2, <2>3, <3>1 DEF Follows
  <2>4. CASE rows[tx] # NoBlock
    <3>1. rows'[tx] = rows[tx]
      BY <1>5, <2>2, <2>4
    <3>2. True(tx) \/ (Doomed(rows[tx].number) /\ Doomed(k))
      BY <2>1, <2>2, <2>4 DEF IInv, RowsTrueOrDoomed
    <3>3. CASE True(tx)
      <4>1. rows'[tx].number = k
        BY <1>3, <2>1, <3>1, <3>3 DEF True
      <4> QED BY <2>2, <2>4, <3>1, <4>1 DEF Follows
    <3>4. CASE Doomed(rows[tx].number) /\ Doomed(k)
      <4>1. Doomed(k)'
        BY <3>4, BatchFacts
      <4>2. PICK j : j = rows[tx].number
        OBVIOUS
      <4>3. Doomed(j)' /\ rows'[tx].number = j
        BY <3>1, <3>4, <4>2, BatchFacts
      <4>4. Doomed(rows[tx].number)' /\ Doomed(BlockOf(tx))'
        BY <2>2, <4>1, <4>3 DEF Doomed
      <4> QED BY <2>4, <3>1, <4>4 DEF Follows
    <3> QED BY <3>2, <3>3, <3>4
  <2> QED BY <2>3, <2>4
<1>7. rows' \in [Events -> Blocks]
  <2>1. DOMAIN rows' = Events /\ rows' = [tx \in Events |-> rows'[tx]]
    BY <1>2
  <2> QED BY <1>4, <2>1
<1> QED BY <1>1, <1>4, <1>5, <1>6, <1>7

(* Of two transfers the Punk's return is the later one.                    *)
LEMMA GivenBeforeBack ==
    ASSUME ChainOK, "back" \in Mined, "give" \in Mined PROVE BlockOf("give") <= BlockOf("back")
<1>1. PICK k \in 1 .. Height : k = BlockOf("back") /\ "back" \in chain[k].txs
  BY BlockIs
<1>2. PICK m \in 1 .. k : "give" \in chain[m].txs
  BY <1>1 DEF ChainOK
<1>3. Height \in Nat
  BY Heights
<1>4. m \in 1 .. Height /\ m <= k
  BY <1>1, <1>3
<1>5. BlockOf("give") = m
  BY <1>2, <1>4, BlockIs
<1> QED BY <1>1, <1>4, <1>5

(* The owner is named by the last transfer of the batch, or by the         *)
(* activation, or stays, and then the transfers of the batch are older.    *)
ByTransfer(s, logs) ==
    \E last \in logs \cap Transfers :
        /\ s = "transfers" /\ owner' = [to |-> OwnerAt(BlockOf(last)), block |-> BlockOf(last)]
        /\ \A tx \in logs \cap Transfers : BlockOf(tx) <= BlockOf(last)
ByActivation(s, logs) ==
    /\ s = "activations" /\ "activate" \in logs /\ BlockOf("activate") > owner.block
    /\ owner' = [to |-> OwnerAt(BlockOf("activate") - 1), block |-> BlockOf("activate")]
    /\ cleared' = cleared
Stays(logs) ==
    /\ owner' = owner /\ cleared' = cleared
    /\ \A tx \in logs \cap Transfers : BlockOf(tx) < owner.block

LEMMA OwnerMoves ==
    ASSUME IndexerAssumption, IInv, Insert, NEW s, NEW n, NEW to, NEW logs, Batch(s, n, to, logs)
    PROVE  ByTransfer(s, logs) \/ ByActivation(s, logs) \/ Stays(logs)
<1>0. /\ ChainOK /\ owner.block \in Nat /\ cleared \in BOOLEAN
  BY DEF IInv, DatabaseOK
<1>1. \A tx \in logs : /\ tx \in Mined /\ tx \in Events /\ BlockOf(tx) \in Nat /\ StreamOf[tx] = s
  BY BatchRows
<1>2. PICK last : last = IF "back" \in logs THEN "back" ELSE "give"
  OBVIOUS
<1>3. \A tx \in logs \cap Transfers : BlockOf(tx) <= BlockOf(last) /\ last \in logs
  <2>1. "back" \in logs /\ "give" \in logs => BlockOf("give") <= BlockOf("back")
    BY <1>0, <1>1, GivenBeforeBack
  <2> QED BY <1>1, <1>2, <2>1 DEF Transfers
<1>4. last \in Transfers
  BY <1>2 DEF Transfers
<1>5. owner' = IF logs \cap Transfers # {} /\ BlockOf(last) >= owner.block
               THEN [to |-> OwnerAt(BlockOf(last)), block |-> BlockOf(last)]
               ELSE IF "activate" \in logs /\ BlockOf("activate") > owner.block
               THEN [to |-> OwnerAt(BlockOf("activate") - 1), block |-> BlockOf("activate")]
               ELSE owner
  BY <1>2 DEF Batch, Transferred, NamesOwner, Transfers
<1>6. cleared' = (cleared /\ ~ (\E tx \in logs \cap Transfers : BlockOf(tx) >= owner.block))
  BY DEF Batch, NamesOwner
<1>7. CASE logs \cap Transfers # {} /\ BlockOf(last) >= owner.block
  <2>1. last \in logs \cap Transfers
    BY <1>3, <1>4, <1>7
  <2>2. s = "transfers"
    BY <1>1, <1>4, <2>1, Names
  <2>3. owner' = [to |-> OwnerAt(BlockOf(last)), block |-> BlockOf(last)]
    BY <1>5, <1>7
  <2> QED BY <1>3, <2>1, <2>2, <2>3 DEF ByTransfer
<1>8. CASE ~ (logs \cap Transfers # {} /\ BlockOf(last) >= owner.block)
  <2>1. \A tx \in logs \cap Transfers : BlockOf(tx) < owner.block
    <3>1. ASSUME NEW tx \in logs \cap Transfers PROVE BlockOf(tx) < owner.block
      <4>1. BlockOf(tx) <= BlockOf(last) /\ last \in logs /\ ~ (BlockOf(last) >= owner.block)
        BY <1>3, <1>8, <3>1
      <4> QED BY <1>0, <1>1, <4>1
    <3> QED BY <3>1
  <2>2. ~ (\E tx \in logs \cap Transfers : BlockOf(tx) >= owner.block)
    BY <1>0, <1>1, <2>1
  <2>3. cleared' = cleared
    BY <1>0, <1>6, <2>2, Zenon
  <2>4. CASE "activate" \in logs /\ BlockOf("activate") > owner.block
    <3>1. s = "activations"
      BY <1>1, <2>4, Names
    <3>2. owner' = [to |-> OwnerAt(BlockOf("activate") - 1), block |-> BlockOf("activate")]
      BY <1>5, <1>8, <2>4, Zenon
    <3> QED BY <2>3, <2>4, <3>1, <3>2 DEF ByActivation
  <2>5. CASE ~ ("activate" \in logs /\ BlockOf("activate") > owner.block)
    <3>1. owner' = owner
      BY <1>5, <1>8, <2>5, Zenon
    <3> QED BY <2>1, <2>3, <3>1 DEF Stays
  <2> QED BY <2>4, <2>5
<1> QED BY <1>7, <1>8

OwnerFits ==
    /\ owner \in [to : {None, "buyer", "seller"}, block : Nat] /\ owner.block <= MaxHeight
    /\ owner.to = None <=> owner.block = 0

(* The batch keeps the index true: what is read now has a row, and what    *)
(* is derived from a row of the batch has its block.                       *)
LEMMA InsertStep == ASSUME IndexerAssumption, IInv, Insert PROVE IInv'
<1>1. PICK s, n, to, logs : Batch(s, n, to, logs)
  BY InsertIs
<1>0. /\ ChainOK /\ DatabaseOK /\ RunOK /\ OldForks /\ Height \in Nat /\ Height <= MaxHeight
      /\ UNCHANGED <<chain, fork, requested, faults>> /\ fork \in Nat /\ MaxHeight \in Nat
      /\ s \in Streams /\ n \in Nat /\ to \in Nat /\ 1 <= n /\ n <= to /\ to <= Height
  BY <1>1, Heights, Numbers DEF IInv, Insert, Batch, ChainOK
<1>2. /\ RunOK'
      /\ Height' = Height /\ Mined' = Mined /\ \A tx : BlockOf(tx)' = BlockOf(tx)
      /\ \A m : OwnerAt(m)' = OwnerAt(m) /\ Block(m)' = Block(m)
      /\ Consistent' <=> Consistent
      /\ \A k : Doomed(k)' <=> Doomed(k)
  BY <1>1, BatchFacts
<1>3. /\ ReadTo(s) = n - 1 /\ ReadTo(s)' = to
      /\ \A r \in Streams : r # s => ReadTo(r)' = ReadTo(r)
      /\ \A r \in Streams : ReadTo(r) \in Int
  BY <1>1, BatchFacts
<1>4. \A tx \in logs : /\ tx \in Mined /\ tx \in Events /\ BlockOf(tx) \in 1 .. Height
                       /\ StreamOf[tx] = s /\ n <= BlockOf(tx) /\ BlockOf(tx) <= to
                       /\ rows'[tx] # NoBlock /\ Follows(BlockOf(tx), tx)'
                       /\ rows[tx] = NoBlock => rows'[tx] = Block(BlockOf(tx))
  BY <1>1, BatchRows
<1>5. \A tx \in Events : tx \notin logs \/ rows[tx] # NoBlock => rows'[tx] = rows[tx]
  BY <1>1, BatchRows
<1>6. \A tx \in Mined : StreamOf[tx] = s /\ n <= BlockOf(tx) /\ BlockOf(tx) <= to => tx \in logs
  BY <1>1 DEF Batch
<1>7. \A tx \in Mined : /\ tx \in Events /\ BlockOf(tx) \in 1 .. Height /\ StreamOf[tx] \in Streams
                        /\ BlockOf(tx) \in Nat /\ tx \in chain[BlockOf(tx)].txs
  BY <1>0, BlockIs, Names
<1>8. \A k : \A tx \in Events : Follows(k, tx) /\ rows'[tx] = rows[tx] => Follows(k, tx)'
  <2>1. ASSUME NEW k, NEW tx \in Events, Follows(k, tx), rows'[tx] = rows[tx] PROVE Follows(k, tx)'
    <3>1. CASE k = rows[tx].number
      BY <2>1, <3>1 DEF Follows
    <3>2. CASE rows[tx] # NoBlock /\ Doomed(k) /\ Doomed(rows[tx].number)
      <4>1. PICK j : j = rows[tx].number
        OBVIOUS
      <4>2. Doomed(k)' /\ Doomed(j)' /\ rows'[tx].number = j
        BY <1>2, <2>1, <3>2, <4>1
      <4>3. Doomed(rows[tx].number)'
        BY <4>2 DEF Doomed
      <4> QED BY <2>1, <3>2, <4>2, <4>3 DEF Follows
    <3> QED BY <2>1, <3>1, <3>2 DEF Follows
  <2> QED BY <2>1
<1>9. \A tx \in Events : rows[tx].number = 0 => rows[tx] = NoBlock
  BY <1>0 DEF DatabaseOK
<1>10. ChainOK' /\ OldForks' /\ NextIsDoomed'
  <2>1. ChainOK'
    BY <1>0, <1>2 DEF ChainOK
  <2>2. \A tx \in Events : /\ rows'[tx].fork <= fork
                           /\ rows'[tx].number > Height => rows'[tx].fork < fork
    BY <1>1, BatchRows
  <2>3. /\ checkpoints' = [checkpoints EXCEPT ![s] = Block(to)]
        /\ checkpoints \in [Streams -> Blocks]
    BY <1>0, <1>1 DEF Batch, DatabaseOK
  <2>4. Block(to).fork <= fork /\ Block(to).number = to /\ ~ (to > Height)
    BY <1>0 DEF Block, ChainOK
  <2>5. ASSUME NEW r \in Streams
        PROVE  /\ checkpoints'[r].fork <= fork
               /\ checkpoints'[r].number > Height => checkpoints'[r].fork < fork
    <3>1. CASE r = s
      BY <1>0, <2>3, <2>4, <3>1
    <3>2. CASE r # s
      BY <1>0, <2>3, <3>2 DEF OldForks
    <3> QED BY <3>1, <3>2
  <2>6. OldForks'
    BY <1>0, <1>2, <2>2, <2>5 DEF OldForks
  <2>7. NextIsDoomed'
    <3>1. PICK h : h = Height + 1
      OBVIOUS
    <3>2. ~ Consistent' => Doomed(h)'
      BY <1>2, <3>1 DEF IInv, NextIsDoomed
    <3> QED BY <1>2, <3>1, <3>2 DEF NextIsDoomed
  <2> QED BY <2>1, <2>6, <2>7
<1>11. RowsTrueOrDoomed'
  <2>1. ASSUME NEW tx \in Events, rows'[tx] # NoBlock
        PROVE  \/ tx \in Mined /\ rows'[tx] = Block(BlockOf(tx))
               \/ Doomed(rows[tx].number)' /\ (tx \in Mined => Doomed(BlockOf(tx)))
    <3>1. CASE rows[tx] = NoBlock
      BY <1>4, <1>5, <2>1, <3>1
    <3>2. CASE rows[tx] # NoBlock
      <4>1. rows'[tx] = rows[tx]
        BY <1>5, <3>2
      <4>2. True(tx) \/ (Doomed(rows[tx].number) /\ (tx \in Mined => Doomed(BlockOf(tx))))
        BY <3>2 DEF IInv, RowsTrueOrDoomed
      <4>3. PICK j : j = rows[tx].number
        OBVIOUS
      <4>4. Doomed(rows[tx].number)' <=> Doomed(j)
        <5>1. Doomed(rows[tx].number)' <=> Doomed(j)'
          BY <4>1, <4>3 DEF Doomed
        <5> QED BY <1>2, <5>1
      <4> QED BY <4>1, <4>2, <4>3, <4>4 DEF True
    <3> QED BY <3>1, <3>2
  <2>2. ASSUME NEW tx \in Events
        PROVE  /\ True(tx)' <=> tx \in Mined /\ rows'[tx] = Block(BlockOf(tx))
               /\ (tx \in Mined => Doomed(BlockOf(tx)))' <=> (tx \in Mined => Doomed(BlockOf(tx)))
    <3>1. PICK k : k = BlockOf(tx) /\ k = BlockOf(tx)'
      BY <1>2
    <3>2. /\ Block(BlockOf(tx))' = Block(k)' /\ Block(BlockOf(tx)) = Block(k)
          /\ Doomed(BlockOf(tx))' <=> Doomed(k)'
          /\ Doomed(BlockOf(tx)) <=> Doomed(k)
      BY <3>1 DEF Block, Doomed
    <3> QED BY <1>2, <3>2 DEF True
  <2> QED BY <1>2, <2>1, <2>2 DEF RowsTrueOrDoomed
<1>12. NothingMissing'
  <2>1. ASSUME NEW tx \in Mined, BlockOf(tx) <= ReadTo(StreamOf[tx])', ~ Doomed(BlockOf(tx))
        PROVE  rows'[tx] # NoBlock
    <3>1. CASE tx \in logs
      BY <1>4, <3>1
    <3>2. CASE tx \notin logs
      <4>1. BlockOf(tx) <= ReadTo(StreamOf[tx])
        <5>1. CASE StreamOf[tx] = s
          <6>1. ~ (n <= BlockOf(tx))
            BY <1>3, <1>6, <2>1, <3>2, <5>1
          <6> QED BY <1>0, <1>3, <1>7, <5>1, <6>1
        <5>2. CASE StreamOf[tx] # s
          BY <1>3, <1>7, <2>1, <5>2
        <5> QED BY <5>1, <5>2
      <4>2. rows[tx] # NoBlock
        BY <2>1, <4>1 DEF IInv, NothingMissing
      <4> QED BY <1>5, <1>7, <4>2
    <3> QED BY <3>1, <3>2
  <2> QED BY <1>2, <2>1 DEF NothingMissing
<1>13. Follows(account, "activate")'
  <2>1. "activate" \in Events /\ Follows(account, "activate") /\ account \in Nat
    BY <1>0 DEF Events, IInv, DerivedFollow, DatabaseOK
  <2>2. CASE "activate" \notin logs
    <3>1. account' = account /\ rows'["activate"] = rows["activate"]
      BY <1>1, <1>5, <2>1, <2>2 DEF Batch
    <3>2. PICK k : k = account
      OBVIOUS
    <3>3. Follows(k, "activate")'
      BY <1>8, <2>1, <3>1, <3>2
    <3> QED BY <3>1, <3>2, <3>3 DEF Follows
  <2>3. CASE "activate" \in logs
    <3>1. PICK a : a = BlockOf("activate")
      OBVIOUS
    <3>2. a \in Nat /\ 1 <= a /\ account' = Most(account, a) /\ account' \in {account, a}
      BY <1>1, <1>4, <2>3, <3>1 DEF Batch, Most
    <3>3. Follows(a, "activate")' /\ rows'["activate"] # NoBlock
      <4>1. Follows(BlockOf("activate"), "activate")' /\ BlockOf("activate")' = a
        BY <1>2, <1>4, <2>3, <3>1
      <4> QED BY <1>4, <2>3, <4>1 DEF Follows
    <3>4. CASE rows["activate"] = NoBlock
      <4>1. account = 0
        BY <2>1, <3>4 DEF Follows, NoBlock
      <4>2. account' = a
        BY <3>2, <4>1 DEF Most
      <4> QED BY <3>3, <4>2 DEF Follows
    <3>5. CASE rows["activate"] # NoBlock
      <4>1. PICK k : k = account
        OBVIOUS
      <4>2. rows'["activate"] = rows["activate"]
        BY <1>5, <2>1, <3>5
      <4>3. Follows(k, "activate")'
        BY <1>8, <2>1, <4>1, <4>2
      <4>4. account' = k \/ account' = a
        BY <3>2, <4>1
      <4> QED BY <3>3, <4>3, <4>4 DEF Follows
    <3> QED BY <3>4, <3>5
  <2> QED BY <2>2, <2>3
<1>14. /\ opportunities'.canonical <=> rows'["sell"] # NoBlock
       /\ opportunities'.canonical => Follows(opportunities.block, "sell")'
  <2>1. /\ "sell" \in Events
        /\ opportunities.canonical <=> rows["sell"] # NoBlock
        /\ opportunities.canonical => Follows(opportunities.block, "sell")
    BY DEF Events, IInv, DerivedFollow
  <2>2. CASE "sell" \in logs
    <3>1. PICK k : k = BlockOf("sell")
      OBVIOUS
    <3>2. opportunities' = [block |-> k, canonical |-> TRUE]
      BY <1>1, <2>2, <3>1 DEF Batch
    <3>3. opportunities'.canonical = TRUE /\ opportunities'.block = k
      BY <3>2
    <3>4. rows'["sell"] # NoBlock /\ Follows(k, "sell")'
      <4>1. Follows(BlockOf("sell"), "sell")' /\ BlockOf("sell")' = k /\ rows'["sell"] # NoBlock
        BY <1>2, <1>4, <2>2, <3>1
      <4> QED BY <4>1 DEF Follows
    <3> QED BY <3>3, <3>4 DEF Follows
  <2>3. CASE "sell" \notin logs
    <3>1. opportunities' = opportunities /\ rows'["sell"] = rows["sell"]
      BY <1>1, <1>5, <2>1, <2>3 DEF Batch
    <3>2. PICK k : k = opportunities.block
      OBVIOUS
    <3>3. opportunities.canonical => Follows(k, "sell")'
      BY <1>8, <2>1, <3>1, <3>2
    <3>4. opportunities.canonical => Follows(opportunities.block, "sell")'
      BY <3>1, <3>2, <3>3 DEF Follows
    <3> QED BY <2>1, <3>1, <3>4
  <2> QED BY <2>2, <2>3
<1>15. /\ purchases' # 0 => rows'["buy"] # NoBlock /\ Follows(purchases, "buy")'
       /\ account' # 0 /\ rows'["buy"] # NoBlock => purchases' # 0
       /\ purchases' \in 0 .. MaxHeight
  <2>1. /\ "buy" \in Events
        /\ purchases # 0 => rows["buy"] # NoBlock /\ Follows(purchases, "buy")
        /\ account # 0 /\ rows["buy"] # NoBlock => purchases # 0
        /\ purchases \in 0 .. MaxHeight
        /\ rows["buy"].number \in 0 .. MaxHeight
    BY <1>0 DEF Events, IInv, DerivedFollow, DatabaseOK, Blocks
  <2>2. /\ purchases' = Listed(logs)
        /\ account' = IF "activate" \in logs THEN Most(account, BlockOf("activate")) ELSE account
    BY <1>1 DEF Batch
  <2>3. CASE purchases = 0 /\ account' # 0 /\ "buy" \in logs
    <3>1. PICK k : k = BlockOf("buy")
      OBVIOUS
    <3>2. purchases' = k
      BY <2>2, <2>3, <3>1 DEF Listed
    <3>3. k \in 1 .. Height /\ rows'["buy"] # NoBlock /\ Follows(k, "buy")'
      <4>1. Follows(BlockOf("buy"), "buy")' /\ BlockOf("buy")' = k /\ rows'["buy"] # NoBlock
            /\ k \in 1 .. Height
        BY <1>2, <1>4, <2>3, <3>1
      <4> QED BY <4>1 DEF Follows
    <3>4. purchases' # 0 /\ purchases' \in 0 .. MaxHeight
      BY <1>0, <3>2, <3>3
    <3> QED BY <3>2, <3>3, <3>4 DEF Follows
  <2>4. CASE /\ purchases = 0 /\ account' # 0 /\ "buy" \notin logs
             /\ "activate" \in logs /\ rows["buy"] # NoBlock
    <3>1. purchases' = rows["buy"].number
      BY <2>2, <2>4 DEF Listed
    <3>2. rows'["buy"] = rows["buy"] /\ rows["buy"].number # 0
      BY <1>5, <1>9, <2>1, <2>4
    <3> QED BY <2>1, <2>4, <3>1, <3>2 DEF Follows
  <2>5. CASE ~ (/\ purchases = 0 /\ account' # 0
                /\ "buy" \in logs \/ ("activate" \in logs /\ rows["buy"] # NoBlock))
    <3>1. purchases' = purchases
      BY <2>2, <2>5 DEF Listed
    <3>2. CASE purchases # 0
      <4>1. rows'["buy"] = rows["buy"] /\ rows["buy"] # NoBlock /\ Follows(purchases, "buy")
        BY <1>5, <2>1, <3>2
      <4>2. PICK k : k = purchases
        OBVIOUS
      <4>3. Follows(k, "buy")'
        BY <1>8, <2>1, <4>1, <4>2
      <4> QED BY <2>1, <3>1, <3>2, <4>1, <4>2, <4>3 DEF Follows
    <3>3. CASE purchases = 0
      <4>1. ASSUME account' # 0, rows'["buy"] # NoBlock PROVE FALSE
        <5>1. "buy" \notin logs /\ ~ ("activate" \in logs /\ rows["buy"] # NoBlock)
          BY <2>5, <3>3, <4>1
        <5>2. rows'["buy"] = rows["buy"]
          BY <1>5, <2>1, <5>1
        <5>3. "activate" \notin logs
          BY <4>1, <5>1, <5>2
        <5>4. account # 0
          BY <2>2, <4>1, <5>3
        <5> QED BY <2>1, <3>3, <4>1, <5>2, <5>4
      <4> QED BY <2>1, <3>1, <3>3, <4>1
    <3> QED BY <3>2, <3>3
  <2> QED BY <2>3, <2>4, <2>5
<1>16. DerivedFollow'
  BY <1>13, <1>14, <1>15 DEF DerivedFollow
<1>17. ByTransfer(s, logs) \/ ByActivation(s, logs) \/ Stays(logs)
  BY <1>1, OwnerMoves
<1>18. "transfers" \in Streams /\ "activations" # "transfers" /\ Transfers \subseteq Events
       /\ \A tx \in Transfers : StreamOf[tx] = "transfers"
  BY Names DEF Streams, Transfers, Events
<1>19. owner.block \in Nat /\ owner \in [to : {None, "buyer", "seller"}, block : Nat]
       /\ owner.block <= MaxHeight /\ (owner.to = None <=> owner.block = 0)
  BY <1>0 DEF DatabaseOK
<1>20. ASSUME ByTransfer(s, logs)
       PROVE  OwnerFits' /\ OwnerHasRow' /\ TransfersCounted' /\ OwnerTrue'
  <2>1. PICK last \in logs \cap Transfers :
            /\ s = "transfers" /\ owner' = [to |-> OwnerAt(BlockOf(last)), block |-> BlockOf(last)]
            /\ \A tx \in logs \cap Transfers : BlockOf(tx) <= BlockOf(last)
    BY <1>20 DEF ByTransfer
  <2>2. PICK k : k = BlockOf(last)
    OBVIOUS
  <2>3. /\ owner'.to = OwnerAt(k) /\ owner'.block = k /\ owner' = [to |-> OwnerAt(k), block |-> k]
        /\ k \in 1 .. Height /\ k \in Int /\ n <= k /\ k <= Height /\ last \in Events
    BY <1>4, <2>1, <2>2
  <2>4. OwnerAt(k) \in {"buyer", "seller"} /\ OwnerAt(k)' = OwnerAt(k)
    BY <1>0, <1>2, <2>3, OwnersAre
  <2>5. OwnerFits'
    BY <1>0, <2>3, <2>4 DEF OwnerFits, None
  <2>6. OwnerHasRow'
    <3>1. Follows(k, last)'
      <4>1. Follows(BlockOf(last), last)' /\ BlockOf(last)' = k
        BY <1>2, <1>4, <2>1, <2>2
      <4> QED BY <4>1 DEF Follows
    <3>2. rows'[last].number = k \/ Doomed(k)'
      BY <3>1 DEF Follows
    <3>3. ~ Doomed(owner.block)' => ~ Doomed(k)'
      BY <2>3 DEF Doomed
    <3> QED BY <2>3, <3>2, <3>3 DEF OwnerHasRow
  <2>7. TransfersCounted'
    <3>1. ASSUME NEW tx \in Transfers \cap Mined, BlockOf(tx) <= ReadTo("transfers")'
          PROVE  BlockOf(tx) <= k
      <4>1. CASE tx \in logs
        BY <2>1, <2>2, <3>1, <4>1
      <4>2. CASE tx \notin logs
        <5>1. StreamOf[tx] = s /\ BlockOf(tx) <= to /\ BlockOf(tx) \in Nat
          BY <1>3, <1>7, <1>18, <2>1, <3>1
        <5>2. ~ (n <= BlockOf(tx))
          BY <1>6, <3>1, <4>2, <5>1
        <5> QED BY <1>0, <2>3, <5>1, <5>2
      <4> QED BY <4>1, <4>2
    <3> QED BY <1>2, <2>3, <3>1 DEF TransfersCounted
  <2>8. OwnerTrue'
    <3>1. OwnerAt(owner.block)' = OwnerAt(k)'
      BY <2>3 DEF OwnerAt, Logs
    <3> QED BY <2>3, <2>4, <3>1 DEF OwnerTrue
  <2> QED BY <2>5, <2>6, <2>7, <2>8
<1>21. ASSUME ByActivation(s, logs)
       PROVE  OwnerFits' /\ OwnerHasRow' /\ TransfersCounted' /\ OwnerTrue'
  <2>1. PICK k : k = BlockOf("activate")
    OBVIOUS
  <2>2. /\ s = "activations" /\ "activate" \in logs /\ k > owner.block /\ cleared' = cleared
        /\ owner' = [to |-> OwnerAt(k - 1), block |-> k]
    BY <1>21, <2>1 DEF ByActivation
  <2>3. /\ owner'.to = OwnerAt(k - 1) /\ owner'.block = k
        /\ k \in 1 .. Height /\ k \in Int /\ k - 1 \in Int /\ k - 1 <= Height
    BY <1>0, <1>4, <2>1, <2>2
  <2>4. OwnerAt(k - 1) \in {"buyer", "seller"} /\ OwnerAt(k - 1)' = OwnerAt(k - 1)
    BY <1>0, <1>2, <2>3, OwnersAre
  <2>5. OwnerFits'
    BY <1>0, <2>2, <2>3, <2>4 DEF OwnerFits, None
  <2>6. OwnerHasRow'
    <3>1. Follows(k, "activate")'
      <4>1. Follows(BlockOf("activate"), "activate")' /\ BlockOf("activate")' = k
        BY <1>2, <1>4, <2>1, <2>2
      <4> QED BY <4>1 DEF Follows
    <3>2. rows'["activate"].number = k \/ Doomed(k)'
      BY <3>1 DEF Follows
    <3>3. ~ Doomed(owner.block)' => ~ Doomed(k)'
      BY <2>3 DEF Doomed
    <3> QED BY <2>3, <3>2, <3>3 DEF OwnerHasRow, Events
  <2>7. ReadTo("transfers")' = ReadTo("transfers") /\ ReadTo("transfers") \in Int
    BY <1>3, <1>18, <2>2
  <2>8. TransfersCounted'
    <3>1. ASSUME ~ cleared, NEW tx \in Transfers \cap Mined, BlockOf(tx) <= ReadTo("transfers"),
                 ~ Doomed(BlockOf(tx))
          PROVE  BlockOf(tx) <= k
      <4>1. BlockOf(tx) <= owner.block
        BY <3>1 DEF IInv, TransfersCounted
      <4> QED BY <1>7, <1>19, <2>2, <2>3, <3>1, <4>1
    <3> QED BY <1>2, <2>2, <2>3, <2>7, <3>1 DEF TransfersCounted
  <2>9. OwnerTrue'
    <3>1. ASSUME ~ cleared, ~ Doomed(k), k <= ReadTo("transfers"),
                 NEW tx \in chain[k].txs \cap Transfers
          PROVE  FALSE
      <4>1. tx \in Mined /\ BlockOf(tx) = k
        BY <1>0, <2>3, <3>1, BlockIs
      <4>2. k <= owner.block
        BY <3>1, <4>1 DEF IInv, TransfersCounted
      <4> QED BY <1>19, <2>2, <2>3, <4>2
    <3>2. OwnerAt(owner.block - 1)' = OwnerAt(k - 1)' /\ chain'[owner'.block] = chain[k]
      BY <1>0, <2>3 DEF OwnerAt, Logs
    <3>3. Doomed(owner.block)' <=> Doomed(k)'
      BY <2>3 DEF Doomed
    <3> QED BY <1>2, <2>2, <2>3, <2>4, <2>7, <3>1, <3>2, <3>3 DEF OwnerTrue
  <2> QED BY <2>5, <2>6, <2>8, <2>9
<1>22. ASSUME Stays(logs)
       PROVE  OwnerFits' /\ OwnerHasRow' /\ TransfersCounted' /\ OwnerTrue'
  <2>1. /\ owner' = owner /\ cleared' = cleared
        /\ \A tx \in logs \cap Transfers : BlockOf(tx) < owner.block
    BY <1>22 DEF Stays
  <2>2. PICK k \in Nat : k = owner.block /\ k = owner'.block
    BY <1>19, <2>1
  <2>3. OwnerFits'
    BY <1>19, <2>1 DEF OwnerFits
  <2>4. Doomed(owner.block)' <=> Doomed(k)
    <3>1. Doomed(owner.block)' <=> Doomed(k)'
      BY <2>2 DEF Doomed
    <3> QED BY <1>2, <3>1
  <2>5. OwnerHasRow'
    <3>1. ASSUME k # 0, ~ Doomed(k) PROVE \E tx \in Events : rows'[tx].number = k
      <4>1. PICK tx \in Events : rows[tx].number = k
        BY <2>2, <3>1 DEF IInv, OwnerHasRow
      <4>2. rows[tx] # NoBlock
        BY <3>1, <4>1 DEF NoBlock
      <4> QED BY <1>5, <4>1, <4>2
    <3> QED BY <2>2, <2>4, <3>1 DEF OwnerHasRow
  <2>6. ASSUME NEW tx \in Transfers \cap Mined, BlockOf(tx) <= ReadTo("transfers")'
        PROVE  BlockOf(tx) <= ReadTo("transfers") \/ BlockOf(tx) < k
    <3>1. CASE s # "transfers"
      BY <1>3, <1>18, <2>6, <3>1
    <3>2. CASE s = "transfers" /\ tx \in logs
      BY <2>1, <2>2, <2>6, <3>2
    <3>3. CASE s = "transfers" /\ tx \notin logs
      <4>1. StreamOf[tx] = s /\ BlockOf(tx) <= to /\ BlockOf(tx) \in Nat
        BY <1>3, <1>7, <1>18, <2>6, <3>3
      <4>2. ~ (n <= BlockOf(tx))
        BY <1>6, <2>6, <3>3, <4>1
      <4> QED BY <1>0, <1>3, <3>3, <4>1, <4>2
    <3> QED BY <3>1, <3>2, <3>3
  <2>7. TransfersCounted'
    <3>1. ASSUME ~ cleared, NEW tx \in Transfers \cap Mined, BlockOf(tx) <= ReadTo("transfers")',
                 ~ Doomed(BlockOf(tx))
          PROVE  BlockOf(tx) <= k
      <4>1. CASE BlockOf(tx) <= ReadTo("transfers")
        BY <2>2, <3>1, <4>1 DEF IInv, TransfersCounted
      <4>2. CASE BlockOf(tx) < k
        BY <1>7, <3>1, <4>2
      <4> QED BY <2>6, <3>1, <4>1, <4>2
    <3> QED BY <1>2, <2>1, <2>2, <3>1 DEF TransfersCounted
  <2>8. OwnerTrue'
    <3>1. ASSUME ~ cleared, k # 0, ~ Doomed(k)
          PROVE  \/ owner.to = OwnerAt(k)
                 \/ /\ owner.to = OwnerAt(k - 1)
                    /\ k <= ReadTo("transfers")' => chain[k].txs \cap Transfers = {}
      <4>1. CASE owner.to = OwnerAt(k)
        BY <4>1
      <4>2. CASE /\ owner.to = OwnerAt(k - 1)
                 /\ k <= ReadTo("transfers") => chain[k].txs \cap Transfers = {}
        <5>1. ASSUME k <= ReadTo("transfers")', NEW tx \in chain[k].txs \cap Transfers PROVE FALSE
          <6>1. k \in 1 .. Height
            BY <2>2, <3>1, OwnerBlock
          <6>2. tx \in Mined /\ BlockOf(tx) = k
            BY <1>0, <5>1, <6>1, BlockIs
          <6>3. k <= ReadTo("transfers") \/ k < k
            BY <2>6, <5>1, <6>2
          <6> QED BY <4>2, <5>1, <6>3
        <5> QED BY <4>2, <5>1
      <4> QED BY <2>2, <3>1, <4>1, <4>2 DEF IInv, OwnerTrue
    <3>2. /\ OwnerAt(owner.block)' = OwnerAt(k) /\ OwnerAt(owner.block - 1)' = OwnerAt(k - 1)
          /\ chain'[owner'.block] = chain[k]
      <4>1. OwnerAt(owner.block)' = OwnerAt(k)' /\ OwnerAt(owner.block - 1)' = OwnerAt(k - 1)'
        BY <2>2 DEF OwnerAt, Logs
      <4> QED BY <1>0, <1>2, <2>2, <4>1
    <3> QED BY <2>1, <2>2, <2>4, <3>1, <3>2 DEF OwnerTrue
  <2> QED BY <2>3, <2>5, <2>7, <2>8
<1>23. OwnerFits' /\ OwnerHasRow' /\ TransfersCounted' /\ OwnerTrue'
  BY <1>17, <1>20, <1>21, <1>22
<1>24. DatabaseOK'
  <2>1. checkpoints' \in [Streams -> Blocks] /\ \A r \in Streams :
              /\ checkpoints'[r].number <= MaxHeight
              /\ checkpoints'[r].number = 0 => checkpoints'[r] = NoBlock
    <3>1. /\ checkpoints \in [Streams -> Blocks]
          /\ checkpoints' = [checkpoints EXCEPT ![s] = Block(to)]
          /\ \A r \in Streams : /\ checkpoints[r].number <= MaxHeight
                                /\ checkpoints[r].number = 0 => checkpoints[r] = NoBlock
      BY <1>0, <1>1 DEF Batch, DatabaseOK
    <3>2. chain[to].fork \in Nat
      BY <1>0, Heights
    <3>3. Block(to) \in Blocks /\ Block(to).number = to /\ to # 0 /\ to <= MaxHeight
      BY <1>0, <3>2 DEF Block, Blocks
    <3>4. \A r \in Streams : checkpoints'[r] = IF r = s THEN Block(to) ELSE checkpoints[r]
      BY <1>0, <3>1
    <3>5. checkpoints' \in [Streams -> Blocks]
      BY <3>1, <3>3
    <3> QED BY <3>1, <3>3, <3>4, <3>5
  <2>2. /\ rows' \in [Events -> Blocks] /\ \A tx \in Events : rows'[tx].number <= MaxHeight
        /\ \A tx \in Events : rows'[tx].number = 0 => rows'[tx] = NoBlock
    BY <1>1, BatchRows
  <2>3. account' \in 0 .. MaxHeight
    <3>1. account \in 0 .. MaxHeight
      BY <1>0 DEF DatabaseOK
    <3>2. account' = IF "activate" \in logs THEN Most(account, BlockOf("activate")) ELSE account
      BY <1>1 DEF Batch
    <3>3. "activate" \in logs => BlockOf("activate") \in 0 .. MaxHeight
      BY <1>0, <1>4
    <3> QED BY <3>1, <3>2, <3>3 DEF Most
  <2>4. /\ opportunities' \in [block : Nat, canonical : BOOLEAN]
        /\ opportunities'.block \in 0 .. MaxHeight
    <3>1. /\ opportunities \in [block : Nat, canonical : BOOLEAN]
          /\ opportunities.block \in 0 .. MaxHeight
      BY <1>0 DEF DatabaseOK
    <3>2. opportunities' = IF "sell" \in logs
                           THEN [block |-> BlockOf("sell"), canonical |-> TRUE] ELSE opportunities
      BY <1>1 DEF Batch
    <3>3. "sell" \in logs => BlockOf("sell") \in Nat /\ BlockOf("sell") \in 0 .. MaxHeight
      BY <1>0, <1>4
    <3> QED BY <3>1, <3>2, <3>3
  <2>5. cleared' \in BOOLEAN
    BY <1>1 DEF Batch
  <2>6. /\ owner' \in [to : {None, "buyer", "seller"}, block : Nat]
        /\ owner'.to = None <=> owner'.block = 0
        /\ owner'.block \in 0 .. MaxHeight
    <3>1. owner' \in [to : {None, "buyer", "seller"}, block : Nat] /\ owner'.block <= MaxHeight
          /\ (owner'.to = None <=> owner'.block = 0)
      BY <1>23 DEF OwnerFits
    <3> QED BY <1>0, <3>1
  <2>7. purchases' \in Nat /\ account' \in Nat
        /\ {purchases', account', owner'.block, opportunities'.block} \subseteq 0 .. MaxHeight
    BY <1>0, <1>15, <2>3, <2>4, <2>6
  <2> QED BY <2>1, <2>2, <2>4, <2>5, <2>6, <2>7 DEF DatabaseOK
<1> QED BY <1>2, <1>10, <1>11, <1>12, <1>16, <1>23, <1>24 DEF IInv

-----------------------------------------------------------------------------
LEMMA StutterStep == ASSUME IndexerAssumption, IInv, UNCHANGED vars PROVE IInv'
<1>1. UNCHANGED <<chain, fork, database, requested, run, faults>>
  BY DEF vars
<1>2. RunOK /\ DatabaseOK
  BY DEF IInv
<1>3. RunOK'
  BY <1>1, <1>2 DEF RunOK, Requested, Replaced, Canonical, Block, Height, FirstOf, stream, database
<1>4. \A k \in Int : Doomed(k) => Doomed(k)'
  BY <1>1 DEF Doomed, Consistent, Replaced, Canonical, Block, Height, database
<1>5. \A s \in Streams : ReadTo(s) \in Int /\ ReadTo(s)' \in Int /\ ReadTo(s)' <= ReadTo(s)
  <2>1. \A s \in Streams : ReadTo(s)' = ReadTo(s)
    BY <1>1 DEF ReadTo, stream, database
  <2>2. \A s \in Streams : ReadTo(s) \in Int
    BY <1>2, ReadToTyped
  <2> QED BY <2>1, <2>2
<1> QED BY <1>1, <1>3, <1>4, <1>5, RunMoves

LEMMA IInvHolds == Spec => []IInv
<1> USE IndexerAssumption
<1>1. Init => IInv
  BY InitIInv
<1>2. IInv /\ [Next]_vars => IInv'
  <2> SUFFICES ASSUME IInv, [Next]_vars PROVE IInv'
    OBVIOUS
  <2>1. CASE Grow
    BY <2>1, GrowStep
  <2>2. CASE Reorganise
    BY <2>2, ReorganiseStep
  <2>3. CASE Read
    BY <2>3, ReadStep
  <2>4. CASE ReadFails
    <3>1. requested' = requested /\ faults' \in Nat /\ run' = Idle
          /\ UNCHANGED <<chain, fork, database>>
      BY <2>4 DEF ReadFails, IInv, RunOK
    <3> QED BY <3>1, EndStep
  <2>5. CASE Rewind
    BY <2>5, RewindStep
  <2>6. CASE Insert
    BY <2>6, InsertStep
  <2>7. CASE Fail
    <3>1. requested' = requested /\ faults' \in Nat /\ run' = Idle
          /\ UNCHANGED <<chain, fork, database>>
      BY <2>7 DEF Fail, IInv, RunOK
    <3> QED BY <3>1, EndStep
  <2>8. CASE UNCHANGED vars
    BY <2>8, StutterStep
  <2> QED BY <2>1, <2>2, <2>3, <2>4, <2>5, <2>6, <2>7, <2>8 DEF Next, Work
<1> QED BY <1>1, <1>2, PTL DEF Spec

(* Blocks stay heights and a run between its first block and its head,     *)
(* for any window: a rewind near the first blocks does not go below them   *)
(* (FirstOf, reorg-indexer).                                               *)
THEOREM IndexTypes == Spec => []IndexerTypeOK
<1>1. ASSUME IndexerAssumption, IInv PROVE IndexerTypeOK
  <2>1. DatabaseOK /\ RunOK /\ stream \in Requested /\ MaxHeight \in Nat
    BY <1>1, StreamIs, Numbers DEF IInv
  <2>2. /\ \A s \in Streams : checkpoints[s].number \in 0 .. MaxHeight
        /\ \A tx \in Txs : rows[tx].number \in 0 .. MaxHeight
    BY <2>1, Names DEF DatabaseOK, Blocks
  <2>3. /\ run.at # "read" => run.next >= StartBlock
        /\ run.at = "insert" => run.next <= run.head
    BY <2>1 DEF RunOK
  <2>4. /\ {purchases, account, owner.block, opportunities.block} \subseteq 0 .. MaxHeight
        /\ owner.to = None <=> owner.block = 0
    BY <2>1 DEF DatabaseOK
  <2> QED BY <2>1, <2>2, <2>3, <2>4 DEF IndexerTypeOK
<1> QED BY <1>1, IndexerAssumption, IInvHolds, PTL

(* Once the reorganisation has been seen, every row is the chain's at its  *)
(* block and none is missing up to a checkpoint, whichever stream saw it,  *)
(* however long the batches and the window are and wherever jobs died.     *)
THEOREM RowsAreTrue == Spec => []RowsAreTheChains
<1>1. ASSUME IndexerAssumption, IInv PROVE RowsAreTheChains
  <2> SUFFICES ASSUME Consistent
               PROVE  /\ \A tx \in Txs : rows[tx] # NoBlock =>
                             tx \in Mined /\ rows[tx] = Block(BlockOf(tx))
                      /\ \A s \in Streams : \A tx \in Logs(s, StartBlock, checkpoints[s].number) :
                             rows[tx] # NoBlock
    BY DEF RowsAreTheChains
  <2>1. /\ \A k : ~ Doomed(k)
        /\ \A tx \in Events : rows[tx] # NoBlock => True(tx)
        /\ \A s \in Streams : ReadTo(s) \in Int /\ ReadTo(s) <= Height
    BY <1>1, WhenConsistent
  <2>2. ChainOK /\ DatabaseOK /\ RunOK /\ Height \in Nat
    BY <1>1, Heights DEF IInv
  <2>3. \A s \in Streams : checkpoints[s].number \in Nat /\ checkpoints[s].number <= ReadTo(s)
    BY <1>1, <2>2, ReadToTyped, CheckpointsTyped
  <2>4. ASSUME NEW s \in Streams, NEW tx \in Logs(s, StartBlock, checkpoints[s].number)
        PROVE  rows[tx] # NoBlock
    <3>1. PICK to \in Int : to = checkpoints[s].number /\ to <= Height /\ to <= ReadTo(s)
      BY <2>1, <2>2, <2>3
    <3>2. Logs(s, 1, to) = {t \in Mined : StreamOf[t] = s /\ 1 <= BlockOf(t) /\ BlockOf(t) <= to}
      <4>1. 1 \in Nat \ {0}
        OBVIOUS
      <4> QED BY <2>2, <3>1, <4>1, LogsAre
    <3>3. tx \in Mined /\ StreamOf[tx] = s /\ BlockOf(tx) <= to
      BY <2>4, <3>1, <3>2 DEF StartBlock
    <3>4. BlockOf(tx) <= ReadTo(StreamOf[tx])
      <4>1. BlockOf(tx) \in Int
        BY <2>2, <3>3, BlockIs
      <4> QED BY <2>1, <3>1, <3>3, <4>1
    <3> QED BY <1>1, <2>1, <3>3, <3>4 DEF IInv, NothingMissing
  <2> QED BY <2>1, <2>4, Names DEF True
<1> QED BY <1>1, IndexerAssumption, IInvHolds, PTL

(* What is derived follows the rows: the owner is the chain's at the       *)
(* checkpoint of the transfers unless a rewind cleared it, opportunities   *)
(* count while their sale is kept, and purchases are listed when their     *)
(* account is known, in whatever order the streams are read.               *)
THEOREM ProjectionsAreTrue == Spec => []ProjectionsFollow
<1>1. ASSUME IndexerAssumption, IInv PROVE ProjectionsFollow
  <2> SUFFICES ASSUME Consistent
               PROVE  /\ ~ cleared /\ owner.to # None /\ owner.block <= checkpoints["transfers"].number
                         => owner.to = OwnerAt(checkpoints["transfers"].number)
                      /\ opportunities.canonical <=> rows["sell"] # NoBlock
                      /\ account = rows["activate"].number
                      /\ account # 0 /\ rows["buy"] # NoBlock => purchases = rows["buy"].number
                      /\ purchases # 0 => rows["buy"].number = purchases
    BY DEF ProjectionsFollow
  <2>1. /\ \A k : ~ Doomed(k)
        /\ \A s \in Streams : ReadTo(s) \in Int /\ ReadTo(s) <= Height
    BY <1>1, WhenConsistent
  <2>2. \A k : \A tx \in Events : Follows(k, tx) => k = rows[tx].number
    BY <2>1 DEF Follows
  <2>3. /\ opportunities.canonical <=> rows["sell"] # NoBlock
        /\ account = rows["activate"].number
        /\ account # 0 /\ rows["buy"] # NoBlock => purchases = rows["buy"].number
        /\ purchases # 0 => rows["buy"].number = purchases
    BY <1>1, <2>2 DEF IInv, DerivedFollow, Events
  <2>4. ASSUME ~ cleared, owner.to # None, owner.block <= checkpoints["transfers"].number
        PROVE  owner.to = OwnerAt(checkpoints["transfers"].number)
    <3>1. ChainOK /\ DatabaseOK /\ RunOK /\ "transfers" \in Streams
      BY <1>1 DEF IInv, Streams
    <3>2. PICK t : t = checkpoints["transfers"].number
      OBVIOUS
    <3>3. t \in Int /\ t <= ReadTo("transfers") /\ t <= Height
      <4>1. t \in Nat /\ t <= ReadTo("transfers")
        BY <1>1, <3>1, <3>2, ReadToTyped, CheckpointsTyped
      <4> QED BY <2>1, <3>1, <4>1, Heights
    <3>4. PICK k \in Nat : k = owner.block /\ k # 0 /\ k <= t
      BY <2>4, <3>1, <3>2 DEF DatabaseOK
    <3>5. k \in 1 .. Height /\ k \in Int /\ k <= Height /\ k - 1 \in Int /\ k - 1 <= Height
      BY <3>1, <3>3, <3>4, Heights
    <3>6. \A tx \in Transfers \cap Mined : /\ BlockOf(tx) \in Nat
                                           /\ BlockOf(tx) <= t => BlockOf(tx) <= k
      <4>1. \A tx \in Mined : BlockOf(tx) \in Nat
        BY <3>1, BlockIs, Heights
      <4>2. \A tx \in Transfers \cap Mined : BlockOf(tx) <= ReadTo("transfers") => BlockOf(tx) <= k
        BY <1>1, <2>1, <2>4, <3>4 DEF IInv, TransfersCounted
      <4>3. ReadTo("transfers") \in Int
        BY <2>1, <3>1
      <4> QED BY <3>3, <4>1, <4>2, <4>3
    <3>7. {tx \in Transfers \cap Mined : BlockOf(tx) <= t}
            = {tx \in Transfers \cap Mined : BlockOf(tx) <= k}
      BY <3>3, <3>4, <3>6
    <3>8. OwnerAt(t) = OwnerAt(k)
      <4>1. /\ OwnerAt(t) \in {"buyer", "seller"}
            /\ OwnerAt(t) = "buyer" <=> {tx \in Transfers \cap Mined : BlockOf(tx) <= t} = {"give"}
        BY <3>1, <3>3, OwnersAre
      <4>2. /\ OwnerAt(k) \in {"buyer", "seller"}
            /\ OwnerAt(k) = "buyer" <=> {tx \in Transfers \cap Mined : BlockOf(tx) <= k} = {"give"}
        BY <3>1, <3>5, OwnersAre
      <4> QED BY <3>7, <4>1, <4>2
    <3>9. \/ owner.to = OwnerAt(k)
          \/ /\ owner.to = OwnerAt(k - 1)
             /\ k <= ReadTo("transfers") => chain[k].txs \cap Transfers = {}
      BY <1>1, <2>1, <2>4, <3>4 DEF IInv, OwnerTrue
    <3>10. CASE owner.to = OwnerAt(k)
      BY <3>2, <3>8, <3>10
    <3>11. CASE owner.to = OwnerAt(k - 1) /\ (k <= ReadTo("transfers") => chain[k].txs \cap Transfers = {})
      <4>1. chain[k].txs \cap Transfers = {}
        <5>1. ReadTo("transfers") \in Int
          BY <2>1, <3>1
        <5> QED BY <3>3, <3>4, <3>11, <5>1
      <4>2. \A tx \in Transfers \cap Mined : BlockOf(tx) # k
        BY <3>1, <4>1, BlockIs
      <4>3. {tx \in Transfers \cap Mined : BlockOf(tx) <= k}
              = {tx \in Transfers \cap Mined : BlockOf(tx) <= k - 1}
        BY <3>4, <3>6, <4>2
      <4>4. OwnerAt(k - 1) = OwnerAt(k)
        <5>1. /\ OwnerAt(k - 1) \in {"buyer", "seller"}
              /\ OwnerAt(k - 1) = "buyer"
                   <=> {tx \in Transfers \cap Mined : BlockOf(tx) <= k - 1} = {"give"}
          BY <3>1, <3>5, OwnersAre
        <5>2. /\ OwnerAt(k) \in {"buyer", "seller"}
              /\ OwnerAt(k) = "buyer" <=> {tx \in Transfers \cap Mined : BlockOf(tx) <= k} = {"give"}
          BY <3>1, <3>5, OwnersAre
        <5> QED BY <4>3, <5>1, <5>2
      <4> QED BY <3>2, <3>8, <3>11, <4>4
    <3> QED BY <3>9, <3>10, <3>11
  <2> QED BY <2>3, <2>4
<1> QED BY <1>1, IndexerAssumption, IInvHolds, PTL
=============================================================================
