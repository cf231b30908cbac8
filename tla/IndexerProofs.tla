---------------------------- MODULE IndexerProofs ----------------------------
(***************************************************************************)
(* The indexer, for every block tree, batch size and number of              *)
(* reorganisations and faults: type correctness, INVARIANT I, the tip        *)
(* mirror, that the block table implements a pointer into the tree, that     *)
(* find_fork finds the fork, that the audit trail adds up, that the rows are *)
(* those the indexed blocks imply, and that the self checks never fire.      *)
(***************************************************************************)
EXTENDS Indexer, SumTheorems, SequenceTheorems, TLAPS

\* What the node answers is a block or None.
LEMMA NodeAnswers ==
  ASSUME TypeOK, NEW h \in Heights
  PROVE  /\ ActiveChain \in Seq(Block)
         /\ Len(ActiveChain) \in Nat \ {0}
         /\ NodeHashAt(0) \in Block
         /\ h \in Nat => NodeHashAt(h) \in Hash
<1>1. nodeTip \in Block
  BY DEF TypeOK
<1>2. ActiveChain \in Seq(Block) /\ ActiveChain # <<>>
  BY <1>1, ChainAssumption DEF ActiveChain
<1>3. Len(ActiveChain) \in Nat \ {0}
  BY <1>2
<1>4. NodeHashAt(0) \in Block
  BY <1>2, <1>3 DEF NodeHashAt
<1>5. ASSUME h \in Nat PROVE NodeHashAt(h) \in Hash
  BY <1>2, <1>3, <1>5 DEF NodeHashAt, Hash
<1>6. QED
  BY <1>2, <1>3, <1>4, <1>5

\* The tip of a block table is a height and a hash.
LEMMA TipType ==
  ASSUME NEW d \in Databases
  PROVE  Tip(d) \in Heights /\ TipHash(d) \in Hash /\ Len(d.blocks) \in Nat
BY DEF Databases, Tip, TipHash, Heights, Hash

\* Leaving sync_once resets its locals to values of their types.
LEMMA ReturnTyped ==
  ASSUME Return("idle")
  PROVE  /\ pc' = "idle" /\ nodeHeight' \in Heights /\ nodeHash' \in Hash /\ repolls' \in Nat
         /\ hashes' \in Seq(Hash) /\ raws' \in Raws /\ cause' \in {"none", "link", "not shorter"}
         /\ search' \in Searches /\ reorg' \in Reorgs
BY DEF Return, NoSearch, NoReorg, Heights, Searches, Reorgs, Hash, Raws

\* One applied block, one unwound block and the other writes keep the type.
LEMMA AppliedDbType ==
  ASSUME NEW d \in Databases, NEW b \in Block
  PROVE  /\ AppliedDb(d, b) \in Databases
         /\ AppliedDb(d, b).blocks = Append(d.blocks, b)
<1>1. d.blocks \in Seq(Block) /\ Len(d.blocks) \in Nat
  BY DEF Databases
<1>2. Append(d.blocks, b) \in Seq(Block) /\ Len(d.blocks) \in Heights /\ b \in Hash
  BY <1>1 DEF Heights, Hash
<1>3. QED
  BY <1>2 DEF Databases, AppliedDb

\* Unwinding keeps the database in its type and cuts the table by one block.
LEMMA UnwoundDbType ==
  ASSUME NEW d \in Databases, d.blocks # <<>>
  PROVE  /\ UnwoundDb(d) \in Databases
         /\ UnwoundDb(d).blocks = SubSeq(d.blocks, 1, Len(d.blocks) - 1)
<1> DEFINE left == SubSeq(d.blocks, 1, Len(d.blocks) - 1)
           last == IF left = <<>> THEN NoBlock ELSE left[Len(left)]
           gone == d.orphaned \cup {TipHash(d)}
           more == d.unwound + 1
<1>1. d.blocks \in Seq(Block) /\ Len(d.blocks) \in Nat /\ Len(d.blocks) >= 1
  BY DEF Databases
<1>2. left \in Seq(Block) /\ Len(left) = Len(d.blocks) - 1
  BY <1>1
<1>3. gone \in SUBSET Block /\ more \in Nat
  BY <1>1 DEF TipHash, Databases
<1>4. last \in Hash
  BY <1>1, <1>2 DEF Hash
<1>5. Len(left) - 1 \in Heights
  BY <1>1, <1>2 DEF Heights
<1>6. UnwoundDb(d) = [d EXCEPT !.blocks = left, !.orphaned = gone,
                !.indexedHeight = Len(left) - 1, !.indexedHash = last, !.unwound = more]
  BY DEF UnwoundDb
<1> HIDE DEF left, last, gone, more
<1>7. UnwoundDb(d) \in Databases /\ UnwoundDb(d).blocks = left
  BY <1>2, <1>3, <1>4, <1>5, <1>6 DEF Databases
<1>8. QED
  BY <1>7 DEF left

\* Setting scalar fields of the database keeps its type.
LEMMA MirrorWriteType ==
  ASSUME NEW d \in Databases, NEW h \in Heights, NEW b \in Hash
  PROVE  [d EXCEPT !.indexedHeight = h, !.indexedHash = b] \in Databases
BY DEF Databases, Hash

\* Writing the genesis hash keeps the database in its type.
LEMMA GenesisWriteType ==
  ASSUME NEW d \in Databases, NEW b \in Block
  PROVE  [d EXCEPT !.genesis = b] \in Databases
BY DEF Databases, Hash

\* The two writes to reorg_log.
LEMMA OpenRowType ==
  ASSUME NEW d \in Databases, NEW row \in LogRow
  PROVE  /\ [d EXCEPT !.reorgLog = Append(@, row), !.reorgCount = @ + 1] \in Databases
         /\ [d EXCEPT !.reorgLog = Append(@, row), !.reorgCount = @ + 1].blocks = d.blocks
<1>1. Append(d.reorgLog, row) \in Seq(LogRow) /\ d.reorgCount + 1 \in Nat
  BY DEF Databases, LogRow
<1>2. QED
  BY <1>1 DEF Databases, LogRow

\* Closing a row of reorg_log keeps the database in its type.
LEMMA CloseRowType ==
  ASSUME NEW d \in Databases, NEW i \in Nat, NEW n \in Nat, NEW t \in Int
  PROVE  [d EXCEPT !.reorgLog[i] = [@ EXCEPT !.new = t, !.unwound = n]] \in Databases
<1> DEFINE row == [d.reorgLog[i] EXCEPT !.new = t, !.unwound = n]
           log == [d.reorgLog EXCEPT ![i] = row]
<1>1. d.reorgLog \in Seq(LogRow)
  BY DEF Databases
<1>2. ASSUME i \in DOMAIN d.reorgLog PROVE row \in LogRow
  <2>1. d.reorgLog[i] \in LogRow
    BY <1>1, <1>2
  <2>2. ASSUME NEW r \in LogRow
        PROVE  [r EXCEPT !.new = t, !.unwound = n] \in LogRow
    <3>1. [r EXCEPT !.new = t] \in LogRow
      BY DEF LogRow
    <3>2. \A q \in LogRow : [q EXCEPT !.unwound = n] \in LogRow
      BY DEF LogRow
    <3>3. QED
      BY <3>1, <3>2
  <2>3. QED
    BY <2>1, <2>2
<1> HIDE DEF row
<1>3. log \in Seq(LogRow)
  <2>1. DOMAIN log = 1..Len(d.reorgLog) /\ Len(d.reorgLog) \in Nat
    BY <1>1
  <2>2. \A j \in 1..Len(d.reorgLog) : log[j] \in LogRow
    BY <1>1, <1>2
  <2>3. log \in [1..Len(d.reorgLog) -> LogRow]
    BY <2>1, <2>2
  <2> HIDE DEF log
  <2>4. QED
    BY <2>1, <2>3, SeqDef
<1>4. [d EXCEPT !.reorgLog[i] = [@ EXCEPT !.new = t, !.unwound = n]]
        = [d EXCEPT !.reorgLog = log]
  BY DEF Databases, row
<1> HIDE DEF log
<1>5. QED
  BY <1>3, <1>4 DEF Databases

\* find_fork's and handle_reorg's locals start in their types.
LEMMA BeginReorgTyped ==
  ASSUME TypeOK, NEW why \in {"link", "not shorter"}, BeginReorg(why)
  PROVE  /\ cause' = why /\ steady' = TRUE /\ pc' \in {"log", "top"}
         /\ search' \in Searches
         /\ reorg' \in Reorgs
<1>1. Tip(db) \in Heights /\ nodeHeight \in Heights
  BY TipType DEF TypeOK
<1>2. QED
  BY <1>1 DEF BeginReorg, NoSearch, NoReorg, Heights, Searches, Reorgs

\* So do they when find_fork returns.
LEMMA ForkFoundTyped ==
  ASSUME TypeOK, NEW h \in Heights, ForkFound(h)
  PROVE  /\ pc' = "log"
         /\ search' \in Searches
         /\ reorg' \in Reorgs
BY DEF ForkFound, NoSearch, Heights, TypeOK, Searches, Reorgs

\* Every step of the indexer, of the node and of the disk keeps the types.
LEMMA TypeStep == TypeOK /\ [Next]_vars => TypeOK'
<1> SUFFICES ASSUME TypeOK, [Next]_vars PROVE TypeOK'
  OBVIOUS
<1> USE DEF node, disk, fetch
<1>0. /\ db \in Databases /\ savedDb \in Databases /\ Tip(db) \in Heights
      /\ TipHash(db) \in Hash /\ raws \in Raws /\ search \in Searches /\ reorg \in Reorgs
      /\ hashes \in Seq(Hash) /\ genesisHash \in Hash
  BY TipType DEF TypeOK
<1>c. moves \in Nat /\ faults \in Nat /\ repolls \in Nat
  BY DEF TypeOK
<1>a. NoBlock \in Hash /\ Block \subseteq Hash /\ -1 \in Heights /\ <<>> \in Raws
      /\ <<>> \in Seq(Hash)
  BY DEF Hash, Heights, Raws
<1>b. Observed \in Block /\ Len(ActiveChain) - 1 \in Heights
  <2>1. NodeHashAt(0) \in Block /\ Len(ActiveChain) \in Nat \ {0}
    BY NodeAnswers, <1>a
  <2>2. QED
    BY <2>1, <1>0 DEF Observed, Heights, Hash
<1>1. CASE PollNode
  <2>1. db' \in Databases
    BY <1>0, <1>1, <1>b, GenesisWriteType DEF PollNode, Observe
  <2>2. QED
    BY <1>1, <1>a, <1>b, <2>1 DEF PollNode, Observe, TypeOK, Steps
<1>2. CASE Repoll
  <2>1. db' \in Databases
    BY <1>0, <1>2, <1>b, GenesisWriteType DEF Repoll, Observe
  <2>2. QED
    <3>1. repolls' \in Nat
      BY <1>2, <1>c DEF Repoll
    <3>2. QED
      BY <1>2, <1>a, <1>b, <2>1, <3>1 DEF Repoll, Observe, TypeOK, Steps
<1>3. CASE RefuseWrongChain
  <2>1. Return("idle")
    BY <1>3 DEF RefuseWrongChain
  <2>2. QED
    BY <1>3, <1>a, <2>1, ReturnTyped DEF RefuseWrongChain, TypeOK, Steps
<1>4. CASE Finish
  <2>1. db' \in Databases
    BY <1>4, <1>0, MirrorWriteType DEF Finish
  <2>2. QED
    <3>1. Return("idle")
      BY <1>4 DEF Finish
    <3>2. QED
      BY <1>4, <1>a, <2>1, <3>1, ReturnTyped DEF Finish, TypeOK, Steps
<1>5. CASE IndexNotShorter
  <2>1. BeginReorg("not shorter")
    BY <1>5 DEF IndexNotShorter
  <2>2. QED
    BY <1>5, <2>1, BeginReorgTyped DEF IndexNotShorter, TypeOK, Steps
<1>6. CASE StartFetch
  BY <1>6, <1>a DEF StartFetch, TypeOK, Steps
<1>7. CASE FetchHash
  <2>1. Tip(db) + 1 + Len(hashes) \in Nat
    BY <1>0 DEF Heights
  <2>2. NodeHashAt(Tip(db) + 1 + Len(hashes)) \in Hash
    BY <2>1, NodeAnswers DEF Heights
  <2>3. hashes' \in Seq(Hash)
    BY <1>0, <1>7, <2>2 DEF FetchHash
  <2>4. QED
    BY <1>7, <2>3 DEF FetchHash, TypeOK
<1>8. CASE HashesDone
  <2>1. NoBlock \notin Range(hashes) => hashes \in Seq(Block)
    <3>1. SUFFICES ASSUME NoBlock \notin Range(hashes) PROVE hashes \in Seq(Block)
      OBVIOUS
    <3>2. hashes \in [1..Len(hashes) -> Hash] /\ Len(hashes) \in Nat
      BY <1>0
    <3>3. \A i \in 1..Len(hashes) : hashes[i] \in Block
      BY <3>1, <3>2 DEF Range, Hash
    <3>4. hashes \in [1..Len(hashes) -> Block]
      BY <3>2, <3>3
    <3>5. QED
      BY <3>2, <3>4, SeqDef
  <2>2. QED
    BY <1>8, <2>1 DEF HashesDone, TypeOK, Steps
<1>9. CASE FetchBody
  <2>1. hashes \in Seq(Block)
    BY <1>9 DEF FetchBody, TypeOK
  <2>2. hashes[Len(raws) + 1] \in Block
    <3>1. Len(raws) \in Nat
      BY <1>0 DEF Raws
    <3>2. QED
      BY <1>9, <2>1, <3>1 DEF FetchBody
  <2>3. Confirmations(hashes[Len(raws) + 1]) \in Int
    BY DEF Confirmations
  <2>4. raws' \in Raws
    BY <1>9, <1>0, <2>2, <2>3 DEF FetchBody, Raws
  <2>5. QED
    BY <1>9, <2>4 DEF FetchBody, TypeOK
<1>10. CASE BodiesDone
  BY <1>10 DEF BodiesDone, TypeOK, Steps
<1>11. CASE ApplyBlock
  <2>1. Head(raws).hash \in Block /\ Tail(raws) \in Raws
    <3>1. raws # <<>>
      BY <1>11 DEF ApplyBlock
    <3>2. Head(raws) \in [hash : Block, confirmations : Int] /\ Tail(raws) \in Raws
      BY <1>0, <3>1, HeadTailProperties DEF Raws
    <3>3. QED
      BY <3>2
  <2>2. db' \in Databases
    BY <1>0, <1>11, <2>1, AppliedDbType DEF ApplyBlock
  <2>3. QED
    BY <1>11, <2>1, <2>2 DEF ApplyBlock, TypeOK
<1>12. CASE BatchApplied
  BY <1>12, <1>a DEF BatchApplied, TypeOK, Steps
<1>13. CASE BlockWentInactive
  BY <1>13 DEF BlockWentInactive, TypeOK, Steps
<1>14. CASE BlockDoesNotLink
  <2>1. BeginReorg("link")
    BY <1>14 DEF BlockDoesNotLink
  <2>2. QED
    BY <1>14, <1>a, <2>1, BeginReorgTyped DEF BlockDoesNotLink, TypeOK, Steps
<1>15. CASE GenesisRefused
  <2>1. Return("idle")
    BY <1>15 DEF GenesisRefused
  <2>2. QED
    BY <1>15, <1>a, <2>1, ReturnTyped DEF GenesisRefused, TypeOK, Steps
<1>16. CASE ProbeTop
  <2>1. search.hi \in Heights
    BY <1>0 DEF Searches
  <2>2. CASE Matches(search.hi)
    <3>1. ForkFound(search.hi)
      BY <1>16, <2>2 DEF ProbeTop
    <3>2. QED
      BY <1>16, <2>1, <3>1, ForkFoundTyped DEF ProbeTop, TypeOK, Steps
  <2>3. CASE ~Matches(search.hi)
    <3>1. search' \in Searches /\ pc' = "down" /\ reorg' = reorg
      <4>1. search' = [search EXCEPT !.bad = search.hi, !.step = 1]
        BY <1>16, <2>3 DEF ProbeTop
      <4>2. pc' = "down" /\ reorg' = reorg
        BY <1>16, <2>3 DEF ProbeTop
      <4>3. QED
        BY <1>0, <2>1, <4>1, <4>2 DEF Searches
    <3>2. QED
      BY <1>16, <2>3, <3>1 DEF ProbeTop, TypeOK, Steps
  <2>4. QED
    BY <2>2, <2>3
<1>17. CASE ProbeDown
  <2> DEFINE p == IF search.hi - search.step < 0 THEN 0 ELSE search.hi - search.step
  <2>1. p \in Heights /\ 2 * search.step \in Nat
    BY <1>0 DEF Searches, Heights
  <2>2. CASE Matches(p)
    <3>1. search' \in Searches /\ pc' = "bisect"
      BY <1>0, <1>17, <2>1, <2>2 DEF ProbeDown, Searches
    <3>2. QED
      BY <1>17, <2>2, <3>1 DEF ProbeDown, TypeOK, Steps
  <2>3. CASE ~Matches(p) /\ p = 0
    <3>1. ForkFound(-1)
      BY <1>17, <2>3 DEF ProbeDown
    <3>2. QED
      BY <1>17, <1>a, <3>1, ForkFoundTyped DEF ProbeDown, TypeOK, Steps
  <2>4. CASE ~Matches(p) /\ p # 0
    <3>1. search' \in Searches /\ pc' = pc /\ reorg' = reorg
      BY <1>0, <1>17, <2>1, <2>4 DEF ProbeDown, Searches
    <3>2. QED
      BY <1>17, <2>4, <3>1 DEF ProbeDown, TypeOK
  <2>5. QED
    BY <2>2, <2>3, <2>4
<1>18. CASE Bisect
  <2> DEFINE mid == (search.lo + search.bad) \div 2
  <2>1. search.lo \in Heights /\ mid \in Heights
    BY <1>0 DEF Searches, Heights
  <2>2. CASE search.bad - search.lo > 1
    <3>1. search' \in Searches /\ pc' = pc /\ reorg' = reorg
      BY <1>0, <1>18, <2>1, <2>2 DEF Bisect, Searches
    <3>2. QED
      BY <1>18, <3>1 DEF Bisect, TypeOK
  <2>3. CASE ~(search.bad - search.lo > 1)
    <3>1. ForkFound(search.lo)
      BY <1>18, <2>3 DEF Bisect
    <3>2. QED
      BY <1>18, <2>1, <3>1, ForkFoundTyped DEF Bisect, TypeOK, Steps
  <2>4. QED
    BY <2>2, <2>3
<1>19. CASE OpenReorgLog
  <2>1. [fork |-> reorg.fork, old |-> reorg.old, new |-> Unset,
         unwound |-> reorg.old - reorg.fork] \in LogRow
    BY <1>0 DEF Reorgs, LogRow, Heights, Unset
  <2>2. db' \in Databases
    BY <1>0, <1>19, <2>1, OpenRowType DEF OpenReorgLog
  <2>3. Len(db.reorgLog) + 1 \in Nat
    BY <1>0 DEF Databases
  <2>4. reorg' \in Reorgs
    BY <1>0, <1>19, <2>3 DEF OpenReorgLog, Reorgs
  <2>5. QED
    BY <1>19, <2>2, <2>4 DEF OpenReorgLog, TypeOK, Steps
<1>20. CASE UnwindBlock
  <2>1. reorg.fork \in Heights
    BY <1>0 DEF Reorgs
  <2>2. db.blocks # <<>>
    BY <1>0, <1>20, <2>1 DEF UnwindBlock, Tip, Heights, Databases
  <2>3. db' \in Databases
    BY <1>0, <1>20, <2>2, UnwoundDbType DEF UnwindBlock
  <2>4. reorg' \in Reorgs
    BY <1>0, <1>20 DEF UnwindBlock, Reorgs
  <2>5. QED
    BY <1>20, <2>3, <2>4 DEF UnwindBlock, TypeOK
<1>21. CASE CloseReorgLog
  <2>1. reorg.logId \in Nat /\ reorg.n \in Nat /\ Tip(db) \in Int
    BY <1>0 DEF Reorgs, Heights
  <2>2. db' \in Databases
    BY <1>0, <1>21, <2>1, CloseRowType DEF CloseReorgLog
  <2>3. NoReorg \in Reorgs
    BY <1>a DEF NoReorg, Reorgs
  <2>4. QED
    BY <1>21, <2>2, <2>3 DEF CloseReorgLog, TypeOK, Steps
<1>22. CASE NodeMoves
  <2>1. nodeTip' \in Block /\ steady' \in BOOLEAN
    BY <1>22 DEF NodeMoves
  <2>2. moves' \in Nat /\ moves' <= MaxMoves
    BY <1>22, <1>c, BoundsAssumption DEF NodeMoves
  <2>3. QED
    BY <1>22, <2>1, <2>2 DEF NodeMoves, TypeOK
<1>23. CASE Checkpoint
  BY <1>23 DEF Checkpoint, TypeOK
<1>24. CASE RpcFails
  <2>1. Return("idle")
    BY <1>24 DEF RpcFails
  <2>2. faults' \in Nat /\ faults' <= MaxFaults
    BY <1>24, <1>c, BoundsAssumption DEF RpcFails
  <2>3. QED
    BY <1>24, <1>a, <2>1, <2>2, ReturnTyped DEF RpcFails, TypeOK, Steps
<1>25. CASE Killed
  <2>1. Return("idle")
    BY <1>25 DEF Killed
  <2>2. faults' \in Nat /\ faults' <= MaxFaults
    BY <1>25, <1>c, BoundsAssumption DEF Killed
  <2>3. QED
    BY <1>25, <1>a, <2>1, <2>2, ReturnTyped DEF Killed, TypeOK, Steps
<1>26. CASE PowerCut
  <2>1. Return("idle")
    BY <1>26 DEF PowerCut
  <2>2. faults' \in Nat /\ faults' <= MaxFaults
    BY <1>26, <1>c, BoundsAssumption DEF PowerCut
  <2>3. QED
    BY <1>26, <1>a, <2>1, <2>2, ReturnTyped DEF PowerCut, TypeOK, Steps
<1>27. CASE UNCHANGED vars
  BY <1>27 DEF vars, TypeOK
<1>28. QED
  BY <1>1, <1>2, <1>3, <1>4, <1>5, <1>6, <1>7, <1>8, <1>9, <1>10, <1>11, <1>12, <1>13,
     <1>14, <1>15, <1>16, <1>17, <1>18, <1>19, <1>20, <1>21, <1>22, <1>23, <1>24, <1>25,
     <1>26, <1>27 DEF Next, SyncStep

\* The types hold at the start.
LEMMA TypeInit == Init => TypeOK
<1> SUFFICES ASSUME Init PROVE TypeOK
  OBVIOUS
<1>1. NoBlock \in Hash /\ -1 \in Heights /\ <<>> \in Raws /\ <<>> \in Seq(Hash)
  BY DEF Hash, Heights, Raws
<1>2. EmptyDb \in Databases /\ NoSearch \in Searches /\ NoReorg \in Reorgs
  BY <1>1 DEF EmptyDb, Databases, NoSearch, Searches, NoReorg, Reorgs
<1>3. QED
  BY <1>1, <1>2, BoundsAssumption DEF Init, TypeOK, Steps

\* Every field of the index, and every local of sync_once, find_fork and
\* handle_reorg, keeps its type through reorganisations, faults and restarts.
THEOREM TypeCorrect == Spec => []TypeOK
<1>1. QED
  BY TypeInit, TypeStep, PTL DEF Spec

-----------------------------------------------------------------------------
(* INVARIANT I.  On its own it is not inductive: height 0 is checked against *)
(* the cached genesis_hash, so the induction has to know that outside the    *)
(* idle state the cache equals the genesis stored in sync_state.             *)

GenesisCached == pc # "idle" => genesisHash \in Block /\ genesisHash = db.genesis

IInv == TypeOK /\ InvariantI /\ MirrorMatchesBlocks /\ GenesisCached

\* The last block of a table that was just extended, or cut by one.
LEMMA AppliedTip ==
  ASSUME NEW d \in Databases, NEW b \in Block
  PROVE  /\ TipHash(AppliedDb(d, b)) = b
         /\ Mirrors(AppliedDb(d, b))
         /\ AppliedDb(d, b).genesis = d.genesis
<1>1. AppliedDb(d, b) \in Databases /\ AppliedDb(d, b).blocks = Append(d.blocks, b)
  BY AppliedDbType
<1>2. d.blocks \in Seq(Block) /\ Len(d.blocks) \in Nat
  BY DEF Databases
<1>3. Len(Append(d.blocks, b)) = Len(d.blocks) + 1 /\ Append(d.blocks, b)[Len(d.blocks) + 1] = b
      /\ Append(d.blocks, b) # <<>>
  BY <1>2
<1>4. /\ AppliedDb(d, b).genesis = d.genesis
      /\ AppliedDb(d, b).indexedHeight = Len(d.blocks)
      /\ AppliedDb(d, b).indexedHash = b
  BY DEF AppliedDb, Databases
<1>5. QED
  BY <1>1, <1>2, <1>3, <1>4 DEF TipHash, Mirrors, Tip

\* A block that links to the tip extends the chain.
LEMMA AppliedIsChain ==
  ASSUME NEW d \in Databases, NEW b \in Block, IsChain(d), Parent[b] = TipHash(d),
         d.blocks = <<>> => b = d.genesis
  PROVE  IsChain(AppliedDb(d, b))
<1> DEFINE bs == d.blocks
           cs == Append(bs, b)
<1>1. AppliedDb(d, b).blocks = cs /\ AppliedDb(d, b).genesis = d.genesis
  BY AppliedDbType, AppliedTip
<1>2. bs \in Seq(Block) /\ Len(bs) \in Nat
  BY DEF Databases
<1>3. /\ Len(cs) = Len(bs) + 1 /\ cs # <<>> /\ cs[Len(bs) + 1] = b
      /\ \A i \in 1..Len(bs) : cs[i] = bs[i]
  BY <1>2
<1>4. ASSUME NEW i \in 2..Len(cs) PROVE Parent[cs[i]] = cs[i - 1]
  <2>1. CASE i = Len(bs) + 1
    <3>1. TipHash(d) = bs[Len(bs)]
      BY <1>2, <1>3, <1>4, <2>1 DEF TipHash
    <3>2. cs[i] = b /\ cs[i - 1] = bs[Len(bs)]
      BY <1>2, <1>3, <1>4, <2>1
    <3>3. QED
      BY <3>1, <3>2
  <2>2. CASE i # Len(bs) + 1
    <3>1. i \in 2..Len(bs) /\ cs[i] = bs[i] /\ cs[i - 1] = bs[i - 1]
      BY <1>2, <1>3, <1>4, <2>2
    <3>2. QED
      BY <3>1 DEF IsChain
  <2>3. QED
    BY <2>1, <2>2
<1>5. Parent[cs[1]] = NoBlock /\ cs[1] = d.genesis
  <2>1. CASE bs = <<>>
    BY <1>2, <1>3, <2>1 DEF TipHash
  <2>2. CASE bs # <<>>
    <3>1. cs[1] = bs[1]
      BY <1>2, <1>3, <2>2
    <3>2. QED
      BY <3>1, <2>2 DEF IsChain
  <2>3. QED
    BY <2>1, <2>2
<1> HIDE DEF cs
<1>6. QED
  BY <1>1, <1>4, <1>5 DEF IsChain

\* Cutting the last block leaves a chain whose tip is that block's parent.
LEMMA UnwoundIsChain ==
  ASSUME NEW d \in Databases, d.blocks # <<>>, IsChain(d)
  PROVE  /\ IsChain(UnwoundDb(d)) /\ Mirrors(UnwoundDb(d))
         /\ UnwoundDb(d).genesis = d.genesis
         /\ TipHash(d) \in Block
         /\ TipHash(UnwoundDb(d)) = Parent[TipHash(d)]
<1> DEFINE bs == d.blocks
           cs == SubSeq(bs, 1, Len(bs) - 1)
           last == IF cs = <<>> THEN NoBlock ELSE cs[Len(cs)]
<1>1. UnwoundDb(d).blocks = cs
  BY UnwoundDbType
<1>2. bs \in Seq(Block) /\ Len(bs) \in Nat /\ Len(bs) >= 1
  BY DEF Databases
<1>3. cs \in Seq(Block) /\ Len(cs) = Len(bs) - 1 /\ \A i \in 1..Len(cs) : cs[i] = bs[i]
  BY <1>2
<1>4. /\ UnwoundDb(d).genesis = d.genesis
      /\ UnwoundDb(d).indexedHeight = Len(cs) - 1
      /\ UnwoundDb(d).indexedHash = last
  BY DEF UnwoundDb, Databases
<1>5. TipHash(d) = bs[Len(bs)] /\ TipHash(d) \in Block
  BY <1>2 DEF TipHash
<1> HIDE DEF cs
<1>6. last = Parent[TipHash(d)]
  <2>1. CASE Len(bs) = 1
    <3>1. cs = <<>>
      BY <1>3, <2>1
    <3>2. Parent[bs[1]] = NoBlock
      BY DEF IsChain
    <3>3. QED
      BY <1>5, <2>1, <3>1, <3>2
  <2>2. CASE Len(bs) >= 2
    <3>1. Len(bs) \in 2..Len(bs) /\ cs # <<>> /\ cs[Len(cs)] = bs[Len(bs) - 1]
      <4>1. Len(bs) \in 2..Len(bs) /\ Len(cs) \in 1..Len(cs) /\ Len(cs) = Len(bs) - 1
        BY <1>2, <1>3, <2>2
      <4>2. cs[Len(cs)] = bs[Len(cs)]
        BY <1>3, <4>1
      <4>3. cs # <<>>
        BY <4>1
      <4>4. QED
        BY <4>1, <4>2, <4>3
    <3>2. Parent[bs[Len(bs)]] = bs[Len(bs) - 1]
      BY <3>1 DEF IsChain
    <3>3. QED
      BY <1>5, <3>1, <3>2
  <2>3. Len(bs) = 1 \/ Len(bs) >= 2
    <3>1. \A k \in Nat : k >= 1 => k = 1 \/ k >= 2
      OBVIOUS
    <3>2. QED
      BY <1>2, <3>1, Zenon
  <2>4. QED
    BY <2>1, <2>2, <2>3
<1>7. \A i \in 2..Len(cs) : Parent[cs[i]] = cs[i - 1]
  <2>1. SUFFICES ASSUME NEW i \in 2..Len(cs) PROVE Parent[cs[i]] = cs[i - 1]
    OBVIOUS
  <2>2. i \in 2..Len(bs) /\ cs[i] = bs[i] /\ cs[i - 1] = bs[i - 1]
    BY <1>2, <1>3
  <2>3. QED
    BY <2>2 DEF IsChain
<1>8. cs # <<>> => Parent[cs[1]] = NoBlock /\ cs[1] = d.genesis
  <2>1. SUFFICES ASSUME cs # <<>> PROVE Parent[cs[1]] = NoBlock /\ cs[1] = d.genesis
    OBVIOUS
  <2>2. cs[1] = bs[1]
    BY <1>3, <2>1
  <2>3. QED
    BY <2>2 DEF IsChain
<1>9. IsChain(UnwoundDb(d))
  BY <1>1, <1>4, <1>7, <1>8 DEF IsChain
<1>10. TipHash(UnwoundDb(d)) = last /\ Mirrors(UnwoundDb(d))
  BY <1>1, <1>4 DEF TipHash, Mirrors, Tip
<1>11. QED
  BY <1>4, <1>5, <1>6, <1>9, <1>10

\* Writes that touch neither `blocks` nor the genesis keep both invariants.
LEMMA SameBlocks ==
  ASSUME NEW d, NEW e, IsChain(d), e.blocks = d.blocks, e.genesis = d.genesis
  PROVE  IsChain(e)
BY DEF IsChain

\* The columns that the writes to sync_state and reorg_log change and keep.
LEMMA OtherWrites ==
  ASSUME NEW d \in Databases, NEW h, NEW b, NEW log, NEW n
  PROVE  /\ [d EXCEPT !.indexedHeight = h, !.indexedHash = b].blocks = d.blocks
         /\ [d EXCEPT !.indexedHeight = h, !.indexedHash = b].genesis = d.genesis
         /\ [d EXCEPT !.indexedHeight = h, !.indexedHash = b].indexedHeight = h
         /\ [d EXCEPT !.indexedHeight = h, !.indexedHash = b].indexedHash = b
         /\ [d EXCEPT !.reorgLog = log].blocks = d.blocks
         /\ [d EXCEPT !.reorgLog = log].genesis = d.genesis
         /\ [d EXCEPT !.reorgLog = log].indexedHeight = d.indexedHeight
         /\ [d EXCEPT !.reorgLog = log].indexedHash = d.indexedHash
         /\ [d EXCEPT !.reorgLog = log, !.reorgCount = n].blocks = d.blocks
         /\ [d EXCEPT !.reorgLog = log, !.reorgCount = n].genesis = d.genesis
         /\ [d EXCEPT !.reorgLog = log, !.reorgCount = n].indexedHeight = d.indexedHeight
         /\ [d EXCEPT !.reorgLog = log, !.reorgCount = n].indexedHash = d.indexedHash
         /\ [d EXCEPT !.genesis = b].blocks = d.blocks
         /\ [d EXCEPT !.genesis = b].genesis = b
         /\ [d EXCEPT !.genesis = b].indexedHeight = d.indexedHeight
         /\ [d EXCEPT !.genesis = b].indexedHash = d.indexedHash
BY DEF Databases

\* Writes that leave the block table, the genesis and the mirror as they were.
Kept(d, e) ==
  /\ e.blocks = d.blocks
  /\ d.blocks # <<>> => e.genesis = d.genesis
  /\ Mirrors(e)

\* The ways one step can change the database, and its copy at the checkpoint.
Moved ==
  \/ Kept(db, db') /\ (savedDb' = savedDb \/ savedDb' = db')
  \/ /\ savedDb' = savedDb
     /\ \E b \in Block :
          /\ db' = AppliedDb(db, b)
          /\ Parent[b] = TipHash(db)
          /\ db.blocks = <<>> => b = db.genesis
  \/ db.blocks # <<>> /\ db' = UnwoundDb(db) /\ savedDb' = savedDb
  \/ db' = savedDb /\ savedDb' = savedDb

\* Every step is one of those moves, and leaves the cached genesis right.
LEMMA StepShapes ==
  ASSUME IInv, [Next]_vars
  PROVE  Moved /\ GenesisCached'
<1> USE DEF node, disk, fetch
<1>0. /\ db \in Databases /\ savedDb \in Databases /\ Tip(db) \in Heights
      /\ TipHash(db) \in Hash /\ raws \in Raws /\ reorg \in Reorgs /\ genesisHash \in Hash
  BY TipType DEF IInv, TypeOK
<1>a. Mirrors(db) /\ IsChain(db) /\ GenesisCached
  BY DEF IInv, MirrorMatchesBlocks, InvariantI
<1>b. Observed \in Block
  <2>1. NodeHashAt(0) \in Block
    BY NodeAnswers DEF IInv, Heights
  <2>2. QED
    BY <2>1, <1>0 DEF Observed, Hash
<1>q. ASSUME UNCHANGED <<db, savedDb>> PROVE Moved
  BY <1>q, <1>a DEF Moved, Kept
<1>w. ASSUME NEW e, db' = e, e.blocks = db.blocks, e.genesis = db.genesis,
             e.indexedHeight = db.indexedHeight, e.indexedHash = db.indexedHash,
             savedDb' = savedDb
      PROVE  Moved
  <2>1. Mirrors(e)
    BY <1>a, <1>w DEF Mirrors, Tip, TipHash
  <2>2. QED
    BY <1>w, <2>1 DEF Moved, Kept
<1>g. ASSUME SameChain, db' = [db EXCEPT !.genesis = Observed], savedDb' = savedDb,
             genesisHash' = Observed
      PROVE  Moved /\ GenesisCached'
  <2>1. /\ db'.blocks = db.blocks /\ db'.genesis = Observed
        /\ db'.indexedHeight = db.indexedHeight /\ db'.indexedHash = db.indexedHash
    BY <1>0, <1>g, OtherWrites
  <2>2. Mirrors(db')
    BY <1>a, <2>1 DEF Mirrors, Tip, TipHash
  <2>3. ASSUME db.blocks # <<>> PROVE db.genesis = Observed
    <3>1. db.blocks \in Seq(Block) /\ db.genesis = db.blocks[1]
      BY <1>0, <1>a, <2>3 DEF Databases, IsChain
    <3>2. db.blocks[1] \in Block
      BY <3>1, <2>3
    <3>3. QED
      BY <3>1, <3>2, <1>g, ChainAssumption DEF SameChain
  <2>4. Kept(db, db')
    BY <2>1, <2>2, <2>3 DEF Kept
  <2>5. QED
    BY <2>1, <2>4, <1>b, <1>g DEF Moved, GenesisCached
<1>1. CASE PollNode
  BY <1>1, <1>g DEF PollNode, Observe
<1>2. CASE Repoll
  BY <1>2, <1>g DEF Repoll, Observe
<1>3. CASE RefuseWrongChain
  BY <1>3, <1>q DEF RefuseWrongChain, Return, GenesisCached
<1>4. CASE Finish
  <2>1. /\ db'.blocks = db.blocks /\ db'.genesis = db.genesis
        /\ db'.indexedHeight = Tip(db) /\ db'.indexedHash = TipHash(db)
    BY <1>0, <1>4, OtherWrites DEF Finish
  <2>2. QED
    BY <1>4, <1>a, <1>w, <2>1 DEF Finish, Return, GenesisCached, Mirrors
<1>5. CASE IndexNotShorter
  BY <1>5, <1>a, <1>q DEF IndexNotShorter, GenesisCached
<1>6. CASE StartFetch
  BY <1>6, <1>a, <1>q DEF StartFetch, GenesisCached
<1>7. CASE FetchHash
  BY <1>7, <1>a, <1>q DEF FetchHash, GenesisCached
<1>8. CASE HashesDone
  BY <1>8, <1>a, <1>q DEF HashesDone, GenesisCached
<1>9. CASE FetchBody
  BY <1>9, <1>a, <1>q DEF FetchBody, GenesisCached
<1>10. CASE BodiesDone
  BY <1>10, <1>a, <1>q DEF BodiesDone, GenesisCached
<1>11. CASE ApplyBlock
  <2> DEFINE b == Head(raws).hash
  <2>1. b \in Block
    <3>1. raws # <<>>
      BY <1>11 DEF ApplyBlock
    <3>2. Head(raws) \in [hash : Block, confirmations : Int]
      BY <3>1, <1>0, HeadTailProperties DEF Raws
    <3>3. QED
      BY <3>2
  <2>2. db' = AppliedDb(db, b) /\ Parent[b] = TipHash(db) /\ savedDb' = savedDb
    BY <1>11 DEF ApplyBlock, Links
  <2>3. db.blocks = <<>> => b = db.genesis
    BY <1>11, <1>a DEF ApplyBlock, GenesisAccepted, GenesisCached
  <2>4. GenesisCached'
    <3>1. db'.genesis = db.genesis
      BY <1>0, <2>1, <2>2, AppliedTip
    <3>2. QED
      BY <3>1, <1>11, <1>a DEF ApplyBlock, GenesisCached
  <2> HIDE DEF b
  <2>5. QED
    BY <2>1, <2>2, <2>3, <2>4 DEF Moved
<1>12. CASE BatchApplied
  BY <1>12, <1>a, <1>q DEF BatchApplied, GenesisCached
<1>13. CASE BlockWentInactive
  BY <1>13, <1>a, <1>q DEF BlockWentInactive, GenesisCached
<1>14. CASE BlockDoesNotLink
  BY <1>14, <1>a, <1>q DEF BlockDoesNotLink, GenesisCached
<1>15. CASE GenesisRefused
  BY <1>15, <1>a, <1>q DEF GenesisRefused, Return, GenesisCached
<1>16. CASE ProbeTop
  BY <1>16, <1>a, <1>q DEF ProbeTop, GenesisCached
<1>17. CASE ProbeDown
  BY <1>17, <1>a, <1>q DEF ProbeDown, GenesisCached
<1>18. CASE Bisect
  BY <1>18, <1>a, <1>q DEF Bisect, GenesisCached
<1>19. CASE OpenReorgLog
  <2>1. /\ db'.blocks = db.blocks /\ db'.genesis = db.genesis
        /\ db'.indexedHeight = db.indexedHeight /\ db'.indexedHash = db.indexedHash
    BY <1>0, <1>19, OtherWrites DEF OpenReorgLog
  <2>2. QED
    BY <1>19, <1>a, <1>w, <2>1 DEF OpenReorgLog, GenesisCached
<1>20. CASE UnwindBlock
  <2>1. db.blocks # <<>>
    <3>1. reorg.fork \in Heights /\ Tip(db) > reorg.fork
      BY <1>0, <1>20 DEF Reorgs, UnwindBlock
    <3>2. Tip(db) # -1
      BY <3>1, <1>0 DEF Heights
    <3>3. QED
      BY <3>2 DEF Tip
  <2>2. db' = UnwoundDb(db) /\ savedDb' = savedDb
    BY <1>20 DEF UnwindBlock
  <2>3. db'.genesis = db.genesis
    BY <1>0, <1>a, <2>1, <2>2, UnwoundIsChain
  <2>4. QED
    BY <1>20, <1>a, <2>1, <2>2, <2>3 DEF UnwindBlock, GenesisCached, Moved
<1>21. CASE CloseReorgLog
  <2> DEFINE row == [db.reorgLog[reorg.logId] EXCEPT !.new = Tip(db), !.unwound = reorg.n]
             log == [db.reorgLog EXCEPT ![reorg.logId] = row]
  <2>1. db' = [db EXCEPT !.reorgLog = log]
    BY <1>0, <1>21 DEF CloseReorgLog, Databases
  <2> HIDE DEF log
  <2>2. /\ db'.blocks = db.blocks /\ db'.genesis = db.genesis
        /\ db'.indexedHeight = db.indexedHeight /\ db'.indexedHash = db.indexedHash
    BY <1>0, <2>1, OtherWrites
  <2>3. QED
    BY <1>21, <1>a, <1>w, <2>2 DEF CloseReorgLog, GenesisCached
<1>22. CASE NodeMoves
  BY <1>22, <1>a, <1>q DEF NodeMoves, GenesisCached
<1>23. CASE Checkpoint
  BY <1>23, <1>a DEF Checkpoint, GenesisCached, Moved, Kept
<1>24. CASE RpcFails
  BY <1>24, <1>q DEF RpcFails, Return, GenesisCached
<1>25. CASE Killed
  BY <1>25, <1>q DEF Killed, Return, GenesisCached
<1>26. CASE PowerCut
  BY <1>26 DEF PowerCut, Return, GenesisCached, Moved
<1>27. CASE UNCHANGED vars
  BY <1>27, <1>a, <1>q DEF vars, GenesisCached
<1>28. QED
  BY <1>1, <1>2, <1>3, <1>4, <1>5, <1>6, <1>7, <1>8, <1>9, <1>10, <1>11, <1>12, <1>13,
     <1>14, <1>15, <1>16, <1>17, <1>18, <1>19, <1>20, <1>21, <1>22, <1>23, <1>24, <1>25,
     <1>26, <1>27 DEF Next, SyncStep

\* Kept writes keep a chain a chain.
LEMMA KeptIsChain ==
  ASSUME NEW d, NEW e, IsChain(d), Kept(d, e)
  PROVE  IsChain(e) /\ Mirrors(e) /\ TipHash(e) = TipHash(d)
BY DEF IsChain, Kept, TipHash

\* Each move keeps both invariants and moves the tip as ChainPointer allows.
LEMMA MoveKeeps ==
  ASSUME IInv, Moved
  PROVE  /\ InvariantI' /\ MirrorMatchesBlocks'
         /\ \/ TipHash(db') = TipHash(db) /\ TipHash(savedDb') = TipHash(savedDb)
            \/ Pointer!Next
<1>0. /\ db \in Databases /\ savedDb \in Databases
      /\ IsChain(db) /\ Mirrors(db) /\ IsChain(savedDb) /\ Mirrors(savedDb)
  BY DEF IInv, TypeOK, InvariantI, MirrorMatchesBlocks
<1>1. CASE Kept(db, db') /\ (savedDb' = savedDb \/ savedDb' = db')
  <2>1. IsChain(db') /\ Mirrors(db') /\ TipHash(db') = TipHash(db)
    BY <1>0, <1>1, KeptIsChain
  <2>2. QED
    BY <1>0, <1>1, <2>1 DEF InvariantI, MirrorMatchesBlocks, Pointer!Next, Pointer!Save
<1>2. CASE /\ savedDb' = savedDb
           /\ \E b \in Block : /\ db' = AppliedDb(db, b)
                               /\ Parent[b] = TipHash(db)
                               /\ db.blocks = <<>> => b = db.genesis
  <2>1. PICK b \in Block : /\ db' = AppliedDb(db, b)
                           /\ Parent[b] = TipHash(db)
                           /\ db.blocks = <<>> => b = db.genesis
    BY <1>2
  <2>2. IsChain(db')
    BY <1>0, <2>1, AppliedIsChain
  <2>3. Mirrors(db') /\ TipHash(db') = b
    BY <1>0, <2>1, AppliedTip
  <2>4. QED
    BY <1>0, <1>2, <2>1, <2>2, <2>3
    DEF InvariantI, MirrorMatchesBlocks, Pointer!Next, Pointer!Extend
<1>3. CASE db.blocks # <<>> /\ db' = UnwoundDb(db) /\ savedDb' = savedDb
  <2>1. /\ IsChain(db') /\ Mirrors(db')
        /\ TipHash(db) \in Block /\ TipHash(db') = Parent[TipHash(db)]
    BY <1>0, <1>3, UnwoundIsChain
  <2>2. QED
    BY <1>0, <1>3, <2>1 DEF InvariantI, MirrorMatchesBlocks, Pointer!Next, Pointer!Retract
<1>4. CASE db' = savedDb /\ savedDb' = savedDb
  BY <1>0, <1>4 DEF InvariantI, MirrorMatchesBlocks, Pointer!Next, Pointer!Lose
<1>5. QED
  BY <1>1, <1>2, <1>3, <1>4 DEF Moved

\* The inductive step and its start.
LEMMA IInvStep == IInv /\ [Next]_vars => IInv'
<1> SUFFICES ASSUME IInv, [Next]_vars PROVE IInv'
  OBVIOUS
<1>1. TypeOK'
  BY TypeStep DEF IInv
<1>2. Moved /\ GenesisCached'
  BY StepShapes
<1>3. InvariantI' /\ MirrorMatchesBlocks'
  BY <1>2, MoveKeeps
<1>4. QED
  BY <1>1, <1>2, <1>3 DEF IInv

\* The induction starts with an empty index.
LEMMA IInvInit == Init => IInv
<1> SUFFICES ASSUME Init PROVE IInv
  OBVIOUS
<1>1. TypeOK
  BY TypeInit
<1>2. IsChain(EmptyDb) /\ Mirrors(EmptyDb)
  BY DEF EmptyDb, IsChain, Mirrors, Tip, TipHash
<1>3. QED
  BY <1>1, <1>2 DEF Init, IInv, InvariantI, MirrorMatchesBlocks, GenesisCached

\* INVARIANT I holds in every reachable state of the indexer, for every block
\* tree, batch size, and number of reorganisations, RPC failures, kills and
\* power cuts: `blocks` is always one branch, rooted at the stored genesis.
THEOREM OneBranch == Spec => []InvariantI
<1>1. IInv => InvariantI
  BY DEF IInv
<1>2. QED
  BY <1>1, IInvInit, IInvStep, PTL DEF Spec

\* sync_state's indexed_height and indexed_hash always name the last row of
\* `blocks`, on disk as well as in the committed state.
THEOREM MirrorIsTip == Spec => []MirrorMatchesBlocks
<1>1. IInv => MirrorMatchesBlocks
  BY DEF IInv
<1>2. QED
  BY <1>1, IInvInit, IInvStep, PTL DEF Spec

\* The indexer implements a pointer into the block tree that moves one block
\* per commit, to a child or to the parent, and otherwise only back to the
\* block saved by the last checkpoint.
THEOREM IndexIsPointer == Spec => ImplementsChainPointer
<1>1. Init => Pointer!Init
  BY DEF Init, EmptyDb, TipHash, Pointer!Init
<1>2. ASSUME IInv, [Next]_vars
      PROVE  [Pointer!Next]_<<TipHash(db), TipHash(savedDb)>>
  <2>1. Moved
    BY <1>2, StepShapes
  <2>2. \/ TipHash(db') = TipHash(db) /\ TipHash(savedDb') = TipHash(savedDb)
        \/ Pointer!Next
    BY <1>2, <2>1, MoveKeeps
  <2>3. QED
    BY <2>2
<1>3. QED
  BY <1>1, <1>2, IInvInit, IInvStep, PTL DEF Spec, ImplementsChainPointer, Pointer!Spec

-----------------------------------------------------------------------------
(* find_fork.  The invariant follows the search: what is known of the        *)
(* heights above and below the ones it holds, as long as the node stands     *)
(* still.  It needs INVARIANT I: only on a chain does agreement at a height   *)
(* mean agreement at every height below, which is what lets a probe stand     *)
(* for all the heights it skips.                                             *)

\* find_fork's first height: the lower of the two tips.
Lower == IF reorg.old < nodeHeight THEN reorg.old ELSE nodeHeight

NoneIn(l, h) == \A k \in l..h : ~Matches(k)

SearchBounds ==
  /\ pc \in {"top", "down", "bisect", "log"} => reorg.old = Tip(db) /\ reorg.n = 0
  /\ pc \in {"top", "down", "bisect"} => search.hi = Lower /\ search.hi >= 0
  /\ pc \in {"down", "bisect"} => search.bad \in 0..Lower
  /\ pc = "bisect" => search.lo \in 0..Lower
  /\ pc = "log" => reorg.fork \in -1..Lower

SearchFinds ==
  steady =>
    /\ pc \in {"down", "bisect"} => NoneIn(search.bad, Lower)
    /\ pc = "bisect" => Matches(search.lo)
    /\ pc = "log" => /\ reorg.fork # -1 => Matches(reorg.fork)
                     /\ NoneIn(reorg.fork + 1, Lower)

\* Index and node agree at a height when both have the same block there.
LEMMA MatchesMeans ==
  ASSUME TypeOK, NEW k \in Nat
  PROVE  Matches(k) <=> /\ k + 1 <= Len(db.blocks) /\ k + 1 <= Len(ActiveChain)
                        /\ db.blocks[k + 1] = ActiveChain[k + 1]
<1>0. db \in Databases
  BY DEF TypeOK
<1>1. db.blocks \in Seq(Block) /\ Len(db.blocks) \in Nat
  BY <1>0 DEF Databases
<1>2. ActiveChain \in Seq(Block) /\ Len(ActiveChain) \in Nat
  BY NodeAnswers DEF Heights
<1>3. NoBlock \notin Block
  BY ChainAssumption
<1>4. k + 1 \in DOMAIN db.blocks <=> k + 1 <= Len(db.blocks)
  BY <1>1
<1>5. k < Len(ActiveChain) <=> k + 1 <= Len(ActiveChain)
  BY <1>2
<1>6. k + 1 \in DOMAIN db.blocks => db.blocks[k + 1] \in Block
  BY <1>1
<1>7. QED
  BY <1>3, <1>4, <1>5, <1>6 DEF Matches, HashAt, NodeHashAt

\* Two chains that agree at a height agree at the height below.
LEMMA AgreeBelow ==
  ASSUME TypeOK, IsChain(db), NEW k \in Nat, Matches(k + 1)
  PROVE  Matches(k)
<1>0. db \in Databases
  BY DEF TypeOK
<1>1. db.blocks \in Seq(Block) /\ Len(db.blocks) \in Nat
  BY <1>0 DEF Databases
<1>2. ActiveChain \in Seq(Block) /\ Len(ActiveChain) \in Nat
  BY NodeAnswers DEF Heights
<1>3. \A i \in 2..Len(ActiveChain) : Parent[ActiveChain[i]] = ActiveChain[i - 1]
  BY ChainAssumption DEF TypeOK, ActiveChain
<1>4. /\ k + 2 <= Len(db.blocks) /\ k + 2 <= Len(ActiveChain)
      /\ db.blocks[k + 2] = ActiveChain[k + 2]
  <2>1. k + 1 \in Nat /\ (k + 1) + 1 = k + 2
    OBVIOUS
  <2>2. QED
    BY <2>1, MatchesMeans
<1>5. k + 2 \in 2..Len(db.blocks) /\ k + 2 \in 2..Len(ActiveChain) /\ (k + 2) - 1 = k + 1
  BY <1>1, <1>2, <1>4
<1>6. db.blocks[k + 1] = ActiveChain[k + 1]
  BY <1>3, <1>4, <1>5 DEF IsChain
<1>7. k + 1 <= Len(db.blocks) /\ k + 1 <= Len(ActiveChain)
  BY <1>1, <1>2, <1>4
<1>8. QED
  BY <1>6, <1>7, MatchesMeans

\* ... and so at every lower height, by descent to the highest exception.
LEMMA AgreeDown ==
  ASSUME TypeOK, IsChain(db), NEW h \in Nat, Matches(h), NEW g \in 0..h
  PROVE  Matches(g)
<1> DEFINE Off == {m \in Nat : m <= h /\ ~Matches(h - m)}
<1> SUFFICES ASSUME ~Matches(g) PROVE FALSE
  OBVIOUS
<1>1. h - g \in Nat /\ h - g <= h /\ h - (h - g) = g
  OBVIOUS
<1>2. h - g \in Off
  BY <1>1
<1>3. PICK m \in Off : \A n \in Off : m <= n
  <2>1. Off \in SUBSET Nat /\ Off # {}
    BY <1>2
  <2> HIDE DEF Off
  <2>2. QED
    BY <2>1, LeastElement
<1>4. m \in Nat /\ m <= h /\ ~Matches(h - m)
  OBVIOUS
<1>5. m # 0
  <2>1. h - 0 = h
    OBVIOUS
  <2>2. QED
    BY <1>4, <2>1
<1>6. m - 1 \in Nat /\ m - 1 <= h /\ ~(m <= m - 1) /\ h - (m - 1) = (h - m) + 1 /\ h - m \in Nat
  BY <1>4, <1>5
<1>7. Matches(h - (m - 1))
  <2>1. m - 1 \notin Off
    BY <1>3, <1>6
  <2>2. QED
    BY <2>1, <1>6
<1>8. Matches(h - m)
  BY <1>6, <1>7, AgreeBelow
<1>9. QED
  BY <1>4, <1>8

\* The step of the search, action by action: a reorganisation begins, a probe
\* agrees or does not, the search is over, or the step has no part in it.
LEMMA SearchStep ==
  ASSUME IInv, SearchBounds, SearchFinds, [Next]_vars
  PROVE  SearchBounds' /\ SearchFinds'
<1> USE DEF node, disk, fetch
<1>0. /\ TypeOK /\ IsChain(db) /\ db \in Databases /\ Tip(db) \in Heights
      /\ nodeHeight \in Heights /\ search \in Searches /\ reorg \in Reorgs
  BY TipType DEF IInv, TypeOK, InvariantI
<1>l. /\ Lower \in Heights /\ reorg.old \in Heights /\ reorg.fork \in Heights
      /\ search.hi \in Heights /\ search.bad \in Heights /\ search.lo \in Heights
      /\ search.step \in Nat
  BY <1>0 DEF Lower, Reorgs, Searches
<1>out. ASSUME pc' \notin {"top", "down", "bisect", "log"} PROVE SearchBounds' /\ SearchFinds'
  BY <1>out DEF SearchBounds, SearchFinds
<1>m. ASSUME db' = db, nodeTip' = nodeTip, NEW k
      PROVE  Matches(k)' <=> Matches(k)
  BY <1>m DEF Matches, HashAt, NodeHashAt, ActiveChain
<1>n. ASSUME db' = db, nodeTip' = nodeTip, nodeHeight' = nodeHeight, reorg'.old = reorg.old
      PROVE  /\ Lower' = Lower /\ Tip(db)' = Tip(db)
             /\ \A l, h : NoneIn(l, h)' <=> NoneIn(l, h)
             /\ \A k : Matches(k)' <=> Matches(k)
  <2>1. Lower' = Lower /\ Tip(db)' = Tip(db)
    BY <1>n DEF Lower, Tip
  <2>2. \A k : Matches(k)' <=> Matches(k)
    BY <1>n, <1>m
  <2>3. \A l, h : NoneIn(l, h)' <=> NoneIn(l, h)
    BY <2>2 DEF NoneIn
  <2>4. QED
    BY <2>1, <2>2, <2>3
<1>same. ASSUME UNCHANGED <<db, nodeTip, pc, steady, nodeHeight, search, reorg>>
         PROVE  SearchBounds' /\ SearchFinds'
  <2>1. /\ Lower' = Lower /\ Tip(db)' = Tip(db)
        /\ \A l, h : NoneIn(l, h)' <=> NoneIn(l, h)
        /\ \A k : Matches(k)' <=> Matches(k)
    BY <1>same, <1>n
  <2>2. SearchBounds'
    BY <1>same, <2>1 DEF SearchBounds
  <2>3. SearchFinds'
    BY <1>same, <2>1 DEF SearchFinds
  <2>4. QED
    BY <2>2, <2>3
<1>begin. ASSUME NEW why, BeginReorg(why), UNCHANGED <<db, nodeTip, nodeHeight>>
          PROVE  SearchBounds' /\ SearchFinds'
  <2> DEFINE hi == IF Tip(db) < nodeHeight THEN Tip(db) ELSE nodeHeight
  <2>1. /\ reorg' = [NoReorg EXCEPT !.old = Tip(db)] /\ search' = [NoSearch EXCEPT !.hi = hi]
        /\ pc' = (IF hi < 0 THEN "log" ELSE "top")
    BY <1>begin DEF BeginReorg
  <2>2. reorg'.old = Tip(db) /\ reorg'.n = 0 /\ reorg'.fork = -1 /\ search'.hi = hi
    BY <2>1 DEF NoReorg, NoSearch
  <2>3. Lower' = hi /\ Tip(db)' = Tip(db) /\ hi \in Heights
    BY <1>begin, <1>0, <2>2 DEF Lower, Tip
  <2> HIDE DEF hi
  <2>4. CASE hi < 0
    <3>1. hi = -1
      BY <2>3, <2>4 DEF Heights
    <3>2. NoneIn(reorg.fork + 1, Lower)'
      <4>1. reorg'.fork + 1 = 0 /\ Lower' = -1 /\ 0..(-1) = {}
        BY <2>2, <2>3, <3>1
      <4>2. QED
        BY <4>1 DEF NoneIn
    <3>3. -1 \in -1..hi
      BY <3>1
    <3>4. QED
      BY <2>1, <2>2, <2>3, <2>4, <3>2, <3>3 DEF SearchBounds, SearchFinds
  <2>5. CASE ~(hi < 0)
    <3>1. hi >= 0
      BY <2>3, <2>5 DEF Heights
    <3>2. QED
      BY <2>1, <2>2, <2>3, <2>5, <3>1 DEF SearchBounds, SearchFinds
  <2>6. QED
    BY <2>4, <2>5
<1>1. CASE ProbeTop
  <2>1. UNCHANGED <<db, nodeTip, nodeHeight, steady>> /\ pc = "top"
    BY <1>1 DEF ProbeTop
  <2>2. search.hi = Lower /\ Lower >= 0 /\ reorg.old = Tip(db) /\ reorg.n = 0
    BY <2>1 DEF SearchBounds
  <2>3. Lower \in 0..Lower /\ Lower \in -1..Lower /\ Lower # -1 /\ (Lower + 1)..Lower = {}
    BY <2>2, <1>l DEF Heights
  <2>4. CASE Matches(search.hi)
    <3>1. /\ reorg' = [reorg EXCEPT !.fork = search.hi] /\ pc' = "log"
      BY <1>1, <2>4 DEF ProbeTop, ForkFound
    <3>2. reorg'.old = reorg.old /\ reorg'.n = reorg.n /\ reorg'.fork = Lower
      BY <1>0, <2>2, <3>1 DEF Reorgs
    <3>3. /\ Lower' = Lower /\ Tip(db)' = Tip(db)
          /\ \A l, h : NoneIn(l, h)' <=> NoneIn(l, h)
          /\ \A k : Matches(k)' <=> Matches(k)
      BY <2>1, <3>2, <1>n
    <3>4. NoneIn(Lower + 1, Lower)
      BY <2>3 DEF NoneIn
    <3>5. SearchBounds'
      BY <2>2, <2>3, <3>1, <3>2, <3>3 DEF SearchBounds
    <3>6. SearchFinds'
      BY <2>2, <2>4, <3>1, <3>2, <3>3, <3>4 DEF SearchFinds
    <3>7. QED
      BY <3>5, <3>6
  <2>5. CASE ~Matches(search.hi)
    <3>1. /\ search' = [search EXCEPT !.bad = search.hi, !.step = 1]
          /\ pc' = "down" /\ reorg' = reorg
      BY <1>1, <2>5 DEF ProbeTop
    <3>2. search'.hi = Lower /\ search'.bad = Lower
      BY <1>0, <2>2, <3>1 DEF Searches
    <3>3. /\ Lower' = Lower /\ Tip(db)' = Tip(db)
          /\ \A l, h : NoneIn(l, h)' <=> NoneIn(l, h)
          /\ \A k : Matches(k)' <=> Matches(k)
      BY <2>1, <3>1, <1>n
    <3>4. NoneIn(Lower, Lower)
      <4>1. \A k \in Lower..Lower : k = Lower
        BY <1>l DEF Heights
      <4>2. QED
        BY <2>2, <2>5, <4>1 DEF NoneIn
    <3>5. SearchBounds'
      BY <2>2, <2>3, <3>1, <3>2, <3>3 DEF SearchBounds
    <3>6. SearchFinds'
      BY <3>1, <3>2, <3>3, <3>4 DEF SearchFinds
    <3>7. QED
      BY <3>5, <3>6
  <2>6. QED
    BY <2>4, <2>5
<1>2. CASE ProbeDown
  <2> DEFINE p == IF search.hi - search.step < 0 THEN 0 ELSE search.hi - search.step
  <2>1. UNCHANGED <<db, nodeTip, nodeHeight, steady>> /\ pc = "down"
    BY <1>2 DEF ProbeDown
  <2>2. /\ search.hi = Lower /\ Lower >= 0 /\ reorg.old = Tip(db) /\ reorg.n = 0
        /\ search.bad \in 0..Lower
        /\ steady => NoneIn(search.bad, Lower)
    BY <2>1 DEF SearchBounds, SearchFinds
  <2>3. p \in 0..Lower /\ p \in Nat
    BY <2>2, <1>l DEF Heights
  <2>4. /\ pc' \in {"down", "bisect", "log"} /\ reorg'.old = reorg.old /\ reorg'.n = reorg.n
        /\ \/ Matches(p) /\ search' = [search EXCEPT !.lo = p] /\ pc' = "bisect"
           \/ ~Matches(p) /\ p = 0 /\ reorg' = [reorg EXCEPT !.fork = -1] /\ pc' = "log"
           \/ /\ ~Matches(p) /\ search' = [search EXCEPT !.bad = p, !.step = 2 * @]
              /\ pc' = "down"
    BY <1>0, <1>2 DEF ProbeDown, ForkFound, Reorgs
  <2> HIDE DEF p
  <2>5. /\ Lower' = Lower /\ Tip(db)' = Tip(db)
        /\ \A l, h : NoneIn(l, h)' <=> NoneIn(l, h)
        /\ \A k : Matches(k)' <=> Matches(k)
    BY <2>1, <2>4, <1>n
  <2>n. ASSUME ~Matches(p) PROVE NoneIn(p, Lower)
    <3>1. SUFFICES ASSUME NEW k \in p..Lower, Matches(k) PROVE FALSE
      BY DEF NoneIn
    <3>2. k \in Nat /\ p \in 0..k
      BY <2>3, <1>l, <3>1 DEF Heights
    <3>3. Matches(p)
      BY <1>0, <3>1, <3>2, AgreeDown
    <3>4. QED
      BY <3>3, <2>n
  <2>6. CASE Matches(p) /\ search' = [search EXCEPT !.lo = p] /\ pc' = "bisect"
    <3>1. search'.hi = search.hi /\ search'.bad = search.bad /\ search'.lo = p
      BY <1>0, <2>6 DEF Searches
    <3>2. SearchBounds'
      BY <2>2, <2>3, <2>4, <2>5, <2>6, <3>1 DEF SearchBounds
    <3>3. SearchFinds'
      BY <2>1, <2>2, <2>5, <2>6, <3>1 DEF SearchFinds
    <3>4. QED
      BY <3>2, <3>3
  <2>7. CASE ~Matches(p) /\ p = 0 /\ reorg' = [reorg EXCEPT !.fork = -1] /\ pc' = "log"
    <3>1. reorg'.fork = -1 /\ -1 + 1 = 0 /\ -1 \in -1..Lower
      BY <1>0, <1>l, <2>2, <2>7 DEF Reorgs, Heights
    <3>2. NoneIn(0, Lower)
      BY <2>n, <2>7
    <3>3. SearchBounds'
      BY <2>2, <2>4, <2>5, <2>7, <3>1 DEF SearchBounds
    <3>4. SearchFinds'
      BY <2>5, <2>7, <3>1, <3>2 DEF SearchFinds
    <3>5. QED
      BY <3>3, <3>4
  <2>8. CASE ~Matches(p) /\ search' = [search EXCEPT !.bad = p, !.step = 2 * @] /\ pc' = "down"
    <3>1. search'.hi = search.hi /\ search'.bad = p
      BY <1>0, <2>8 DEF Searches
    <3>2. SearchBounds'
      BY <2>2, <2>3, <2>4, <2>5, <2>8, <3>1 DEF SearchBounds
    <3>3. SearchFinds'
      BY <2>5, <2>8, <2>n, <3>1 DEF SearchFinds
    <3>4. QED
      BY <3>2, <3>3
  <2>9. QED
    BY <2>4, <2>6, <2>7, <2>8
<1>3. CASE Bisect
  <2> DEFINE mid == (search.lo + search.bad) \div 2
  <2>1. UNCHANGED <<db, nodeTip, nodeHeight, steady>> /\ pc = "bisect"
    BY <1>3 DEF Bisect
  <2>2. /\ search.hi = Lower /\ Lower >= 0 /\ reorg.old = Tip(db) /\ reorg.n = 0
        /\ search.bad \in 0..Lower /\ search.lo \in 0..Lower
        /\ steady => NoneIn(search.bad, Lower) /\ Matches(search.lo)
    BY <2>1 DEF SearchBounds, SearchFinds
  <2>3. mid \in 0..Lower /\ mid \in Nat
    BY <2>2, <1>l DEF Heights
  <2>4. /\ pc' \in {"bisect", "log"} /\ reorg'.old = reorg.old /\ reorg'.n = reorg.n
        /\ \/ Matches(mid) /\ search' = [search EXCEPT !.lo = mid] /\ pc' = "bisect"
           \/ ~Matches(mid) /\ search' = [search EXCEPT !.bad = mid] /\ pc' = "bisect"
           \/ /\ ~(search.bad - search.lo > 1)
              /\ reorg' = [reorg EXCEPT !.fork = search.lo] /\ pc' = "log"
    BY <1>0, <1>3 DEF Bisect, ForkFound, Reorgs
  <2> HIDE DEF mid
  <2>5. /\ Lower' = Lower /\ Tip(db)' = Tip(db)
        /\ \A l, h : NoneIn(l, h)' <=> NoneIn(l, h)
        /\ \A k : Matches(k)' <=> Matches(k)
    BY <2>1, <2>4, <1>n
  <2>6. CASE Matches(mid) /\ search' = [search EXCEPT !.lo = mid] /\ pc' = "bisect"
    <3>1. search'.hi = search.hi /\ search'.bad = search.bad /\ search'.lo = mid
      BY <1>0, <2>6 DEF Searches
    <3>2. SearchBounds'
      BY <2>2, <2>3, <2>4, <2>5, <2>6, <3>1 DEF SearchBounds
    <3>3. SearchFinds'
      BY <2>1, <2>2, <2>5, <2>6, <3>1 DEF SearchFinds
    <3>4. QED
      BY <3>2, <3>3
  <2>7. CASE ~Matches(mid) /\ search' = [search EXCEPT !.bad = mid] /\ pc' = "bisect"
    <3>1. search'.hi = search.hi /\ search'.bad = mid /\ search'.lo = search.lo
      BY <1>0, <2>7 DEF Searches
    <3>2. SearchBounds'
      BY <2>2, <2>3, <2>4, <2>5, <2>7, <3>1 DEF SearchBounds
    <3>3. NoneIn(mid, Lower)
      <4>1. SUFFICES ASSUME NEW k \in mid..Lower, Matches(k) PROVE FALSE
        BY DEF NoneIn
      <4>2. k \in Nat /\ mid \in 0..k
        BY <2>3, <1>l, <4>1 DEF Heights
      <4>3. Matches(mid)
        BY <1>0, <4>1, <4>2, AgreeDown
      <4>4. QED
        BY <4>3, <2>7
    <3>4. SearchFinds'
      BY <2>1, <2>2, <2>5, <2>7, <3>1, <3>3 DEF SearchFinds
    <3>5. QED
      BY <3>2, <3>4
  <2>8. CASE /\ ~(search.bad - search.lo > 1)
             /\ reorg' = [reorg EXCEPT !.fork = search.lo] /\ pc' = "log"
    <3>1. reorg'.fork = search.lo /\ search.lo \in -1..Lower
      BY <1>0, <1>l, <2>2, <2>8 DEF Reorgs, Heights
    <3>2. steady => NoneIn(search.lo + 1, Lower)
      <4>1. SUFFICES ASSUME NEW k \in (search.lo + 1)..Lower, NoneIn(search.bad, Lower)
                     PROVE  ~Matches(k)
        BY <2>2 DEF NoneIn
      <4>2. k \in search.bad..Lower
        BY <1>l, <2>2, <2>8, <4>1 DEF Heights
      <4>3. QED
        BY <4>1, <4>2 DEF NoneIn
    <3>3. SearchBounds'
      BY <2>2, <2>4, <2>5, <2>8, <3>1 DEF SearchBounds
    <3>4. SearchFinds'
      BY <2>1, <2>2, <2>5, <2>8, <3>1, <3>2 DEF SearchFinds
    <3>5. QED
      BY <3>3, <3>4
  <2>9. QED
    BY <2>4, <2>6, <2>7, <2>8
<1>4. CASE NodeMoves
  <2>1. UNCHANGED <<db, pc, nodeHeight, search, reorg>> /\ steady' = FALSE
    BY <1>4 DEF NodeMoves
  <2>2. Lower' = Lower /\ Tip(db)' = Tip(db)
    BY <2>1 DEF Lower, Tip
  <2>3. SearchBounds'
    BY <2>1, <2>2 DEF SearchBounds
  <2>4. SearchFinds'
    BY <2>1 DEF SearchFinds
  <2>5. QED
    BY <2>3, <2>4
<1>5. CASE IndexNotShorter
  BY <1>5, <1>begin DEF IndexNotShorter
<1>6. CASE BlockDoesNotLink
  BY <1>6, <1>begin DEF BlockDoesNotLink
<1>7. CASE Checkpoint \/ UNCHANGED vars
  BY <1>7, <1>same DEF Checkpoint, vars
<1>8. CASE PollNode \/ Repoll \/ StartFetch \/ FetchHash \/ HashesDone \/ FetchBody \/ BodiesDone
  BY <1>8, <1>out DEF PollNode, Repoll, StartFetch, FetchHash, HashesDone, FetchBody, BodiesDone
<1>9. CASE ApplyBlock \/ BatchApplied \/ BlockWentInactive \/ OpenReorgLog \/ UnwindBlock
           \/ CloseReorgLog
  BY <1>9, <1>out
  DEF ApplyBlock, BatchApplied, BlockWentInactive, OpenReorgLog, UnwindBlock, CloseReorgLog
<1>10. CASE RefuseWrongChain \/ Finish \/ GenesisRefused \/ RpcFails \/ Killed \/ PowerCut
  BY <1>10, <1>out
  DEF RefuseWrongChain, Finish, GenesisRefused, RpcFails, Killed, PowerCut, Return
<1>11. QED
  BY <1>1, <1>2, <1>3, <1>4, <1>5, <1>6, <1>7, <1>8, <1>9, <1>10 DEF Next, SyncStep

\* find_fork returns the highest height at which index and node agree, or -1
\* when there is none, whenever the node did not move during the search: for
\* every pair of chains, however the probes and the bisection fall.
THEOREM ForkIsTheHighest == Spec => []ForkIsHighestAgreement
<1> DEFINE Search == IInv /\ SearchBounds /\ SearchFinds
<1>1. Init => Search
  BY IInvInit DEF Init, SearchBounds, SearchFinds
<1>2. Search /\ [Next]_vars => Search'
  BY IInvStep, SearchStep
<1>3. Search => ForkIsHighestAgreement
  <2>1. SUFFICES ASSUME Search, pc = "log", steady
                 PROVE  reorg.fork = Max({-1} \cup {h \in 0..Lower : Matches(h)})
    BY DEF ForkIsHighestAgreement, Lower
  <2> DEFINE S == {-1} \cup {h \in 0..Lower : Matches(h)}
  <2>2. Lower \in Heights /\ reorg.fork \in -1..Lower
    BY <2>1 DEF IInv, TypeOK, Reorgs, Lower, SearchBounds
  <2>3. /\ reorg.fork # -1 => Matches(reorg.fork)
        /\ NoneIn(reorg.fork + 1, Lower)
    BY <2>1 DEF SearchFinds
  <2>4. reorg.fork \in S
    BY <2>2, <2>3 DEF Heights
  <2>5. ASSUME NEW y \in S PROVE y \in Int /\ reorg.fork >= y
    <3>1. CASE y = -1
      BY <3>1, <2>2 DEF Heights
    <3>2. CASE y \in 0..Lower /\ Matches(y)
      <4>1. y \notin (reorg.fork + 1)..Lower
        BY <2>3, <3>2 DEF NoneIn
      <4>2. QED
        BY <2>2, <3>2, <4>1 DEF Heights
    <3>3. QED
      BY <3>1, <3>2
  <2> HIDE DEF S
  <2>6. reorg.fork \in Int
    BY <2>4, <2>5
  <2>7. \A x \in S : (\A y \in S : x >= y) => x = reorg.fork
    BY <2>4, <2>5, <2>6
  <2>8. Max(S) = reorg.fork
    BY <2>4, <2>5, <2>7 DEF Max
  <2>9. QED
    BY <2>8 DEF S
<1> HIDE DEF Search
<1>4. QED
  BY <1>1, <1>2, <1>3, PTL DEF Spec

-----------------------------------------------------------------------------
(* The audit trail.  AuditTrailComplete is not inductive: it does not say    *)
(* that the blocks of the reorganisation under way belong to the row that is  *)
(* open for it.  Unwinding says so, and that the row promised enough of them. *)

\* The rows of reorg_log other than the one of the reorganisation under way.
OtherRows == DOMAIN db.reorgLog \ {reorg.logId}

Unwinding ==
  pc = "unwind" =>
    /\ reorg.logId \in DOMAIN db.reorgLog
    /\ db.reorgLog[reorg.logId].new = Unset
    /\ db.reorgLog[reorg.logId].unwound = reorg.old - reorg.fork
    /\ reorg.n = reorg.old - Tip(db) /\ reorg.fork <= Tip(db)
    /\ Logged(db, Closed(db)) + reorg.n <= db.unwound
    /\ db.unwound <= Logged(db, OtherRows) + reorg.n
    /\ Closed(db) = OtherRows => db.unwound = Logged(db, OtherRows) + reorg.n

\* The column that Logged sums.
Column(log) == [i \in DOMAIN log |-> log[i].unwound]

\* What the types say of reorg_log and of sums over its rows.
LEMMA LogFacts ==
  ASSUME NEW d \in Databases
  PROVE  /\ d.reorgLog \in Seq(LogRow) /\ Len(d.reorgLog) \in Nat
         /\ DOMAIN d.reorgLog = 1..Len(d.reorgLog)
         /\ \A i \in DOMAIN d.reorgLog :
              d.reorgLog[i].unwound \in Int /\ Column(d.reorgLog)[i] = d.reorgLog[i].unwound
         /\ \A S \in SUBSET DOMAIN d.reorgLog :
              /\ IsFiniteSet(S)
              /\ Logged(d, S) = SumFunctionOnSet(Column(d.reorgLog), S)
              /\ Logged(d, S) \in Int
         /\ Closed(d) \in SUBSET DOMAIN d.reorgLog
         /\ d.unwound \in Nat /\ d.reorgCount \in Nat
<1>1. d.reorgLog \in Seq(LogRow) /\ d.unwound \in Nat /\ d.reorgCount \in Nat
  BY DEF Databases
<1>2. Len(d.reorgLog) \in Nat /\ DOMAIN d.reorgLog = 1..Len(d.reorgLog)
  BY <1>1
<1>3. ASSUME NEW i \in DOMAIN d.reorgLog
      PROVE  /\ d.reorgLog[i].unwound \in Int
             /\ Column(d.reorgLog)[i] = d.reorgLog[i].unwound
  <2>1. d.reorgLog[i] \in LogRow
    BY <1>1
  <2>2. QED
    BY <2>1 DEF LogRow, Column
<1>4. ASSUME NEW S \in SUBSET DOMAIN d.reorgLog
      PROVE  /\ IsFiniteSet(S)
             /\ Logged(d, S) = SumFunctionOnSet(Column(d.reorgLog), S)
             /\ Logged(d, S) \in Int
  <2>1. IsFiniteSet(DOMAIN d.reorgLog)
    BY <1>2, FS_Interval
  <2>2. IsFiniteSet(S)
    BY <2>1, FS_Subset
  <2>3. Logged(d, S) = SumFunctionOnSet(Column(d.reorgLog), S)
    BY DEF Logged, Column
  <2>4. \A i \in S : Column(d.reorgLog)[i] \in Int
    BY <1>3
  <2>5. QED
    BY <2>2, <2>3, <2>4, SumInt
<1>5. QED
  BY <1>1, <1>2, <1>3, <1>4 DEF Closed

\* Writes that leave the trail alone.
LEMMA SameTrail ==
  ASSUME NEW d, NEW e, e.reorgLog = d.reorgLog, e.reorgCount = d.reorgCount,
         e.unwound = d.unwound
  PROVE  /\ Audited(d) => Audited(e)
         /\ Closed(e) = Closed(d) /\ \A S : Logged(e, S) = Logged(d, S)
BY DEF Audited, Closed, Logged

\* What the writes to the other columns leave alone, and an unwind counts.
LEMMA TrailWrites ==
  ASSUME NEW d \in Databases, NEW h, NEW b
  PROVE  /\ [d EXCEPT !.indexedHeight = h, !.indexedHash = b].reorgLog = d.reorgLog
         /\ [d EXCEPT !.indexedHeight = h, !.indexedHash = b].reorgCount = d.reorgCount
         /\ [d EXCEPT !.indexedHeight = h, !.indexedHash = b].unwound = d.unwound
         /\ [d EXCEPT !.genesis = b].reorgLog = d.reorgLog
         /\ [d EXCEPT !.genesis = b].reorgCount = d.reorgCount
         /\ [d EXCEPT !.genesis = b].unwound = d.unwound
         /\ AppliedDb(d, b).reorgLog = d.reorgLog
         /\ AppliedDb(d, b).reorgCount = d.reorgCount
         /\ AppliedDb(d, b).unwound = d.unwound
         /\ UnwoundDb(d).reorgLog = d.reorgLog
         /\ UnwoundDb(d).reorgCount = d.reorgCount
         /\ UnwoundDb(d).unwound = d.unwound + 1
BY DEF Databases, AppliedDb, UnwoundDb

\* A row is added, open: the closed rows and what the others sum to stay.
LEMMA OpenedRow ==
  ASSUME NEW d \in Databases, NEW e \in Databases, NEW row \in LogRow, row.new = Unset,
         e.reorgLog = Append(d.reorgLog, row)
  PROVE  LET i == Len(d.reorgLog) + 1
         IN  /\ Len(e.reorgLog) = i /\ i \in DOMAIN e.reorgLog /\ e.reorgLog[i] = row
             /\ DOMAIN e.reorgLog \ {i} = DOMAIN d.reorgLog
             /\ Closed(e) = Closed(d) /\ i \notin Closed(d)
             /\ Logged(e, Closed(e)) = Logged(d, Closed(d))
             /\ Logged(e, DOMAIN d.reorgLog) = Logged(d, DOMAIN d.reorgLog)
             /\ Logged(e, DOMAIN e.reorgLog) = row.unwound + Logged(d, DOMAIN d.reorgLog)
<1> DEFINE i == Len(d.reorgLog) + 1
           D == DOMAIN d.reorgLog
           E == DOMAIN e.reorgLog
<1>1. d.reorgLog \in Seq(LogRow) /\ Len(d.reorgLog) \in Nat /\ D = 1..Len(d.reorgLog)
  BY LogFacts
<1>2. /\ Len(e.reorgLog) = i /\ E = 1..i /\ e.reorgLog[i] = row
      /\ \A j \in D : e.reorgLog[j] = d.reorgLog[j]
  BY <1>1
<1>3. i \in E /\ E \ {i} = D /\ E = D \cup {i} /\ i \notin D /\ D \subseteq E
  BY <1>1, <1>2
<1>4. Closed(e) = Closed(d) /\ i \notin Closed(d) /\ Closed(d) \subseteq D
  BY <1>2, <1>3 DEF Closed
<1>5. ASSUME NEW S \in SUBSET D PROVE Logged(e, S) = Logged(d, S)
  <2>1. S \in SUBSET E /\ IsFiniteSet(S)
    BY <1>3, LogFacts
  <2>2. Agree(Column(e.reorgLog), Column(d.reorgLog), S)
    BY <1>2, <2>1, LogFacts DEF Agree, Column
  <2>3. QED
    BY <2>1, <2>2, SumSame, LogFacts
<1>6. Logged(e, E) = row.unwound + Logged(e, D)
  <2>1. E \in SUBSET E /\ D \in SUBSET E /\ IsFiniteSet(E)
    BY <1>3, LogFacts
  <2>2. \A x \in E : Column(e.reorgLog)[x] \in Int
    BY LogFacts
  <2>3. Column(e.reorgLog)[i] = row.unwound
    BY <1>2, <1>3, LogFacts
  <2>4. SumFunctionOnSet(Column(e.reorgLog), E)
          = Column(e.reorgLog)[i] + SumFunctionOnSet(Column(e.reorgLog), E \ {i})
    BY <1>3, <2>1, <2>2, SumRemove
  <2>5. QED
    BY <1>3, <2>1, <2>3, <2>4, LogFacts
<1>7. QED
  BY <1>2, <1>3, <1>4, <1>5, <1>6

\* An open row is closed with a count: it joins the closed rows with it.
LEMMA ClosedRow ==
  ASSUME NEW d \in Databases, NEW e \in Databases, NEW i \in DOMAIN d.reorgLog,
         d.reorgLog[i].new = Unset, NEW row, row.new # Unset,
         e.reorgLog = [d.reorgLog EXCEPT ![i] = row]
  PROVE  /\ DOMAIN e.reorgLog = DOMAIN d.reorgLog /\ Len(e.reorgLog) = Len(d.reorgLog)
         /\ Closed(e) = Closed(d) \cup {i} /\ i \notin Closed(d)
         /\ Logged(e, Closed(e)) = row.unwound + Logged(d, Closed(d))
         /\ Logged(e, DOMAIN e.reorgLog)
              = row.unwound + Logged(d, DOMAIN d.reorgLog \ {i})
<1> DEFINE D == DOMAIN d.reorgLog
<1>1. d.reorgLog \in Seq(LogRow) /\ e.reorgLog \in Seq(LogRow)
  BY LogFacts
<1>2. /\ DOMAIN e.reorgLog = D /\ e.reorgLog[i] = row
      /\ \A j \in D \ {i} : e.reorgLog[j] = d.reorgLog[j]
  BY <1>1
<1>3. Len(e.reorgLog) = Len(d.reorgLog)
  BY <1>1, <1>2
<1>4. Closed(e) = Closed(d) \cup {i} /\ i \notin Closed(d) /\ Closed(d) \subseteq D
  BY <1>2 DEF Closed
<1>5. ASSUME NEW S \in SUBSET D, i \notin S
      PROVE  Logged(e, S \cup {i}) = row.unwound + Logged(d, S)
  <2>1. S \cup {i} \in SUBSET DOMAIN e.reorgLog /\ S \in SUBSET DOMAIN e.reorgLog
    BY <1>2
  <2>2. IsFiniteSet(S)
    BY LogFacts
  <2>3. Agree(Column(e.reorgLog), Column(d.reorgLog), S)
    BY <1>2, <1>5, <2>1, LogFacts DEF Agree, Column
  <2>4. SumFunctionOnSet(Column(e.reorgLog), S) = SumFunctionOnSet(Column(d.reorgLog), S)
    BY <2>2, <2>3, SumSame
  <2>5. \A x \in S \cup {i} : Column(e.reorgLog)[x] \in Int
    BY <2>1, LogFacts
  <2>6. SumFunctionOnSet(Column(e.reorgLog), S \cup {i})
          = Column(e.reorgLog)[i] + SumFunctionOnSet(Column(e.reorgLog), S)
    BY <1>5, <2>2, <2>5, SumInsert
  <2>7. Column(e.reorgLog)[i] = row.unwound
    BY <1>2, LogFacts
  <2>8. /\ Logged(e, S \cup {i}) = SumFunctionOnSet(Column(e.reorgLog), S \cup {i})
        /\ Logged(d, S) = SumFunctionOnSet(Column(d.reorgLog), S)
    BY <2>1, LogFacts
  <2>9. QED
    BY <2>4, <2>6, <2>7, <2>8
<1>6. (D \ {i}) \cup {i} = D
  OBVIOUS
<1>7. QED
  BY <1>2, <1>3, <1>4, <1>5, <1>6

\* The step of the audit trail.  Three actions write it; the others keep it,
\* and a crash leaves the open row, whose promise covers what was unwound.
LEMMA AuditStep ==
  ASSUME IInv, SearchBounds, AuditTrailComplete, Unwinding, [Next]_vars
  PROVE  AuditTrailComplete' /\ Unwinding'
<1> USE DEF node, disk, fetch
<1>0. /\ TypeOK /\ db \in Databases /\ savedDb \in Databases /\ Tip(db) \in Heights
      /\ reorg \in Reorgs /\ Audited(db) /\ Audited(savedDb)
  BY TipType DEF IInv, TypeOK, AuditTrailComplete
<1>l. /\ reorg.old \in Int /\ reorg.fork \in Int /\ reorg.n \in Nat /\ reorg.logId \in Nat
      /\ Tip(db) \in Int /\ Tip(db) >= -1
  BY <1>0 DEF Reorgs, Heights
<1>t. /\ db.unwound \in Nat /\ Logged(db, Closed(db)) \in Int
      /\ Logged(db, DOMAIN db.reorgLog) \in Int
      /\ \A i : Logged(db, DOMAIN db.reorgLog \ {i}) \in Int
  BY <1>0, LogFacts
<1>p. db' \in Databases
  BY TypeStep DEF IInv, TypeOK
<1>out. ASSUME pc' # "unwind", savedDb' = savedDb, db'.reorgLog = db.reorgLog,
               db'.reorgCount = db.reorgCount, db'.unwound = db.unwound
        PROVE  AuditTrailComplete' /\ Unwinding'
  <2>1. Audited(db')
    BY <1>0, <1>out, SameTrail
  <2>2. QED
    BY <1>0, <1>out, <2>1 DEF AuditTrailComplete, Unwinding
<1>same. ASSUME UNCHANGED <<db, pc, reorg>>, savedDb' \in {db, savedDb}
         PROVE  AuditTrailComplete' /\ Unwinding'
  <2>1. Unwinding'
    BY <1>same DEF Unwinding, OtherRows, Tip
  <2>2. QED
    BY <1>0, <1>same, <2>1 DEF AuditTrailComplete
<1>1. CASE OpenReorgLog
  <2> DEFINE row == [fork |-> reorg.fork, old |-> reorg.old, new |-> Unset,
                     unwound |-> reorg.old - reorg.fork]
             i == Len(db.reorgLog) + 1
  <2>1. /\ reorg.old = Tip(db) /\ reorg.n = 0 /\ reorg.fork \in -1..Lower
        /\ pc' = "unwind" /\ savedDb' = savedDb /\ reorg' = [reorg EXCEPT !.logId = i]
    BY <1>1 DEF SearchBounds, OpenReorgLog
  <2>2. reorg.fork <= reorg.old
    <3>0. nodeHeight \in Int
      <4>1. nodeHeight \in Heights
        BY <1>0 DEF TypeOK
      <4>2. QED
        BY <4>1 DEF Heights
    <3>1. Lower \in Int /\ Lower <= reorg.old
      BY <1>l, <3>0 DEF Lower
    <3>2. QED
      BY <1>l, <2>1, <3>1
  <2>3. row \in LogRow /\ row.new = Unset /\ row.unwound = reorg.old - reorg.fork
    BY <1>0 DEF Reorgs, LogRow, Heights, Unset
  <2>4. /\ db'.reorgLog = Append(db.reorgLog, row) /\ db'.reorgCount = db.reorgCount + 1
        /\ db'.unwound = db.unwound /\ db'.blocks = db.blocks
    BY <1>0, <1>1 DEF OpenReorgLog, Databases
  <2>5. /\ reorg'.logId = i /\ reorg'.n = 0 /\ reorg'.old = reorg.old /\ reorg'.fork = reorg.fork
    BY <1>0, <2>1 DEF Reorgs
  <2> HIDE DEF row
  <2>6. /\ Len(db'.reorgLog) = i /\ i \in DOMAIN db'.reorgLog /\ db'.reorgLog[i] = row
        /\ DOMAIN db'.reorgLog \ {i} = DOMAIN db.reorgLog
        /\ Closed(db') = Closed(db) /\ i \notin Closed(db)
        /\ Logged(db', Closed(db')) = Logged(db, Closed(db))
        /\ Logged(db', DOMAIN db.reorgLog) = Logged(db, DOMAIN db.reorgLog)
        /\ Logged(db', DOMAIN db'.reorgLog) = row.unwound + Logged(db, DOMAIN db.reorgLog)
    BY <1>0, <1>p, <2>3, <2>4, OpenedRow
  <2>7. /\ db.reorgCount = Len(db.reorgLog)
        /\ Logged(db, Closed(db)) <= db.unwound
        /\ db.unwound <= Logged(db, DOMAIN db.reorgLog)
        /\ Closed(db) = DOMAIN db.reorgLog => db.unwound = Logged(db, DOMAIN db.reorgLog)
    BY <1>0 DEF Audited
  <2>8. db.unwound <= row.unwound + Logged(db, DOMAIN db.reorgLog)
    BY <1>l, <1>t, <2>2, <2>3, <2>7
  <2>9. Audited(db')
    <3>1. Closed(db') # DOMAIN db'.reorgLog
      BY <2>6
    <3>2. QED
      BY <2>4, <2>6, <2>7, <2>8, <3>1 DEF Audited
  <2>10. OtherRows' = DOMAIN db.reorgLog
    BY <2>5, <2>6 DEF OtherRows
  <2>11. /\ Logged(db', Closed(db')) + reorg'.n <= db'.unwound
         /\ db'.unwound <= Logged(db', OtherRows') + reorg'.n
         /\ Closed(db') = OtherRows' => db'.unwound = Logged(db', OtherRows') + reorg'.n
    BY <1>t, <2>4, <2>5, <2>6, <2>7, <2>10
  <2>12. Tip(db') = Tip(db) /\ reorg'.n = reorg'.old - Tip(db') /\ reorg'.fork <= Tip(db')
    BY <1>l, <2>1, <2>2, <2>4, <2>5 DEF Tip
  <2>13. Unwinding'
    BY <2>3, <2>5, <2>6, <2>11, <2>12 DEF Unwinding
  <2>14. QED
    BY <1>0, <2>1, <2>9, <2>13 DEF AuditTrailComplete
<1>2. CASE UnwindBlock
  <2>1. /\ pc = "unwind" /\ Tip(db) > reorg.fork /\ db' = UnwoundDb(db) /\ savedDb' = savedDb
        /\ reorg' = [reorg EXCEPT !.n = @ + 1]
    BY <1>2 DEF UnwindBlock
  <2>2. /\ reorg.logId \in DOMAIN db.reorgLog
        /\ db.reorgLog[reorg.logId].new = Unset
        /\ db.reorgLog[reorg.logId].unwound = reorg.old - reorg.fork
        /\ reorg.n = reorg.old - Tip(db) /\ reorg.fork <= Tip(db)
        /\ Logged(db, Closed(db)) + reorg.n <= db.unwound
        /\ db.unwound <= Logged(db, OtherRows) + reorg.n
        /\ Closed(db) = OtherRows => db.unwound = Logged(db, OtherRows) + reorg.n
    BY <2>1 DEF Unwinding
  <2>3. /\ reorg'.logId = reorg.logId /\ reorg'.n = reorg.n + 1 /\ reorg'.old = reorg.old
        /\ reorg'.fork = reorg.fork
    BY <1>0, <2>1 DEF Reorgs
  <2>4. /\ db'.reorgLog = db.reorgLog /\ db'.reorgCount = db.reorgCount
        /\ db'.unwound = db.unwound + 1
    BY <1>0, <2>1, TrailWrites
  <2>5. Tip(db') = Tip(db) - 1
    <3>1. db.blocks # <<>>
      <4>1. Tip(db) # -1
        BY <1>0, <1>l, <2>1 DEF Reorgs, Heights
      <4>2. QED
        BY <4>1 DEF Tip
    <3>2. db'.blocks = SubSeq(db.blocks, 1, Len(db.blocks) - 1)
      BY <1>0, <2>1, <3>1, UnwoundDbType
    <3>3. db.blocks \in Seq(Block) /\ Len(db.blocks) \in Nat /\ Len(db.blocks) >= 1
      BY <1>0, <3>1 DEF Databases
    <3>4. Len(db'.blocks) = Len(db.blocks) - 1
      BY <3>2, <3>3
    <3>5. QED
      BY <3>3, <3>4 DEF Tip
  <2>6. Closed(db') = Closed(db) /\ \A S : Logged(db', S) = Logged(db, S)
    BY <2>4 DEF Closed, Logged
  <2>7. OtherRows' = OtherRows /\ Logged(db, OtherRows) \in Int
    BY <1>t, <2>3, <2>4 DEF OtherRows
  <2>8. /\ Logged(db, Closed(db)) + (reorg.n + 1) <= db.unwound + 1
        /\ db.unwound + 1 <= Logged(db, OtherRows) + (reorg.n + 1)
        /\ Closed(db) = OtherRows => db.unwound + 1 = Logged(db, OtherRows) + (reorg.n + 1)
        /\ reorg.n + 1 = reorg.old - (Tip(db) - 1) /\ reorg.fork <= Tip(db) - 1
    BY <1>l, <1>t, <2>1, <2>2, <2>7
  <2>9. Unwinding'
    BY <2>2, <2>3, <2>4, <2>5, <2>6, <2>7, <2>8 DEF Unwinding
  <2>10. Logged(db, DOMAIN db.reorgLog) = (reorg.old - reorg.fork) + Logged(db, OtherRows)
    <3>1. IsFiniteSet(DOMAIN db.reorgLog) /\ OtherRows \in SUBSET DOMAIN db.reorgLog
      BY <1>0, LogFacts DEF OtherRows
    <3>2. \A x \in DOMAIN db.reorgLog : Column(db.reorgLog)[x] \in Int
      BY <1>0, LogFacts
    <3>3. SumFunctionOnSet(Column(db.reorgLog), DOMAIN db.reorgLog)
            = Column(db.reorgLog)[reorg.logId]
                + SumFunctionOnSet(Column(db.reorgLog), DOMAIN db.reorgLog \ {reorg.logId})
      BY <2>2, <3>1, <3>2, SumRemove
    <3>4. Column(db.reorgLog)[reorg.logId] = reorg.old - reorg.fork
      BY <1>0, <2>2, LogFacts
    <3>5. QED
      BY <1>0, <3>1, <3>3, <3>4, LogFacts DEF OtherRows
  <2>11. /\ Logged(db, Closed(db)) <= db.unwound + 1
         /\ db.unwound + 1 <= Logged(db, DOMAIN db.reorgLog)
    BY <1>l, <1>t, <2>1, <2>2, <2>7, <2>10
  <2>12. Closed(db) # DOMAIN db.reorgLog /\ db.reorgCount = Len(db.reorgLog)
    BY <1>0, <2>2 DEF Closed, Audited
  <2>13. Audited(db')
    BY <2>4, <2>6, <2>11, <2>12 DEF Audited
  <2>14. QED
    BY <1>0, <2>1, <2>9, <2>13 DEF AuditTrailComplete
<1>3. CASE CloseReorgLog
  <2> DEFINE i == reorg.logId
             row == [db.reorgLog[i] EXCEPT !.new = Tip(db), !.unwound = reorg.n]
  <2>1. pc = "unwind" /\ savedDb' = savedDb /\ pc' # "unwind"
    BY <1>3 DEF CloseReorgLog
  <2>2. /\ i \in DOMAIN db.reorgLog /\ db.reorgLog[i].new = Unset
        /\ Logged(db, Closed(db)) + reorg.n <= db.unwound
        /\ db.unwound <= Logged(db, OtherRows) + reorg.n
        /\ Closed(db) = OtherRows => db.unwound = Logged(db, OtherRows) + reorg.n
    BY <2>1 DEF Unwinding
  <2>3. row.new = Tip(db) /\ row.unwound = reorg.n /\ Tip(db) # Unset
    <3>1. db.reorgLog[i] \in LogRow
      BY <1>0, <2>2 DEF Databases
    <3>2. QED
      BY <1>l, <3>1 DEF LogRow, Unset
  <2>4. /\ db'.reorgLog = [db.reorgLog EXCEPT ![i] = row] /\ db'.reorgCount = db.reorgCount
        /\ db'.unwound = db.unwound
    BY <1>0, <1>3 DEF CloseReorgLog, Databases
  <2> HIDE DEF row
  <2>5. /\ DOMAIN db'.reorgLog = DOMAIN db.reorgLog /\ Len(db'.reorgLog) = Len(db.reorgLog)
        /\ Closed(db') = Closed(db) \cup {i} /\ i \notin Closed(db)
        /\ Logged(db', Closed(db')) = row.unwound + Logged(db, Closed(db))
        /\ Logged(db', DOMAIN db'.reorgLog) = row.unwound + Logged(db, DOMAIN db.reorgLog \ {i})
    BY <1>0, <1>p, <2>2, <2>3, <2>4, ClosedRow
  <2>6. ASSUME Closed(db') = DOMAIN db'.reorgLog PROVE Closed(db) = OtherRows
    BY <2>5, <2>6 DEF OtherRows, Closed
  <2>7. OtherRows = DOMAIN db.reorgLog \ {i} /\ Logged(db, OtherRows) \in Int
    BY <1>t DEF OtherRows
  <2>8. db.reorgCount = Len(db.reorgLog)
    BY <1>0 DEF Audited
  <2>9. /\ Logged(db', Closed(db')) <= db'.unwound
        /\ db'.unwound <= Logged(db', DOMAIN db'.reorgLog)
        /\ Closed(db') = DOMAIN db'.reorgLog
             => db'.unwound = Logged(db', DOMAIN db'.reorgLog)
    BY <1>l, <1>t, <2>2, <2>3, <2>4, <2>5, <2>6, <2>7
  <2>10. Audited(db')
    BY <2>4, <2>5, <2>8, <2>9 DEF Audited
  <2>11. QED
    BY <1>0, <2>1, <2>10 DEF AuditTrailComplete, Unwinding
<1>4. CASE PollNode \/ Repoll
  <2>1. /\ db'.reorgLog = db.reorgLog /\ db'.reorgCount = db.reorgCount
        /\ db'.unwound = db.unwound
    <3>1. db' = [db EXCEPT !.genesis = Observed]
      BY <1>4 DEF PollNode, Repoll, Observe
    <3>2. QED
      BY <1>0, <3>1, TrailWrites
  <2>2. QED
    BY <1>4, <1>out, <2>1 DEF PollNode, Repoll
<1>5. CASE Finish
  <2>1. /\ db'.reorgLog = db.reorgLog /\ db'.reorgCount = db.reorgCount
        /\ db'.unwound = db.unwound
    BY <1>0, <1>5, TrailWrites DEF Finish
  <2>2. QED
    BY <1>5, <1>out, <2>1 DEF Finish, Return
<1>6. CASE ApplyBlock
  <2>1. /\ db'.reorgLog = db.reorgLog /\ db'.reorgCount = db.reorgCount
        /\ db'.unwound = db.unwound
    <3>1. db' = AppliedDb(db, Head(raws).hash)
      BY <1>6 DEF ApplyBlock
    <3>2. QED
      BY <1>0, <3>1, TrailWrites
  <2>2. QED
    BY <1>6, <1>out, <2>1 DEF ApplyBlock
<1>7. CASE PowerCut
  BY <1>0, <1>7 DEF PowerCut, Return, AuditTrailComplete, Unwinding
<1>8. CASE NodeMoves \/ Checkpoint \/ UNCHANGED vars
  BY <1>8, <1>same DEF NodeMoves, Checkpoint, vars
<1>9. CASE IndexNotShorter \/ BlockDoesNotLink
  BY <1>9, <1>out DEF IndexNotShorter, BlockDoesNotLink, BeginReorg
<1>10. CASE ProbeTop \/ ProbeDown \/ Bisect
  BY <1>10, <1>out DEF ProbeTop, ProbeDown, Bisect, ForkFound
<1>11. CASE StartFetch \/ FetchHash \/ HashesDone \/ FetchBody \/ BodiesDone \/ BatchApplied
            \/ BlockWentInactive
  BY <1>11, <1>out
  DEF StartFetch, FetchHash, HashesDone, FetchBody, BodiesDone, BatchApplied, BlockWentInactive
<1>12. CASE RefuseWrongChain \/ GenesisRefused \/ RpcFails \/ Killed
  BY <1>12, <1>out DEF RefuseWrongChain, GenesisRefused, RpcFails, Killed, Return
<1>13. QED
  BY <1>1, <1>2, <1>3, <1>4, <1>5, <1>6, <1>7, <1>8, <1>9, <1>10, <1>11, <1>12
  DEF Next, SyncStep

\* reorg_log accounts for every block ever unwound, in the committed database
\* and in the one a power cut goes back to, wherever handle_reorg was cut short.
THEOREM TrailIsComplete == Spec => []AuditTrailComplete
<1> DEFINE Trail == IInv /\ SearchBounds /\ SearchFinds /\ AuditTrailComplete /\ Unwinding
<1>1. Init => Trail
  <2>1. SUFFICES ASSUME Init PROVE Trail
    OBVIOUS
  <2>2. IInv /\ SearchBounds /\ SearchFinds /\ Unwinding
    BY <2>1, IInvInit DEF Init, SearchBounds, SearchFinds, Unwinding
  <2>3. /\ DOMAIN EmptyDb.reorgLog = {} /\ Len(EmptyDb.reorgLog) = 0
        /\ EmptyDb.reorgCount = 0 /\ EmptyDb.unwound = 0
    BY DEF EmptyDb
  <2>4. Closed(EmptyDb) = {} /\ Logged(EmptyDb, {}) = 0
    BY <2>3, SumEmpty DEF Closed, Logged
  <2>5. Audited(EmptyDb)
    BY <2>3, <2>4 DEF Audited
  <2>6. QED
    BY <2>1, <2>2, <2>5 DEF Init, AuditTrailComplete
<1>2. Trail /\ [Next]_vars => Trail'
  BY IInvStep, SearchStep, AuditStep
<1>3. Trail => AuditTrailComplete
  OBVIOUS
<1> HIDE DEF Trail
<1>4. QED
  BY <1>1, <1>2, <1>3, PTL DEF Spec

-----------------------------------------------------------------------------
(* The rows.  What the consensus rules say of a branch carries over to every  *)
(* block table, because a table that is a chain is the path to its tip.       *)

IsBranch(s) ==
  /\ s \in Seq(Block) /\ s # <<>>
  /\ Parent[s[1]] = NoBlock
  /\ \A i \in 2..Len(s) : Parent[s[i]] = s[i - 1]

\* Two branches that end in the same block agree, counted from the end.
LEMMA AgreeFromTheEnd ==
  ASSUME NEW s, NEW t, IsBranch(s), IsBranch(t), s[Len(s)] = t[Len(t)],
         NEW m \in Nat, m < Len(s), m < Len(t)
  PROVE  s[Len(s) - m] = t[Len(t) - m]
<1> DEFINE Off == {k \in Nat : k < Len(s) /\ k < Len(t) /\ s[Len(s) - k] # t[Len(t) - k]}
<1> SUFFICES ASSUME m \in Off PROVE FALSE
  OBVIOUS
<1>0. Len(s) \in Nat /\ Len(t) \in Nat
  BY DEF IsBranch
<1>1. PICK k \in Off : \A j \in Off : k <= j
  <2>1. Off \in SUBSET Nat /\ Off # {}
    OBVIOUS
  <2> HIDE DEF Off
  <2>2. QED
    BY <2>1, LeastElement
<1>2. k \in Nat /\ k < Len(s) /\ k < Len(t) /\ s[Len(s) - k] # t[Len(t) - k]
  OBVIOUS
<1>3. k # 0
  <2>1. Len(s) - 0 = Len(s) /\ Len(t) - 0 = Len(t)
    BY <1>0
  <2>2. QED
    BY <1>2, <2>1
<1>4. k - 1 \in Nat /\ k - 1 < Len(s) /\ k - 1 < Len(t) /\ ~(k <= k - 1)
  BY <1>0, <1>2, <1>3
<1>5. s[Len(s) - (k - 1)] = t[Len(t) - (k - 1)]
  BY <1>1, <1>4
<1>6. /\ Len(s) - (k - 1) \in 2..Len(s) /\ (Len(s) - (k - 1)) - 1 = Len(s) - k
      /\ Len(t) - (k - 1) \in 2..Len(t) /\ (Len(t) - (k - 1)) - 1 = Len(t) - k
  BY <1>0, <1>2, <1>4
<1>7. s[Len(s) - k] = Parent[s[Len(s) - (k - 1)]] /\ t[Len(t) - k] = Parent[t[Len(t) - (k - 1)]]
  BY <1>6 DEF IsBranch
<1>8. QED
  BY <1>2, <1>5, <1>7

\* ... so neither is the longer one, ...
LEMMA NotShorter ==
  ASSUME NEW s, NEW t, IsBranch(s), IsBranch(t), s[Len(s)] = t[Len(t)]
  PROVE  ~(Len(s) < Len(t))
<1> SUFFICES ASSUME Len(s) < Len(t) PROVE FALSE
  OBVIOUS
<1>0. /\ s \in Seq(Block) /\ t \in Seq(Block) /\ Len(s) \in Nat /\ Len(t) \in Nat /\ Len(s) >= 1
  BY DEF IsBranch
<1> DEFINE k == (Len(t) - Len(s)) + 1
<1>1. /\ Len(s) - 1 \in Nat /\ Len(s) - 1 < Len(s) /\ Len(s) - 1 < Len(t)
      /\ Len(s) - (Len(s) - 1) = 1 /\ Len(t) - (Len(s) - 1) = k
      /\ k \in 2..Len(t) /\ k - 1 \in 1..Len(t)
  BY <1>0
<1>2. s[1] = t[k]
  <2>1. s[Len(s) - (Len(s) - 1)] = t[Len(t) - (Len(s) - 1)]
    BY <1>1, AgreeFromTheEnd
  <2>2. QED
    BY <1>1, <2>1
<1>3. t[k - 1] \in Block /\ Parent[t[k]] = t[k - 1] /\ Parent[s[1]] = NoBlock
  BY <1>0, <1>1 DEF IsBranch
<1>4. QED
  BY <1>2, <1>3, ChainAssumption

\* ... and every branch is the path to its last block.
LEMMA BranchIsPath ==
  ASSUME NEW s, IsBranch(s)
  PROVE  s[Len(s)] \in Block /\ s = PathTo[s[Len(s)]]
<1> DEFINE t == PathTo[s[Len(s)]]
<1>0. s \in Seq(Block) /\ Len(s) \in Nat /\ Len(s) >= 1
  BY DEF IsBranch
<1>1. s[Len(s)] \in Block
  BY <1>0
<1>2. IsBranch(t) /\ t[Len(t)] = s[Len(s)]
  BY <1>1, ChainAssumption DEF IsBranch
<1> HIDE DEF t
<1>3. t \in Seq(Block) /\ Len(t) \in Nat
  BY <1>2 DEF IsBranch
<1>4. Len(s) = Len(t)
  <2>1. ~(Len(s) < Len(t)) /\ ~(Len(t) < Len(s))
    BY <1>2, NotShorter
  <2>2. QED
    BY <1>0, <1>3, <2>1
<1>5. ASSUME NEW i \in 1..Len(s) PROVE s[i] = t[i]
  <2>1. Len(s) - i \in Nat /\ Len(s) - i < Len(s) /\ Len(s) - (Len(s) - i) = i
    BY <1>0
  <2>2. s[Len(s) - (Len(s) - i)] = t[Len(t) - (Len(s) - i)]
    BY <1>2, <1>4, <2>1, AgreeFromTheEnd
  <2>3. QED
    BY <1>4, <2>1, <2>2
<1>6. s = t
  BY <1>0, <1>3, <1>4, <1>5, SeqEqual
<1>7. QED
  BY <1>1, <1>6 DEF t

\* The block table, with a block that links appended, and without its last one.
LEMMA LinkedIsBranch ==
  ASSUME NEW d \in Databases, IsChain(d), NEW b \in Block, Parent[b] = TipHash(d)
  PROVE  IsBranch(Append(d.blocks, b))
<1> DEFINE bs == d.blocks
           cs == Append(bs, b)
<1>1. bs \in Seq(Block) /\ Len(bs) \in Nat
  BY DEF Databases
<1>2. /\ cs \in Seq(Block) /\ Len(cs) = Len(bs) + 1 /\ cs # <<>> /\ cs[Len(bs) + 1] = b
      /\ \A i \in 1..Len(bs) : cs[i] = bs[i]
  BY <1>1
<1>3. Parent[cs[1]] = NoBlock
  <2>1. CASE bs = <<>>
    BY <1>2, <2>1 DEF TipHash
  <2>2. CASE bs # <<>>
    <3>1. 1 \in 1..Len(bs)
      BY <1>1, <2>2
    <3>2. QED
      BY <1>2, <2>2, <3>1 DEF IsChain
  <2>3. QED
    BY <2>1, <2>2
<1>4. ASSUME NEW i \in 2..Len(cs) PROVE Parent[cs[i]] = cs[i - 1]
  <2>1. CASE i = Len(bs) + 1
    <3>1. Len(bs) \in 1..Len(bs) /\ bs # <<>> /\ i - 1 = Len(bs)
      BY <1>1, <1>2, <1>4, <2>1
    <3>2. QED
      BY <1>2, <2>1, <3>1 DEF TipHash
  <2>2. CASE i # Len(bs) + 1
    <3>1. i \in 2..Len(bs) /\ i \in 1..Len(bs) /\ i - 1 \in 1..Len(bs)
      BY <1>1, <1>2, <1>4, <2>2
    <3>2. QED
      BY <1>2, <3>1 DEF IsChain
  <2>3. QED
    BY <2>1, <2>2
<1> HIDE DEF cs
<1>5. IsBranch(cs)
  BY <1>2, <1>3, <1>4 DEF IsBranch
<1>6. QED
  BY <1>5 DEF cs

\* A table that is not empty is a branch.
LEMMA ChainIsBranch ==
  ASSUME NEW d \in Databases, IsChain(d), d.blocks # <<>>
  PROVE  IsBranch(d.blocks)
BY DEF Databases, IsChain, IsBranch

\* The table without its last block, and that block.
LEMMA FrontAndLast ==
  ASSUME NEW d \in Databases, d.blocks # <<>>
  PROVE  /\ SubSeq(d.blocks, 1, Len(d.blocks) - 1) \in Seq(Block) /\ TipHash(d) \in Block
         /\ d.blocks = Append(SubSeq(d.blocks, 1, Len(d.blocks) - 1), TipHash(d))
         /\ Len(SubSeq(d.blocks, 1, Len(d.blocks) - 1)) = Len(d.blocks) - 1
<1> DEFINE bs == d.blocks
           fs == SubSeq(bs, 1, Len(bs) - 1)
           as == Append(fs, TipHash(d))
<1>1. bs \in Seq(Block) /\ Len(bs) \in Nat /\ Len(bs) >= 1
  BY DEF Databases
<1>2. TipHash(d) = bs[Len(bs)] /\ TipHash(d) \in Block
  BY <1>1 DEF TipHash
<1>3. fs \in Seq(Block) /\ Len(fs) = Len(bs) - 1 /\ \A i \in 1..(Len(bs) - 1) : fs[i] = bs[i]
  BY <1>1
<1> HIDE DEF fs
<1>4. as \in Seq(Block) /\ Len(as) = Len(bs) /\ as[Len(bs)] = TipHash(d)
      /\ \A i \in 1..(Len(bs) - 1) : as[i] = fs[i]
  BY <1>1, <1>2, <1>3
<1>5. ASSUME NEW i \in 1..Len(bs) PROVE bs[i] = as[i]
  <2>1. i = Len(bs) \/ i \in 1..(Len(bs) - 1)
    BY <1>1
  <2>2. QED
    BY <1>2, <1>3, <1>4, <2>1
<1> HIDE DEF as
<1>6. bs = as
  BY <1>1, <1>4, <1>5, SeqEqual
<1>7. QED
  BY <1>2, <1>3, <1>6 DEF as, fs

\* The values of a function with a finite domain.
LEMMA FiniteImage ==
  ASSUME NEW S, IsFiniteSet(S), NEW f, DOMAIN f = S, f = [x \in S |-> f[x]]
  PROVE  IsFiniteSet({f[x] : x \in S})
<1> DEFINE T == {f[x] : x \in S}
<1>1. f \in Surjection(S, T)
  BY DEF Surjection
<1> HIDE DEF T
<1>2. IsFiniteSet(T)
  BY <1>1, FS_Surjection
<1>3. QED
  BY <1>2 DEF T

\* The elements of a sequence are finitely many.
LEMMA FiniteRange ==
  ASSUME NEW S, NEW s \in Seq(S)
  PROVE  IsFiniteSet(Range(s)) /\ Range(s) \subseteq S
<1>1. DOMAIN s = 1..Len(s) /\ Len(s) \in Nat /\ s = [i \in 1..Len(s) |-> s[i]]
  OBVIOUS
<1>2. IsFiniteSet(1..Len(s))
  <2>1. Len(s) \in Int /\ 1 \in Int
    BY <1>1
  <2>2. QED
    BY <2>1, FS_Interval
<1>3. IsFiniteSet({s[i] : i \in 1..Len(s)})
  BY <1>1, <1>2, FiniteImage
<1>4. Range(s) = {s[i] : i \in 1..Len(s)}
  BY <1>1 DEF Range
<1>5. QED
  BY <1>1, <1>3, <1>4

\* The transactions of a block, and of a branch that grows by a block.
LEMMA BlockTxsFinite ==
  ASSUME NEW b \in Block
  PROVE  TxsOf(b) \subseteq Tx /\ IsFiniteSet(TxsOf(b))
<1>1. BlockTxs[b] \in Seq(Tx)
  BY ContentsAssumption
<1>2. QED
  BY <1>1, FiniteRange DEF TxsOf

\* The transactions of a branch are finitely many.
LEMMA BranchTxs ==
  ASSUME NEW s \in Seq(Block)
  PROVE  TxsIn(s) \subseteq Tx /\ IsFiniteSet(TxsIn(s))
<1> DEFINE f == [b \in Range(s) |-> TxsOf(b)]
           F == {f[b] : b \in Range(s)}
<1>1. IsFiniteSet(Range(s)) /\ Range(s) \subseteq Block
  BY FiniteRange
<1>2. IsFiniteSet(F)
  <2>1. DOMAIN f = Range(s) /\ f = [b \in Range(s) |-> f[b]]
    OBVIOUS
  <2> HIDE DEF f
  <2>2. QED
    BY <1>1, <2>1, FiniteImage
<1>3. \A T \in F : IsFiniteSet(T) /\ T \subseteq Tx
  BY <1>1, BlockTxsFinite
<1>4. TxsIn(s) = UNION F
  BY DEF TxsIn
<1> HIDE DEF F
<1>5. QED
  BY <1>2, <1>3, <1>4, FS_UNION

\* A block adds its transactions to those of the branch.
LEMMA TxsInAppend ==
  ASSUME NEW s \in Seq(Block), NEW b \in Block
  PROVE  TxsIn(Append(s, b)) = TxsIn(s) \cup TxsOf(b)
<1> DEFINE t == Append(s, b)
<1>1. /\ DOMAIN t = 1..(Len(s) + 1) /\ DOMAIN s = 1..Len(s) /\ Len(s) \in Nat
      /\ t[Len(s) + 1] = b /\ \A i \in 1..Len(s) : t[i] = s[i]
  OBVIOUS
<1> HIDE DEF t
<1>2. DOMAIN t = DOMAIN s \cup {Len(s) + 1} /\ \A i \in DOMAIN s : t[i] = s[i]
  BY <1>1
<1>3. Range(t) = Range(s) \cup {b}
  BY <1>1, <1>2 DEF Range
<1>4. TxsIn(t) = TxsIn(s) \cup TxsOf(b)
  BY <1>3 DEF TxsIn
<1>5. QED
  BY <1>4 DEF t

\* Transactions Y can follow transactions X.
Fits(X, Y) ==
  /\ X \subseteq Tx /\ IsFiniteSet(X) /\ Y \subseteq Tx /\ IsFiniteSet(Y)
  /\ X \cap Y = {}
  /\ Spent(X) \subseteq Created(X)
  /\ Spent(X \cup Y) \subseteq Created(X \cup Y) \ Unspendable
  /\ \A t, u \in X \cup Y : t # u => TxIns[t] \cap TxIns[u] = {}

\* The transactions of a branch's last block follow those of the blocks before.
LEMMA BranchFits ==
  ASSUME NEW s \in Seq(Block), NEW b \in Block, IsBranch(Append(s, b))
  PROVE  /\ Fits(TxsIn(s), TxsOf(b))
         /\ TxsIn(Append(s, b)) = TxsIn(s) \cup TxsOf(b)
<1> DEFINE t == Append(s, b)
           X == TxsIn(s)
           Y == TxsOf(b)
<1>1. /\ t \in Seq(Block) /\ Len(t) = Len(s) + 1 /\ t[Len(t)] = b /\ Len(s) \in Nat
      /\ \A i \in 1..Len(s) : t[i] = s[i]
  OBVIOUS
<1>2. t = PathTo[b]
  BY <1>1, BranchIsPath
<1>3. SubSeq(t, 1, Len(t) - 1) = s
  <2>1. /\ SubSeq(t, 1, Len(t) - 1) \in Seq(Block) /\ Len(SubSeq(t, 1, Len(t) - 1)) = Len(s)
        /\ \A i \in 1..Len(s) : SubSeq(t, 1, Len(t) - 1)[i] = t[i]
    BY <1>1
  <2> HIDE DEF t
  <2>2. QED
    BY <1>1, <2>1, SeqEqual
<1>4. TxsIn(t) = X \cup Y
  BY TxsInAppend
<1>5. /\ X \cap Y = {}
      /\ Spent(X \cup Y) \subseteq Created(X \cup Y) \ Unspendable
      /\ \A p, q \in X \cup Y : p # q => TxIns[p] \cap TxIns[q] = {}
  <2> HIDE DEF t, X, Y
  <2>1. /\ TxsOf(b) \cap TxsIn(SubSeq(PathTo[b], 1, Len(PathTo[b]) - 1)) = {}
        /\ Spent(TxsIn(PathTo[b])) \subseteq Created(TxsIn(PathTo[b])) \ Unspendable
        /\ \A p, q \in TxsIn(PathTo[b]) : p # q => TxIns[p] \cap TxIns[q] = {}
    BY ConsensusAssumption
  <2>2. TxsOf(b) \cap TxsIn(s) = {}
    BY <1>2, <1>3, <2>1
  <2>3. QED
    BY <1>2, <1>4, <2>1, <2>2 DEF X, Y
<1>6. Spent(X) \subseteq Created(X)
  <2>1. CASE s = <<>>
    <3>1. X = {}
      BY <2>1 DEF TxsIn, Range
    <3>2. QED
      BY <3>1 DEF Spent
  <2>2. CASE s # <<>>
    <3>1. IsBranch(s)
      <4>1. 1 \in 1..Len(s) /\ \A i \in 2..Len(s) :
              i \in 2..Len(t) /\ i \in 1..Len(s) /\ i - 1 \in 1..Len(s)
        BY <1>1, <2>2
      <4> HIDE DEF t
      <4>2. Parent[t[1]] = NoBlock /\ \A i \in 2..Len(t) : Parent[t[i]] = t[i - 1]
        BY DEF IsBranch, t
      <4>3. QED
        BY <1>1, <2>2, <4>1, <4>2 DEF IsBranch
    <3>2. s[Len(s)] \in Block /\ s = PathTo[s[Len(s)]]
      BY <3>1, BranchIsPath
    <3>3. Spent(TxsIn(PathTo[s[Len(s)]])) \subseteq Created(TxsIn(PathTo[s[Len(s)]])) \ Unspendable
      BY <3>2, ConsensusAssumption
    <3>4. QED
      BY <3>2, <3>3
  <2>3. QED
    BY <2>1, <2>2
<1>7. X \subseteq Tx /\ IsFiniteSet(X) /\ Y \subseteq Tx /\ IsFiniteSet(Y)
  BY BranchTxs, BlockTxsFinite
<1> HIDE DEF X, Y, t
<1>8. Fits(X, Y)
  BY <1>5, <1>6, <1>7 DEF Fits
<1>9. QED
  BY <1>4, <1>8 DEF X, Y, t

\* Creation and spending of two sets of transactions together.
LEMMA CreatedSpentUnion ==
  ASSUME NEW X, NEW Y
  PROVE  Created(X \cup Y) = Created(X) \cup Created(Y) /\ Spent(X \cup Y) = Spent(X) \cup Spent(Y)
BY DEF Created, Spent

\* What the later transactions add and take, seen from the outputs.
LEMMA FitsMeans ==
  ASSUME NEW X, NEW Y, Fits(X, Y)
  PROVE  /\ Created(X) \cap Created(Y) = {}
         /\ Spent(X) \cap Spent(Y) = {}
         /\ Spent(X) \cap Created(Y) = {}
         /\ Spent(Y) \subseteq Created(X) \cup Created(Y)
         /\ Spent(Y) \cap Unspendable = {}
         /\ NoBlock \notin X \cup Y
<1>1. /\ X \subseteq Tx /\ Y \subseteq Tx /\ X \cap Y = {} /\ Spent(X) \subseteq Created(X)
      /\ Spent(X \cup Y) \subseteq Created(X \cup Y) \ Unspendable
      /\ \A t, u \in X \cup Y : t # u => TxIns[t] \cap TxIns[u] = {}
  BY DEF Fits
<1>2. Created(X) \cap Created(Y) = {}
  <2>1. SUFFICES ASSUME NEW t \in X, NEW u \in Y PROVE TxOuts[t] \cap TxOuts[u] = {}
    BY DEF Created
  <2>2. t \in Tx /\ u \in Tx /\ t # u
    BY <1>1
  <2>3. QED
    BY <2>2, ContentsAssumption
<1>3. Spent(X) \cap Spent(Y) = {}
  <2>1. SUFFICES ASSUME NEW t \in X, NEW u \in Y PROVE TxIns[t] \cap TxIns[u] = {}
    BY DEF Spent
  <2>2. t # u
    BY <1>1
  <2>3. QED
    BY <1>1, <2>2
<1>4. QED
  BY <1>1, <1>2, <1>3, CreatedSpentUnion, ContentsAssumption

\* The outputs table after the transactions Y, and after they are taken back.
OutputsWith(r, Y) ==
  [o \in DOMAIN r.outputs \cup Created(Y) |->
     IF o \in Spent(Y) THEN CHOOSE t \in Y : o \in TxIns[t]
     ELSE IF o \in DOMAIN r.outputs THEN r.outputs[o] ELSE NoBlock]
OutputsWithout(r, Y) ==
  [o \in DOMAIN r.outputs \ Created(Y) |->
     IF r.outputs[o] \in Y THEN NoBlock ELSE r.outputs[o]]

\* Applying: the outputs table after the transactions Y.
LEMMA OutputsApplied ==
  ASSUME NEW X, NEW Y, Fits(X, Y), NEW r, OutputsMatch(X, r), NEW e,
         e.outputs = OutputsWith(r, Y)
  PROVE  OutputsMatch(X \cup Y, e)
<1>1. /\ Created(X) \cap Created(Y) = {} /\ Spent(X) \cap Spent(Y) = {}
      /\ Spent(X) \cap Created(Y) = {} /\ Spent(Y) \subseteq Created(X) \cup Created(Y)
  BY FitsMeans
<1>2. Created(X \cup Y) = Created(X) \cup Created(Y) /\ Spent(X \cup Y) = Spent(X) \cup Spent(Y)
  BY CreatedSpentUnion
<1>3. DOMAIN r.outputs = Created(X)
  BY DEF OutputsMatch
<1>4. DOMAIN e.outputs = Created(X \cup Y)
  BY <1>2, <1>3 DEF OutputsWith
<1>5. ASSUME NEW o \in Created(X \cup Y)
      PROVE  IF o \in Spent(X \cup Y)
             THEN e.outputs[o] \in X \cup Y /\ o \in TxIns[e.outputs[o]]
             ELSE e.outputs[o] = NoBlock
  <2>1. CASE o \in Spent(Y)
    <3>1. \E t \in Y : o \in TxIns[t]
      BY <2>1 DEF Spent
    <3>2. e.outputs[o] = CHOOSE t \in Y : o \in TxIns[t]
      BY <1>2, <1>3, <1>5, <2>1 DEF OutputsWith
    <3>3. e.outputs[o] \in Y /\ o \in TxIns[e.outputs[o]]
      BY <3>1, <3>2
    <3>4. QED
      BY <1>2, <2>1, <3>3
  <2>2. CASE o \notin Spent(Y) /\ o \in Created(X)
    <3>1. e.outputs[o] = r.outputs[o]
      BY <1>3, <2>2 DEF OutputsWith
    <3>2. IF o \in Spent(X) THEN r.outputs[o] \in X /\ o \in TxIns[r.outputs[o]]
                            ELSE r.outputs[o] = NoBlock
      BY <2>2 DEF OutputsMatch
    <3>3. QED
      BY <1>2, <2>2, <3>1, <3>2
  <2>3. CASE o \notin Spent(Y) /\ o \notin Created(X)
    <3>1. o \in Created(Y) /\ o \notin Spent(X)
      BY <1>1, <1>2, <1>5, <2>3
    <3>2. e.outputs[o] = NoBlock
      BY <1>3, <2>3, <3>1 DEF OutputsWith
    <3>3. QED
      BY <1>2, <2>3, <3>1, <3>2
  <2>4. QED
    BY <2>1, <2>2, <2>3
<1>6. QED
  BY <1>4, <1>5 DEF OutputsMatch

\* The one transaction that spends an output.
LEMMA OneSpender ==
  ASSUME NEW X, NEW Y, Fits(X, Y), NEW t \in X \cup Y, NEW u \in X \cup Y,
         NEW o, o \in TxIns[t], o \in TxIns[u]
  PROVE  t = u
BY DEF Fits

\* Unwinding: the outputs table after the transactions Y are taken back.
LEMMA OutputsUnwound ==
  ASSUME NEW X, NEW Y, Fits(X, Y), NEW r, OutputsMatch(X \cup Y, r), NEW e,
         e.outputs = OutputsWithout(r, Y)
  PROVE  OutputsMatch(X, e)
<1>1. Created(X) \cap Created(Y) = {} /\ NoBlock \notin X \cup Y /\ X \cap Y = {}
  BY FitsMeans DEF Fits
<1>2. Created(X \cup Y) = Created(X) \cup Created(Y) /\ Spent(X \cup Y) = Spent(X) \cup Spent(Y)
  BY CreatedSpentUnion
<1>3. DOMAIN r.outputs = Created(X \cup Y)
  BY DEF OutputsMatch
<1>4. DOMAIN e.outputs = Created(X)
  BY <1>1, <1>2, <1>3 DEF OutputsWithout
<1>5. ASSUME NEW o \in Created(X)
      PROVE  IF o \in Spent(X) THEN e.outputs[o] \in X /\ o \in TxIns[e.outputs[o]]
                               ELSE e.outputs[o] = NoBlock
  <2>0. e.outputs[o] = IF r.outputs[o] \in Y THEN NoBlock ELSE r.outputs[o]
    BY <1>1, <1>2, <1>3 DEF OutputsWithout
  <2>1. IF o \in Spent(X \cup Y) THEN r.outputs[o] \in X \cup Y /\ o \in TxIns[r.outputs[o]]
                                 ELSE r.outputs[o] = NoBlock
    BY <1>2 DEF OutputsMatch
  <2>2. CASE o \in Spent(X)
    <3>1. PICK t \in X : o \in TxIns[t]
      BY <2>2 DEF Spent
    <3>2. r.outputs[o] \in X \cup Y /\ o \in TxIns[r.outputs[o]]
      BY <1>2, <2>1, <2>2
    <3>3. r.outputs[o] = t
      BY <3>1, <3>2, OneSpender
    <3>4. QED
      BY <1>1, <2>0, <2>2, <3>1, <3>2, <3>3
  <2>3. CASE o \notin Spent(X) /\ o \in Spent(Y)
    <3>1. r.outputs[o] \in X \cup Y /\ o \in TxIns[r.outputs[o]]
      BY <1>2, <2>1, <2>3
    <3>2. r.outputs[o] \notin X
      BY <2>3, <3>1 DEF Spent
    <3>3. QED
      BY <2>0, <2>3, <3>1, <3>2
  <2>4. CASE o \notin Spent(X) /\ o \notin Spent(Y)
    <3>1. r.outputs[o] = NoBlock
      BY <1>2, <2>1, <2>4
    <3>2. QED
      BY <1>1, <2>0, <2>4, <3>1
  <2>5. QED
    BY <2>2, <2>3, <2>4
<1>6. QED
  BY <1>4, <1>5 DEF OutputsMatch

\* What a set of transactions creates and spends is finite.
LEMMA FiniteOutputs ==
  ASSUME NEW Y, Y \subseteq Tx, IsFiniteSet(Y)
  PROVE  /\ IsFiniteSet(Created(Y)) /\ Created(Y) \subseteq Outpoint
         /\ IsFiniteSet(Spent(Y)) /\ Spent(Y) \subseteq Outpoint
<1>1. /\ \A t \in Y : IsFiniteSet(TxOuts[t]) /\ TxOuts[t] \subseteq Outpoint
      /\ \A t \in Y : IsFiniteSet(TxIns[t]) /\ TxIns[t] \subseteq Outpoint
  BY ContentsAssumption
<1>2. IsFiniteSet(Created(Y)) /\ Created(Y) \subseteq Outpoint
  <2> DEFINE f == [t \in Y |-> TxOuts[t]]
             F == {f[t] : t \in Y}
  <2>1. DOMAIN f = Y /\ f = [t \in Y |-> f[t]] /\ \A t \in Y : f[t] = TxOuts[t]
    OBVIOUS
  <2>2. Created(Y) = UNION F
    BY <2>1 DEF Created
  <2> HIDE DEF f
  <2>3. IsFiniteSet(F)
    BY <2>1, FiniteImage
  <2>4. \A T \in F : IsFiniteSet(T) /\ T \subseteq Outpoint
    BY <1>1, <2>1
  <2> HIDE DEF F
  <2>5. QED
    BY <2>2, <2>3, <2>4, FS_UNION
<1>3. IsFiniteSet(Spent(Y)) /\ Spent(Y) \subseteq Outpoint
  <2> DEFINE f == [t \in Y |-> TxIns[t]]
             F == {f[t] : t \in Y}
  <2>1. DOMAIN f = Y /\ f = [t \in Y |-> f[t]] /\ \A t \in Y : f[t] = TxIns[t]
    OBVIOUS
  <2>2. Spent(Y) = UNION F
    BY <2>1 DEF Spent
  <2> HIDE DEF f
  <2>3. IsFiniteSet(F)
    BY <2>1, FiniteImage
  <2>4. \A T \in F : IsFiniteSet(T) /\ T \subseteq Outpoint
    BY <1>1, <2>1
  <2> HIDE DEF F
  <2>5. QED
    BY <2>2, <2>3, <2>4, FS_UNION
<1>4. QED
  BY <1>2, <1>3

\* The address_txs rows of one address for a set of transactions at a height.
MineRows(Y, a, h) == {AddressTxRow(a, t, h) : t \in Touching(Y, a)}

\* The columns of an address_txs row.
LEMMA RowFields ==
  ASSUME NEW a, NEW t, NEW h
  PROVE  LET r == AddressTxRow(a, t, h)
         IN  /\ r.address = a /\ r.tx = t /\ r.height = h
             /\ r.received = SumFunctionOnSet(Value, OutsTo(t, a))
             /\ r.sent = SumFunctionOnSet(Value, InsFrom(t, a))
             /\ r.nOut = Cardinality(OutsTo(t, a)) /\ r.nIn = Cardinality(InsFrom(t, a))
BY DEF AddressTxRow

\* Rows and transactions are one to one.
LEMMA MineRowsCount ==
  ASSUME NEW Y, IsFiniteSet(Y), NEW a, NEW h
  PROVE  /\ IsFiniteSet(Touching(Y, a)) /\ IsFiniteSet(MineRows(Y, a, h))
         /\ Cardinality(MineRows(Y, a, h)) = Cardinality(Touching(Y, a))
         /\ \A r \in MineRows(Y, a, h) : r.tx \in Touching(Y, a) /\ r = AddressTxRow(a, r.tx, h)
<1> DEFINE S == Touching(Y, a)
           T == MineRows(Y, a, h)
           f == [t \in S |-> AddressTxRow(a, t, h)]
<1>1. IsFiniteSet(S)
  <2>1. S \subseteq Y
    BY DEF Touching
  <2>2. QED
    BY <2>1, FS_Subset
<1>2. \A t \in S : AddressTxRow(a, t, h).tx = t
  BY RowFields
<1>3. f \in Bijection(S, T)
  <2>1. f \in [S -> T] /\ \A r \in T : \E t \in S : f[t] = r
    BY DEF MineRows
  <2>2. \A t, u \in S : f[t] = f[u] => t = u
    BY <1>2
  <2>3. QED
    BY <2>1, <2>2 DEF Bijection, Injection, Surjection, IsInjective
<1>4. IsFiniteSet(T) /\ Cardinality(T) = Cardinality(S)
  <2>1. ExistsBijection(S, T)
    BY <1>3 DEF ExistsBijection
  <2> HIDE DEF S, T
  <2>2. QED
    BY <1>1, <2>1, FS_Bijection
<1>5. \A r \in T : r.tx \in S /\ r = AddressTxRow(a, r.tx, h)
  BY <1>2 DEF MineRows
<1>6. QED
  BY <1>1, <1>4, <1>5

One == [o \in Outpoint |-> 1]

\* A set of outputs has an integer value and a number of elements.
LEMMA OutputSums ==
  ASSUME NEW S, S \subseteq Outpoint, IsFiniteSet(S)
  PROVE  /\ \A o \in S : Value[o] \in Int /\ One[o] \in Int
         /\ SumFunctionOnSet(Value, S) \in Int
         /\ SumFunctionOnSet(One, S) = Cardinality(S) /\ Cardinality(S) \in Int
<1>1. \A o \in S : Value[o] \in Int /\ One[o] = 1
  BY ContentsAssumption DEF One
<1>2. SumFunctionOnSet(Value, S) \in Int
  BY <1>1, SumInt
<1>3. SumFunctionOnSet(One, S) = Cardinality(S)
  BY <1>1, SumOnes
<1>4. Cardinality(S) \in Nat
  BY FS_CardinalityType
<1>5. QED
  BY <1>1, <1>2, <1>3, <1>4

\* What the rows say an address received, and in how many outputs.
LEMMA RowsReceive ==
  ASSUME NEW Y, Y \subseteq Tx, IsFiniteSet(Y), NEW a, NEW h, NEW M, M = MineRows(Y, a, h)
  PROVE  /\ SumFunctionOnSet([r \in M |-> r.received], M) = SumFunctionOnSet(Value, Given(Y, a))
         /\ SumFunctionOnSet([r \in M |-> r.nOut], M) = Cardinality(Given(Y, a))
         /\ IsFiniteSet(Given(Y, a)) /\ Given(Y, a) \subseteq Outpoint
<1> DEFINE part == [r \in M |-> OutsTo(r.tx, a)]
           E == Created(Y)
           g == [r \in M |-> r.received]
           n == [r \in M |-> r.nOut]
<1>1. /\ IsFiniteSet(M)
      /\ \A r \in M : r.tx \in Touching(Y, a) /\ r = AddressTxRow(a, r.tx, h)
  BY MineRowsCount
<1>2. IsFiniteSet(E) /\ E \subseteq Outpoint
  BY FiniteOutputs
<1>3. \A r \in M : r.tx \in Y /\ r.tx \in Tx
  BY <1>1 DEF Touching
<1>4. ASSUME NEW r \in M
      PROVE  /\ part[r] \subseteq E
             /\ g[r] = SumFunctionOnSet(Value, part[r]) /\ n[r] = SumFunctionOnSet(One, part[r])
  <2>1. r.tx \in Y /\ part[r] = OutsTo(r.tx, a) /\ g[r] = r.received /\ n[r] = r.nOut
    BY <1>3
  <2>2. part[r] \subseteq E
    BY <2>1 DEF OutsTo, Created
  <2>3. IsFiniteSet(part[r]) /\ part[r] \subseteq Outpoint
    BY <1>2, <2>2, FS_Subset
  <2>4. /\ r.received = SumFunctionOnSet(Value, OutsTo(r.tx, a))
        /\ r.nOut = Cardinality(OutsTo(r.tx, a))
    BY <1>1, RowFields
  <2>5. SumFunctionOnSet(One, part[r]) = Cardinality(part[r])
    BY <2>3, OutputSums
  <2>6. QED
    BY <2>1, <2>2, <2>4, <2>5
<1>5. ASSUME NEW r \in M, NEW q \in M, r # q PROVE part[r] \cap part[q] = {}
  <2>1. r.tx # q.tx
    BY <1>1, <1>5
  <2>2. TxOuts[r.tx] \cap TxOuts[q.tx] = {}
    BY <1>3, <2>1, ContentsAssumption
  <2>3. QED
    BY <2>2 DEF OutsTo
<1>6. Parts(part, M) = Given(Y, a)
  <2>1. ASSUME NEW o \in Given(Y, a) PROVE o \in Parts(part, M)
    <3>1. PICK t \in Y : o \in TxOuts[t] /\ o \notin Unspendable /\ Owner[o] = a
      BY <2>1 DEF Given, Created
    <3>2. o \in OutsTo(t, a) /\ t \in Touching(Y, a)
      BY <3>1 DEF OutsTo, Touching
    <3>3. AddressTxRow(a, t, h) \in M /\ AddressTxRow(a, t, h).tx = t
      BY <3>2, RowFields DEF MineRows
    <3>4. QED
      BY <3>2, <3>3 DEF Parts
  <2>2. ASSUME NEW o \in Parts(part, M) PROVE o \in Given(Y, a)
    <3>1. PICK r \in M : o \in OutsTo(r.tx, a)
      BY <2>2 DEF Parts
    <3>2. QED
      BY <1>3, <3>1 DEF OutsTo, Given, Created
  <2>3. QED
    BY <2>1, <2>2
<1>7. \A o \in E : Value[o] \in Int /\ One[o] \in Int
  BY <1>2, OutputSums
<1> HIDE DEF part, g, n, E
<1>8. SumFunctionOnSet(g, M) = SumFunctionOnSet(Value, Parts(part, M))
  BY <1>1, <1>2, <1>4, <1>5, <1>7, SumParts
<1>9. SumFunctionOnSet(n, M) = SumFunctionOnSet(One, Parts(part, M))
  BY <1>1, <1>2, <1>4, <1>5, <1>7, SumParts
<1>10. IsFiniteSet(Given(Y, a)) /\ Given(Y, a) \subseteq Outpoint
  <2>1. Given(Y, a) \subseteq E
    BY DEF Given, E
  <2>2. QED
    BY <1>2, <2>1, FS_Subset
<1>11. SumFunctionOnSet(One, Given(Y, a)) = Cardinality(Given(Y, a))
  BY <1>10, OutputSums
<1>12. QED
  BY <1>6, <1>8, <1>9, <1>10, <1>11 DEF g, n

\* What the rows say an address sent, and how many of its outputs went.
LEMMA RowsSend ==
  ASSUME NEW Y, Y \subseteq Tx, IsFiniteSet(Y), NEW a, NEW h, NEW M, M = MineRows(Y, a, h),
         \A t, u \in Y : t # u => TxIns[t] \cap TxIns[u] = {}
  PROVE  /\ SumFunctionOnSet([r \in M |-> r.sent], M) = SumFunctionOnSet(Value, Taken(Y, a))
         /\ SumFunctionOnSet([r \in M |-> r.nIn], M) = Cardinality(Taken(Y, a))
         /\ IsFiniteSet(Taken(Y, a)) /\ Taken(Y, a) \subseteq Outpoint
<1> DEFINE part == [r \in M |-> InsFrom(r.tx, a)]
           E == Spent(Y)
           g == [r \in M |-> r.sent]
           n == [r \in M |-> r.nIn]
<1>1. /\ IsFiniteSet(M)
      /\ \A r \in M : r.tx \in Touching(Y, a) /\ r = AddressTxRow(a, r.tx, h)
  BY MineRowsCount
<1>2. IsFiniteSet(E) /\ E \subseteq Outpoint
  BY FiniteOutputs
<1>3. \A r \in M : r.tx \in Y
  BY <1>1 DEF Touching
<1>4. ASSUME NEW r \in M
      PROVE  /\ part[r] \subseteq E
             /\ g[r] = SumFunctionOnSet(Value, part[r]) /\ n[r] = SumFunctionOnSet(One, part[r])
  <2>1. r.tx \in Y /\ part[r] = InsFrom(r.tx, a) /\ g[r] = r.sent /\ n[r] = r.nIn
    BY <1>3
  <2>2. part[r] \subseteq E
    BY <2>1 DEF InsFrom, Spent
  <2>3. IsFiniteSet(part[r]) /\ part[r] \subseteq Outpoint
    BY <1>2, <2>2, FS_Subset
  <2>4. /\ r.sent = SumFunctionOnSet(Value, InsFrom(r.tx, a))
        /\ r.nIn = Cardinality(InsFrom(r.tx, a))
    BY <1>1, RowFields
  <2>5. SumFunctionOnSet(One, part[r]) = Cardinality(part[r])
    BY <2>3, OutputSums
  <2>6. QED
    BY <2>1, <2>2, <2>4, <2>5
<1>5. ASSUME NEW r \in M, NEW q \in M, r # q PROVE part[r] \cap part[q] = {}
  <2>1. r.tx # q.tx
    BY <1>1, <1>5
  <2>2. TxIns[r.tx] \cap TxIns[q.tx] = {}
    BY <1>3, <2>1
  <2>3. QED
    BY <2>2 DEF InsFrom
<1>6. Parts(part, M) = Taken(Y, a)
  <2>1. ASSUME NEW o \in Taken(Y, a) PROVE o \in Parts(part, M)
    <3>1. PICK t \in Y : o \in TxIns[t] /\ Owner[o] = a
      BY <2>1 DEF Taken, Spent
    <3>2. o \in InsFrom(t, a) /\ t \in Touching(Y, a)
      BY <3>1 DEF InsFrom, Touching
    <3>3. AddressTxRow(a, t, h) \in M /\ AddressTxRow(a, t, h).tx = t
      BY <3>2, RowFields DEF MineRows
    <3>4. QED
      BY <3>2, <3>3 DEF Parts
  <2>2. ASSUME NEW o \in Parts(part, M) PROVE o \in Taken(Y, a)
    <3>1. PICK r \in M : o \in InsFrom(r.tx, a)
      BY <2>2 DEF Parts
    <3>2. QED
      BY <1>3, <3>1 DEF InsFrom, Taken, Spent
  <2>3. QED
    BY <2>1, <2>2
<1>7. \A o \in E : Value[o] \in Int /\ One[o] \in Int
  BY <1>2, OutputSums
<1> HIDE DEF part, g, n, E
<1>8. SumFunctionOnSet(g, M) = SumFunctionOnSet(Value, Parts(part, M))
  BY <1>1, <1>2, <1>4, <1>5, <1>7, SumParts
<1>9. SumFunctionOnSet(n, M) = SumFunctionOnSet(One, Parts(part, M))
  BY <1>1, <1>2, <1>4, <1>5, <1>7, SumParts
<1>10. IsFiniteSet(Taken(Y, a)) /\ Taken(Y, a) \subseteq Outpoint
  <2>1. Taken(Y, a) \subseteq E
    BY DEF Taken, E
  <2>2. QED
    BY <1>2, <2>1, FS_Subset
<1>11. SumFunctionOnSet(One, Taken(Y, a)) = Cardinality(Taken(Y, a))
  BY <1>10, OutputSums
<1>12. QED
  BY <1>6, <1>8, <1>9, <1>10, <1>11 DEF g, n

\* The unspent outputs of an address after Y: those before, with what Y gives
\* and without what Y takes.
LEMMA UnspentMoves ==
  ASSUME NEW X, NEW Y, Fits(X, Y), NEW a
  PROVE  /\ Unspent(X \cup Y, a) = (Unspent(X, a) \cup Given(Y, a)) \ Taken(Y, a)
         /\ Unspent(X, a) \cap Given(Y, a) = {}
         /\ Taken(Y, a) \subseteq Unspent(X, a) \cup Given(Y, a)
<1>1. /\ Created(X) \cap Created(Y) = {} /\ Spent(X) \cap Spent(Y) = {}
      /\ Spent(X) \cap Created(Y) = {} /\ Spent(Y) \subseteq Created(X) \cup Created(Y)
      /\ Spent(Y) \cap Unspendable = {}
  BY FitsMeans
<1>2. Created(X \cup Y) = Created(X) \cup Created(Y) /\ Spent(X \cup Y) = Spent(X) \cup Spent(Y)
  BY CreatedSpentUnion
<1>3. Unspent(X, a) \cap Given(Y, a) = {}
  BY <1>1 DEF Unspent, Given
<1>4. Taken(Y, a) \subseteq Unspent(X, a) \cup Given(Y, a)
  BY <1>1 DEF Unspent, Given, Taken
<1>5. Unspent(X \cup Y, a) = (Unspent(X, a) \cup Given(Y, a)) \ Taken(Y, a)
  BY <1>1, <1>2 DEF Unspent, Given, Taken
<1>6. QED
  BY <1>3, <1>4, <1>5

\* The sums over a set of address_txs rows that the rollup uses.
Recv(M) == SumFunctionOnSet([r \in M |-> r.received], M)
Paid(M) == SumFunctionOnSet([r \in M |-> r.sent], M)
NOut(M) == SumFunctionOnSet([r \in M |-> r.nOut], M)
NIn(M)  == SumFunctionOnSet([r \in M |-> r.nIn], M)

\* Balance, number of outputs and number of transactions move by the rows M.
Moves(X, Y, a, M) ==
  /\ Recv(M) \in Int /\ Paid(M) \in Int /\ NOut(M) \in Int /\ NIn(M) \in Int
  /\ SumFunctionOnSet(Value, Unspent(X, a)) \in Int
  /\ Cardinality(Unspent(X, a)) \in Int /\ Cardinality(Touching(X, a)) \in Int
  /\ Cardinality(M) \in Int
  /\ SumFunctionOnSet(Value, Unspent(X \cup Y, a))
       = SumFunctionOnSet(Value, Unspent(X, a)) + (Recv(M) - Paid(M))
  /\ Cardinality(Unspent(X \cup Y, a)) = Cardinality(Unspent(X, a)) + (NOut(M) - NIn(M))
  /\ Cardinality(Touching(X \cup Y, a)) = Cardinality(Touching(X, a)) + Cardinality(M)
  /\ SumFunctionOnSet(Value, Given(X, a)) \in Int /\ SumFunctionOnSet(Value, Taken(X, a)) \in Int
  /\ SumFunctionOnSet(Value, Given(X \cup Y, a)) = SumFunctionOnSet(Value, Given(X, a)) + Recv(M)
  /\ SumFunctionOnSet(Value, Taken(X \cup Y, a)) = SumFunctionOnSet(Value, Taken(X, a)) + Paid(M)

\* What the transactions X and then Y give to an address and take from it.
LEMMA GivenTakenMove ==
  ASSUME NEW X, NEW Y, Fits(X, Y), NEW a
  PROVE  /\ SumFunctionOnSet(Value, Given(X, a)) \in Int
         /\ SumFunctionOnSet(Value, Taken(X, a)) \in Int
         /\ SumFunctionOnSet(Value, Given(X \cup Y, a))
              = SumFunctionOnSet(Value, Given(X, a)) + SumFunctionOnSet(Value, Given(Y, a))
         /\ SumFunctionOnSet(Value, Taken(X \cup Y, a))
              = SumFunctionOnSet(Value, Taken(X, a)) + SumFunctionOnSet(Value, Taken(Y, a))
<1>1. Created(X) \cap Created(Y) = {} /\ Spent(X) \cap Spent(Y) = {}
  BY FitsMeans
<1>2. /\ Given(X \cup Y, a) = Given(X, a) \cup Given(Y, a) /\ Given(X, a) \cap Given(Y, a) = {}
      /\ Taken(X \cup Y, a) = Taken(X, a) \cup Taken(Y, a) /\ Taken(X, a) \cap Taken(Y, a) = {}
  BY <1>1, CreatedSpentUnion DEF Given, Taken
<1>3. ASSUME NEW Z, Z \subseteq Tx, IsFiniteSet(Z)
      PROVE  /\ IsFiniteSet(Given(Z, a)) /\ Given(Z, a) \subseteq Outpoint
             /\ IsFiniteSet(Taken(Z, a)) /\ Taken(Z, a) \subseteq Outpoint
  <2>1. /\ IsFiniteSet(Created(Z)) /\ Created(Z) \subseteq Outpoint
        /\ IsFiniteSet(Spent(Z)) /\ Spent(Z) \subseteq Outpoint
    BY <1>3, FiniteOutputs
  <2>2. Given(Z, a) \subseteq Created(Z) /\ Taken(Z, a) \subseteq Spent(Z)
    BY DEF Given, Taken
  <2>3. QED
    BY <2>1, <2>2, FS_Subset
<1>4. /\ IsFiniteSet(Given(X, a)) /\ Given(X, a) \subseteq Outpoint
      /\ IsFiniteSet(Taken(X, a)) /\ Taken(X, a) \subseteq Outpoint
      /\ IsFiniteSet(Given(Y, a)) /\ Given(Y, a) \subseteq Outpoint
      /\ IsFiniteSet(Taken(Y, a)) /\ Taken(Y, a) \subseteq Outpoint
  BY <1>3 DEF Fits
<1>5. /\ \A o \in Given(X, a) \cup Given(Y, a) : Value[o] \in Int
      /\ \A o \in Taken(X, a) \cup Taken(Y, a) : Value[o] \in Int
  BY <1>4, ContentsAssumption
<1>6. /\ SumFunctionOnSet(Value, Given(X, a)) \in Int
      /\ SumFunctionOnSet(Value, Taken(X, a)) \in Int
  BY <1>4, OutputSums
<1>7. SumFunctionOnSet(Value, Given(X, a) \cup Given(Y, a))
        = SumFunctionOnSet(Value, Given(X, a)) + SumFunctionOnSet(Value, Given(Y, a))
  BY <1>2, <1>4, <1>5, SumUnion
<1>8. SumFunctionOnSet(Value, Taken(X, a) \cup Taken(Y, a))
        = SumFunctionOnSet(Value, Taken(X, a)) + SumFunctionOnSet(Value, Taken(Y, a))
  BY <1>2, <1>4, <1>5, SumUnion
<1>9. QED
  BY <1>2, <1>6, <1>7, <1>8

\* So they do when the later transactions follow the earlier ones.
LEMMA RollupMoves ==
  ASSUME NEW X, NEW Y, Fits(X, Y), NEW a, NEW h, NEW M, M = MineRows(Y, a, h)
  PROVE  Moves(X, Y, a, M)
<1> DEFINE U == Unspent(X, a)
           G == Given(Y, a)
           K == Taken(Y, a)
           recv == Recv(M)
           sent == Paid(M)
           nOut == NOut(M)
           nIn  == NIn(M)
<1>1. /\ X \subseteq Tx /\ IsFiniteSet(X) /\ Y \subseteq Tx /\ IsFiniteSet(Y) /\ X \cap Y = {}
      /\ \A t, u \in Y : t # u => TxIns[t] \cap TxIns[u] = {}
  BY DEF Fits
<1>2. /\ recv = SumFunctionOnSet(Value, G) /\ nOut = Cardinality(G)
      /\ IsFiniteSet(G) /\ G \subseteq Outpoint
  BY <1>1, RowsReceive DEF Recv, NOut
<1>3. /\ sent = SumFunctionOnSet(Value, K) /\ nIn = Cardinality(K)
      /\ IsFiniteSet(K) /\ K \subseteq Outpoint
  BY <1>1, RowsSend DEF Paid, NIn
<1>4. IsFiniteSet(U) /\ U \subseteq Outpoint
  <2>1. IsFiniteSet(Created(X)) /\ Created(X) \subseteq Outpoint
    BY <1>1, FiniteOutputs
  <2>2. U \subseteq Created(X)
    BY DEF Unspent
  <2>3. QED
    BY <2>1, <2>2, FS_Subset
<1>5. Unspent(X \cup Y, a) = (U \cup G) \ K /\ U \cap G = {} /\ K \in SUBSET (U \cup G)
  BY UnspentMoves
<1>c. /\ IsFiniteSet(Touching(X, a)) /\ IsFiniteSet(Touching(Y, a)) /\ IsFiniteSet(M)
      /\ Cardinality(M) = Cardinality(Touching(Y, a))
  BY <1>1, MineRowsCount
<1>d. /\ Touching(X \cup Y, a) = Touching(X, a) \cup Touching(Y, a)
      /\ Touching(X, a) \cap Touching(Y, a) = {}
  BY <1>1 DEF Touching
<1> HIDE DEF U, G, K, recv, sent, nOut, nIn
<1>6. IsFiniteSet(U \cup G) /\ U \cup G \subseteq Outpoint
  BY <1>2, <1>4, FS_Union
<1>7. /\ \A o \in U \cup G : Value[o] \in Int /\ One[o] \in Int
      /\ SumFunctionOnSet(Value, U) \in Int /\ SumFunctionOnSet(Value, G) \in Int
      /\ SumFunctionOnSet(Value, K) \in Int
      /\ SumFunctionOnSet(One, U) = Cardinality(U) /\ SumFunctionOnSet(One, G) = Cardinality(G)
      /\ SumFunctionOnSet(One, K) = Cardinality(K)
      /\ Cardinality(U) \in Int /\ Cardinality(G) \in Int /\ Cardinality(K) \in Int
  BY <1>2, <1>3, <1>4, <1>6, OutputSums
<1>8. SumFunctionOnSet(Value, U \cup G) = SumFunctionOnSet(Value, U) + SumFunctionOnSet(Value, G)
  BY <1>2, <1>4, <1>5, <1>7, SumUnion
<1>9. SumFunctionOnSet(Value, (U \cup G) \ K)
        = SumFunctionOnSet(Value, U \cup G) - SumFunctionOnSet(Value, K)
  BY <1>5, <1>6, <1>7, SumWithout
<1>10. SumFunctionOnSet(One, U \cup G) = SumFunctionOnSet(One, U) + SumFunctionOnSet(One, G)
  BY <1>2, <1>4, <1>5, <1>7, SumUnion
<1>11. SumFunctionOnSet(One, (U \cup G) \ K)
         = SumFunctionOnSet(One, U \cup G) - SumFunctionOnSet(One, K)
  BY <1>5, <1>6, <1>7, SumWithout
<1>12. SumFunctionOnSet(One, (U \cup G) \ K) = Cardinality((U \cup G) \ K)
  <2>1. IsFiniteSet((U \cup G) \ K) /\ (U \cup G) \ K \subseteq Outpoint
    BY <1>6, FS_Subset
  <2>2. QED
    BY <2>1, OutputSums
<1>13. SumFunctionOnSet(Value, Unspent(X \cup Y, a)) = SumFunctionOnSet(Value, U) + (recv - sent)
  BY <1>2, <1>3, <1>5, <1>7, <1>8, <1>9
<1>14. Cardinality(Unspent(X \cup Y, a)) = Cardinality(U) + (nOut - nIn)
  <2>1. SumFunctionOnSet(One, (U \cup G) \ K) = (Cardinality(U) + Cardinality(G)) - Cardinality(K)
    BY <1>7, <1>10, <1>11
  <2>2. Cardinality((U \cup G) \ K) = (Cardinality(U) + Cardinality(G)) - Cardinality(K)
    BY <1>12, <2>1
  <2>3. (Cardinality(U) + Cardinality(G)) - Cardinality(K)
          = Cardinality(U) + (Cardinality(G) - Cardinality(K))
    BY <1>7
  <2>4. QED
    BY <1>2, <1>3, <1>5, <2>2, <2>3
<1>15. /\ Cardinality(Touching(X \cup Y, a)) = Cardinality(Touching(X, a)) + Cardinality(M)
       /\ Cardinality(Touching(X, a)) \in Int /\ Cardinality(M) \in Int
  <2>1. Cardinality(Touching(X, a)) \in Nat /\ Cardinality(Touching(Y, a)) \in Nat
    BY <1>c, FS_CardinalityType
  <2>2. Cardinality(Touching(X, a) \cup Touching(Y, a))
          = Cardinality(Touching(X, a)) + Cardinality(Touching(Y, a)) - Cardinality({})
    BY <1>c, <1>d, FS_Union
  <2>3. Cardinality({}) = 0
    BY FS_EmptySet
  <2>4. Cardinality(Touching(X, a) \cup Touching(Y, a))
          = Cardinality(Touching(X, a)) + Cardinality(Touching(Y, a))
    BY <2>1, <2>2, <2>3
  <2>5. Cardinality(M) = Cardinality(Touching(Y, a))
    BY <1>c
  <2>6. Cardinality(Touching(X \cup Y, a)) = Cardinality(Touching(X, a) \cup Touching(Y, a))
    BY <1>d
  <2>7. \A n \in Nat : n \in Int
    OBVIOUS
  <2>8. QED
    BY <2>1, <2>4, <2>5, <2>6, <2>7, Zenon
<1>g. /\ SumFunctionOnSet(Value, Given(X, a)) \in Int
      /\ SumFunctionOnSet(Value, Taken(X, a)) \in Int
      /\ SumFunctionOnSet(Value, Given(X \cup Y, a))
           = SumFunctionOnSet(Value, Given(X, a)) + SumFunctionOnSet(Value, G)
      /\ SumFunctionOnSet(Value, Taken(X \cup Y, a))
           = SumFunctionOnSet(Value, Taken(X, a)) + SumFunctionOnSet(Value, K)
  BY GivenTakenMove DEF G, K
<1>16. /\ SumFunctionOnSet(Value, Given(X, a)) \in Int
       /\ SumFunctionOnSet(Value, Taken(X, a)) \in Int
       /\ SumFunctionOnSet(Value, Given(X \cup Y, a)) = SumFunctionOnSet(Value, Given(X, a)) + recv
       /\ SumFunctionOnSet(Value, Taken(X \cup Y, a)) = SumFunctionOnSet(Value, Taken(X, a)) + sent
  BY <1>2, <1>3, <1>g, Zenon
<1>17. QED
  BY <1>2, <1>3, <1>7, <1>13, <1>14, <1>15, <1>16 DEF Moves, U, G, K, recv, sent, nOut, nIn

\* The address_txs rows of a block at a height, and of a branch.
BlockRows(b, h) == UNION {AddressTxRows(t, h) : t \in TxsOf(b)}
History(s) == UNION {BlockRows(s[i], i - 1) : i \in DOMAIN s}

\* Of the rows of a block, those of one address.
LEMMA BlockRowsMine ==
  ASSUME NEW b, NEW h, NEW a \in Address
  PROVE  {x \in BlockRows(b, h) : x.address = a} = MineRows(TxsOf(b), a, h)
<1>1. ASSUME NEW x \in BlockRows(b, h), x.address = a PROVE x \in MineRows(TxsOf(b), a, h)
  <2>1. PICK t \in TxsOf(b) : x \in AddressTxRows(t, h)
    BY <1>1 DEF BlockRows
  <2>2. PICK c \in Address : OutsTo(t, c) \cup InsFrom(t, c) # {} /\ x = AddressTxRow(c, t, h)
    BY <2>1 DEF AddressTxRows
  <2>3. c = a
    BY <1>1, <2>2, RowFields
  <2>4. QED
    BY <2>1, <2>2, <2>3 DEF MineRows, Touching
<1>2. ASSUME NEW x \in MineRows(TxsOf(b), a, h) PROVE x \in BlockRows(b, h) /\ x.address = a
  <2>1. PICK t \in TxsOf(b) : OutsTo(t, a) \cup InsFrom(t, a) # {} /\ x = AddressTxRow(a, t, h)
    BY <1>2 DEF MineRows, Touching
  <2>2. x \in AddressTxRows(t, h)
    BY <2>1 DEF AddressTxRows
  <2>3. QED
    BY <2>1, <2>2, RowFields DEF BlockRows
<1>3. QED
  BY <1>1, <1>2

\* A row of a block is about a transaction of it.
LEMMA BlockRowsTx ==
  ASSUME NEW b, NEW h, NEW x \in BlockRows(b, h)
  PROVE  x.tx \in TxsOf(b)
<1>1. PICK t \in TxsOf(b) : x \in AddressTxRows(t, h)
  BY DEF BlockRows
<1>2. PICK c \in Address : x = AddressTxRow(c, t, h)
  BY <1>1 DEF AddressTxRows
<1>3. QED
  BY <1>1, <1>2, RowFields

\* The history of a branch that grows by a block, which is taken out of it
\* again by its transactions.
LEMMA HistoryAppend ==
  ASSUME NEW s \in Seq(Block), NEW b \in Block
  PROVE  /\ History(Append(s, b)) = History(s) \cup BlockRows(b, Len(s))
         /\ TxsIn(s) \cap TxsOf(b) = {} =>
              /\ {x \in History(Append(s, b)) : x.tx \in TxsOf(b)} = BlockRows(b, Len(s))
              /\ History(Append(s, b)) \ BlockRows(b, Len(s)) = History(s)
<1> DEFINE t == Append(s, b)
<1>1. /\ DOMAIN t = 1..(Len(s) + 1) /\ DOMAIN s = 1..Len(s) /\ Len(s) \in Nat
      /\ t[Len(s) + 1] = b /\ \A i \in 1..Len(s) : t[i] = s[i]
      /\ (Len(s) + 1) - 1 = Len(s)
  OBVIOUS
<1> HIDE DEF t
<1>2. DOMAIN t = DOMAIN s \cup {Len(s) + 1} /\ \A i \in DOMAIN s : t[i] = s[i]
  BY <1>1
<1>3. History(t) = History(s) \cup BlockRows(b, Len(s))
  <2>1. ASSUME NEW x \in History(t) PROVE x \in History(s) \cup BlockRows(b, Len(s))
    <3>1. PICK i \in DOMAIN t : x \in BlockRows(t[i], i - 1)
      BY <2>1 DEF History
    <3>2. CASE i \in DOMAIN s
      BY <1>2, <3>1, <3>2 DEF History
    <3>3. CASE i = Len(s) + 1
      BY <1>1, <3>1, <3>3
    <3>4. QED
      BY <1>2, <3>1, <3>2, <3>3
  <2>2. ASSUME NEW x \in History(s) PROVE x \in History(t)
    <3>1. PICK i \in DOMAIN s : x \in BlockRows(s[i], i - 1)
      BY <2>2 DEF History
    <3>2. QED
      BY <1>2, <3>1 DEF History
  <2>3. ASSUME NEW x \in BlockRows(b, Len(s)) PROVE x \in History(t)
    <3>1. Len(s) + 1 \in DOMAIN t /\ x \in BlockRows(t[Len(s) + 1], (Len(s) + 1) - 1)
      BY <1>1, <1>2, <2>3
    <3>2. QED
      BY <3>1 DEF History
  <2>4. QED
    BY <2>1, <2>2, <2>3
<1>4. \A x \in BlockRows(b, Len(s)) : x.tx \in TxsOf(b)
  BY BlockRowsTx
<1>5. ASSUME NEW x \in History(s) PROVE x.tx \in TxsIn(s)
  <2>1. PICK i \in DOMAIN s : x \in BlockRows(s[i], i - 1)
    BY <1>5 DEF History
  <2>2. x.tx \in TxsOf(s[i]) /\ s[i] \in Range(s)
    BY <2>1, BlockRowsTx DEF Range
  <2>3. QED
    BY <2>2 DEF TxsIn
<1>6. QED
  BY <1>3, <1>4, <1>5 DEF t

\* A rollup row that is right after a set of transactions.
Totals(row, X, a) ==
  /\ row.received = SumFunctionOnSet(Value, Given(X, a))
  /\ row.sent = SumFunctionOnSet(Value, Taken(X, a))
  /\ row.balance = SumFunctionOnSet(Value, Unspent(X, a))
  /\ row.utxos = Cardinality(Unspent(X, a))
  /\ row.txs = Cardinality(Touching(X, a))

\* Adding the rows of later transactions to it keeps it right, and so does
\* taking them back.
LEMMA RolledUp ==
  ASSUME NEW X, NEW Y, NEW a, NEW M, Moves(X, Y, a, M), NEW old
  PROVE  /\ Totals(old, X, a) => Totals(Rolled(old, M, 1), X \cup Y, a)
         /\ Totals(old, X \cup Y, a) => Totals(Rolled(old, M, -1), X, a)
<1> DEFINE recv == Recv(M)
           sent == Paid(M)
           nOut == NOut(M)
           nIn  == NIn(M)
           v == SumFunctionOnSet(Value, Unspent(X, a))
           w == SumFunctionOnSet(Value, Unspent(X \cup Y, a))
           m == Cardinality(Unspent(X, a))
           n == Cardinality(Unspent(X \cup Y, a))
           p == Cardinality(Touching(X, a))
           q == Cardinality(Touching(X \cup Y, a))
           c == Cardinality(M)
           g == SumFunctionOnSet(Value, Given(X, a))
           f == SumFunctionOnSet(Value, Given(X \cup Y, a))
           k == SumFunctionOnSet(Value, Taken(X, a))
           l == SumFunctionOnSet(Value, Taken(X \cup Y, a))
<1>1. /\ recv \in Int /\ sent \in Int /\ nOut \in Int /\ nIn \in Int
      /\ v \in Int /\ m \in Int /\ p \in Int /\ c \in Int
      /\ w = v + (recv - sent) /\ n = m + (nOut - nIn) /\ q = p + c
      /\ g \in Int /\ k \in Int /\ f = g + recv /\ l = k + sent
  BY DEF Moves
<1>2. /\ Rolled(old, M, 1).received = old.received + 1 * recv
      /\ Rolled(old, M, 1).sent = old.sent + 1 * sent
      /\ Rolled(old, M, -1).received = old.received + (-1) * recv
      /\ Rolled(old, M, -1).sent = old.sent + (-1) * sent
      /\ Rolled(old, M, 1).balance = old.balance + 1 * (recv - sent)
      /\ Rolled(old, M, 1).utxos = old.utxos + 1 * (nOut - nIn)
      /\ Rolled(old, M, 1).txs = old.txs + 1 * c
      /\ Rolled(old, M, -1).balance = old.balance + (-1) * (recv - sent)
      /\ Rolled(old, M, -1).utxos = old.utxos + (-1) * (nOut - nIn)
      /\ Rolled(old, M, -1).txs = old.txs + (-1) * c
  BY DEF Rolled, Recv, Paid, NOut, NIn
<1> HIDE DEF recv, sent, nOut, nIn, v, w, m, n, p, q, c, g, f, k, l
<1>3. /\ v + 1 * (recv - sent) = w /\ m + 1 * (nOut - nIn) = n /\ p + 1 * c = q
      /\ g + 1 * recv = f /\ k + 1 * sent = l /\ f + (-1) * recv = g /\ l + (-1) * sent = k
      /\ w + (-1) * (recv - sent) = v /\ n + (-1) * (nOut - nIn) = m /\ q + (-1) * c = p
  BY <1>1
<1>4. QED
  BY <1>2, <1>3, Zenon DEF Totals, v, w, m, n, p, q, c, g, f, k, l

\* The rows are those of a branch.
RowsOf(s, r) == OutputsMatch(TxsIn(s), r) /\ AddressesMatch(TxsIn(s), r) /\ HistoryMatches(s, r)

\* address_txs holds the history of the branch.
LEMMA HistoryIs ==
  ASSUME NEW s, NEW r
  PROVE  HistoryMatches(s, r) <=> r.addressTxs = History(s)
BY DEF HistoryMatches, History, BlockRows

\* _apply_locked takes the rows of a branch to those of the branch and a block.
LEMMA RowsApplied ==
  ASSUME NEW s \in Seq(Block), NEW b \in Block, IsBranch(Append(s, b)), NEW r, RowsOf(s, r)
  PROVE  RowsOf(Append(s, b), AppliedRows(r, Len(s), b))
<1> DEFINE X == TxsIn(s)
           Y == TxsOf(b)
           e == AppliedRows(r, Len(s), b)
           D == BlockRows(b, Len(s))
<1>1. Fits(X, Y) /\ TxsIn(Append(s, b)) = X \cup Y
  BY BranchFits
<1>2. /\ e.outputs = OutputsWith(r, Y)
      /\ e.addressTxs = r.addressTxs \cup D
      /\ e.addresses = Roll(r.addresses, D, 1)
  BY DEF AppliedRows, BlockRows, OutputsWith
<1>3. OutputsMatch(X, r) /\ AddressesMatch(X, r) /\ r.addressTxs = History(s)
  BY HistoryIs DEF RowsOf
<1>4. HistoryMatches(Append(s, b), e)
  <2>1. History(Append(s, b)) = History(s) \cup D
    BY HistoryAppend
  <2> HIDE DEF D, e
  <2>2. e.addressTxs = History(Append(s, b))
    BY <1>2, <1>3, <2>1
  <2>3. QED
    BY <2>2, HistoryIs
<1> HIDE DEF X, Y, e
<1>5. OutputsMatch(X \cup Y, e)
  BY <1>1, <1>2, <1>3, OutputsApplied
<1>6. AddressesMatch(X \cup Y, e)
  <2> SUFFICES ASSUME NEW a \in Address
               PROVE  Totals(e.addresses[a], X \cup Y, a)
    BY DEF AddressesMatch, Totals
  <2> DEFINE M == MineRows(Y, a, Len(s))
  <2>1. {x \in D : x.address = a} = M
    BY BlockRowsMine DEF Y
  <2> HIDE DEF M, D
  <2>2. e.addresses[a] = Rolled(r.addresses[a], M, 1)
    BY <1>2, <2>1 DEF Roll
  <2>3. Totals(r.addresses[a], X, a)
    BY <1>3 DEF AddressesMatch, Totals
  <2>4. Moves(X, Y, a, M)
    BY <1>1, RollupMoves DEF M
  <2>5. QED
    BY <2>2, <2>3, <2>4, RolledUp
<1>7. QED
  BY <1>1, <1>4, <1>5, <1>6 DEF RowsOf, e

\* _unwind_locked takes them back to those of the branch without its last block.
LEMMA RowsUnwound ==
  ASSUME NEW s \in Seq(Block), NEW b \in Block, IsBranch(Append(s, b)), NEW r,
         RowsOf(Append(s, b), r)
  PROVE  RowsOf(s, UnwoundRows(r, b))
<1> DEFINE X == TxsIn(s)
           Y == TxsOf(b)
           e == UnwoundRows(r, b)
           D == BlockRows(b, Len(s))
<1>1. Fits(X, Y) /\ TxsIn(Append(s, b)) = X \cup Y
  BY BranchFits
<1>2. OutputsMatch(X \cup Y, r) /\ AddressesMatch(X \cup Y, r) /\ r.addressTxs = History(Append(s, b))
  BY <1>1, HistoryIs DEF RowsOf
<1>3. {x \in r.addressTxs : x.tx \in TxsOf(b)} = D /\ r.addressTxs \ D = History(s)
  <2>1. TxsIn(s) \cap TxsOf(b) = {}
    BY <1>1 DEF Fits
  <2>2. QED
    BY <1>2, <2>1, HistoryAppend
<1> HIDE DEF D
<1>4. /\ e.outputs = OutputsWithout(r, Y)
      /\ e.addressTxs = r.addressTxs \ D
      /\ e.addresses = Roll(r.addresses, D, -1)
  BY <1>3 DEF UnwoundRows, OutputsWithout
<1> HIDE DEF X, Y, e
<1>5. HistoryMatches(s, e)
  BY <1>3, <1>4, HistoryIs
<1>6. OutputsMatch(X, e)
  BY <1>1, <1>2, <1>4, OutputsUnwound
<1>7. AddressesMatch(X, e)
  <2> SUFFICES ASSUME NEW a \in Address
               PROVE  Totals(e.addresses[a], X, a)
    BY DEF AddressesMatch, Totals
  <2> DEFINE M == MineRows(Y, a, Len(s))
  <2>1. {x \in D : x.address = a} = M
    BY BlockRowsMine DEF Y, D
  <2> HIDE DEF M
  <2>2. e.addresses[a] = Rolled(r.addresses[a], M, -1)
    BY <1>4, <2>1 DEF Roll
  <2>3. Totals(r.addresses[a], X \cup Y, a)
    BY <1>2 DEF AddressesMatch, Totals
  <2>4. Moves(X, Y, a, M)
    BY <1>1, RollupMoves DEF M
  <2>5. QED
    BY <2>2, <2>3, <2>4, RolledUp
<1>8. QED
  BY <1>5, <1>6, <1>7 DEF RowsOf, X, e

\* verify() reads the block table through its blocks alone.
LEMMA RowsMatchIs ==
  ASSUME NEW d, NEW r
  PROVE  RowsMatch(d, r) <=> RowsOf(d.blocks, r)
BY DEF RowsMatch, RowsOf

\* The rows after a block that links is applied to a table.
LEMMA AppliedMatch ==
  ASSUME NEW d \in Databases, IsChain(d), NEW b \in Block, Parent[b] = TipHash(d),
         NEW r, RowsMatch(d, r)
  PROVE  RowsMatch(AppliedDb(d, b), AppliedRows(r, Tip(d) + 1, b))
<1>1. d.blocks \in Seq(Block) /\ Tip(d) + 1 = Len(d.blocks)
  BY DEF Databases, Tip
<1>2. IsBranch(Append(d.blocks, b))
  BY LinkedIsBranch
<1>3. AppliedDb(d, b).blocks = Append(d.blocks, b)
  BY AppliedDbType
<1>4. RowsOf(d.blocks, r)
  BY RowsMatchIs
<1>5. RowsOf(Append(d.blocks, b), AppliedRows(r, Len(d.blocks), b))
  BY <1>1, <1>2, <1>4, RowsApplied
<1>6. QED
  BY <1>1, <1>3, <1>5, RowsMatchIs

\* The rows after the last block of a table is unwound.
LEMMA UnwoundMatch ==
  ASSUME NEW d \in Databases, IsChain(d), d.blocks # <<>>, NEW r, RowsMatch(d, r)
  PROVE  RowsMatch(UnwoundDb(d), UnwoundRows(r, TipHash(d)))
<1> DEFINE s == SubSeq(d.blocks, 1, Len(d.blocks) - 1)
           b == TipHash(d)
<1>1. s \in Seq(Block) /\ b \in Block /\ d.blocks = Append(s, b)
  BY FrontAndLast
<1>2. UnwoundDb(d).blocks = s
  BY UnwoundDbType
<1>3. IsBranch(d.blocks) /\ RowsOf(d.blocks, r)
  BY ChainIsBranch, RowsMatchIs
<1> HIDE DEF s, b
<1>4. RowsOf(s, UnwoundRows(r, b))
  BY <1>1, <1>3, RowsUnwound
<1>5. QED
  BY <1>2, <1>4, RowsMatchIs DEF b

\* Every step keeps the rows those of the block table, in the committed
\* database and in the one a power cut goes back to.
LEMMA RowsStep ==
  ASSUME IInv, RowsMatchBlocks, [Next]_vars
  PROVE  RowsMatchBlocks'
<1> USE DEF node, disk, fetch
<1>0. db \in Databases /\ savedDb \in Databases /\ raws \in Raws /\ reorg \in Reorgs
      /\ Tip(db) \in Heights /\ IsChain(db)
  BY TipType DEF IInv, TypeOK, InvariantI
<1>a. RowsMatch(db, rows) /\ RowsMatch(savedDb, savedRows)
  BY DEF RowsMatchBlocks
<1>k. ASSUME db'.blocks = db.blocks, UNCHANGED <<rows, savedDb, savedRows>>
      PROVE  RowsMatchBlocks'
  <2>1. RowsMatch(db', rows')
    BY <1>a, <1>k, RowsMatchIs
  <2>2. QED
    BY <1>a, <1>k, <2>1 DEF RowsMatchBlocks
<1>q. ASSUME UNCHANGED <<db, rows, savedDb, savedRows>> PROVE RowsMatchBlocks'
  BY <1>k, <1>q
<1>g. ASSUME db' = [db EXCEPT !.genesis = Observed], UNCHANGED <<rows, savedDb, savedRows>>
      PROVE  RowsMatchBlocks'
  BY <1>0, <1>g, <1>k, OtherWrites
<1>1. CASE PollNode
  BY <1>1, <1>g DEF PollNode, Observe
<1>2. CASE Repoll
  BY <1>2, <1>g DEF Repoll, Observe
<1>3. CASE RefuseWrongChain
  BY <1>3, <1>q DEF RefuseWrongChain
<1>4. CASE Finish
  <2>1. db'.blocks = db.blocks
    BY <1>0, <1>4, OtherWrites DEF Finish
  <2>2. QED
    BY <1>4, <1>k, <2>1 DEF Finish
<1>5. CASE IndexNotShorter
  BY <1>5, <1>q DEF IndexNotShorter
<1>6. CASE StartFetch
  BY <1>6, <1>q DEF StartFetch
<1>7. CASE FetchHash
  BY <1>7, <1>q DEF FetchHash
<1>8. CASE HashesDone
  BY <1>8, <1>q DEF HashesDone
<1>9. CASE FetchBody
  BY <1>9, <1>q DEF FetchBody
<1>10. CASE BodiesDone
  BY <1>10, <1>q DEF BodiesDone
<1>11. CASE ApplyBlock
  <2> DEFINE b == Head(raws).hash
  <2>1. b \in Block
    <3>1. raws # <<>>
      BY <1>11 DEF ApplyBlock
    <3>2. Head(raws) \in [hash : Block, confirmations : Int]
      BY <3>1, <1>0, HeadTailProperties DEF Raws
    <3>3. QED
      BY <3>2
  <2>2. /\ db' = AppliedDb(db, b) /\ Parent[b] = TipHash(db)
        /\ rows' = AppliedRows(rows, Tip(db) + 1, b)
        /\ savedDb' = savedDb /\ savedRows' = savedRows
    BY <1>11 DEF ApplyBlock, Links
  <2> HIDE DEF b
  <2>3. RowsMatch(db', rows')
    BY <1>0, <1>a, <2>1, <2>2, AppliedMatch
  <2>4. QED
    BY <1>a, <2>2, <2>3 DEF RowsMatchBlocks
<1>12. CASE BatchApplied
  BY <1>12, <1>q DEF BatchApplied
<1>13. CASE BlockWentInactive
  BY <1>13, <1>q DEF BlockWentInactive
<1>14. CASE BlockDoesNotLink
  BY <1>14, <1>q DEF BlockDoesNotLink
<1>15. CASE GenesisRefused
  BY <1>15, <1>q DEF GenesisRefused
<1>16. CASE ProbeTop
  BY <1>16, <1>q DEF ProbeTop
<1>17. CASE ProbeDown
  BY <1>17, <1>q DEF ProbeDown
<1>18. CASE Bisect
  BY <1>18, <1>q DEF Bisect
<1>19. CASE OpenReorgLog
  <2>1. db'.blocks = db.blocks
    BY <1>0, <1>19, OtherWrites DEF OpenReorgLog
  <2>2. QED
    BY <1>19, <1>k, <2>1 DEF OpenReorgLog
<1>20. CASE UnwindBlock
  <2>1. db.blocks # <<>>
    <3>1. reorg.fork \in Heights /\ Tip(db) > reorg.fork
      BY <1>0, <1>20 DEF Reorgs, UnwindBlock
    <3>2. Tip(db) # -1
      BY <3>1, <1>0 DEF Heights
    <3>3. QED
      BY <3>2 DEF Tip
  <2>2. /\ db' = UnwoundDb(db) /\ rows' = UnwoundRows(rows, TipHash(db))
        /\ savedDb' = savedDb /\ savedRows' = savedRows
    BY <1>20 DEF UnwindBlock
  <2>3. RowsMatch(db', rows')
    BY <1>0, <1>a, <2>1, <2>2, UnwoundMatch
  <2>4. QED
    BY <1>a, <2>2, <2>3 DEF RowsMatchBlocks
<1>21. CASE CloseReorgLog
  <2> DEFINE row == [db.reorgLog[reorg.logId] EXCEPT !.new = Tip(db), !.unwound = reorg.n]
             log == [db.reorgLog EXCEPT ![reorg.logId] = row]
  <2>1. db' = [db EXCEPT !.reorgLog = log]
    BY <1>0, <1>21 DEF CloseReorgLog, Databases
  <2> HIDE DEF log
  <2>2. db'.blocks = db.blocks
    BY <1>0, <2>1, OtherWrites
  <2>3. QED
    BY <1>21, <1>k, <2>2 DEF CloseReorgLog
<1>22. CASE NodeMoves
  BY <1>22, <1>q DEF NodeMoves
<1>23. CASE Checkpoint
  BY <1>23, <1>a DEF Checkpoint, RowsMatchBlocks
<1>24. CASE RpcFails
  BY <1>24, <1>q DEF RpcFails
<1>25. CASE Killed
  BY <1>25, <1>q DEF Killed
<1>26. CASE PowerCut
  BY <1>26, <1>a DEF PowerCut, RowsMatchBlocks
<1>27. CASE UNCHANGED vars
  BY <1>27, <1>q DEF vars
<1>28. QED
  BY <1>1, <1>2, <1>3, <1>4, <1>5, <1>6, <1>7, <1>8, <1>9, <1>10, <1>11, <1>12, <1>13,
     <1>14, <1>15, <1>16, <1>17, <1>18, <1>19, <1>20, <1>21, <1>22, <1>23, <1>24, <1>25,
     <1>26, <1>27 DEF Next, SyncStep

\* The empty index: no block, no row.
LEMMA RowsInit == Init => RowsMatchBlocks
<1> SUFFICES ASSUME Init PROVE RowsMatchBlocks
  OBVIOUS
<1>1. DOMAIN <<>> = {} /\ EmptyDb.blocks = <<>> /\ EmptyRows.outputs = <<>>
      /\ EmptyRows.addressTxs = {} /\ EmptyRows.addresses = [a \in Address |-> NoRow]
  BY DEF EmptyDb, EmptyRows
<1>2. TxsIn(<<>>) = {} /\ History(<<>>) = {}
  BY <1>1 DEF TxsIn, Range, History
<1>3. Created({}) = {} /\ Spent({}) = {}
  BY DEF Created, Spent
<1>4. OutputsMatch({}, EmptyRows)
  BY <1>1, <1>3 DEF OutputsMatch
<1>5. AddressesMatch({}, EmptyRows)
  <2> SUFFICES ASSUME NEW a \in Address
               PROVE  Totals(EmptyRows.addresses[a], {}, a)
    BY DEF AddressesMatch, Totals
  <2>1. Unspent({}, a) = {} /\ Touching({}, a) = {} /\ Given({}, a) = {} /\ Taken({}, a) = {}
    BY <1>3 DEF Unspent, Touching, Given, Taken
  <2>2. EmptyRows.addresses[a] = NoRow
    BY <1>1
  <2>3. SumFunctionOnSet(Value, {}) = 0 /\ Cardinality({}) = 0
    BY SumEmpty, FS_EmptySet
  <2>4. QED
    BY <2>1, <2>2, <2>3 DEF Totals, NoRow
<1>6. HistoryMatches(<<>>, EmptyRows)
  BY <1>1, <1>2, HistoryIs
<1>7. RowsMatch(EmptyDb, EmptyRows)
  BY <1>1, <1>2, <1>4, <1>5, <1>6 DEF RowsMatch
<1>8. QED
  BY <1>7 DEF Init, RowsMatchBlocks

\* What verify() checks holds in every reachable state, for every block tree
\* whose branches the node's consensus rules accept and every mix of applies,
\* unwinds, lost commits and restarts: the incremental outputs, balances and
\* history equal those the indexed blocks imply.
THEOREM RowsAreRebuilt == Spec => []RowsMatchBlocks
<1>1. Init => IInv /\ RowsMatchBlocks
  BY IInvInit, RowsInit
<1>2. IInv /\ RowsMatchBlocks /\ [Next]_vars => IInv' /\ RowsMatchBlocks'
  BY IInvStep, RowsStep
<1>3. QED
  BY <1>1, <1>2, PTL DEF Spec

-----------------------------------------------------------------------------
(* The self checks.  They ask of the rows what the consensus rules say of the *)
(* branch, so they hold because the rows are those of the branch.             *)

\* Within a block: no transaction twice, and what it spends of its own outputs
\* was created further up.
LEMMA BlockOrder ==
  ASSUME NEW b \in Block
  PROVE  /\ BlockTxs[b] \in Seq(Tx) /\ DOMAIN BlockTxs[b] = 1..Len(BlockTxs[b])
         /\ Len(BlockTxs[b]) \in Nat
         /\ \A i \in DOMAIN BlockTxs[b] : BlockTxs[b][i] \in TxsOf(b) /\ BlockTxs[b][i] \in Tx
         /\ \A t \in TxsOf(b) : \E i \in DOMAIN BlockTxs[b] : t = BlockTxs[b][i]
         /\ \A i, j \in DOMAIN BlockTxs[b] : i # j => BlockTxs[b][i] # BlockTxs[b][j]
         /\ \A i \in DOMAIN BlockTxs[b] : \A o \in TxIns[BlockTxs[b][i]] :
              o \in Created(TxsOf(b)) => \E j \in 1..(i - 1) : o \in TxOuts[BlockTxs[b][j]]
<1>1. BlockTxs[b] \in Seq(Tx)
  BY ContentsAssumption
<1>2. /\ DOMAIN BlockTxs[b] = 1..Len(BlockTxs[b]) /\ Len(BlockTxs[b]) \in Nat
      /\ \A i \in DOMAIN BlockTxs[b] : BlockTxs[b][i] \in Tx
  BY <1>1
<1>3. TxsOf(b) = {BlockTxs[b][i] : i \in DOMAIN BlockTxs[b]}
  BY DEF TxsOf, Range
<1>4. /\ \A i, j \in DOMAIN BlockTxs[b] : i # j => BlockTxs[b][i] # BlockTxs[b][j]
      /\ \A i \in DOMAIN BlockTxs[b] : \A o \in TxIns[BlockTxs[b][i]] :
           o \in Created(TxsOf(b)) => \E j \in 1..(i - 1) : o \in TxOuts[BlockTxs[b][j]]
  BY ConsensusAssumption
<1>5. QED
  BY <1>1, <1>2, <1>3, <1>4

\* _apply_tx finds every prevout indexed and unspent.
LEMMA PrevoutsAreThere ==
  ASSUME NEW s \in Seq(Block), NEW b \in Block, IsBranch(Append(s, b)), NEW r, RowsOf(s, r)
  PROVE  PrevoutsUnspent(r, b)
<1> DEFINE X == TxsIn(s)
           Y == TxsOf(b)
<1>1. Fits(X, Y)
  BY BranchFits
<1>2. Spent(Y) \subseteq Created(X) \cup Created(Y) /\ Spent(X) \cap Spent(Y) = {}
  BY <1>1, FitsMeans
<1>3. OutputsMatch(X, r)
  BY DEF RowsOf
<1> SUFFICES ASSUME NEW i \in DOMAIN BlockTxs[b], NEW o \in TxIns[BlockTxs[b][i]]
             PROVE  /\ \/ o \in DOMAIN r.outputs /\ r.outputs[o] = NoBlock
                       \/ \E j \in 1..(i - 1) : o \in TxOuts[BlockTxs[b][j]]
                    /\ \A j \in 1..(i - 1) : o \notin TxIns[BlockTxs[b][j]]
  BY DEF PrevoutsUnspent
<1> HIDE DEF X
<1>4. BlockTxs[b][i] \in Y /\ o \in Spent(Y)
  BY BlockOrder DEF Spent
<1>5. ASSUME NEW j \in 1..(i - 1) PROVE o \notin TxIns[BlockTxs[b][j]]
  <2>1. j \in DOMAIN BlockTxs[b] /\ j # i
    <3>1. DOMAIN BlockTxs[b] = 1..Len(BlockTxs[b]) /\ Len(BlockTxs[b]) \in Nat
      BY BlockOrder
    <3>2. QED
      BY <3>1
  <2>2. BlockTxs[b][j] # BlockTxs[b][i] /\ BlockTxs[b][j] \in Y
    BY <2>1, BlockOrder
  <2>3. QED
    BY <1>1, <1>4, <2>2 DEF Fits
<1>6. CASE o \in Created(Y)
  BY <1>5, <1>6, BlockOrder
<1>7. CASE o \in Created(X)
  <2>1. o \notin Spent(X)
    BY <1>2, <1>4
  <2>2. QED
    BY <1>3, <1>5, <1>7, <2>1 DEF OutputsMatch
<1>8. QED
  BY <1>2, <1>4, <1>6, <1>7

\* _unwind_locked finds what it created spent by nobody left, and every
\* prevout marked spent by its spender.
LEMMA UnwindIsConsistent ==
  ASSUME NEW s \in Seq(Block), NEW b \in Block, IsBranch(Append(s, b)), NEW r,
         RowsOf(Append(s, b), r)
  PROVE  UnwindConsistent(r, b)
<1> DEFINE X == TxsIn(s)
           Y == TxsOf(b)
           B == BlockTxs[b]
<1>1. Fits(X, Y) /\ TxsIn(Append(s, b)) = X \cup Y
  BY BranchFits
<1>2. /\ Spent(Y) \subseteq Created(X) \cup Created(Y) /\ Spent(X) \cap Created(Y) = {}
      /\ Created(X \cup Y) = Created(X) \cup Created(Y) /\ Spent(X \cup Y) = Spent(X) \cup Spent(Y)
  BY <1>1, FitsMeans, CreatedSpentUnion
<1>3. OutputsMatch(X \cup Y, r)
  BY <1>1 DEF RowsOf
<1> HIDE DEF X
<1>4. ASSUME NEW i \in DOMAIN B, NEW o \in TxOuts[B[i]]
      PROVE  /\ o \in DOMAIN r.outputs
             /\ \/ r.outputs[o] = NoBlock
                \/ \E j \in (i + 1)..Len(B) : r.outputs[o] = B[j]
  <2>1. B[i] \in Y /\ B[i] \in Tx /\ o \in Created(Y)
    BY BlockOrder DEF Created
  <2>2. o \in DOMAIN r.outputs /\ o \notin Spent(X)
    BY <1>2, <1>3, <2>1 DEF OutputsMatch
  <2>3. CASE o \notin Spent(Y)
    BY <1>2, <1>3, <2>1, <2>2, <2>3 DEF OutputsMatch
  <2>4. CASE o \in Spent(Y)
    <3>1. r.outputs[o] \in X \cup Y /\ o \in TxIns[r.outputs[o]]
      BY <1>2, <1>3, <2>1, <2>4 DEF OutputsMatch
    <3>2. r.outputs[o] \in Y
      BY <2>2, <3>1 DEF Spent
    <3>3. PICK k \in DOMAIN B : r.outputs[o] = B[k]
      BY <3>2, BlockOrder
    <3>4. PICK j \in 1..(k - 1) : o \in TxOuts[B[j]]
      BY <2>1, <3>1, <3>3, BlockOrder
    <3>5. DOMAIN B = 1..Len(B) /\ Len(B) \in Nat
      BY BlockOrder
    <3>6. j \in DOMAIN B
      BY <3>4, <3>5
    <3>7. B[j] = B[i]
      <4>1. B[j] \in Tx
        BY <3>6, BlockOrder
      <4>2. QED
        BY <2>1, <3>4, <4>1, ContentsAssumption
    <3>8. j = i
      BY <3>6, <3>7, BlockOrder
    <3> HIDE DEF B
    <3>9. k \in (i + 1)..Len(B)
      BY <3>4, <3>5, <3>8
    <3>10. QED
      BY <2>2, <3>3, <3>9
  <2>5. QED
    BY <2>3, <2>4
<1>5. ASSUME NEW t \in Y, NEW o \in TxIns[t] PROVE o \in DOMAIN r.outputs /\ r.outputs[o] = t
  <2>1. o \in Spent(Y)
    BY DEF Spent
  <2>2. o \in Created(X \cup Y) /\ o \in Spent(X \cup Y)
    BY <1>2, <2>1
  <2>3. o \in DOMAIN r.outputs /\ r.outputs[o] \in X \cup Y /\ o \in TxIns[r.outputs[o]]
    BY <1>3, <2>2 DEF OutputsMatch
  <2>4. QED
    BY <1>1, <2>3, OneSpender
<1>6. QED
  BY <1>4, <1>5 DEF UnwindConsistent

\* Neither IndexCorruption check can fire where the code makes it.
LEMMA ChecksHold ==
  ASSUME IInv, RowsMatchBlocks
  PROVE  NoCorruptionRaised
<1>0. db \in Databases /\ raws \in Raws /\ reorg \in Reorgs
      /\ Tip(db) \in Heights /\ IsChain(db) /\ RowsMatch(db, rows)
  BY TipType DEF IInv, TypeOK, InvariantI, RowsMatchBlocks
<1>a. db.blocks \in Seq(Block) /\ RowsOf(db.blocks, rows)
  BY <1>0, RowsMatchIs DEF Databases
<1>1. ASSUME raws # <<>>, Links(Head(raws).hash) PROVE PrevoutsUnspent(rows, Head(raws).hash)
  <2>1. Head(raws) \in [hash : Block, confirmations : Int]
    BY <1>0, <1>1, HeadTailProperties DEF Raws
  <2>2. Head(raws).hash \in Block /\ Parent[Head(raws).hash] = TipHash(db)
    BY <1>1, <2>1 DEF Links
  <2>3. IsBranch(Append(db.blocks, Head(raws).hash))
    BY <1>0, <2>2, LinkedIsBranch
  <2>4. QED
    BY <1>a, <2>2, <2>3, PrevoutsAreThere
<1>2. ASSUME Tip(db) > reorg.fork PROVE UnwindConsistent(rows, TipHash(db))
  <2>1. db.blocks # <<>>
    <3>1. reorg.fork \in Heights
      BY <1>0 DEF Reorgs
    <3>2. Tip(db) # -1
      BY <1>0, <1>2, <3>1 DEF Heights
    <3>3. QED
      BY <3>2 DEF Tip
  <2> DEFINE s == SubSeq(db.blocks, 1, Len(db.blocks) - 1)
             b == TipHash(db)
  <2>2. s \in Seq(Block) /\ b \in Block /\ db.blocks = Append(s, b)
    BY <1>0, <2>1, FrontAndLast
  <2>3. IsBranch(db.blocks)
    BY <1>0, <2>1, ChainIsBranch
  <2> HIDE DEF s, b
  <2>4. UnwindConsistent(rows, b)
    BY <1>a, <2>2, <2>3, UnwindIsConsistent
  <2>5. QED
    BY <2>4 DEF b
<1>3. QED
  BY <1>1, <1>2 DEF NoCorruptionRaised

\* The indexer never refuses a block that the node's consensus rules accepted,
\* and never refuses to unwind one: no IndexCorruption, whatever the node does
\* and wherever the process dies.
THEOREM SelfChecksNeverFire == Spec => []NoCorruptionRaised
<1>1. Init => IInv /\ RowsMatchBlocks
  BY IInvInit, RowsInit
<1>2. IInv /\ RowsMatchBlocks /\ [Next]_vars => IInv' /\ RowsMatchBlocks'
  BY IInvStep, RowsStep
<1>3. IInv /\ RowsMatchBlocks => NoCorruptionRaised
  BY ChecksHold
<1>4. QED
  BY <1>1, <1>2, <1>3, PTL DEF Spec
=============================================================================
