------------------------------ MODULE Indexer ------------------------------
(***************************************************************************)
(* The address indexer (contrib/explorer/pcoin_indexer/indexer.py): one    *)
(* process that follows a node's active chain over JSON-RPC and keeps an    *)
(* address index in SQLite.  The node may reorganise between any two RPCs,  *)
(* an RPC may fail, the process may be killed between any two transactions, *)
(* and a power cut may lose the transactions committed since the last WAL   *)
(* checkpoint (synchronous=NORMAL).                                         *)
(*                                                                         *)
(* One action is one SQLite transaction or one RPC.  Block contents are     *)
(* constants: a block is its hash, and BlockTxs, TxIns, TxOuts, Owner and   *)
(* Value say what normalize_block() extracts from it.                       *)
(***************************************************************************)
EXTENDS Integers, Sequences, FiniteSets, FiniteSetsExt, Functions

CONSTANTS
  Block,        \* block hashes
  NoBlock,      \* None: no block, no hash, nothing stored
  Parent,       \* [Block -> Block \cup {NoBlock}]; NoBlock for a genesis block
  PathTo,       \* [Block -> Seq(Block)]: the chain that ends in a block
  Tx,           \* transaction ids
  BlockTxs,     \* [Block -> Seq(Tx)], in block order, the coinbase first
  Outpoint,     \* transaction outputs
  TxIns,        \* [Tx -> SUBSET Outpoint], the prevouts of a transaction
  TxOuts,       \* [Tx -> SUBSET Outpoint], the outputs it creates
  Address,
  Owner,        \* [Outpoint -> Address]
  Value,        \* [Outpoint -> Nat], in satoshis
  Unspendable,  \* outputs with unspendable=1 (OP_RETURN, the genesis coinbase)
  Batch,        \* DEFAULT_BATCH: blocks per RPC batch
  MaxRepolls,   \* MAX_REPOLLS
  MaxMoves,     \* bound: reorganisations of the node
  MaxFaults     \* bound: RPC failures, kills and power cuts

ASSUME ChainAssumption ==
  /\ NoBlock \notin Block
  /\ Parent \in [Block -> Block \cup {NoBlock}]
  /\ PathTo \in [Block -> Seq(Block)]
  /\ \A b \in Block :
       LET path == PathTo[b]
       IN  /\ path # <<>> /\ path[Len(path)] = b /\ Parent[path[1]] = NoBlock
           /\ \A i \in 2..Len(path) : Parent[path[i]] = path[i - 1]

\* The transactions of a block and of a branch, and what a set of transactions
\* creates and spends.
TxsOf(b)       == Range(BlockTxs[b])
TxsIn(branch)  == UNION {TxsOf(b) : b \in Range(branch)}
Created(txs)   == UNION {TxOuts[t] : t \in txs}
Spent(txs)     == UNION {TxIns[t] : t \in txs}

ASSUME ContentsAssumption ==
  /\ NoBlock \notin Tx
  /\ BlockTxs \in [Block -> Seq(Tx)]
  /\ \A t \in Tx : /\ TxIns[t] \subseteq Outpoint /\ IsFiniteSet(TxIns[t])
                   /\ TxOuts[t] \subseteq Outpoint /\ IsFiniteSet(TxOuts[t])
  /\ \A o \in Outpoint : Value[o] \in Nat
  \* An output belongs to the one transaction whose id it carries.
  /\ \A t, u \in Tx : t # u => TxOuts[t] \cap TxOuts[u] = {}

\* The consensus rules of the node, for every branch it knows (external): a
\* transaction is in a branch once, spends only what the branch created and is
\* spendable, and nothing that another spends; within a block, what is spent
\* was created further up.
ASSUME ConsensusAssumption ==
  \A b \in Block :
    LET path == PathTo[b]
        txs  == TxsIn(path)
    IN  /\ TxsOf(b) \cap TxsIn(SubSeq(path, 1, Len(path) - 1)) = {}
        /\ \A i, j \in DOMAIN BlockTxs[b] : i # j => BlockTxs[b][i] # BlockTxs[b][j]
        /\ Spent(txs) \subseteq Created(txs) \ Unspendable
        /\ \A t, u \in txs : t # u => TxIns[t] \cap TxIns[u] = {}
        /\ \A i \in DOMAIN BlockTxs[b] : \A o \in TxIns[BlockTxs[b][i]] :
             o \in Created(TxsOf(b)) => \E j \in 1..(i - 1) : o \in TxOuts[BlockTxs[b][j]]

ASSUME BoundsAssumption ==
  /\ Batch \in Nat \ {0}
  /\ MaxRepolls \in Nat /\ MaxMoves \in Nat /\ MaxFaults \in Nat

VARIABLES
  nodeTip,      \* the node's active tip (external)
  moves,        \* reorganisations so far
  faults,       \* failures so far
  db,           \* blocks, sync_state, reorg_log, orphaned_blocks, as last committed
  rows,         \* outputs, address_txs, addresses, as last committed
  savedDb,      \* both, as the last WAL checkpoint left them on disk
  savedRows,
  genesisHash,  \* self.genesis_hash, cached per process
  pc,           \* where sync_once / find_fork / handle_reorg stands
  nodeHeight,   \* sync_once's observation of the node ...
  nodeHash,     \* ... height and hash
  repolls,
  hashes,       \* block_hashes() results so far
  raws,         \* blocks_verbose() results so far, then those left to apply
  cause,        \* the branch of sync_once that called handle_reorg
  search,       \* find_fork's locals
  reorg,        \* handle_reorg's locals: fork, old tip height, blocks unwound
  steady        \* history: the node has not moved since find_fork began

vars == <<nodeTip, moves, faults, db, rows, savedDb, savedRows, genesisHash, pc,
          nodeHeight, nodeHash, repolls, hashes, raws, cause, search, reorg, steady>>

node  == <<nodeTip, moves, steady>>
disk  == <<savedDb, savedRows>>
fetch == <<nodeHeight, nodeHash, repolls, hashes, raws>>

-----------------------------------------------------------------------------
(* The block tree, and what the node answers about its active chain.        *)

ActiveChain == PathTo[nodeTip]

\* getblockhash: None when the height is above the active tip (error -8).
NodeHashAt(h) == IF h < Len(ActiveChain) THEN ActiveChain[h + 1] ELSE NoBlock

\* getblock: a block that is not on the active chain has -1 confirmations (and
\* one the node does not know is treated the same way); only the sign is used.
Confirmations(b) == IF b \in Range(ActiveChain) THEN 1 ELSE -1

-----------------------------------------------------------------------------
(* The index: table `blocks` is a sequence (row h is element h+1), `outputs` *)
(* maps every indexed output to the transaction that spent it, and          *)
(* `addresses` is the rollup that address_txs is summed into.               *)

Tip(d)       == Len(d.blocks) - 1
TipHash(d)   == IF d.blocks = <<>> THEN NoBlock ELSE d.blocks[Len(d.blocks)]
HashAt(d, h) == IF h + 1 \in DOMAIN d.blocks THEN d.blocks[h + 1] ELSE NoBlock

NoRow == [balance |-> 0, received |-> 0, sent |-> 0, utxos |-> 0, txs |-> 0]

EmptyRows ==
  [outputs |-> <<>>, addressTxs |-> {}, addresses |-> [a \in Address |-> NoRow]]

EmptyDb ==
  [blocks |-> <<>>, genesis |-> NoBlock, indexedHeight |-> -1, indexedHash |-> NoBlock,
   reorgCount |-> 0, unwound |-> 0, reorgLog |-> <<>>, orphaned |-> {}]

\* The outputs of one transaction that are an address's to spend, and the
\* outputs of the address that it spends.
OutsTo(t, a)  == {o \in TxOuts[t] \ Unspendable : Owner[o] = a}
InsFrom(t, a) == {o \in TxIns[t] : Owner[o] = a}

\* _apply_tx's deltas for one transaction: a row per address it touches.
AddressTxRow(a, t, h) ==
  [address |-> a, tx |-> t, height |-> h,
   received |-> SumFunctionOnSet(Value, OutsTo(t, a)),
   sent |-> SumFunctionOnSet(Value, InsFrom(t, a)),
   nOut |-> Cardinality(OutsTo(t, a)), nIn |-> Cardinality(InsFrom(t, a))]

AddressTxRows(t, h) ==
  {AddressTxRow(a, t, h) : a \in {x \in Address : OutsTo(t, x) \cup InsFrom(t, x) # {}}}

\* The rollup row of one address, moved by its address_txs rows, which are
\* added (1) or taken back (-1).
Rolled(old, mine, sign) ==
  LET recv == SumFunctionOnSet([r \in mine |-> r.received], mine)
      sent == SumFunctionOnSet([r \in mine |-> r.sent], mine)
      nOut == SumFunctionOnSet([r \in mine |-> r.nOut], mine)
      nIn  == SumFunctionOnSet([r \in mine |-> r.nIn], mine)
  IN  [balance  |-> old.balance + sign * (recv - sent),
       received |-> old.received + sign * recv,
       sent     |-> old.sent + sign * sent,
       utxos    |-> old.utxos + sign * (nOut - nIn),
       txs      |-> old.txs + sign * Cardinality(mine)]

Roll(addresses, deltas, sign) ==
  [a \in Address |-> Rolled(addresses[a], {r \in deltas : r.address = a}, sign)]

\* The checks _apply_tx makes before it marks a prevout spent: it is indexed,
\* possibly by an earlier transaction of the same block, and not yet spent.
PrevoutsUnspent(r, b) ==
  \A i \in DOMAIN BlockTxs[b] :
    \A o \in TxIns[BlockTxs[b][i]] :
      /\ \/ o \in DOMAIN r.outputs /\ r.outputs[o] = NoBlock
         \/ \E j \in 1..(i - 1) : o \in TxOuts[BlockTxs[b][j]]
      /\ \A j \in 1..(i - 1) : o \notin TxIns[BlockTxs[b][j]]

\* _apply_locked is one transaction.  The block row and the mirror of the tip:
AppliedDb(d, b) ==
  [d EXCEPT !.blocks = Append(@, b),
            !.indexedHeight = Len(d.blocks),
            !.indexedHash = b]

\* ... and the outputs it creates, the prevouts it spends, the address rows.
AppliedRows(r, h, b) ==
  LET deltas == UNION {AddressTxRows(t, h) : t \in TxsOf(b)}
      spender(o) == CHOOSE t \in TxsOf(b) : o \in TxIns[t]
  IN  [outputs |-> [o \in DOMAIN r.outputs \cup Created(TxsOf(b)) |->
                      IF o \in Spent(TxsOf(b)) THEN spender(o)
                      ELSE IF o \in DOMAIN r.outputs THEN r.outputs[o] ELSE NoBlock],
       addressTxs |-> r.addressTxs \cup deltas,
       addresses |-> Roll(r.addresses, deltas, 1)]

\* The checks _unwind_locked makes, last transaction first: what spends an
\* output of a transaction was undone before it, and every prevout is marked
\* spent by its spender.
UnwindConsistent(r, b) ==
  /\ \A i \in DOMAIN BlockTxs[b] : \A o \in TxOuts[BlockTxs[b][i]] :
       /\ o \in DOMAIN r.outputs
       /\ \/ r.outputs[o] = NoBlock
          \/ \E j \in (i + 1)..Len(BlockTxs[b]) : r.outputs[o] = BlockTxs[b][j]
  /\ \A t \in TxsOf(b) : \A o \in TxIns[t] :
       o \in DOMAIN r.outputs /\ r.outputs[o] = t

\* Mutant: the mirror of the tip is left to the end of sync_once.
UnwoundDbStaleMirror(d) ==
  [d EXCEPT !.blocks = SubSeq(d.blocks, 1, Len(d.blocks) - 1),
            !.orphaned = @ \cup {TipHash(d)},
            !.unwound = @ + 1]

\* Mutant: blocks_unwound is not counted in the transaction that unwinds.
UnwoundDbUncounted(d) ==
  LET left == SubSeq(d.blocks, 1, Len(d.blocks) - 1)
  IN  [d EXCEPT !.blocks = left,
                !.orphaned = @ \cup {TipHash(d)},
                !.indexedHeight = Len(left) - 1,
                !.indexedHash = IF left = <<>> THEN NoBlock ELSE left[Len(left)]]

\* Mutant: the rows at and above the parent's height are deleted.
UnwoundDbOneTooMany(d) ==
  LET left == SubSeq(d.blocks, 1, Len(d.blocks) - 2)
  IN  [d EXCEPT !.blocks = left,
                !.orphaned = @ \cup {TipHash(d)},
                !.indexedHeight = Len(left) - 1,
                !.indexedHash = IF left = <<>> THEN NoBlock ELSE left[Len(left)],
                !.unwound = @ + 1]

\* _unwind_locked is one transaction, with blocks_unwound counted inside it.
UnwoundDb(d) ==
  LET left == SubSeq(d.blocks, 1, Len(d.blocks) - 1)
  IN  [d EXCEPT !.blocks = left,
                !.orphaned = @ \cup {TipHash(d)},
                !.indexedHeight = Len(left) - 1,
                !.indexedHash = IF left = <<>> THEN NoBlock ELSE left[Len(left)],
                !.unwound = @ + 1]

\* Mutant: the prevouts of the unwound block stay marked spent.
UnwoundRowsStillSpent(r, b) ==
  LET deltas == {x \in r.addressTxs : x.tx \in TxsOf(b)}
  IN  [outputs |-> [o \in DOMAIN r.outputs \ Created(TxsOf(b)) |-> r.outputs[o]],
       addressTxs |-> r.addressTxs \ deltas,
       addresses |-> Roll(r.addresses, deltas, -1)]

\* Mutant: the address rollup is not taken back.
UnwoundRowsKeepRollup(r, b) ==
  LET deltas == {x \in r.addressTxs : x.tx \in TxsOf(b)}
  IN  [outputs |-> [o \in DOMAIN r.outputs \ Created(TxsOf(b)) |->
                      IF r.outputs[o] \in TxsOf(b) THEN NoBlock ELSE r.outputs[o]],
       addressTxs |-> r.addressTxs \ deltas,
       addresses |-> r.addresses]

\* The rows go back by the deltas that address_txs recorded.
UnwoundRows(r, b) ==
  LET deltas == {x \in r.addressTxs : x.tx \in TxsOf(b)}
  IN  [outputs |-> [o \in DOMAIN r.outputs \ Created(TxsOf(b)) |->
                      IF r.outputs[o] \in TxsOf(b) THEN NoBlock ELSE r.outputs[o]],
       addressTxs |-> r.addressTxs \ deltas,
       addresses |-> Roll(r.addresses, deltas, -1)]

-----------------------------------------------------------------------------
NoSearch == [hi |-> -1, step |-> 0, bad |-> -1, lo |-> -1]
\* A reorg_log row's new_tip_height while it is NULL.
Unset == -2

NoReorg  == [fork |-> -1, old |-> -1, n |-> 0, logId |-> 0]

\* sync_once returned, raised, or was killed: its locals are gone.
Return(newPc) ==
  /\ pc' = newPc
  /\ nodeHeight' = -1 /\ nodeHash' = NoBlock /\ repolls' = 0
  /\ hashes' = <<>> /\ raws' = <<>> /\ cause' = "none"
  /\ search' = NoSearch /\ reorg' = NoReorg

Init ==
  /\ nodeTip \in Block
  /\ moves = 0 /\ faults = 0
  /\ db = EmptyDb /\ rows = EmptyRows
  /\ savedDb = EmptyDb /\ savedRows = EmptyRows
  /\ genesisHash = NoBlock
  /\ pc = "idle"
  /\ nodeHeight = -1 /\ nodeHash = NoBlock /\ repolls = 0
  /\ hashes = <<>> /\ raws = <<>> /\ cause = "none"
  /\ search = NoSearch /\ reorg = NoReorg /\ steady = TRUE

-----------------------------------------------------------------------------
(* The world: the node reorganises, or is swapped for a node of another     *)
(* chain; SQLite checkpoints its WAL; RPCs fail; the process dies.           *)

NodeMoves ==
  /\ moves < MaxMoves
  /\ \E b \in Block \ {nodeTip} : nodeTip' = b
  /\ moves' = moves + 1
  /\ steady' = FALSE
  /\ UNCHANGED <<faults, db, rows, disk, genesisHash, pc, cause, search, reorg, fetch>>

Checkpoint ==
  /\ savedDb # db
  /\ savedDb' = db /\ savedRows' = rows
  /\ UNCHANGED <<node, faults, db, rows, genesisHash, pc, cause, search, reorg, fetch>>

\* An RPC fails: sync_once raises, the daemon logs it and polls again later.
RpcFails ==
  /\ pc \in {"hashes", "bodies", "repoll", "top", "down", "bisect"}
  /\ faults < MaxFaults
  /\ faults' = faults + 1
  /\ Return("idle")
  /\ UNCHANGED <<node, db, rows, disk, genesisHash>>

Killed ==
  /\ faults < MaxFaults
  /\ faults' = faults + 1
  /\ genesisHash' = NoBlock
  /\ Return("idle")
  /\ UNCHANGED <<node, db, rows, disk>>

PowerCut ==
  /\ faults < MaxFaults
  /\ faults' = faults + 1
  /\ db' = savedDb /\ rows' = savedRows
  /\ genesisHash' = NoBlock
  /\ Return("idle")
  /\ UNCHANGED <<node, disk>>

-----------------------------------------------------------------------------
(* poll_node: observe tip and genesis, refuse a node of another chain.       *)
(* Height and hash come in one answer (getblockchaininfo); getblockhash 0,    *)
(* whose answer a reorganisation does not change, is part of the same step.   *)

Observed == IF genesisHash = NoBlock THEN NodeHashAt(0) ELSE genesisHash

SameChain == db.genesis \in {NoBlock, Observed}

Observe ==
  /\ nodeHeight' = Len(ActiveChain) - 1
  /\ nodeHash' = nodeTip
  /\ genesisHash' = Observed
  /\ db' = [db EXCEPT !.genesis = Observed]

PollNode ==
  /\ pc = "idle"
  /\ SameChain
  /\ Observe
  /\ pc' = "loop"
  /\ UNCHANGED <<node, faults, rows, disk, repolls, hashes, raws, cause, search, reorg>>

Repoll ==
  /\ pc = "repoll"
  /\ SameChain
  /\ Observe
  /\ repolls' = repolls + 1
  /\ hashes' = <<>> /\ raws' = <<>>
  /\ pc' = "loop"
  /\ UNCHANGED <<node, faults, rows, disk, cause, search, reorg>>

\* WrongChain: the CLI exits and its supervisor starts it again.
RefuseWrongChain ==
  /\ pc \in {"idle", "repoll"}
  /\ ~SameChain
  /\ genesisHash' = NoBlock
  /\ Return("idle")
  /\ UNCHANGED <<node, faults, db, rows, disk>>

-----------------------------------------------------------------------------
(* sync_once: the top of its loop.                                          *)

CaughtUp == Tip(db) = nodeHeight /\ TipHash(db) = nodeHash

\* Out of the loop -- caught up, the node moved more than MAX_REPOLLS times, or
\* a reorg unwound nothing: write the mirror and return.
Finish ==
  /\ \/ pc = "loop" /\ (CaughtUp \/ repolls > MaxRepolls)
     \/ pc = "finish"
  /\ db' = [db EXCEPT !.indexedHeight = Tip(db), !.indexedHash = TipHash(db)]
  /\ Return("idle")
  /\ UNCHANGED <<node, faults, rows, disk, genesisHash>>

\* find_fork starts: hi is the lower of the two tips.
BeginReorg(why) ==
  LET hi == IF Tip(db) < nodeHeight THEN Tip(db) ELSE nodeHeight
  IN  /\ cause' = why
      /\ reorg' = [NoReorg EXCEPT !.old = Tip(db)]
      /\ search' = [NoSearch EXCEPT !.hi = hi]
      /\ pc' = IF hi < 0 THEN "log" ELSE "top"
      /\ steady' = TRUE

IndexNotShorter ==
  /\ pc = "loop"
  /\ ~CaughtUp /\ repolls <= MaxRepolls
  /\ Tip(db) >= nodeHeight
  /\ BeginReorg("not shorter")
  /\ UNCHANGED <<nodeTip, moves, faults, db, rows, disk, genesisHash, fetch>>

StartFetch ==
  /\ pc = "loop"
  /\ ~CaughtUp /\ repolls <= MaxRepolls
  /\ Tip(db) < nodeHeight
  /\ hashes' = <<>> /\ raws' = <<>>
  /\ pc' = "hashes"
  /\ UNCHANGED <<node, faults, db, rows, disk, genesisHash, nodeHeight, nodeHash,
                 repolls, cause, search, reorg>>

Wanted == IF nodeHeight < Tip(db) + Batch THEN nodeHeight - Tip(db) ELSE Batch

\* One item of the getblockhash batch; the node may move between two items.
FetchHash ==
  /\ pc = "hashes"
  /\ Len(hashes) < Wanted
  /\ hashes' = Append(hashes, NodeHashAt(Tip(db) + 1 + Len(hashes)))
  /\ UNCHANGED <<node, faults, db, rows, disk, genesisHash, pc, nodeHeight, nodeHash,
                 repolls, raws, cause, search, reorg>>

HashesDone ==
  /\ pc = "hashes"
  /\ Len(hashes) = Wanted
  /\ pc' = IF NoBlock \in Range(hashes) THEN "repoll" ELSE "bodies"
  /\ UNCHANGED <<node, faults, db, rows, disk, genesisHash, cause, search, reorg, fetch>>

\* One item of the getblock batch.
FetchBody ==
  /\ pc = "bodies"
  /\ Len(raws) < Len(hashes)
  /\ LET b == hashes[Len(raws) + 1]
     IN  raws' = Append(raws, [hash |-> b, confirmations |-> Confirmations(b)])
  /\ UNCHANGED <<node, faults, db, rows, disk, genesisHash, pc, nodeHeight, nodeHash,
                 repolls, hashes, cause, search, reorg>>

BodiesDone ==
  /\ pc = "bodies"
  /\ Len(raws) = Len(hashes)
  /\ pc' = "apply"
  /\ UNCHANGED <<node, faults, db, rows, disk, genesisHash, cause, search, reorg, fetch>>

\* Mutant: the height is trusted, the parent hash is not compared.
LinksUnchecked(b) == TRUE

\* The two checks at the top of _apply_locked: a block whose parent is the tip
\* also has the next height, so the parent decides both.
Links(b) == Parent[b] = TipHash(db)

GenesisAccepted(b) == db.blocks # <<>> \/ b = genesisHash

ApplyBlock ==
  /\ pc = "apply"
  /\ raws # <<>>
  /\ Head(raws).confirmations >= 0
  /\ Links(Head(raws).hash) /\ GenesisAccepted(Head(raws).hash)
  /\ db' = AppliedDb(db, Head(raws).hash)
  /\ rows' = AppliedRows(rows, Tip(db) + 1, Head(raws).hash)
  /\ raws' = Tail(raws)
  /\ UNCHANGED <<node, faults, disk, genesisHash, pc, nodeHeight, nodeHash,
                 repolls, hashes, cause, search, reorg>>

BatchApplied ==
  /\ pc = "apply"
  /\ raws = <<>>
  /\ pc' = "loop"
  /\ hashes' = <<>>
  /\ UNCHANGED <<node, faults, db, rows, disk, genesisHash, nodeHeight, nodeHash,
                 repolls, raws, cause, search, reorg>>

\* The block left the active chain between getblockhash and getblock.
BlockWentInactive ==
  /\ pc = "apply"
  /\ raws # <<>>
  /\ Head(raws).confirmations < 0
  /\ pc' = "repoll"
  /\ UNCHANGED <<node, faults, db, rows, disk, genesisHash, cause, search, reorg, fetch>>

\* Mutant: a block that does not link is taken for a race, and polled again.
BlockDoesNotLinkRetried ==
  /\ pc = "apply"
  /\ raws # <<>>
  /\ Head(raws).confirmations >= 0
  /\ ~Links(Head(raws).hash)
  /\ pc' = "repoll"
  /\ UNCHANGED <<node, faults, db, rows, disk, genesisHash, cause, search, reorg, fetch>>

\* ChainLinkError: handle_reorg, then back to the top of the loop.
BlockDoesNotLink ==
  /\ pc = "apply"
  /\ raws # <<>>
  /\ Head(raws).confirmations >= 0
  /\ ~Links(Head(raws).hash)
  /\ hashes' = <<>> /\ raws' = <<>>
  /\ BeginReorg("link")
  /\ UNCHANGED <<nodeTip, moves, faults, db, rows, disk, genesisHash, nodeHeight, nodeHash, repolls>>

\* WrongChain out of _apply_locked: height 0 is not the genesis block polled.
GenesisRefused ==
  /\ pc = "apply"
  /\ raws # <<>>
  /\ Head(raws).confirmations >= 0
  /\ Links(Head(raws).hash) /\ ~GenesisAccepted(Head(raws).hash)
  /\ genesisHash' = NoBlock
  /\ Return("idle")
  /\ UNCHANGED <<node, faults, db, rows, disk>>

-----------------------------------------------------------------------------
(* find_fork: one probe, one RPC, one action.                               *)

Matches(h) == HashAt(db, h) # NoBlock /\ HashAt(db, h) = NodeHashAt(h)

ForkFound(h) ==
  /\ reorg' = [reorg EXCEPT !.fork = h]
  /\ search' = NoSearch
  /\ pc' = "log"

\* The first probe, at the lower of the two tips.
ProbeTop ==
  /\ pc = "top"
  /\ IF Matches(search.hi)
     THEN ForkFound(search.hi)
     ELSE /\ search' = [search EXCEPT !.bad = search.hi, !.step = 1]
          /\ pc' = "down"
          /\ UNCHANGED reorg
  /\ UNCHANGED <<node, faults, db, rows, disk, genesisHash, cause, fetch>>

\* The exponential descent, doubling the step until a height agrees.
ProbeDown ==
  LET p == IF search.hi - search.step < 0 THEN 0 ELSE search.hi - search.step
  IN  /\ pc = "down"
      /\ IF Matches(p)
         THEN /\ search' = [search EXCEPT !.lo = p]
              /\ pc' = "bisect"
              /\ UNCHANGED reorg
         ELSE IF p = 0
         THEN ForkFound(-1)
         ELSE /\ search' = [search EXCEPT !.bad = p, !.step = 2 * @]
              /\ UNCHANGED <<pc, reorg>>
      /\ UNCHANGED <<node, faults, db, rows, disk, genesisHash, cause, fetch>>

\* Mutant: the bisection stops one height early.
BisectStopsEarly ==
  LET mid == (search.lo + search.bad) \div 2
  IN  /\ pc = "bisect"
      /\ IF search.bad - search.lo > 2
         THEN /\ search' = IF Matches(mid) THEN [search EXCEPT !.lo = mid]
                                           ELSE [search EXCEPT !.bad = mid]
              /\ UNCHANGED <<pc, reorg>>
         ELSE ForkFound(search.lo)
      /\ UNCHANGED <<node, faults, db, rows, disk, genesisHash, cause, fetch>>

\* The binary search between an agreeing height and a disagreeing one.
Bisect ==
  LET mid == (search.lo + search.bad) \div 2
  IN  /\ pc = "bisect"
      /\ IF search.bad - search.lo > 1
         THEN /\ search' = IF Matches(mid) THEN [search EXCEPT !.lo = mid]
                                           ELSE [search EXCEPT !.bad = mid]
              /\ UNCHANGED <<pc, reorg>>
         ELSE ForkFound(search.lo)
      /\ UNCHANGED <<node, faults, db, rows, disk, genesisHash, cause, fetch>>

-----------------------------------------------------------------------------
(* handle_reorg: open the audit row, unwind block by block, close the row.   *)

OpenReorgLog ==
  /\ pc = "log"
  /\ db' = [db EXCEPT
              !.reorgLog = Append(@, [fork |-> reorg.fork, old |-> reorg.old, new |-> Unset,
                                      unwound |-> reorg.old - reorg.fork]),
              !.reorgCount = @ + 1]
  /\ reorg' = [reorg EXCEPT !.logId = Len(db.reorgLog) + 1]
  /\ pc' = "unwind"
  /\ UNCHANGED <<node, faults, rows, disk, genesisHash, cause, search, fetch>>

UnwindBlock ==
  /\ pc = "unwind"
  /\ Tip(db) > reorg.fork
  /\ db' = UnwoundDb(db)
  /\ rows' = UnwoundRows(rows, TipHash(db))
  /\ reorg' = [reorg EXCEPT !.n = @ + 1]
  /\ UNCHANGED <<node, faults, disk, genesisHash, pc, cause, search, fetch>>

\* After "index >= node tip" with nothing unwound, sync_once stops until the
\* next poll; otherwise it goes round again.
CloseReorgLog ==
  /\ pc = "unwind"
  /\ Tip(db) <= reorg.fork
  /\ db' = [db EXCEPT !.reorgLog[reorg.logId] = [@ EXCEPT !.new = Tip(db), !.unwound = reorg.n]]
  /\ pc' = IF cause = "not shorter" /\ reorg.n = 0 THEN "finish" ELSE "loop"
  /\ cause' = "none" /\ reorg' = NoReorg
  /\ UNCHANGED <<node, faults, rows, disk, genesisHash, search, fetch>>

-----------------------------------------------------------------------------
SyncStep ==
  \/ PollNode \/ Repoll \/ RefuseWrongChain
  \/ Finish \/ IndexNotShorter \/ StartFetch
  \/ FetchHash \/ HashesDone \/ FetchBody \/ BodiesDone
  \/ ApplyBlock \/ BatchApplied \/ BlockWentInactive \/ BlockDoesNotLink \/ GenesisRefused
  \/ ProbeTop \/ ProbeDown \/ Bisect
  \/ OpenReorgLog \/ UnwindBlock \/ CloseReorgLog

Next ==
  \/ SyncStep
  \/ NodeMoves \/ Checkpoint
  \/ RpcFails \/ Killed \/ PowerCut

Spec == Init /\ [][Next]_vars

\* The daemon loop keeps running; nothing forces the node, the disk or a fault.
FairSpec == Spec /\ WF_vars(SyncStep)

-----------------------------------------------------------------------------
(* Properties.                                                              *)

Heights == Nat \cup {-1}
Hash    == Block \cup {NoBlock}
LogRow  == [fork : Heights, old : Heights, new : Int, unwound : Int]

Databases ==
  [blocks : Seq(Block), genesis : Hash, indexedHeight : Heights, indexedHash : Hash,
   reorgCount : Nat, unwound : Nat, reorgLog : Seq(LogRow), orphaned : SUBSET Block]

Raws     == Seq([hash : Block, confirmations : Int])
Searches == [hi : Heights, step : Nat, bad : Heights, lo : Heights]
Reorgs   == [fork : Heights, old : Heights, n : Nat, logId : Nat]

Steps == {"idle", "loop", "hashes", "bodies", "repoll", "apply", "top", "down", "bisect",
          "log", "unwind", "finish"}

\* Type correctness of everything but the address rows, which RowsMatchBlocks
\* pins exactly.  Every batch of hashes whose bodies are fetched is complete.
TypeOK ==
  /\ nodeTip \in Block /\ steady \in BOOLEAN
  /\ moves \in Nat /\ moves <= MaxMoves
  /\ faults \in Nat /\ faults <= MaxFaults
  /\ db \in Databases /\ savedDb \in Databases
  /\ genesisHash \in Hash
  /\ pc \in Steps
  /\ nodeHeight \in Heights /\ nodeHash \in Hash
  /\ repolls \in Nat
  /\ hashes \in Seq(Hash)
  /\ pc = "bodies" => hashes \in Seq(Block)
  /\ raws \in Raws
  /\ cause \in {"none", "link", "not shorter"}
  /\ search \in Searches /\ reorg \in Reorgs

\* A block table that is one path of the block tree, from the genesis block on.
IsChain(d) ==
  /\ \A i \in 2..Len(d.blocks) : Parent[d.blocks[i]] = d.blocks[i - 1]
  /\ d.blocks # <<>> => Parent[d.blocks[1]] = NoBlock /\ d.blocks[1] = d.genesis

\* INVARIANT I of indexer.py: whatever the node does between two RPCs, and
\* wherever the process dies, `blocks` is a prefix of one branch, rooted at
\* the genesis block the index was built on -- never a mixture of branches.
InvariantI == IsChain(db) /\ IsChain(savedDb)

\* sync_state's indexed_height and indexed_hash name the last row of `blocks`.
Mirrors(d) == d.indexedHeight = Tip(d) /\ d.indexedHash = TipHash(d)

MirrorMatchesBlocks == Mirrors(db) /\ Mirrors(savedDb)

\* outputs: every output of the branch, and who spent it.
OutputsMatch(txs, r) ==
  /\ DOMAIN r.outputs = Created(txs)
  /\ \A o \in Created(txs) :
       IF o \in Spent(txs) THEN r.outputs[o] \in txs /\ o \in TxIns[r.outputs[o]]
                          ELSE r.outputs[o] = NoBlock

\* What a set of transactions gives to an address, takes from it and leaves it to
\* spend, and those that touch it.
Given(txs, a)    == {o \in Created(txs) \ Unspendable : Owner[o] = a}
Taken(txs, a)    == {o \in Spent(txs) : Owner[o] = a}
Unspent(txs, a)  == {o \in Created(txs) \ (Spent(txs) \cup Unspendable) : Owner[o] = a}
Touching(txs, a) == {t \in txs : OutsTo(t, a) \cup InsFrom(t, a) # {}}

\* addresses: every balance is the value of the address's unspent outputs, and
\* the totals are those of all it was given and all it spent.
AddressesMatch(txs, r) ==
  \A a \in Address :
    /\ r.addresses[a].received = SumFunctionOnSet(Value, Given(txs, a))
    /\ r.addresses[a].sent = SumFunctionOnSet(Value, Taken(txs, a))
    /\ r.addresses[a].balance = SumFunctionOnSet(Value, Unspent(txs, a))
    /\ r.addresses[a].utxos = Cardinality(Unspent(txs, a))
    /\ r.addresses[a].txs = Cardinality(Touching(txs, a))

\* address_txs: a row per address and transaction, at the height of its block.
HistoryMatches(branch, r) ==
  r.addressTxs = UNION {UNION {AddressTxRows(t, i - 1) : t \in TxsOf(branch[i])} :
                        i \in DOMAIN branch}

\* verify(): the incremental rows equal what the indexed blocks imply, after
\* any mix of applies, unwinds and lost commits: an output is spent exactly
\* when an indexed transaction spends it, every balance is the value of the
\* address's unspent outputs, and the history is that of the branch.
RowsMatch(d, r) ==
  /\ OutputsMatch(TxsIn(d.blocks), r)
  /\ AddressesMatch(TxsIn(d.blocks), r)
  /\ HistoryMatches(d.blocks, r)

RowsMatchBlocks == RowsMatch(db, rows) /\ RowsMatch(savedDb, savedRows)

\* None of the IndexCorruption checks of _apply_tx and _unwind_locked can fire.
NoCorruptionRaised ==
  /\ pc = "apply" /\ raws # <<>> /\ Head(raws).confirmations >= 0 /\ Links(Head(raws).hash)
       => PrevoutsUnspent(rows, Head(raws).hash)
  /\ pc = "unwind" /\ Tip(db) > reorg.fork => UnwindConsistent(rows, TipHash(db))

\* The rows of reorg_log that were closed, and what a set of rows accounts for.
Closed(d)    == {i \in DOMAIN d.reorgLog : d.reorgLog[i].new # Unset}
Logged(d, S) == SumFunctionOnSet([i \in DOMAIN d.reorgLog |-> d.reorgLog[i].unwound], S)

\* handle_reorg's audit trail: reorg_count is the number of logged reorgs, no
\* block is unwound outside a logged one, and an interrupted unwind is a row
\* left open -- the closed rows alone never account for more than was unwound.
Audited(d) ==
  LET all == DOMAIN d.reorgLog
  IN  /\ d.reorgCount = Len(d.reorgLog)
      /\ Logged(d, Closed(d)) <= d.unwound
      /\ d.unwound <= Logged(d, all)
      /\ Closed(d) = all => d.unwound = Logged(d, all)

\* So it is in the committed database and in the one a power cut goes back to.
AuditTrailComplete == Audited(db) /\ Audited(savedDb)

\* find_fork: when the node stood still during the search, the exponential
\* probe and the bisection return the highest agreeing height, and -1 when
\* there is none: nothing more than the stale blocks is unwound.
ForkIsHighestAgreement ==
  pc = "log" /\ steady =>
    LET hi == IF reorg.old < nodeHeight THEN reorg.old ELSE nodeHeight
    IN  reorg.fork = Max({-1} \cup {h \in 0..hi : Matches(h)})

\* What a reader of the index relies on: it is one pointer into the block tree.
Pointer == INSTANCE ChainPointer WITH tip <- TipHash(db), saved <- TipHash(savedDb)

\* However many rows and transactions it takes, the block table behaves as a
\* pointer that moves to a child or to the parent, one block per commit, and
\* that a power cut takes back to the block it had at the last checkpoint.
ImplementsChainPointer == Pointer!Spec

\* Once the node settles and the faults stop, the index ends up at the node's
\* tip and stays there, unless the node serves another chain than the one the
\* index was built on.  sync_once goes round without polling again after a
\* reorg, so this needs every such round to make progress.
Converges == <>[](TipHash(db) = nodeTip \/ ActiveChain[1] # db.genesis)

=============================================================================
