CONSTANTS
  g0 = g0 p1 = p1 a2 = a2 a3 = a3 a4 = a4 b2 = b2 b3 = b3 b4 = b4 x0 = x0
  NoBlock = NoBlock
  Block <- MCFaultTree
  Parent <- MCParent
  PathTo <- MCPathTo
  Tx <- MCTx
  BlockTxs <- MCBlockTxs
  Outpoint <- MCTx
  TxIns <- MCTxIns
  TxOuts <- MCTxOuts
  Address = {"alice", "bob"}
  Owner <- MCOwner
  Value <- MCValue
  Unspendable <- MCUnspendable
  Batch = 2
  MaxRepolls = 1
  MaxMoves = 2
  MaxFaults = 1
SPECIFICATION Spec
INVARIANTS InvariantI MirrorMatchesBlocks RowsMatchBlocks NoCorruptionRaised AuditTrailComplete
PROPERTY ImplementsChainPointer
