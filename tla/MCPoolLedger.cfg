CONSTANTS
  Own = {"a"}
  Miner = {"m1"}
  Pays <- MCPays
  Maturity = 2
  Pass = {"p1", "p2"}
  MaxHeight = 3
  MaxMoves = 3
  MaxFaults = 2
  Rival = "rival"
  None = None
SPECIFICATION FairSpec
INVARIANTS CreditsAreNeverReversed
PROPERTIES SerialPassesOrphanOnTwoReads LedgerConverges
CHECK_DEADLOCK FALSE
