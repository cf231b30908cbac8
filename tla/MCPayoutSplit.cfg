CONSTANTS
  Miner = {"m1", "m2", "m3"}
  MaxWeight = 6
  Value = {1, 7, 20, 23, 40}
  FeeBp = {0, 200, 10000}
  DustLimit = 5
  MaxPass = 64
SPECIFICATION SplitSpec
INVARIANTS RecomputeCannotCascade PaidByWork
CHECK_DEADLOCK FALSE
