CONSTANTS
  Call = {"timer", "found"}
  Miner = {"m1"}
  Value = {50, 51}
  MaxTip = 2
  MaxFaults = 1
  MaxUnread = 1
  None = None
SPECIFICATION FairSpec
INVARIANTS CoinbaseFits
PROPERTIES SerialRefreshesAgree WorkFollowsTip
