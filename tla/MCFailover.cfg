CONSTANTS
  FAILS = 2
  RECOVER = 3
  MaxChanges = 4
  MaxEdits = 1
  MaxCallFaults = 2
  MaxRestarts = 1
SPECIFICATION FailoverFairSpec
PROPERTIES FlipsAreEarned NameFollowsHealth
