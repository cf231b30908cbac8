CONSTANTS
  r1 = r1 r2 = r2 r3 = r3 retry1 = retry1
  Request <- MCRequest
  Key = {"k1", "k2", "k3"}
  KeyOf <- MCKeyOf
  MaxFailures = 1
SPECIFICATION FairSpec
INVARIANTS PromptAcksAreRecorded AnsweredByOwnRow WaitersAreCovered
PROPERTY EveryRequestSettles
CHECK_DEADLOCK FALSE
