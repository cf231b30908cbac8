CONSTANTS
  Session = {"s1"}
  Nonce = {"good", "bad"}
  OrderOf <- MCOrderOf
  Palindrome = {}
  Blocks <- MCBlocks
  MaxQueue = 1
  MaxJobs = 1
  MaxSeq = 2
  MaxRestarts = 1
  MaxTimeouts = 1
SPECIFICATION FairSpec
INVARIANTS AckedWorkIsAccountedFor FoundBlockIsSubmitted
PROPERTY EveryShareIsAnswered
CHECK_DEADLOCK FALSE
