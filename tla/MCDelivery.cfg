CONSTANTS
  Orders = {o1}
  Small = {o1}
  Server = {s1}
  Cli = {c1}
  NoOrder = NoOrder
  Other = Other
  Pcn <- TwoEach
  Float = 7
  MaxFee = 1
  OtherSpend = 1
  Stop = 2
  Window = 1
  MaxTroubles = 3
SPECIFICATION FairSpec
INVARIANTS SentTwiceOnlyBlind
PROPERTIES ReserveHolds SendingEnds SentIsRecorded
