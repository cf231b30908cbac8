CONSTANTS
  o1 = o1
  p1 = p1
  p2 = p2
  Orders = {o1}
  Small = {o1}
  Server = {s1, s2}
  Cli = {}
  NoOrder = NoOrder
  Other = Other
  Pcn <- OneCoin
  Float = 5
  MaxFee = 1
  OtherSpend = 1
  Stop = 1
  Window = 1
  MaxTroubles = 1
  Payments = {p1, p2}
  NoPayment = NoPayment
  Genuine = {p1}
  OrderOf <- BothNameIt
  MaxReports = 2
SPECIFICATION IpnFairSpec
PROPERTIES AutoSendIsEarned TieIsForever AcceptedIsServed
CHECK_DEADLOCK FALSE
