-------------------------------- MODULE MCIpn -------------------------------
(***************************************************************************)
(* One order, a payment of its invoice and one that does not match it.       *)
(***************************************************************************)
EXTENDS Ipn, TLC

CONSTANTS o1, p1, p2

OneCoin == [o \in Orders |-> 1]

BothNameIt == p1 :> o1 @@ p2 :> o1
=============================================================================
