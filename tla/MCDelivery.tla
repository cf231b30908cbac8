----------------------------- MODULE MCDelivery -----------------------------
(***************************************************************************)
(* Every order is for two coins and a send costs three, so that the last     *)
(* coin of the reserve can go on a fee.                                       *)
(***************************************************************************)
EXTENDS Delivery

TwoEach == [o \in Orders |-> 2]
=============================================================================
