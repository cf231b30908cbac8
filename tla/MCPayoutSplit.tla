--------------------------- MODULE MCPayoutSplit ----------------------------
(***************************************************************************)
(* Every window of three miners, at small values around the dust limit.      *)
(***************************************************************************)
EXTENDS PayoutSplit
=============================================================================
