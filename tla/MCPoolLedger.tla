---------------------------- MODULE MCPoolLedger ----------------------------
(***************************************************************************)
(* One block that pays m1.  It has no payout rows, and can be voided, when   *)
(* the ledger write stopped half way.                                        *)
(***************************************************************************)
EXTENDS PoolLedger

MCPays == [b \in Own |-> {"m1"}]
=============================================================================
