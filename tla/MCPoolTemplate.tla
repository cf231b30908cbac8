--------------------------- MODULE MCPoolTemplate ---------------------------
(***************************************************************************)
(* The subsidy is 50; a template with a fee-paying transaction is worth 51. *)
(***************************************************************************)
EXTENDS PoolTemplate
=============================================================================
