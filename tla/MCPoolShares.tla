---------------------------- MODULE MCPoolShares ----------------------------
(***************************************************************************)
(* A nonce that is good in the byte order tried second, and one that meets  *)
(* no target in either.  The good nonce makes a block of the second job      *)
(* only.  The queue is short enough to shed, the job map to drop a job.       *)
(***************************************************************************)
EXTENDS PoolShares

MCOrderOf == [n \in Nonce |-> IF n = "good" THEN "legacy" ELSE "none"]
MCBlocks  == {<<2, "good">>}
=============================================================================
