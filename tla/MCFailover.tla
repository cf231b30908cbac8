----------------------------- MODULE MCFailover -----------------------------
(***************************************************************************)
(* Two failures flip, three successes flip back.                             *)
(***************************************************************************)
EXTENDS Failover
=============================================================================
