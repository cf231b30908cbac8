---------------------------- MODULE MCShareTable ----------------------------
(***************************************************************************)
(* A window of three units of work over shares of two, so that the last row  *)
(* in it counts in part, scanned from a first limit of one row, and a prune   *)
(* that deletes one row at a time.                                            *)
(***************************************************************************)
EXTENDS ShareTable
=============================================================================
