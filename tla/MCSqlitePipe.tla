---------------------------- MODULE MCSqlitePipe ----------------------------
(***************************************************************************)
(* Three shares and a retry of the first, so that a retry can overtake the  *)
(* answer to the call it repeats.                                           *)
(***************************************************************************)
EXTENDS SqlitePipe

CONSTANTS r1, r2, r3, retry1

MCRequest == {r1, r2, r3, retry1}
MCKeyOf   == [r \in MCRequest |-> CASE r = r2 -> "k2" [] r = r3 -> "k3" [] OTHER -> "k1"]
=============================================================================
