---------------------------- MODULE ChainPointer ----------------------------
(***************************************************************************)
(* What the index promises its readers, with tables and transactions left   *)
(* out: a pointer into the block tree.  A commit moves it to a child of the *)
(* block it names, or back to that block's parent; a power cut may take it  *)
(* back to where it was saved.                                              *)
(***************************************************************************)
CONSTANTS Block, NoBlock, Parent

VARIABLES tip, saved

Init == tip = NoBlock /\ saved = NoBlock

Extend  == tip' \in Block /\ Parent[tip'] = tip /\ UNCHANGED saved
Retract == tip \in Block /\ tip' = Parent[tip] /\ UNCHANGED saved
Save    == saved' = tip /\ UNCHANGED tip
Lose    == tip' = saved /\ UNCHANGED saved

Next == Extend \/ Retract \/ Save \/ Lose

Spec == Init /\ [][Next]_<<tip, saved>>
=============================================================================
