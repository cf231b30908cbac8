----------------------------- MODULE MCIndexer -----------------------------
(***************************************************************************)
(* A block tree with two branches after a common prefix, long enough for    *)
(* find_fork to overshoot and bisect, and the genesis block of another      *)
(* chain:                                                                   *)
(*                                                                          *)
(*      g0 -- p1 -- a2 -- a3 -- a4          x0                              *)
(*             \--- b2 -- b3 -- b4                                          *)
(*                                                                          *)
(* p1 pays alice; transaction t moves that to bob in a2 and, on the other    *)
(* branch, in b3; u spends t's output, in a later block on branch a (a3)    *)
(* and in the same block on branch b (b3).                                  *)
(***************************************************************************)
EXTENDS Indexer

CONSTANTS g0, p1, a2, a3, a4, b2, b3, b4, x0

\* With faults, on the tree without a4 and b4; the search for the fork and liveness,
\* on the tree of one chain only.
MCFaultTree == {g0, p1, a2, a3, b2, b3, x0}
MCDeepTree  == {g0, p1, a2, a3, a4, b2, b3, b4}

MCParent ==
  [b \in Block |-> CASE b = p1  -> g0
                       [] b = a2 -> p1
                       [] b = a3 -> a2
                       [] b = a4 -> a3
                       [] b = b2 -> p1
                       [] b = b3 -> b2
                       [] b = b4 -> b3
                       [] OTHER  -> NoBlock]

MCPathTo[b \in Block] ==
  IF MCParent[b] = NoBlock THEN <<b>> ELSE Append(MCPathTo[MCParent[b]], b)

\* Every block's coinbase is named after the block.
MCTx == Block \cup {"t", "u"}

MCBlockTxs ==
  [b \in Block |-> CASE b = a2 -> <<b, "t">>
                       [] b = a3 -> <<b, "u">>
                       [] b = b3 -> <<b, "t", "u">>
                       [] OTHER  -> <<b>>]

\* One output per transaction, named after it.
MCTxIns  == [t \in MCTx |-> CASE t = "t" -> {p1} [] t = "u" -> {"t"} [] OTHER -> {}]
MCTxOuts == [t \in MCTx |-> {t}]
MCOwner  == [o \in MCTx |-> IF o \in {p1, a2, "u"} THEN "alice" ELSE "bob"]
MCValue  == [o \in MCTx |-> IF o = "u" THEN 3 ELSE IF o = "t" THEN 4 ELSE 5]
MCUnspendable == {g0, x0} \cap Block
=============================================================================
