----------------------------- MODULE PoolLedger -----------------------------
(***************************************************************************)
(* The pool's ledger of found blocks: submitblock and what handleSubmit     *)
(* records of its answer (contrib/pool/pool.mjs), the blocks and payouts     *)
(* tables, and the maturity pass (store.mjs, evaluateBlocks).                *)
(*                                                                         *)
(* The maturity pass runs from a 60 s timer that does not wait for the last  *)
(* one, and reads its tip, its rows and each height's hash at different      *)
(* times, so passes overlap each other and the chain moves under them.       *)
(*                                                                         *)
(* A chain is the sequence of its blocks; every block that is not the pool's *)
(* is Rival.  The store answers in the order it is asked and a pass awaits    *)
(* each answer, so no pass gets from its SELECT to a verdict between the two  *)
(* inserts for a found block: they are one step, which may stop half way.     *)
(* For the same reason a verdict's count of payouts and its update are one    *)
(* step.  pool_fees, a total per height that no decision reads, is left out.  *)
(***************************************************************************)
EXTENDS Naturals, Sequences, FiniteSets

CONSTANTS
  Own,          \* blocks the pool finds
  Miner,
  Pays,         \* [Own -> SUBSET Miner]: the miners in a block's coinbase
  Maturity,     \* this.maturity: confirmations a coinbase needs
  Pass,         \* maturity passes that may be open at once
  MaxHeight,    \* bound: length of a chain
  MaxMoves,     \* bound: times the node changes its chain
  MaxFaults,    \* bound: failed reads of the node, lost answers, failed writes, restarts
  Rival, None

ASSUME LedgerAssumption ==
  /\ Pays \in [Own -> SUBSET Miner]
  /\ Maturity \in Nat \ {0}
  /\ MaxHeight \in Nat /\ MaxMoves \in Nat /\ MaxFaults \in Nat
  /\ Rival \notin Own /\ None \notin Own \cup {Rival}

VARIABLES
  chain,        \* the node's active chain
  job,          \* the chain a found block was built on, None before it is found
  found,        \* how far handleSubmit got with a found block
  blocks,       \* table blocks: hash -> row
  payouts,      \* table payouts: rows <<height, miner, hash>>, key (height, miner)
  pass,         \* the open maturity passes
  seenOff,      \* history: hash reads in a row that found the block gone
  moves, faults

vars == <<chain, job, found, blocks, payouts, pass, seenOff, moves, faults>>

-----------------------------------------------------------------------------
Chain == UNION {[1..n -> Own \cup {Rival}] : n \in 0..MaxHeight}

HeightOf(b) == Len(job[b]) + 1
Whole(b)    == Append(job[b], b)
OnChain(b)  == job[b] # None /\ Len(chain) >= HeightOf(b) /\ chain[HeightOf(b)] = b

\* Blocks of the pool that the node holds, in its active chain or beside it.
Known == {b \in Own : found[b] \in {"accepted", "unknown", "side", "recorded", "gap"}}

Row(h) == [height |-> h, state |-> "pending", strikes |-> 0, alarm |-> FALSE]

Idle          == [at |-> "idle"]
HasTip(n)     == [at |-> "tip", tip |-> n]
Rows(n, todo) == [at |-> "rows", tip |-> n, todo |-> todo]
Read(n, todo, b, h) == [at |-> "read", tip |-> n, todo |-> todo, hash |-> b, actual |-> h]

Init ==
  /\ chain = <<>>
  /\ job = [b \in Own |-> None]
  /\ found = [b \in Own |-> "no"]
  /\ blocks = <<>> /\ payouts = {}
  /\ pass = [p \in Pass |-> Idle]
  /\ seenOff = [b \in Own |-> 0]
  /\ moves = 0 /\ faults = 0

-----------------------------------------------------------------------------
(* The node.                                                                *)

Prefixes(c) == {SubSeq(c, 1, k) : k \in 0..Len(c)}

\* The node switches to another branch it knows, extended by rival blocks, or
\* falls back to an earlier tip after a crash.
NodeMoves ==
  /\ moves < MaxMoves
  /\ moves' = moves + 1
  /\ \E base \in UNION {Prefixes(c) : c \in {chain} \cup {Whole(b) : b \in Known}},
        n \in 0..MaxHeight :
       /\ Len(base) + n <= MaxHeight
       /\ chain' = base \o [i \in 1..n |-> Rival]
       /\ chain' # chain
  /\ UNCHANGED <<job, found, blocks, payouts, pass, seenOff, faults>>

-----------------------------------------------------------------------------
(* handleSubmit, from the confirmed block on.                               *)

\* The block was built on the chain as it stood when its job was made.
FindBlock(b) ==
  /\ found[b] = "no" /\ Len(chain) < MaxHeight
  /\ job' = [job EXCEPT ![b] = chain]
  /\ found' = [found EXCEPT ![b] = "found"]
  /\ UNCHANGED <<chain, blocks, payouts, pass, seenOff, moves, faults>>

\* submitblock answers '': the block is the new tip.
SubmitAccepted(b) ==
  /\ found[b] = "found" /\ chain = job[b]
  /\ chain' = Whole(b)
  /\ found' = [found EXCEPT ![b] = "accepted"]
  /\ UNCHANGED <<job, blocks, payouts, pass, seenOff, moves, faults>>

\* The tip has moved: the node keeps the block beside its chain and answers
\* with a reason, which the pool logs as a rejection.
SubmitRejected(b) ==
  /\ found[b] = "found" /\ chain # job[b]
  /\ found' = [found EXCEPT ![b] = "side"]
  /\ UNCHANGED <<chain, job, blocks, payouts, pass, seenOff, moves, faults>>

\* submitblock threw: the node took the block, or the call never reached it.
SubmitThrew(b) ==
  /\ found[b] = "found" /\ faults < MaxFaults
  /\ faults' = faults + 1
  /\ \/ /\ chain = job[b]
        /\ chain' = Whole(b)
        /\ found' = [found EXCEPT ![b] = "unknown"]
     \/ /\ found' = [found EXCEPT ![b] = "lost"]
        /\ UNCHANGED chain
  /\ UNCHANGED <<job, blocks, payouts, pass, seenOff, moves>>

\* INSERT OR IGNORE under the primary key (block_height, miner).
PayoutRows(b) ==
  {<<HeightOf(b), m, b>> : m \in {n \in Pays[b] :
                                    \A r \in payouts : r[1] # HeightOf(b) \/ r[2] # n}}

\* INSERT OR IGNORE under the primary key, the hash.
InsertedBlock(b) ==
  [c \in DOMAIN blocks \cup {b} |->
     IF c \in DOMAIN blocks THEN blocks[c] ELSE Row(HeightOf(b))]

\* recordBlockPaidByCoinbase.
RecordBlock(b) ==
  /\ found[b] = "accepted"
  /\ blocks' = InsertedBlock(b)
  /\ payouts' = payouts \cup PayoutRows(b)
  /\ found' = [found EXCEPT ![b] = "recorded"]
  /\ UNCHANGED <<chain, job, pass, seenOff, moves, faults>>

\* LEDGER WRITE FAILED, or the process died, before or after the first insert.
\* (Both inserts done and only the answer lost leaves what RecordBlock leaves.)
RecordFails(b) ==
  /\ found[b] = "accepted" /\ faults < MaxFaults
  /\ faults' = faults + 1
  /\ \/ UNCHANGED blocks
     \/ blocks' = InsertedBlock(b)
  /\ found' = [found EXCEPT ![b] = "gap"]
  /\ UNCHANGED <<chain, job, payouts, pass, seenOff, moves>>

-----------------------------------------------------------------------------
(* evaluateMaturity and evaluateBlocks.                                     *)

\* A tip that cannot be read ends the pass before it began.
ReadTip(p) ==
  /\ pass[p] = Idle
  /\ blocks # <<>>
  /\ pass' = [pass EXCEPT ![p] = HasTip(Len(chain))]
  /\ UNCHANGED <<chain, job, found, blocks, payouts, seenOff, moves, faults>>

\* Pending and mature rows with their strikes, as they are now.
Evaluated == {b \in DOMAIN blocks : blocks[b].state \in {"pending", "mature"}}

SelectBlocks(p) ==
  /\ pass[p].at = "tip"
  /\ pass' = [pass EXCEPT ![p] = Rows(pass[p].tip, [b \in Evaluated |-> blocks[b].strikes])]
  /\ UNCHANGED <<chain, job, found, blocks, payouts, seenOff, moves, faults>>

\* Rows come ORDER BY height.
NextRow(todo) ==
  {b \in DOMAIN todo : \A c \in DOMAIN todo : HeightOf(b) <= HeightOf(c)}

Done(todo, b) == [c \in DOMAIN todo \ {b} |-> todo[c]]

\* getblockhash for the next row: null above the tip.
HashAt(p) ==
  /\ pass[p].at = "rows"
  /\ \E b \in NextRow(pass[p].todo) :
       pass' = [pass EXCEPT ![p] =
                  IF HeightOf(b) <= Len(chain)
                  THEN Read(pass[p].tip, pass[p].todo, b, chain[HeightOf(b)])
                  ELSE Rows(pass[p].tip, Done(pass[p].todo, b))]
  /\ UNCHANGED <<chain, job, found, blocks, payouts, seenOff, moves, faults>>

\* An unreadable node: "not orphaned, not mature, not a strike".
HashUnreadable(p) ==
  /\ pass[p].at = "rows" /\ faults < MaxFaults
  /\ faults' = faults + 1
  /\ \E b \in NextRow(pass[p].todo) :
       pass' = [pass EXCEPT ![p] = Rows(pass[p].tip, Done(pass[p].todo, b))]
  /\ UNCHANGED <<chain, job, found, blocks, payouts, seenOff, moves>>

\* tip - h + 1n; a tip read before the block's height counts below zero.
Deep(tip, h) == tip + 1 >= h + Maturity

Sent(b) == \E r \in payouts : r[3] = b

\* Mutant: one observation is enough.
GoneOnceIsEnough(b, strikes) ==
  IF Sent(b) THEN [blocks[b] EXCEPT !.alarm = TRUE]
             ELSE [blocks[b] EXCEPT !.state = "orphaned"]

\* Mutant: the block is voided whatever was paid.
GoneWhateverWasPaid(b, strikes) ==
  IF strikes + 1 < 2 THEN [blocks[b] EXCEPT !.strikes = strikes + 1]
                     ELSE [blocks[b] EXCEPT !.state = "orphaned"]

\* Another block holds the height: a strike, or at the second one an alarm if
\* anything was paid, and otherwise the end.
Gone(b, strikes) ==
  IF strikes + 1 < 2 THEN [blocks[b] EXCEPT !.strikes = strikes + 1]
  ELSE IF Sent(b) THEN [blocks[b] EXCEPT !.alarm = TRUE]
  ELSE [blocks[b] EXCEPT !.state = "orphaned"]

\* Mutant: a block that came back keeps its alarm.
StillThereKeepsAlarm(b, tip) ==
  [blocks[b] EXCEPT !.state = IF Deep(tip, HeightOf(b)) THEN "mature" ELSE "pending",
                    !.strikes = 0]

\* On the active chain: the row as it was inserted, no strike and no alarm, but
\* mature once deep enough.
StillThere(b, tip) ==
  IF Deep(tip, HeightOf(b)) THEN [Row(blocks[b].height) EXCEPT !.state = "mature"]
                            ELSE Row(blocks[b].height)

\* One row's update, from the tip, the strikes and the hash read earlier.
Resolve(p) ==
  /\ pass[p].at = "read"
  /\ LET b == pass[p].hash
         gone == pass[p].actual # b
     IN  /\ blocks' = [blocks EXCEPT ![b] = IF gone THEN Gone(b, pass[p].todo[b])
                                                    ELSE StillThere(b, pass[p].tip)]
         /\ seenOff' = [seenOff EXCEPT ![b] = CASE ~gone -> 0
                                                [] gone /\ @ < 2 -> @ + 1
                                                [] OTHER -> @]
         /\ pass' = [pass EXCEPT ![p] = Rows(pass[p].tip, Done(pass[p].todo, b))]
  /\ UNCHANGED <<chain, job, found, payouts, moves, faults>>

EndPass(p) ==
  /\ pass[p].at = "rows" /\ DOMAIN pass[p].todo = {}
  /\ pass' = [pass EXCEPT ![p] = Idle]
  /\ UNCHANGED <<chain, job, found, blocks, payouts, seenOff, moves, faults>>

\* The pool process restarts; the tables stay.
Restart ==
  /\ faults < MaxFaults
  /\ faults' = faults + 1
  /\ pass' = [p \in Pass |-> Idle]
  /\ found' = [b \in Own |-> CASE found[b] = "found" -> "lost"
                               [] found[b] = "accepted" -> "gap"
                               [] OTHER -> found[b]]
  /\ UNCHANGED <<chain, job, blocks, payouts, seenOff, moves>>

Evaluate(p) == ReadTip(p) \/ SelectBlocks(p) \/ HashAt(p) \/ Resolve(p) \/ EndPass(p)

Submit(b) == SubmitAccepted(b) \/ SubmitRejected(b) \/ RecordBlock(b)

Next ==
  \/ NodeMoves \/ Restart
  \/ \E b \in Own : FindBlock(b) \/ Submit(b) \/ SubmitThrew(b) \/ RecordFails(b)
  \/ \E p \in Pass : Evaluate(p) \/ HashUnreadable(p)

Spec == Init /\ [][Next]_vars

\* The timer keeps starting passes and an open pass runs on; a submit is
\* answered and recorded.  Nothing forces the node to move.
FairSpec ==
  /\ Spec
  /\ \A p \in Pass : WF_vars(Evaluate(p))
  /\ \A b \in Own : WF_vars(Submit(b))

-----------------------------------------------------------------------------
BlockRow == [height : 1..MaxHeight, state : {"pending", "mature", "orphaned"},
             strikes : {0, 1}, alarm : BOOLEAN]

\* Type correctness.
TypeOK ==
  /\ chain \in Chain /\ job \in [Own -> Chain \cup {None}]
  /\ found \in [Own -> {"no", "found", "accepted", "unknown", "side", "lost", "recorded", "gap"}]
  /\ DOMAIN blocks \subseteq Own /\ \A b \in DOMAIN blocks : blocks[b] \in BlockRow
  /\ payouts \subseteq (1..MaxHeight) \X Miner \X Own
  /\ \A p \in Pass : pass[p].at \in {"idle", "tip", "rows", "read"}
  /\ seenOff \in [Own -> 0..2]

\* "DETECT A REORG, BUT NEVER AUTO-REVERSE A CREDIT": a block whose payouts are
\* in the ledger is never voided, whatever passes and reorgs interleave; and no
\* payout stands in the ledger without its block.
CreditsAreNeverReversed ==
  \A b \in Own : Sent(b) => b \in DOMAIN blocks /\ blocks[b].state # "orphaned"

OnePassOpen == \A p, q \in Pass : pass[p] # Idle /\ pass[q] # Idle => p = q

OrphanedOnTwoReads ==
  \A b \in DOMAIN blocks : blocks[b].state = "orphaned" => seenOff[b] = 2

\* "Seen once is a reorg in progress or a stale read; seen twice is an answer":
\* as long as no pass starts before the last one is done, a block is voided only
\* on the second of two reads, from two passes, that both found another block at
\* its height, with no read in between that found the block -- "a chain that came
\* back is not half-orphaned".
SerialPassesOrphanOnTwoReads == []OnePassOpen => []OrphanedOnTwoReads

Settled(b) ==
  CASE OnChain(b) -> /\ blocks[b].state = IF Deep(Len(chain), HeightOf(b)) THEN "mature"
                                                                          ELSE "pending"
                     /\ ~blocks[b].alarm /\ blocks[b].strikes = 0
    [] ~OnChain(b) /\ HeightOf(b) <= Len(chain) -> blocks[b].alarm
    [] OTHER -> TRUE

\* Once the chain stays put, every row that is not voided tells the truth about
\* it: mature exactly when deep enough, pending while not, and an alarm when the
\* block is gone but paid -- also when a slow pass wrote an outdated answer.
LedgerConverges ==
  <>[](\A b \in DOMAIN blocks : blocks[b].state # "orphaned" => Settled(b))

=============================================================================
