-------------------------- MODULE PoolLedgerProofs --------------------------
(***************************************************************************)
(* The pool's ledger never voids a block it has paid out, for any number of *)
(* blocks, miners and overlapping maturity passes, any payout sets and any  *)
(* maturity.                                                                *)
(*                                                                         *)
(* The property alone is not inductive: a block voided before its payout     *)
(* rows arrive would break it.  What rules that out is the order of          *)
(* handleSubmit, LateRows below: no row of a block is in the table before    *)
(* handleSubmit is done with it, so no pass can void it before its payouts   *)
(* are written.                                                              *)
(*                                                                         *)
(* When passes do not overlap, a block is voided only after two readings in a *)
(* row that found it gone: Twice, which each step keeps from a state with at  *)
(* most one pass open.                                                        *)
(*                                                                         *)
(* The failover script acts on repeated readings too.  Until its first        *)
(* restart its counters are the lengths of runs of equal probes               *)
(* (CountersCount), so it flips only after a run.                             *)
(***************************************************************************)
EXTENDS PoolLedger, Failover, SequenceTheorems, TLAPS

\* A row of table blocks has its four columns.
IsRow(r) == r = [height |-> r.height, state |-> r.state,
                 strikes |-> r.strikes, alarm |-> r.alarm]

\* blocks is a table keyed by hash, found has an entry for each block.
Shape ==
  /\ blocks = [b \in DOMAIN blocks |-> blocks[b]]
  /\ DOMAIN blocks \subseteq Own
  /\ \A b \in DOMAIN blocks : IsRow(blocks[b])
  /\ found = [b \in Own |-> found[b]]

\* A block enters the table only in the step that ends handleSubmit for it.
LateRows == \A b \in DOMAIN blocks : found[b] \in {"recorded", "gap"}

Inv == Shape /\ LateRows /\ CreditsAreNeverReversed

\* A step that changes neither table, and takes found through no step back from
\* recorded or gap, keeps the invariant.
LEMMA TablesUntouched ==
  ASSUME Inv, blocks' = blocks, payouts' = payouts,
         found' = [b \in Own |-> found'[b]],
         \A b \in Own : found[b] \in {"recorded", "gap"} => found'[b] = found[b]
  PROVE  Inv'
<1>1. Shape'
  BY DEF Inv, Shape, IsRow
<1>2. LateRows'
  BY DEF Inv, LateRows, Shape
<1>3. CreditsAreNeverReversed'
  BY DEF Inv, CreditsAreNeverReversed, Sent
<1>4. QED
  BY <1>1, <1>2, <1>3 DEF Inv

\* What InsertedBlock leaves in the table for a block that was not there.
LEMMA Inserted ==
  ASSUME Inv, NEW b \in Own, found[b] = "accepted", blocks' = InsertedBlock(b)
  PROVE  /\ DOMAIN blocks' = DOMAIN blocks \cup {b}
         /\ blocks' = [c \in DOMAIN blocks' |-> blocks'[c]]
         /\ b \notin DOMAIN blocks
         /\ blocks'[b] = Row(HeightOf(b))
         /\ \A c \in DOMAIN blocks : blocks'[c] = blocks[c]
<1>1. b \notin DOMAIN blocks
  BY DEF Inv, LateRows
<1>2. QED
  BY <1>1 DEF InsertedBlock

\* A new row is whole and pending.
LEMMA NewRow ==
  ASSUME NEW h
  PROVE  IsRow(Row(h)) /\ Row(h).state = "pending"
BY DEF IsRow, Row

\* RecordBlock: the row and the payouts arrive together, the row pending.
LEMMA RecordKeeps ==
  ASSUME Inv, NEW b \in Own, RecordBlock(b)
  PROVE  Inv'
<1> USE DEF RecordBlock
<1>1. /\ DOMAIN blocks' = DOMAIN blocks \cup {b}
      /\ blocks' = [c \in DOMAIN blocks' |-> blocks'[c]]
      /\ blocks'[b] = Row(HeightOf(b))
      /\ \A c \in DOMAIN blocks : blocks'[c] = blocks[c]
  BY Inserted
<1>2. IsRow(blocks'[b]) /\ blocks'[b].state = "pending"
  BY <1>1, NewRow
<1>3. Shape'
  BY <1>1, <1>2 DEF Inv, Shape, IsRow
<1>4. LateRows'
  BY <1>1 DEF Inv, LateRows, Shape
<1>5. CreditsAreNeverReversed'
  <2> SUFFICES ASSUME NEW c \in Own, Sent(c)'
               PROVE  c \in DOMAIN blocks' /\ blocks'[c].state # "orphaned"
    BY DEF CreditsAreNeverReversed
  <2>1. CASE c = b
    BY <2>1, <1>1, <1>2
  <2>2. CASE c # b
    <3>1. Sent(c)
      BY <2>2 DEF Sent, PayoutRows
    <3>2. QED
      BY <3>1, <1>1 DEF Inv, CreditsAreNeverReversed
  <2>3. QED
    BY <2>1, <2>2
<1>6. QED
  BY <1>3, <1>4, <1>5 DEF Inv

\* RecordFails: the row may arrive without its payouts, never the reverse.
LEMMA RecordFailureKeeps ==
  ASSUME Inv, NEW b \in Own, RecordFails(b)
  PROVE  Inv'
<1> USE DEF RecordFails
<1>1. CASE blocks' = blocks
  <2>1. /\ found' = [c \in Own |-> found'[c]]
        /\ \A c \in Own : found[c] \in {"recorded", "gap"} => found'[c] = found[c]
    BY DEF Inv, Shape
  <2>2. QED
    BY <1>1, <2>1, TablesUntouched
<1>2. CASE blocks' = InsertedBlock(b)
  <2>1. /\ DOMAIN blocks' = DOMAIN blocks \cup {b}
        /\ blocks' = [c \in DOMAIN blocks' |-> blocks'[c]]
        /\ blocks'[b] = Row(HeightOf(b))
        /\ \A c \in DOMAIN blocks : blocks'[c] = blocks[c]
    BY <1>2, Inserted
  <2>2. IsRow(blocks'[b])
    BY <2>1, NewRow
  <2>3. Shape'
    BY <2>1, <2>2 DEF Inv, Shape, IsRow
  <2>4. LateRows'
    BY <2>1 DEF Inv, LateRows, Shape
  <2>5. CreditsAreNeverReversed'
    BY <2>1 DEF Inv, CreditsAreNeverReversed, Sent
  <2>6. QED
    BY <2>3, <2>4, <2>5 DEF Inv
<1>3. QED
  BY <1>1, <1>2

\* The row a read that missed the block leaves: whole, and not voided by this
\* read when the block was paid.
LEMMA GoneRow ==
  ASSUME NEW b, NEW n, IsRow(blocks[b])
  PROVE  /\ IsRow(Gone(b, n))
         /\ Sent(b) => Gone(b, n).state = blocks[b].state
<1> DEFINE r == blocks[b]
<1>1. r = [height |-> r.height, state |-> r.state, strikes |-> r.strikes, alarm |-> r.alarm]
  BY DEF IsRow
<1>2. \A x : /\ [r EXCEPT !.strikes = x] = [height |-> r.height, state |-> r.state,
                                            strikes |-> x, alarm |-> r.alarm]
             /\ [r EXCEPT !.alarm = x] = [height |-> r.height, state |-> r.state,
                                          strikes |-> r.strikes, alarm |-> x]
             /\ [r EXCEPT !.state = x] = [height |-> r.height, state |-> x,
                                          strikes |-> r.strikes, alarm |-> r.alarm]
  BY <1>1
<1>3. CASE n + 1 < 2
  BY <1>2, <1>3 DEF Gone, IsRow
<1>4. CASE ~(n + 1 < 2) /\ Sent(b)
  BY <1>2, <1>4 DEF Gone, IsRow
<1>5. CASE ~(n + 1 < 2) /\ ~Sent(b)
  BY <1>2, <1>5 DEF Gone, IsRow
<1>6. QED
  BY <1>3, <1>4, <1>5

\* The row a read that found the block leaves: whole, pending or mature.
LEMMA StillThereRow ==
  ASSUME NEW b, NEW n
  PROVE  IsRow(StillThere(b, n)) /\ StillThere(b, n).state # "orphaned"
<1>1. CASE Deep(n, HeightOf(b))
  <2>1. StillThere(b, n) = [height |-> blocks[b].height, state |-> "mature",
                            strikes |-> 0, alarm |-> FALSE]
    BY <1>1 DEF StillThere, Row
  <2>2. QED
    BY <2>1 DEF IsRow
<1>2. CASE ~Deep(n, HeightOf(b))
  BY <1>2 DEF StillThere, Row, IsRow
<1>3. QED
  BY <1>1, <1>2

\* Resolve, whatever the pass read and however long ago.
LEMMA ResolveKeeps ==
  ASSUME Inv, NEW p \in Pass, Resolve(p)
  PROVE  Inv'
<1> DEFINE b == pass[p].hash
<1> DEFINE new == IF pass[p].actual # b THEN Gone(b, pass[p].todo[b])
                                        ELSE StillThere(b, pass[p].tip)
<1>1. /\ blocks' = [blocks EXCEPT ![b] = new]
      /\ payouts' = payouts /\ found' = found
  BY DEF Resolve
<1> HIDE DEF new
<1>2. /\ DOMAIN blocks' = DOMAIN blocks
      /\ blocks' = [c \in DOMAIN blocks' |-> blocks'[c]]
      /\ \A c \in DOMAIN blocks : blocks'[c] = IF c = b THEN new ELSE blocks[c]
  BY <1>1 DEF Inv, Shape
<1>3. b \in DOMAIN blocks =>
        IsRow(new) /\ (Sent(b) => new.state # "orphaned")
  <2> SUFFICES ASSUME b \in DOMAIN blocks
               PROVE  IsRow(new) /\ (Sent(b) => new.state # "orphaned")
    OBVIOUS
  <2>1. IsRow(blocks[b]) /\ b \in Own
    BY DEF Inv, Shape
  <2>2. CASE pass[p].actual # b
    <3>1. new = Gone(b, pass[p].todo[b])
      BY <2>2 DEF new
    <3>2. IsRow(new) /\ (Sent(b) => new.state = blocks[b].state)
      BY <3>1, <2>1, GoneRow
    <3>3. QED
      BY <3>2, <2>1 DEF Inv, CreditsAreNeverReversed
  <2>3. CASE pass[p].actual = b
    <3>1. new = StillThere(b, pass[p].tip)
      BY <2>3 DEF new
    <3>2. QED
      BY <3>1, StillThereRow
  <2>4. QED
    BY <2>2, <2>3
<1>4. Shape'
  BY <1>1, <1>2, <1>3 DEF Inv, Shape, IsRow
<1>5. LateRows'
  BY <1>1, <1>2 DEF Inv, LateRows
<1>6. CreditsAreNeverReversed'
  BY <1>1, <1>2, <1>3 DEF Inv, CreditsAreNeverReversed, Sent
<1>7. QED
  BY <1>4, <1>5, <1>6 DEF Inv

\* Every step of the ledger keeps the invariant.
LEMMA InvStep == Inv /\ [Next]_vars => Inv'
<1> SUFFICES ASSUME Inv, [Next]_vars
             PROVE  Inv'
  OBVIOUS
<1>1. CASE /\ blocks' = blocks /\ payouts' = payouts
           /\ found' = found
  BY <1>1, TablesUntouched DEF Inv, Shape
<1>2. CASE NodeMoves
  BY <1>2, <1>1 DEF NodeMoves
<1>3. CASE Restart
  <2>1. /\ found' = [b \in Own |-> found'[b]]
        /\ \A b \in Own : found[b] \in {"recorded", "gap"} => found'[b] = found[b]
        /\ blocks' = blocks /\ payouts' = payouts
    BY <1>3 DEF Restart
  <2>2. QED
    BY <2>1, TablesUntouched
<1>4. ASSUME NEW b \in Own,
             FindBlock(b) \/ SubmitAccepted(b) \/ SubmitRejected(b) \/ SubmitThrew(b)
      PROVE  Inv'
  <2>1. /\ found[b] \in {"no", "found"}
        /\ \E s : found' = [found EXCEPT ![b] = s]
        /\ blocks' = blocks /\ payouts' = payouts
    BY <1>4 DEF FindBlock, SubmitAccepted, SubmitRejected, SubmitThrew
  <2>2. /\ found' = [c \in Own |-> found'[c]]
        /\ \A c \in Own : found[c] \in {"recorded", "gap"} => found'[c] = found[c]
    BY <2>1 DEF Inv, Shape
  <2>3. QED
    BY <2>1, <2>2, TablesUntouched
<1>5. ASSUME NEW p \in Pass,
             ReadTip(p) \/ SelectBlocks(p) \/ HashAt(p) \/ HashUnreadable(p) \/ EndPass(p)
      PROVE  Inv'
  BY <1>5, <1>1 DEF ReadTip, SelectBlocks, HashAt, HashUnreadable, EndPass
<1>6. CASE UNCHANGED vars
  BY <1>6, <1>1 DEF vars
<1>7. QED
  BY <1>2, <1>3, <1>4, <1>5, <1>6, RecordKeeps, RecordFailureKeeps, ResolveKeeps
     DEF Next, Submit, Evaluate

-----------------------------------------------------------------------------
\* "DETECT A REORG, BUT NEVER AUTO-REVERSE A CREDIT" (store.mjs, evaluateBlocks):
\* with any number of overlapping maturity passes, restarts, failed writes and
\* reorganisations, a block with payouts in the ledger has its row and is never
\* voided.
THEOREM PaidBlocksStand == Spec => []CreditsAreNeverReversed
<1>1. Init => Inv
  BY DEF Init, Inv, Shape, LateRows, CreditsAreNeverReversed, Sent, IsRow
<1>2. Inv => CreditsAreNeverReversed
  BY DEF Inv
<1>3. QED
  BY <1>1, <1>2, InvStep, PTL DEF Spec
-----------------------------------------------------------------------------
(* While one pass is open at a time, a block is voided only on its second       *)
(* reading in a row that found it gone.                                         *)

\* A strike in the table is a reading that found the block gone, with none since
\* that found it there; a voided block was found gone twice.
Counted(b) ==
  /\ blocks[b].strikes \in {0, 1}
  /\ blocks[b].strikes = 1 => seenOff[b] \in {1, 2}
  /\ blocks[b].state = "orphaned" => seenOff[b] = 2

\* The strikes a pass selected are still those of the table for every row it has
\* not resolved: what a second pass would make stale.
Current(s) ==
  /\ s.at \in {"rows", "read"} =>
       \A b \in DOMAIN s.todo : b \in DOMAIN blocks /\ s.todo[b] = blocks[b].strikes
  /\ s.at = "read" => s.hash \in DOMAIN s.todo

Twice ==
  /\ pass = [p \in Pass |-> pass[p]]
  /\ seenOff \in [Own -> 0..2]
  /\ \A b \in DOMAIN blocks : Counted(b)
  /\ \A p \in Pass : Current(pass[p])

\* What a pass holds after each of its steps.
LEMMA PassFields ==
  /\ Idle.at = "idle"
  /\ \A n : HasTip(n).at = "tip"
  /\ \A n, todo : Rows(n, todo).at = "rows" /\ Rows(n, todo).todo = todo
  /\ \A n, todo, b, h : /\ Read(n, todo, b, h).at = "read"
                        /\ Read(n, todo, b, h).todo = todo
                        /\ Read(n, todo, b, h).hash = b
BY DEF Idle, HasTip, Rows, Read

\* A pass that drops a row still holds current strikes.
LEMMA DroppedRowIsCurrent ==
  ASSUME NEW s, s.at \in {"rows", "read"}, Current(s), NEW b, NEW n
  PROVE  Current(Rows(n, Done(s.todo, b)))
<1>1. /\ Rows(n, Done(s.todo, b)).at = "rows"
      /\ Rows(n, Done(s.todo, b)).todo = Done(s.todo, b)
  BY PassFields
<1>2. \A c \in DOMAIN Done(s.todo, b) : c \in DOMAIN s.todo /\ Done(s.todo, b)[c] = s.todo[c]
  BY DEF Done
<1> QED BY <1>1, <1>2 DEF Current

\* A step of one pass that writes nothing.
LEMMA ReadingKeeps ==
  ASSUME Twice, NEW p \in Pass, NEW s, Current(s),
         pass' = [pass EXCEPT ![p] = s], blocks' = blocks, seenOff' = seenOff
  PROVE  Twice'
<1>1. pass' = [q \in Pass |-> pass'[q]] /\ \A q \in Pass : pass'[q] = IF q = p THEN s ELSE pass[q]
  BY DEF Twice
<1>2. \A q \in Pass : Current(pass'[q])
  BY <1>1 DEF Twice
<1>3. \A q \in Pass : Current(pass[q])'
  BY <1>2 DEF Current
<1> QED BY <1>1, <1>3 DEF Twice, Counted

\* A new row carries no strike and disturbs no pass.
LEMMA InsertKeeps ==
  ASSUME Inv, Twice, NEW b \in Own, found[b] = "accepted", blocks' = InsertedBlock(b),
         pass' = pass, seenOff' = seenOff
  PROVE  Twice'
<1>1. /\ DOMAIN blocks' = DOMAIN blocks \cup {b}
      /\ blocks'[b] = Row(HeightOf(b))
      /\ \A c \in DOMAIN blocks : blocks'[c] = blocks[c]
  BY Inserted
<1>2. blocks'[b].strikes = 0 /\ blocks'[b].state = "pending"
  BY <1>1 DEF Row
<1>3. \A c \in DOMAIN blocks' : Counted(c)'
  BY <1>1, <1>2 DEF Twice, Counted
<1>4. \A p \in Pass : Current(pass[p])'
  BY <1>1 DEF Twice, Current
<1> QED BY <1>3, <1>4 DEF Twice

\* The row a reading that missed the block leaves: the second strike in a row is
\* the one that may void it.
LEMMA GoneCounts ==
  ASSUME NEW b, NEW n \in {0, 1}, IsRow(blocks[b]), blocks[b].strikes = n
  PROVE  /\ Gone(b, n).strikes = 1
         /\ Gone(b, n).state = "orphaned" => n = 1 \/ blocks[b].state = "orphaned"
<1> DEFINE r == blocks[b]
<1>1. r = [height |-> r.height, state |-> r.state, strikes |-> r.strikes, alarm |-> r.alarm]
  BY DEF IsRow
<1>2. \A x : /\ [r EXCEPT !.strikes = x].strikes = x
             /\ [r EXCEPT !.strikes = x].state = r.state
             /\ [r EXCEPT !.alarm = x].strikes = r.strikes
             /\ [r EXCEPT !.alarm = x].state = r.state
             /\ [r EXCEPT !.state = x].strikes = r.strikes
  BY <1>1
<1>3. CASE n = 0
  BY <1>2, <1>3 DEF Gone
<1>4. CASE n = 1
  BY <1>2, <1>4 DEF Gone
<1> QED BY <1>3, <1>4

\* Resolve, by the only open pass.
LEMMA ResolveCounts ==
  ASSUME Inv, Twice, OnePassOpen, NEW p \in Pass, Resolve(p)
  PROVE  Twice'
<1>0. PICK b : b = pass[p].hash
  OBVIOUS
<1> DEFINE gone == pass[p].actual # b
           new  == IF gone THEN Gone(b, pass[p].todo[b]) ELSE StillThere(b, pass[p].tip)
           off  == CASE ~gone -> 0
                    [] gone /\ seenOff[b] < 2 -> seenOff[b] + 1
                    [] OTHER -> seenOff[b]
<1>1. /\ pass[p].at = "read"
      /\ blocks' = [blocks EXCEPT ![b] = new]
      /\ pass' = [pass EXCEPT ![p] = Rows(pass[p].tip, Done(pass[p].todo, b))]
  BY <1>0 DEF Resolve
<1>2. seenOff' = [seenOff EXCEPT ![b] = off]
  BY <1>0 DEF Resolve
<1>3. /\ b \in DOMAIN pass[p].todo /\ b \in DOMAIN blocks /\ b \in Own
      /\ pass[p].todo[b] = blocks[b].strikes
      /\ IsRow(blocks[b]) /\ Counted(b) /\ seenOff[b] \in 0..2
  BY <1>0, <1>1 DEF Twice, Current, Inv, Shape
<1>4. /\ off \in 0..2
      /\ ~gone => off = 0
      /\ gone /\ seenOff[b] = 0 => off = 1
      /\ gone /\ seenOff[b] \in {1, 2} => off = 2
  BY <1>3
<1>5. /\ DOMAIN blocks' = DOMAIN blocks /\ blocks'[b] = new
      /\ \A c \in DOMAIN blocks : c # b => blocks'[c] = blocks[c]
  BY <1>1, <1>3 DEF Inv, Shape
<1>6. /\ seenOff' \in [Own -> 0..2] /\ seenOff'[b] = off
      /\ \A c \in Own : c # b => seenOff'[c] = seenOff[c]
  <2> HIDE DEF off
  <2> QED BY <1>2, <1>3, <1>4 DEF Twice
<1>7. Counted(b)'
  <2>1. CASE gone
    <3>1. new = Gone(b, blocks[b].strikes) /\ blocks[b].strikes \in {0, 1}
      BY <1>3, <2>1 DEF Counted
    <3>2. /\ new.strikes = 1
          /\ new.state = "orphaned" => blocks[b].strikes = 1 \/ blocks[b].state = "orphaned"
      BY <1>3, <3>1, GoneCounts
    <3>3. off \in {1, 2} /\ (new.state = "orphaned" => off = 2)
      <4> HIDE DEF new, off, gone
      <4> QED BY <1>3, <1>4, <2>1, <3>2 DEF Counted
    <3> HIDE DEF new, off, gone
    <3> QED BY <1>5, <1>6, <3>2, <3>3 DEF Counted
  <2>2. CASE ~gone
    <3>1. new = StillThere(b, pass[p].tip)
      BY <2>2
    <3>2. new.state # "orphaned"
      BY <3>1, StillThereRow
    <3>3. new.strikes = 0
      BY <3>1 DEF StillThere, Row
    <3> HIDE DEF new, off, gone
    <3> QED BY <1>5, <1>6, <3>2, <3>3 DEF Counted
  <2> QED BY <2>1, <2>2
<1> HIDE DEF new, off, gone
<1>8. \A c \in DOMAIN blocks' : Counted(c)'
  BY <1>5, <1>6, <1>7 DEF Twice, Counted, Inv, Shape
<1>9. /\ pass' = [q \in Pass |-> pass'[q]]
      /\ pass'[p] = Rows(pass[p].tip, Done(pass[p].todo, b))
      /\ \A q \in Pass : q # p => pass'[q] = pass[q]
  BY <1>1 DEF Twice
<1>10. Current(pass[p])'
  <2>1. /\ pass'[p].at = "rows" /\ pass'[p].todo = Done(pass[p].todo, b)
    BY <1>9, PassFields
  <2>2. \A c \in DOMAIN pass'[p].todo :
          c # b /\ c \in DOMAIN pass[p].todo /\ pass'[p].todo[c] = pass[p].todo[c]
    BY <2>1 DEF Done
  <2>3. \A c \in DOMAIN pass[p].todo :
          c \in DOMAIN blocks /\ pass[p].todo[c] = blocks[c].strikes
    BY <1>1 DEF Twice, Current
  <2>4. \A c \in DOMAIN pass'[p].todo :
          c \in DOMAIN blocks' /\ pass'[p].todo[c] = blocks'[c].strikes
    BY <1>5, <2>2, <2>3
  <2> QED BY <2>1, <2>4 DEF Current
<1>11. \A q \in Pass : q # p => Current(pass[q])'
  <2>1. \A q \in Pass : q # p => pass'[q].at = "idle"
    BY <1>1, <1>9, PassFields DEF OnePassOpen
  <2> QED BY <2>1 DEF Current
<1> QED BY <1>6, <1>8, <1>9, <1>10, <1>11 DEF Twice

\* Every step from a state with at most one pass open keeps the count.
LEMMA SerialStepCounts == Inv /\ Twice /\ OnePassOpen /\ [Next]_vars => Twice'
<1> SUFFICES ASSUME Inv, Twice, OnePassOpen, [Next]_vars PROVE Twice'
  OBVIOUS
<1>1. CASE UNCHANGED <<blocks, pass, seenOff>>
  BY <1>1 DEF Twice, Counted, Current
<1>2. CASE Restart
  <2>1. /\ pass' = [p \in Pass |-> Idle] /\ blocks' = blocks /\ seenOff' = seenOff
    BY <1>2 DEF Restart
  <2>2. pass' = [p \in Pass |-> pass'[p]] /\ \A p \in Pass : pass'[p].at = "idle"
    BY <2>1, PassFields
  <2> QED BY <2>1, <2>2 DEF Twice, Counted, Current
<1>3. ASSUME NEW b \in Own, RecordBlock(b) \/ RecordFails(b) PROVE Twice'
  BY <1>1, <1>3, InsertKeeps DEF RecordBlock, RecordFails
<1>4. ASSUME NEW p \in Pass, ReadTip(p) \/ EndPass(p) PROVE Twice'
  <2>1. PICK s : /\ s.at \in {"idle", "tip"} /\ pass' = [pass EXCEPT ![p] = s]
                 /\ blocks' = blocks /\ seenOff' = seenOff
    BY <1>4, PassFields DEF ReadTip, EndPass
  <2>2. Current(s)
    BY <2>1 DEF Current
  <2> QED BY <2>1, <2>2, ReadingKeeps
<1>5. ASSUME NEW p \in Pass, SelectBlocks(p) PROVE Twice'
  <2> DEFINE todo == [b \in Evaluated |-> blocks[b].strikes]
             s == Rows(pass[p].tip, todo)
  <2>1. pass' = [pass EXCEPT ![p] = s] /\ blocks' = blocks /\ seenOff' = seenOff
    BY <1>5 DEF SelectBlocks
  <2>2. \A b \in DOMAIN todo : b \in DOMAIN blocks /\ todo[b] = blocks[b].strikes
    BY DEF Evaluated
  <2>3. s.at = "rows" /\ s.todo = todo
    BY PassFields
  <2> HIDE DEF todo, s
  <2>4. Current(s)
    BY <2>2, <2>3 DEF Current
  <2> QED BY <2>1, <2>4, ReadingKeeps
<1>6. ASSUME NEW p \in Pass, HashAt(p) \/ HashUnreadable(p) PROVE Twice'
  <2>1. /\ pass[p].at = "rows" /\ blocks' = blocks /\ seenOff' = seenOff
        /\ \E b \in NextRow(pass[p].todo) :
             \/ \E h : pass' = [pass EXCEPT ![p] = Read(pass[p].tip, pass[p].todo, b, h)]
             \/ pass' = [pass EXCEPT ![p] = Rows(pass[p].tip, Done(pass[p].todo, b))]
    BY <1>6 DEF HashAt, HashUnreadable
  <2>2. Current(pass[p])
    BY DEF Twice
  <2>3. ASSUME NEW b \in NextRow(pass[p].todo), NEW h
        PROVE  Current(Read(pass[p].tip, pass[p].todo, b, h))
    <3> DEFINE s == Read(pass[p].tip, pass[p].todo, b, h)
    <3>1. s.at = "read" /\ s.todo = pass[p].todo /\ s.hash = b
      BY PassFields
    <3>2. b \in DOMAIN pass[p].todo
      BY DEF NextRow
    <3> HIDE DEF s
    <3>3. Current(s)
      BY <2>1, <2>2, <3>1, <3>2 DEF Current
    <3> QED BY <3>3 DEF s
  <2>4. \A b : Current(Rows(pass[p].tip, Done(pass[p].todo, b)))
    BY <2>1, <2>2, DroppedRowIsCurrent
  <2>5. PICK s : Current(s) /\ pass' = [pass EXCEPT ![p] = s]
    BY <2>1, <2>3, <2>4, Zenon
  <2> QED BY <2>1, <2>5, ReadingKeeps
<1>7. CASE NodeMoves \/ UNCHANGED vars
  BY <1>1, <1>7 DEF NodeMoves, vars
<1>8. ASSUME NEW b \in Own,
             FindBlock(b) \/ SubmitAccepted(b) \/ SubmitRejected(b) \/ SubmitThrew(b)
      PROVE  Twice'
  BY <1>1, <1>8 DEF FindBlock, SubmitAccepted, SubmitRejected, SubmitThrew
<1> QED
  BY <1>2, <1>3, <1>4, <1>5, <1>6, <1>7, <1>8, ResolveCounts DEF Next, Submit, Evaluate

\* "Seen once is a reorg in progress or a stale read; seen twice is an answer"
\* (store.mjs, evaluateBlocks): in every behaviour in which no maturity pass
\* starts before the last one is done, a block is voided only after two readings
\* in a row that found another block at its height -- so overlapping passes are
\* the only way one reading can count twice.
THEOREM SerialPassesNeedTwoReads == Spec => SerialPassesOrphanOnTwoReads
<1>1. Init => Inv /\ Twice
  <2> SUFFICES ASSUME Init PROVE Inv /\ Twice
    OBVIOUS
  <2>1. Inv
    BY DEF Init, Inv, Shape, LateRows, CreditsAreNeverReversed, Sent, IsRow
  <2>2. pass = [p \in Pass |-> Idle] /\ DOMAIN blocks = {} /\ seenOff \in [Own -> 0..2]
    BY DEF Init
  <2>3. \A p \in Pass : Current(pass[p])
    BY <2>2, PassFields DEF Current
  <2> QED BY <2>1, <2>2, <2>3 DEF Twice
<1>2. Twice => OrphanedOnTwoReads
  BY DEF Twice, Counted, OrphanedOnTwoReads
<1> QED
  BY <1>1, <1>2, InvStep, SerialStepCounts, PTL DEF Spec, SerialPassesOrphanOnTwoReads
-----------------------------------------------------------------------------
(* The failover script also acts only on a reading repeated often enough.       *)

\* The n newest of the probes s gave this answer.
RunOf(s, n, answer) ==
  /\ n \in Nat /\ n <= Len(s)
  /\ \A i \in (Len(s) - n + 1)..Len(s) : s[i] = answer

\* Until the script is restarted, its counters are lengths of runs of equal probes.
CountersCount ==
  /\ up \in [Pool -> BOOLEAN]
  /\ probes \in Seq(BOOLEAN) /\ Len(probes) <= FAILS + RECOVER
  /\ restarts \in Nat /\ edits \in Nat
  /\ restarts = 0 => /\ fail <= FAILS + 1 /\ RunOf(probes, fail, FALSE)
                     /\ ok <= RECOVER + 1 /\ RunOf(probes, ok, TRUE)

\* t is the history s after one more probe: the newest entry is that probe's answer,
\* the others move back by one place, and the oldest may be forgotten.
OneMore(s, x, t) ==
  /\ t \in Seq(BOOLEAN) /\ Len(t) <= FAILS + RECOVER
  /\ Len(t) = Len(s) + 1 \/ (Len(t) = FAILS + RECOVER /\ Len(t) = Len(s))
  /\ t[Len(t)] = x /\ Len(t) >= 1
  /\ \A i \in 1..(Len(t) - 1) : t[i] = s[i + Len(s) - Len(t) + 1]

\* Newest keeps the history that way.
LEMMA OneMoreProbe ==
  ASSUME NEW s \in Seq(BOOLEAN), Len(s) <= FAILS + RECOVER, NEW x \in BOOLEAN,
         NEW t, t = Newest(Append(s, x))
  PROVE  OneMore(s, x, t)
<1> DEFINE a == Append(s, x)
<1>0. t = Newest(a)
  OBVIOUS
<1>1. /\ a \in Seq(BOOLEAN) /\ Len(a) = Len(s) + 1 /\ a[Len(s) + 1] = x
      /\ \A i \in 1..Len(s) : a[i] = s[i]
  BY AppendProperties
<1>2. FAILS \in Nat \ {0} /\ RECOVER \in Nat \ {0} /\ Len(s) \in Nat
  BY FailoverAssumption DEF FailoverAssumption
<1> HIDE DEF a
<1>3. CASE Len(a) > FAILS + RECOVER
  <2>0. t = Tail(a)
    BY <1>0, <1>3 DEF Newest
  <2>1. a # <<>>
    BY <1>1, <1>2, <1>3
  <2>2. t \in Seq(BOOLEAN) /\ Len(t) = Len(a) - 1 /\ \A i \in 1..Len(t) : t[i] = a[i + 1]
    BY <1>1, <2>0, <2>1, HeadTailProperties
  <2>3. Len(s) = FAILS + RECOVER /\ Len(t) = Len(s)
    BY <1>1, <1>2, <1>3, <2>2
  <2>4. t[Len(t)] = x
    BY <1>1, <1>2, <2>2, <2>3
  <2>5. \A i \in 1..(Len(t) - 1) : t[i] = s[i + Len(s) - Len(t) + 1]
    BY <1>1, <1>2, <2>2, <2>3
  <2> QED BY <1>2, <2>2, <2>3, <2>4, <2>5 DEF OneMore
<1>4. CASE ~(Len(a) > FAILS + RECOVER)
  <2>1. t = a
    BY <1>0, <1>4 DEF Newest
  <2> QED BY <1>1, <1>2, <1>4, <2>1 DEF OneMore
<1> QED BY <1>3, <1>4

\* A run that goes on by one, as far as its counter goes.
LEMMA RunGoesOn ==
  ASSUME NEW s \in Seq(BOOLEAN), NEW t \in Seq(BOOLEAN), NEW x \in BOOLEAN, NEW n, NEW max \in Nat,
         FAILS \in Nat, RECOVER \in Nat,
         RunOf(s, n, x), max <= FAILS + RECOVER, OneMore(s, x, t)
  PROVE  Capped(n + 1, max) <= max /\ RunOf(t, Capped(n + 1, max), x)
<1> DEFINE m == Capped(n + 1, max)
<1>1. n \in Nat /\ n <= Len(s) /\ Len(s) \in Nat /\ Len(t) \in Nat
  BY DEF RunOf
<1>2. m \in Nat /\ m <= n + 1 /\ m <= max
  BY <1>1 DEF Capped
<1> HIDE DEF m
<1>3. /\ Len(t) = Len(s) + 1 \/ (Len(t) = FAILS + RECOVER /\ Len(t) = Len(s))
      /\ t[Len(t)] = x
      /\ \A i \in 1..(Len(t) - 1) : t[i] = s[i + Len(s) - Len(t) + 1]
  BY DEF OneMore
<1>4. m <= Len(t)
  BY <1>1, <1>2, <1>3
<1>5. ASSUME NEW i \in (Len(t) - m + 1)..Len(t) PROVE t[i] = x
  <2>1. CASE i = Len(t)
    BY <1>3, <2>1
  <2>2. CASE i # Len(t)
    <3>1. i \in 1..(Len(t) - 1) /\ i + Len(s) - Len(t) + 1 \in (Len(s) - n + 1)..Len(s)
      BY <1>1, <1>2, <1>3, <1>4, <2>2
    <3> QED BY <1>3, <3>1 DEF RunOf
  <2> QED BY <2>1, <2>2
<1> QED BY <1>2, <1>4, <1>5 DEF RunOf, m

\* Probe: one counter goes on, the other starts again.
LEMMA ProbeCounts ==
  ASSUME CountersCount, Probe
  PROVE  CountersCount'
<1> PICK x \in BOOLEAN : x = up["primary"]
  BY DEF CountersCount, Pool
<1>0. FAILS \in Nat \ {0} /\ RECOVER \in Nat \ {0}
  BY FailoverAssumption DEF FailoverAssumption
<1>1. x \in BOOLEAN
  OBVIOUS
<1>2. /\ probes' = Newest(Append(probes, x)) /\ Count(x)
      /\ up' = up /\ restarts' = restarts /\ edits' = edits
  BY DEF Probe, world
<1>3. OneMore(probes, x, probes')
  <2>1. probes \in Seq(BOOLEAN) /\ Len(probes) <= FAILS + RECOVER
    BY DEF CountersCount
  <2> QED BY <1>1, <1>2, <2>1, OneMoreProbe
<1>4. /\ Len(probes) \in Nat /\ Len(probes') \in Nat
      /\ probes' \in Seq(BOOLEAN) /\ Len(probes') <= FAILS + RECOVER
  BY <1>3 DEF OneMore, CountersCount
<1>5. RunOf(probes', 0, TRUE) /\ RunOf(probes', 0, FALSE)
  BY <1>4 DEF RunOf
<1>6. ASSUME restarts = 0, x = FALSE
      PROVE  /\ fail' <= FAILS + 1 /\ RunOf(probes', fail', FALSE)
             /\ ok' <= RECOVER + 1 /\ RunOf(probes', ok', TRUE)
  <2>1. fail' = Capped(fail + 1, FAILS + 1) /\ ok' = 0
    BY <1>2, <1>6 DEF Count
  <2>2. FAILS + 1 \in Nat /\ FAILS + 1 <= FAILS + RECOVER
    BY <1>0
  <2>3. RunOf(probes, fail, FALSE) /\ probes \in Seq(BOOLEAN)
    BY <1>6 DEF CountersCount
  <2>4. fail' <= FAILS + 1 /\ RunOf(probes', fail', FALSE)
    BY <1>0, <1>3, <1>4, <1>6, <2>1, <2>2, <2>3, RunGoesOn
  <2>5. ok' <= RECOVER + 1
    BY <1>0, <2>1
  <2>6. RunOf(probes', ok', TRUE)
    BY <1>5, <2>1, Zenon
  <2> QED BY <2>4, <2>5, <2>6
<1>7. ASSUME restarts = 0, x = TRUE
      PROVE  /\ fail' <= FAILS + 1 /\ RunOf(probes', fail', FALSE)
             /\ ok' <= RECOVER + 1 /\ RunOf(probes', ok', TRUE)
  <2>1. ok' = Capped(ok + 1, RECOVER + 1) /\ fail' = 0
    BY <1>2, <1>7 DEF Count
  <2>2. RECOVER + 1 \in Nat /\ RECOVER + 1 <= FAILS + RECOVER
    BY <1>0
  <2>3. RunOf(probes, ok, TRUE) /\ probes \in Seq(BOOLEAN)
    BY <1>7 DEF CountersCount
  <2>4. ok' <= RECOVER + 1 /\ RunOf(probes', ok', TRUE)
    BY <1>0, <1>3, <1>4, <1>7, <2>1, <2>2, <2>3, RunGoesOn
  <2>5. fail' <= FAILS + 1
    BY <1>0, <2>1
  <2>6. RunOf(probes', fail', FALSE)
    BY <1>5, <2>1, Zenon
  <2> QED BY <2>4, <2>5, <2>6
<1> QED BY <1>1, <1>2, <1>4, <1>6, <1>7 DEF CountersCount

\* Every step of the script, of the pools and of the operator keeps the counters
\* true, up to the first restart.
LEMMA CountersStep == CountersCount /\ [FailoverNext]_failoverVars => CountersCount'
<1> SUFFICES ASSUME CountersCount, [FailoverNext]_failoverVars PROVE CountersCount'
  OBVIOUS
<1>1. CASE UNCHANGED <<up, probes, fail, ok, restarts, edits>>
  BY <1>1 DEF CountersCount, RunOf
<1>2. ASSUME NEW p \in Pool, PoolChanges(p) PROVE CountersCount'
  <2>1. /\ up' = [up EXCEPT ![p] = ~@] /\ probes' = probes
        /\ fail' = fail /\ ok' = ok /\ restarts' = restarts /\ edits' = edits
    BY <1>2 DEF PoolChanges, counters
  <2>2. up' \in [Pool -> BOOLEAN]
    BY <2>1 DEF CountersCount
  <2> QED BY <2>1, <2>2 DEF CountersCount, RunOf
<1>3. CASE RestartScript
  <2>1. restarts' = restarts + 1 /\ up' = up /\ probes' = probes /\ edits' = edits
    BY <1>3 DEF RestartScript, world
  <2>2. restarts' \in Nat /\ restarts' # 0
    BY <2>1 DEF CountersCount
  <2> QED BY <2>1, <2>2 DEF CountersCount
<1>4. CASE OperatorEdits
  <2>1. /\ UNCHANGED <<up, probes, fail, ok, restarts>> /\ edits' = edits + 1
    BY <1>4 DEF OperatorEdits, counters
  <2>2. edits' \in Nat
    BY <2>1 DEF CountersCount
  <2> QED BY <2>1, <2>2 DEF CountersCount, RunOf
<1>5. CASE ReadRecord \/ ReadFails \/ LeaveAlone \/ FlipFails
           \/ SaveState \/ SaveFails \/ FlipToStandby \/ FlipToPrimary
  BY <1>1, <1>5 DEF ReadRecord, ReadFails, LeaveAlone, FlipFails,
     SaveState, SaveFails, FlipToStandby, FlipToPrimary, Flip, world, counters
<1>6. CASE UNCHANGED failoverVars
  BY <1>1, <1>6 DEF failoverVars
<1> QED
  BY <1>2, <1>3, <1>4, <1>5, <1>6, ProbeCounts DEF FailoverNext, Cycle

\* A step that writes the record without the operator is earned by the newest
\* probes, up to the first restart.
LEMMA FlipStep ==
  ASSUME CountersCount, [FailoverNext]_failoverVars,
         record' # record, edits' = edits, restarts = 0
  PROVE  IF record' = "standby"
         THEN standbyOk /\ Len(probes) >= FAILS
              /\ \A i \in (Len(probes) - FAILS + 1)..Len(probes) : ~probes[i]
         ELSE Len(probes) >= RECOVER
              /\ \A i \in (Len(probes) - RECOVER + 1)..Len(probes) : probes[i]
<1>1. \/ record' = "standby" /\ WantsStandby
      \/ record' = "primary" /\ WantsPrimary
  <2>1. ~OperatorEdits
    <3> SUFFICES ASSUME OperatorEdits PROVE FALSE
      OBVIOUS
    <3>1. edits' = edits + 1 /\ edits \in Nat
      BY DEF OperatorEdits, CountersCount
    <3> QED BY <3>1
  <2>2. FlipToStandby \/ FlipToPrimary \/ FlipFails
    BY <2>1 DEF FailoverNext, Cycle, PoolChanges, ReadRecord, ReadFails, Probe, LeaveAlone,
       SaveState, SaveFails, RestartScript, world, failoverVars
  <2> QED BY <2>2 DEF FlipToStandby, FlipToPrimary, FlipFails, Flip
<1>2. FAILS \in Nat /\ RECOVER \in Nat /\ Len(probes) \in Nat
  BY FailoverAssumption DEF FailoverAssumption, CountersCount
<1>3. CASE record' = "standby" /\ WantsStandby
  <2>1. standbyOk /\ fail >= FAILS /\ RunOf(probes, fail, FALSE)
    BY <1>3 DEF WantsStandby, CountersCount
  <2> QED BY <1>2, <1>3, <2>1 DEF RunOf
<1>4. CASE record' = "primary" /\ WantsPrimary
  <2>1. ok >= RECOVER /\ RunOf(probes, ok, TRUE)
    BY <1>4 DEF WantsPrimary, CountersCount
  <2> QED BY <1>2, <1>4, <2>1 DEF RunOf
<1> QED BY <1>1, <1>3, <1>4

\* "Flip only after FAILS consecutive failed probes of the primary, and only if
\* the standby is healthy at that moment ... flip BACK only after the primary has
\* answered RECOVER consecutive probes" (pcoin-pool-failover): for any thresholds,
\* whatever the pools do, API calls fail or an operator edits, the script never
\* writes the record on less, up to its first restart.
THEOREM FlipsNeedARun == FailoverSpec => FlipsAreEarned
<1>1. FailoverInit => CountersCount
  <2> SUFFICES ASSUME FailoverInit PROVE CountersCount
    OBVIOUS
  <2>1. /\ up \in [Pool -> BOOLEAN] /\ probes = <<>> /\ fail = 0 /\ ok = 0
        /\ restarts = 0 /\ edits = 0
    BY DEF FailoverInit
  <2>2. RunOf(<<>>, 0, TRUE) /\ RunOf(<<>>, 0, FALSE)
    BY DEF RunOf
  <2>3. 0 <= FAILS + 1 /\ 0 <= RECOVER + 1 /\ Len(<<>>) <= FAILS + RECOVER
    BY FailoverAssumption DEF FailoverAssumption
  <2>4. probes \in Seq(BOOLEAN) /\ Len(probes) <= FAILS + RECOVER
    BY <2>1, <2>3
  <2> QED BY <2>1, <2>2, <2>3, <2>4 DEF CountersCount
<1>2. CountersCount /\ [FailoverNext]_failoverVars =>
        [ record' # record /\ edits' = edits /\ restarts = 0 =>
            IF record' = "standby"
            THEN standbyOk /\ Len(probes) >= FAILS
                 /\ \A i \in (Len(probes) - FAILS + 1)..Len(probes) : ~probes[i]
            ELSE Len(probes) >= RECOVER
                 /\ \A i \in (Len(probes) - RECOVER + 1)..Len(probes) : probes[i] ]_failoverVars
  BY FlipStep
<1> QED
  BY <1>1, <1>2, CountersStep, PTL DEF FailoverSpec, FlipsAreEarned
=============================================================================
