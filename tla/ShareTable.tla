----------------------------- MODULE ShareTable -----------------------------
(***************************************************************************)
(* The shares table under its three users: the pool appends shares, reads    *)
(* the PPLNS window back with several queries (contrib/pool/store.mjs,       *)
(* currentWindow and pplnsWindow), and the hourly pcoin-pool-prune-shares    *)
(* deletes old rows in batches from another process.  Every query is a step   *)
(* of its own, and the steps interleave.                                     *)
(*                                                                         *)
(* A row is its time and its weight; whose work it is does not matter here.   *)
(* Time is in hours.                                                         *)
(***************************************************************************)
EXTENDS Integers, FiniteSets, FiniteSetsExt, Functions

CONSTANTS
  Weight,       \* share weights
  Window,       \* N = windowMultiplier x one block's work
  FirstLimit,   \* rows of the first scan, 65536
  Retain,       \* RETAIN_HOURS
  Slack,        \* GUARD_SLACK_HOURS
  Margin,       \* the hour taken off an in-flight block's time
  Batch,        \* BATCH
  MaxId,        \* bound: shares recorded
  MaxInFlight,  \* bound: blocks in flight at once
  MaxNow        \* bound: hours that pass

ASSUME TableAssumption ==
  /\ Weight \subseteq Nat \ {0}
  /\ {Window, FirstLimit, Batch} \subseteq Nat \ {0}
  /\ {Retain, Slack, Margin, MaxId, MaxInFlight, MaxNow} \subseteq Nat
  /\ Margin <= Retain      \* one hour, and whole hours, 24 by default

VARIABLES
  now,
  lastId,       \* AUTOINCREMENT
  rows,         \* id -> [at, weight]
  inFlight,     \* found_at of the blocks that are neither mature nor orphaned
  returned,     \* history: blocks back in flight since the open script read its guard
  scan,         \* the open pplnsWindow call
  prune         \* the prune script

tableVars == <<now, lastId, rows, inFlight, returned, scan, prune>>

blocks == <<inFlight, returned>>

Idle == [at |-> "idle"]

Scanning(last, limit, step)    == [at |-> step, last |-> last, limit |-> limit]
Pruning(cutoff, guarded, step) == [at |-> step, cutoff |-> cutoff, guarded |-> guarded]

TableInit ==
  /\ now = 1 /\ lastId = 0 /\ rows = <<>>
  /\ inFlight = {} /\ returned = {}
  /\ scan = Idle /\ prune = Idle

-----------------------------------------------------------------------------
WeightOf(ids) == SumFunctionOnSet([i \in ids |-> rows[i].weight], ids)

UpTo(last) == {i \in DOMAIN rows : i <= last}

\* ORDER BY id DESC LIMIT n.
Newest(ids, n) == {i \in ids : Cardinality({j \in ids : j > i}) < n}

\* The rows with cum - weight < N, cum the running total from the newest row.
WindowOf(ids) == {i \in ids : WeightOf({j \in ids : j > i}) < Window}

Tick ==
  /\ now < MaxNow
  /\ now' = now + 1
  /\ UNCHANGED <<lastId, rows, blocks, scan, prune>>

RecordShare ==
  /\ lastId < MaxId
  /\ lastId' = lastId + 1
  /\ \E w \in Weight :
       rows' = [i \in DOMAIN rows \cup {lastId + 1} |->
                  IF i = lastId + 1 THEN [at |-> now, weight |-> w] ELSE rows[i]]
  /\ UNCHANGED <<now, blocks, scan, prune>>

\* recordBlockPaidByCoinbase.
BlockFound ==
  /\ Cardinality(inFlight) < MaxInFlight
  /\ inFlight' = inFlight \cup {now}
  /\ UNCHANGED <<now, lastId, rows, returned, scan, prune>>

\* The maturity pass: a block matures or is orphaned.
BlockResolved ==
  /\ \E t \in inFlight : inFlight' = inFlight \ {t} /\ returned' = returned \ {t}
  /\ UNCHANGED <<now, lastId, rows, scan, prune>>

GuardWasRead == prune # Idle /\ prune.guarded

\* "Not deep enough -- or not any more": a settled block is pending again, under its
\* old found_at.  A reorg took a mature one back under the maturity depth, or a
\* pass writes what it had read before another one settled the block.  Settled
\* blocks are not kept: any hour so far may have had one.
BlockReturns ==
  /\ Cardinality(inFlight) < MaxInFlight
  /\ \E t \in (1..now) \ inFlight :
       /\ inFlight' = inFlight \cup {t}
       /\ returned' = IF GuardWasRead THEN returned \cup {t} ELSE returned
  /\ UNCHANGED <<now, lastId, rows, scan, prune>>

-----------------------------------------------------------------------------
(* currentWindow and pplnsWindow.                                           *)

\* SELECT MAX(id); an empty table answers with an empty window.
MaxIdQuery ==
  /\ scan = Idle /\ rows # <<>>
  /\ scan' = Scanning(Max(DOMAIN rows), FirstLimit, "covered")
  /\ UNCHANGED <<now, lastId, rows, blocks, prune>>

Covers(last, limit) == WeightOf(Newest(UpTo(last), limit)) >= Window

\* Mutant: the first scan is trusted, covered or not.
CoveredQueryTrusted ==
  /\ scan.at = "covered"
  /\ scan' = [scan EXCEPT !.at = "final"]
  /\ UNCHANGED <<now, lastId, rows, blocks, prune>>

CoveredQuery ==
  /\ scan.at = "covered"
  /\ scan' = [scan EXCEPT !.at = IF Covers(scan.last, scan.limit) THEN "final" ELSE "have"]
  /\ UNCHANGED <<now, lastId, rows, blocks, prune>>

\* Mutant: the scan is not widened.
HaveQueryStays ==
  /\ scan.at = "have"
  /\ LET have == Cardinality(UpTo(scan.last))
     IN  scan' = IF scan.limit >= have
                 THEN Scanning(scan.last, IF have = 0 THEN 1 ELSE have, "final")
                 ELSE [scan EXCEPT !.at = "covered"]
  /\ UNCHANGED <<now, lastId, rows, blocks, prune>>

\* Every row there is: that is the window.  Otherwise look wider.
HaveQuery ==
  /\ scan.at = "have"
  /\ LET have == Cardinality(UpTo(scan.last))
     IN  scan' = IF scan.limit >= have
                 THEN Scanning(scan.last, IF have = 0 THEN 1 ELSE have, "final")
                 ELSE Scanning(scan.last, 2 * scan.limit, "covered")
  /\ UNCHANGED <<now, lastId, rows, blocks, prune>>

\* The window of the newest `limit` rows goes to buildPayoutOutputs.
FinalQuery ==
  /\ scan.at = "final"
  /\ scan' = Idle
  /\ UNCHANGED <<now, lastId, rows, blocks, prune>>

-----------------------------------------------------------------------------
(* pcoin-pool-prune-shares.                                                 *)

\* CUTOFF from the retention window.
StartPrune ==
  /\ prune = Idle
  /\ prune' = Pruning(now - Retain, FALSE, "guard")
  /\ UNCHANGED <<now, lastId, rows, blocks, scan>>

\* Mutant: the oldest in-flight block is ignored.
ReadGuardIgnored ==
  /\ prune.at = "guard"
  /\ prune' = Pruning(prune.cutoff, TRUE, "clock")
  /\ UNCHANGED <<now, lastId, rows, blocks, scan>>

\* Pulled back to the oldest in-flight block, less the margin.
ReadGuard ==
  /\ prune.at = "guard"
  /\ prune' = Pruning(Min({prune.cutoff} \cup {t - Margin : t \in inFlight}), TRUE, "clock")
  /\ UNCHANGED <<now, lastId, rows, blocks, scan>>

\* The query fails: an empty GUARD skips the guard and the script goes on.
GuardUnreadable ==
  /\ prune.at = "guard"
  /\ prune' = Pruning(prune.cutoff, FALSE, "clock")
  /\ UNCHANGED <<now, lastId, rows, blocks, scan>>

\* Mutant: the guard is unbounded.
ReadClockUnbounded ==
  /\ prune.at = "clock"
  /\ prune' = Pruning(prune.cutoff, prune.guarded, "delete")
  /\ UNCHANGED <<now, lastId, rows, blocks, scan>>

\* But by no more than the slack: "the guard must not be unbounded".
ReadClock ==
  /\ prune.at = "clock"
  /\ prune' = Pruning(Max({prune.cutoff, now - (Retain + Slack)}), prune.guarded, "delete")
  /\ UNCHANGED <<now, lastId, rows, blocks, scan>>

Doomed == {i \in DOMAIN rows : rows[i].at < prune.cutoff}

\* A batch goes through the index on `at`, oldest rows first.
DeleteBatch ==
  /\ prune.at = "delete" /\ Doomed # {}
  /\ LET gone == {i \in Doomed : Cardinality({j \in Doomed : j < i}) < Batch}
     IN  rows' = Restrict(rows, DOMAIN rows \ gone)
  /\ UNCHANGED <<now, lastId, blocks, scan, prune>>

EndPrune ==
  /\ prune.at = "delete" /\ Doomed = {}
  /\ prune' = Idle /\ returned' = {}
  /\ UNCHANGED <<now, lastId, rows, inFlight, scan>>

\* Any other query that fails ends the script, and so does MAX_BATCHES; what is
\* deleted stays deleted.
PruneFails ==
  /\ prune # Idle
  /\ prune' = Idle /\ returned' = {}
  /\ UNCHANGED <<now, lastId, rows, inFlight, scan>>

Scan  == MaxIdQuery \/ CoveredQuery \/ HaveQuery \/ FinalQuery
Prune == StartPrune \/ ReadGuard \/ ReadClock \/ DeleteBatch \/ EndPrune

TableNext == Tick \/ RecordShare \/ BlockFound \/ BlockResolved \/ BlockReturns
        \/ Scan \/ Prune \/ GuardUnreadable \/ PruneFails

TableSpec == TableInit /\ [][TableNext]_tableVars

\* The pool answers its own queries.  The script runs every hour and, run again
\* and again, gets through a step however often it failed there before.
TableFairSpec ==
  /\ TableSpec
  /\ WF_tableVars(Scan)
  /\ WF_tableVars(StartPrune) /\ WF_tableVars(EndPrune)
  /\ SF_tableVars(ReadGuard) /\ SF_tableVars(ReadClock) /\ SF_tableVars(DeleteBatch)

-----------------------------------------------------------------------------
\* The rows of the window: the fewest newest ones that weigh N together, or all.
Reference(ids) ==
  LET reaching == {k \in 0..Cardinality(ids) : WeightOf(Newest(ids, k)) >= Window}
  IN  IF reaching = {} THEN ids ELSE Newest(ids, Min(reaching))

\* "If they do not, the window would be silently TRUNCATED and miners UNDERPAID":
\* whenever the last query runs, the bounded scan sees the window of the whole
\* table, although shares were added and rows were pruned since it was sized.
ScanIsExact ==
  scan.at = "final" =>
    WindowOf(Newest(UpTo(scan.last), scan.limit)) = Reference(UpTo(scan.last))

\* The widening ends, whatever the table does meanwhile.
ScanEnds == scan # Idle ~> scan = Idle

\* "Never delete past the oldest block that is not yet mature": no row younger
\* than an in-flight block, less the margin, is deleted before it is older than
\* retention and slack -- although blocks are found after the guard was read.
\* Only for a script that read its guard (GuardUnreadable deletes past it), and only
\* for the blocks it could see or that are new: a settled block that goes back to
\* pending after the guard was read brings an old found_at the cutoff has passed.
InFlightRowsAreKept ==
  [][ GuardWasRead =>
      \A i \in DOMAIN rows \ DOMAIN rows', t \in inFlight \ returned :
        rows[i].at >= t - Margin => rows[i].at < now - (Retain + Slack) ]_tableVars

\* "A stuck block then costs a day of extra rows instead of an unbounded table":
\* a row past retention and slack goes, in-flight block or not.
OldRowsGo ==
  \A i \in 1..MaxId :
    (i \in DOMAIN rows /\ rows[i].at < now - (Retain + Slack)) ~> i \notin DOMAIN rows
=============================================================================
