# PCoin: TLA+ models, model checking and proofs

PCoin is a fork of Bitcoin Core v29 with RandomX proof of work.  The C++ node is
mostly upstream code; the project's own programs sit around it, under `contrib/`.
This directory models the ones that decide who is paid and who owns what: the
mining pool, the address index, the market that sells coins, and the bot that sells
pictures and clips.

- [The system](#the-system): inventory of components, state, operations, hard behaviours
- [The modules](#the-modules): how each model corresponds to the code
- [The runs](#the-runs): what TLC checks, bounds, fairness
- [The proofs](#the-proofs): what TLAPS proves and how
- [Where the code and its comments disagree](#where-the-code-and-its-comments-disagree)
- [Not modelled, and the plan](#not-modelled-and-the-plan)

Paths are relative to the repository root (`src/` in `PROJECT.json`).

## The system

### Inventory

| component | state it keeps | operations | talks to |
|---|---|---|---|
| **Pool** `contrib/pool/pool.mjs` | template, payout set, jobs, sessions, seen-sets, validator queue | login, getjob, submit, bye, refreshTemplate (2 s timer), evaluateMaturity (60 s timer) | node (one `pcoin-cli` per RPC), validator child, store |
| **Pool store** `contrib/pool/store.mjs` | tables shares, blocks, payouts, pool_fees in SQLite, through one sqlite3 child | recordShare, currentWindow, buildPayoutOutputs, recordBlockPaidByCoinbase, evaluateBlocks | sqlite3 over stdin, stdout and stderr |
| **Share validator** `contrib/pool/validate.cpp` | none | hash a header, compare with a target | the pool, one line per check, answered in order |
| **Share pruning** `contrib/pool/pcoin-pool-prune-shares` | none of its own | hourly: delete old rows of shares in batches | the pool's database, from another process |
| **DNS failover** `contrib/pool/pcoin-pool-failover` | two counters in a file | cycle: read the record, probe both pools, flip, save | Cloudflare, the two pools |
| **Address indexer** `contrib/explorer/pcoin_indexer` | blocks, outputs, address_txs, addresses, sync_state, reorg_log in SQLite | sync_once, find_fork, handle_reorg, reindex, verify | node over JSON-RPC |
| **Explorer API and web** `contrib/explorer/pcoin_api`, `pcoin_explorer` | none | read the index, broadcast a transaction | index, node |
| **Market: orders** `contrib/market/ipn.mjs`, `ladder.mjs`, `server.mjs` | orders, ladder_rungs, ladder_fills, ipn_events in MariaDB | order, payment callback, cancel, the reservation sweep (15 min timer), retire | NOWPayments (callbacks retried until answered), delivery |
| **Market: delivery** `contrib/market/delivery.mjs` | the order rows; in memory, the sends under way | deliver, recordSent, markDelivered, reconcileSending (10 min timer) | hot wallet over JSON-RPC; run by the server and by the `market-admin` command |
| **pcnaibot** `contrib/pcnaibot` | users, reservations, ledger, proposals, media_jobs, items, deposits, inbox in SQLite | card, confirm, reserve, settle, hold, release, age out, poll clips, recover at start; credit a deposit (another process) | chat platform, media provider, node |
| **Wrap desk, wPCN keeper** `contrib/wrapdesk`, `contrib/wpcn` | requests, signed transactions on disk | wrap, redeem, pay | BNB Smart Chain, node |
| **wPCN payment verifier** `contrib/wpcn-pay` | one claim file per payment | verify and claim a payment | BNB Smart Chain |
| **Node pool client, CPU miner** `src/node/poolclient.cpp`, `cpuminer.cpp` | connection, job, queued shares | connect, login, mine, submit | a pool, over Stratum |
| **Difficulty** `src/pow.cpp` | none (a function of the chain) | LwmaGetNextWorkRequired | validation |
| price service, DNS seeder, vault, admin panel, desktop and mobile applications, operations scripts | little or none | display, monitoring, packaging | |
| Bitcoin Core, leveldb, secp256k1, RandomX, ... | | | upstream and vendored |

### How the modelled parts interact

A miner logs in and is sent a job, made from the published template and payout
set (`PoolTemplate`).  Its share goes through the validator child and, when good,
into the shares table (`PoolShares`), over the sqlite3 pipe (`SqlitePipe`).  The
table is read back as the PPLNS window whenever a template is refreshed
(`ShareTable`), the window is split into coinbase outputs (`PayoutSplit`), and
those outputs are the next job's payout set.  A share that is a block goes to the
node and into the ledger, and a timed pass later settles it as mature or orphaned
(`PoolLedger`).  Failover moves the name miners connect to (`Failover`).  The
indexer follows the same node and answers who owns what (`Indexer`).

A buyer's order reserves rungs of the ladder; the payment processor's callbacks
settle them and hand the order to deliver() (`Ipn`), which pays it out of the hot
wallet, beside the operator's Send, the `market-admin` command and the sweep that
resolves interrupted sends (`Delivery`; `Ipn` extends it and runs its actions).  A
user of the bot pays in through a watcher process, taps a card, and the card's price
follows the job: reserved, then settled, released, held or aged out (`Studio`).

Each model takes its neighbours at their word: `PoolShares` lets an insert happen
or not and its answer be lost, and, once a request has timed out, its caller be
answered by another's sentinel, which is what `SqlitePipe` leaves possible; `PoolTemplate` takes a payout set to sum to the value it was
built for, which is `PayoutSplit`; `ShareTable` lets blocks be in flight for as
long as it likes and come back to it, which `PoolLedger` decides.

### What is hard here

- **Interleaving.** Node.js yields at every `await`, and neither `refreshTemplate`
  nor `evaluateMaturity` waits for the call before it.  What was read before an
  await is used after it: `changed`, the tip, a block's strikes, the window's size.
- **Position as identity.** The pool matches sqlite3's answers to its callers by
  their position in a queue, and a timeout takes one out of the middle.
- **Reorganisations between two RPCs.** The indexer fetches a run of blocks in
  two batches and applies them one transaction at a time.
- **Crash and power cut.** The index runs with `synchronous=NORMAL`: committed
  transactions since the last checkpoint may be lost.  The pool's memory (job
  numbers, seen-sets) is lost in a restart, its tables are not.
- **An answer that does not come.** A send may have been made when its RPC throws,
  and may still be made after it; a picture may have been drawn when its request
  times out; a callback is repeated until it is answered, and the repeat may find
  the first one half done.
- **Two transactions that belong together.** Accept and deliver; settle and record;
  hold and end the job: the process may die between the two.
- **Partial failure.** Half a ledger write; a template without its window; a DNS
  write whose answer is lost; a dead validator with checks queued behind it.
- **Limits.** The validator's backlog, the job cap, the dust limit, the scan limit.

`PROJECT.json` lists these line by line under `hazards`.

## The modules

Every module has a header comment that states its abstraction; `PROJECT.json`'s
`map` names the source lines of every definition.  A definition whose comment
begins with "Mutant:" is never used by a specification: it is the definition
below it with a plausible bug, kept to show that a property notices it.

### Indexer (`contrib/explorer/pcoin_indexer`), abstract spec ChainPointer

One action is one RPC or one SQLite transaction.  `db` is `blocks`, `sync_state`,
`reorg_log` and `orphaned_blocks`; `rows` is `outputs`, `address_txs` and
`addresses`; `savedDb` and `savedRows` are both as of the last WAL checkpoint.
`pc` says where `sync_once`, `find_fork` or `handle_reorg` stands, and their
locals are variables, cleared when the call returns, raises or is killed.
`PollNode`/`Repoll` are `poll_node`; `ApplyBlock` is `apply_block` with its
checks, `UnwindBlock` one iteration of `unwind_to`; `ProbeTop`, `ProbeDown` and
`Bisect` are `find_fork`.  Block contents are constants.  A block tree stands for
the node, whose active tip may jump anywhere in it between two steps, also to a
block of another genesis (the operator pointed the indexer at another chain).

What the node promises about contents is assumed, and TLC evaluates it for the two
trees of the runs: `ContentsAssumption` (a block is a sequence of transactions, an
output belongs to one of them) and `ConsensusAssumption`, the consensus rules along
every branch: no transaction twice, nothing spent that the branch did not create or
that is spent already, and within a block only what was created further up.  They
are not about the index, and without them the self checks of `_apply_tx` ought to
fire.  `UnwindConsistent` has the order of the unwind: what spends an output of a
transaction must stand further down in the same block.  `RowsMatch` is what verify()
recomputes: the outputs and their spenders, every column of `addresses` but the first
and last height, and `address_txs` row by row.

`ChainPointer` is what a reader relies on: a pointer into the block tree that a
commit moves to a child or to the parent, and that a power cut takes back to
where it was saved.

### SqlitePipe (`store.mjs`, class Sqlite and recordShare)

The child's three pipes are sequences that are read independently; `q`, `rows`,
`errBuf`, `lastTotal` and `alive` are the fields of the class.  A line of output
carries, as history, the request it answers, so that "the answer is one's own"
can be stated.  Timers, failing statements and the child's death may happen at
any step.

### PoolShares (`pool.mjs`: makeJob, handleSubmit, class Validator)

`frame[f]` says at which await the handleSubmit call of share `f` stands, and one
action is the code between two awaits.  A share is a job id and a nonce.  The
validator's verdict is a constant function of the nonce and the byte order, and
whether the share is a block a constant of the share.  `epoch` counts restarts
and marks, as history, which process wrote a row.  The store is what its callers see
of `SqlitePipe`: once a request has timed out (`ShareTimesOut`, `QueryTimesOut`) the
answers have `slipped`, a caller may be answered OK or refused by an earlier request's
sentinel, and its own INSERT is `unwritten`, to run later, to fail unheard or to die
with the child (`lost`, when the share was answered OK).  `StoreCatchesUp` is the
leftover sentinel that finds nobody waiting.  Variable difficulty is left out, except
that `GetJob` also stands for the job retune() pushes.

### PoolTemplate (`pool.mjs`: refreshTemplate, makeJob, pushJobs)

`call[c]` says at which await a refresh stands.  A template is the tip it builds
on and its coinbase value; a payout set is the template it was built for.
`Publish` is the path on which the window was read, `PublishKeepingPayout` the
path on which it was not; both end in the retune and the push that follow.

### PoolLedger (`pool.mjs` handleSubmit, recordBlock, evaluateMaturity; `store.mjs` evaluateBlocks)

`found[b]` follows a block of the pool through submitblock and the ledger write;
`blocks` and `payouts` are the tables; `pass[p]` is an open maturity pass with the
tip, strikes and hash it read.  `seenOff` is history: how many reads in a row
found the block gone.  The chain may switch to any branch the node knows.

### PayoutSplit (`store.mjs`: feeOf, splitPot, buildPayoutOutputs)

The integer arithmetic of the code, one action per pass of the dust loop.

### ShareTable (`store.mjs`: currentWindow, pplnsWindow; `pcoin-pool-prune-shares`)

Every query of the scan and of the script is an action.  `Reference` is the
window by its meaning -- the fewest newest rows that weigh N -- against which the
running-total query over a bounded number of rows is checked.  A block in flight is its
found_at; `BlockReturns` is the maturity pass putting a settled block back to pending
under the found_at it always had, and `returned` remembers the ones that came back after
the open script read its guard.

### Failover (`pcoin-pool-failover`)

`pc` walks through cycle() and main(); `saved` is the state file.  The counters
are capped one past their thresholds, which nothing tells apart from higher ones.

### Delivery (`contrib/market/delivery.mjs`, Send in `admin.mjs` and `market-admin.mjs`)

`call[w]` says at which query or RPC a call of deliver() stands; calls of the server
are in `sendingNow`, those of the command are another process and are not.  `status`,
`recorded` and `handled` are an order's row, `wallet` is the list `listtransactions`
returns the end of, and `queued` holds sends the node has been asked for by a caller
that gave up.  `spent` is what has left the wallet: a send costs its order's coins and a
fee of up to `MaxFee` on top (`Costs`), while both checks of the float leave the fee out
(`HasRoom`), and a send the wallet cannot afford is refused (`SendRefused`).  The history
variables name the two things no code path can see: `overtaken`, orders declared
unsent on a lookup that a send of them overtook, or given back by a call from under
another call's send, and `raced`, orders that have read the balance and not sent yet
while another spend was made.  A new reading of the balance takes an order out of
`raced`; an unreadable one does not.

### Ipn (`contrib/market/ipn.mjs`, `ladder.mjs`), over Delivery

Extends `Delivery`: a handler in `Server` reads the order (`Load`, which is decide(),
money() and terminal()), runs the transaction that branch chose, and goes on as
deliver() when the order was accepted.  `due` are the callbacks the gateway has not
seen answered, so a crash or a 500 makes it send again.  A callback says full, short,
unreadable or failed.  `tied` is `paid_payment_id`; `fills` is the state of the
order's ladder fills.  `told` is history: deliver() caught an exception and paged.

### Studio (`contrib/pcnaibot/lib/billing.mjs`, `jobs.mjs`, start-up of `bot.mjs`)

The bot is one thread over a synchronous database.  `thread` is the stretch between
two awaits, one transaction at a time, because the process may die and a statement may
throw between two of them; `at[c]` is where the call of a job stands between awaits.
`torn` is history: the two cuts the code does not repair (below).  The watcher that
credits deposits is another process and steps in anywhere.  `age` stands for the two
clocks, the age-out's hour and the give-up's three.

## The runs

| run | states | bounds | checks |
|---|---|---|---|
| `indexer` | 617k | tree of 7 blocks with two branches and a foreign genesis, 2 node moves, 1 fault, batches of 2 | `InvariantI`, `MirrorMatchesBlocks`, `RowsMatchBlocks`, `NoCorruptionRaised`, `AuditTrailComplete`, `ImplementsChainPointer` |
| `indexer_live` | 343k | tree of 8 blocks, branches three deep, 2 moves | `ForkIsHighestAgreement`, `Converges` |
| `sqlite_pipe` | 376k | 3 shares and a retry, 1 failing statement, any timeouts | `PromptAcksAreRecorded`, `AnsweredByOwnRow`, `WaitersAreCovered`, `EveryRequestSettles` |
| `pool_shares` | 292k | 1 session, 2 nonces, 2 jobs per process, queue of 1, 1 store timeout, 1 restart | `AckedWorkIsAccountedFor`, `FoundBlockIsSubmitted`, `EveryShareIsAnswered` |
| `pool_template` | 614k | 2 overlapping calls, 1 miner, 2 values, 2 tip moves, 1 failed read of each kind | `CoinbaseFits`, `SerialRefreshesAgree`, `WorkFollowsTip` |
| `pool_ledger` | 315k | 1 block, 2 overlapping passes, 3 chain moves, 2 faults, maturity 2 | `CreditsAreNeverReversed`, `SerialPassesOrphanOnTwoReads`, `LedgerConverges` |
| `payout_split` | 14k | 3 miners of weight 0..6, 5 values, fees of 0, 2 % and all | `RecomputeCannotCascade`, `PaidByWork` |
| `share_table` | 240k | 3 shares, 4 hours, 2 blocks in flight, first scan and batch of 1 row | `ScanIsExact`, `InFlightRowsAreKept`, `ScanEnds`, `OldRowsGo` |
| `failover` | 269k | FAILS 2, RECOVER 3, 4 health changes, 1 edit, 2 faults, 1 restart | `FlipsAreEarned`, `NameFollowsHealth` |
| `delivery` | 173k | 1 order of 2 coins, 1 call of the server, 1 of the command, a lookup of 1 entry, 7 coins, a fee of 1, a reserve of 2, 3 faults | `SentTwiceOnlyBlind`, `ReserveHolds`, `SendingEnds`, `SentIsRecorded` |
| `ipn` | 94k | 1 order, 2 payments of which one is its own, 2 handlers, 2 reports of 4 kinds, 1 fault | `AutoSendIsEarned`, `TieIsForever`, `AcceptedIsServed` |
| `studio` | 94k | a picture and a clip of a dollar each, opening balance 1, 1 deposit, 1 fault | `BooksClose`, `ItemIsSettled`, `ChargedIsMade`, `MoneyComesBack` |

**Why the bounds are enough.**  The indexer's fork search overshoots the fork, and
so bisects, only from height 4 with the fork at height 1: that is the deep tree.
Two moves let the node reorganise again while a reorganisation is being unwound,
and the one fault lands anywhere in it.  In the fault tree a coin is spent at
different heights and in different blocks on the two branches, and spent again in
the same block on one of them, so that an unwind in the wrong order shows.  Three
shares and a retry let a retry overtake the answer it repeats while another
caller's answer sits between them.  A validator queue of one and a job map of one
are their limits; forced confirmations go past the first.  One timeout makes the answers
slip, and a slip stays until the pipe is empty, so that any number of shares can be
answered out of turn behind it.  One session, since the timeout: a second one meets the
first only in the job's owner and in the queues, and two of them without a timeout (164k
states) and the theorem, for any number, say the same.  Two overlapping calls
are every order of two publishes; a third adds no new neighbour.  Maturity 2 with
chains of length 3 has blocks below, at and above maturity.  First scan 1, batch 1
and three rows make the doubling loop and the batch loop go round more than once.
The weights 0..6 with a dust limit of 5 put shares below, at and above the limit,
before and after a drop.  Palindromic nonces (equal in both byte orders) are in
`PoolShares` and not in its run.  A lookup of one entry makes one foreign spend enough
to scroll a send out of sight; three faults are a lost answer, a crash after it and a
foreign entry, or a re-check that cannot be read, a late send and a foreign entry.  Seven
coins and orders of two let the checks pass with exactly the reserve to spare, so that
the fee comes out of it.  `Delivery` and `Ipn` run with one order: their calls meet in
the order's row and in the wallet's balance, and what a second order does to the first is
spend from the balance, which the foreign entry does at any step too.  Two orders have
4.8 million states with a single fault, too many for the liveness properties in the
minutes a run has; for them there are the theorems, whose orders are any number of any
size.  Two handlers are the race for the
tie, and two reports its two payments, or a payment and its contradiction.  An opening
balance of one dollar lets the second card be refused for lack of money, and go through
after the deposit.  With one report more in `Ipn` (708k states) and one
fault more in `Studio` (217k states) the same properties hold.  For the safety properties
that are theorems the bounds decide nothing: the run is there to find a mistake cheaply,
and to show that the mutants are noticed.

**Fairness, and why the code justifies it.**
`Indexer`: the daemon loop runs on (weak fairness of `SyncStep`); nothing forces
the node, a checkpoint or a fault.
`SqlitePipe`: the child works off its input, the event loop reads its output and
sees it exit; nothing forces a timer.  A timeout is therefore not what settles a
request in `EveryRequestSettles`.
`PoolShares`: the validator works off its queue; every await of an open call
returns.
`PoolTemplate`: setInterval keeps firing and an open call runs on.
`PoolLedger`: the timer keeps starting passes, an open pass runs on, and a submit
is answered.
`ShareTable`: the pool's own queries are answered; the hourly script, run again
and again, gets through each of its steps (strong fairness, since a failed query
ends the script and takes the step away).
`Failover`: the loop runs on.
`Delivery`: an open call runs on and the sweep's timer keeps firing (weak fairness);
nothing forces a callback, an operator, or the node to make a queued send.
`Ipn`: the gateway repeats a callback until it is answered, handlers and the deliver()
they end in run on, and both sweeps keep running.
`Studio`: the running stretch goes on, a dead process is started again, time passes.
What waits for the thread -- the answer of a call, the poll and age-out timers -- gets
it although taps keep arriving in between: the event loop is a queue, so strong
fairness.
Faults are bounded, so liveness says what happens after the last one.

**Guards in the properties.**  Some properties speak of a condition under which
the code keeps its promise: no request has timed out (`PromptAcksAreRecorded`,
`AnsweredByOwnRow`), refreshes or passes do not overlap (`SerialRefreshesAgree`,
`WorkFollowsTip`, `SerialPassesOrphanOnTwoReads`), no job was held back
(`WorkFollowsTip`), the guard query answered and the block did not go back to pending
after it (`InFlightRowsAreKept`: `guarded`, `returned`), the script has not restarted
(`FlipsAreEarned`), the earlier process had no such row and the answer was not out of
turn (`AckedWorkIsAccountedFor`: `unwritten`, `lost`, both empty until a request times
out), a lookup could have seen the send (`SentTwiceOnlyBlind`, `SentIsRecorded`: the
window, `overtaken`), nothing was spent between the last reading of the balance and the
send (`ReserveHolds`: `raced`), the cut was not one of the two the bot does not repair
(`ItemIsSettled`, `ChargedIsMade`: `torn`), no throw left the job to the next start
(`MoneyComesBack`).  The condition never restricts the model: the runs
explore the behaviours outside it too, and the other properties hold there.  What
happens outside it is described [below](#where-the-code-and-its-comments-disagree).

**Deadlock** is checked in the indexer, template, failover and delivery runs, which
never stop.  The other models may stop: all requests settled, all bounds used up, the
pool stopped by its store, every callback answered, every card decided.

## The proofs

The theorems hold for every block tree, every number of calls, orders, miners, cards,
requests, passes and blocks, and every bound; their only assumptions are the `ASSUME`s
of the modules, which TLC evaluates for each run.  Every safety property of a run, an
invariant, an action property or a refinement, is proved.

| module | theorem | property |
|---|---|---|
| `IndexerProofs` | `TypeCorrect` | (the types of `Indexer`) |
| | `OneBranch` | `InvariantI` |
| | `MirrorIsTip` | `MirrorMatchesBlocks` |
| | `IndexIsPointer` | `ImplementsChainPointer` |
| | `ForkIsTheHighest` | `ForkIsHighestAgreement` |
| | `TrailIsComplete` | `AuditTrailComplete` |
| | `RowsAreRebuilt` | `RowsMatchBlocks` |
| | `SelfChecksNeverFire` | `NoCorruptionRaised` |
| `SqlitePipeProofs` | `PromptAcksAreDurable` | `PromptAcksAreRecorded` |
| | `PromptAnswersAreOwn` | `AnsweredByOwnRow` |
| | `NoWaiterIsStranded` | `WaitersAreCovered` |
| `PoolSharesProofs` | `AcknowledgedIsCredited` | `AckedWorkIsAccountedFor` |
| | `BlocksAreSubmittedFirst` | `FoundBlockIsSubmitted` |
| | `WindowScanIsExact` | `ScanIsExact` |
| | `PruneSparesInFlight` | `InFlightRowsAreKept` |
| | `RecomputeEnds` | `RecomputeCannotCascade` |
| | `SplitIsByWork` | `PaidByWork` |
| `PoolTemplateProofs` | `TemplateTypeCorrect` | (the types of `PoolTemplate`) |
| | `CoinbaseNeverOverpays` | `CoinbaseFits` |
| | `SerialRefreshesKeepJobs` | `SerialRefreshesAgree` |
| `PoolLedgerProofs` | `PaidBlocksStand` | `CreditsAreNeverReversed` |
| | `SerialPassesNeedTwoReads` | `SerialPassesOrphanOnTwoReads` |
| | `FlipsNeedARun` | `FlipsAreEarned` |
| `MarketProofs` | `ReserveIsKept` | `ReserveHolds` |
| | `NeverSentTwiceInSight` | `SentTwiceOnlyBlind` |
| | `EverySendIsEarned` | `AutoSendIsEarned` |
| | `TieStays` | `TieIsForever` |
| `StudioProofs` | `BooksAlwaysClose` | `BooksClose` |
| | `ItemsAreSettled` | `ItemIsSettled` |

**`SumTheorems`** is what the money proofs rest on: `SumFunctionOnSet` of the community
modules is a recursion that takes elements out by `CHOOSE`, and the module proves what
it computes -- nothing for the empty set, one element more or less, one value changed,
two disjoint sets, a part of a set, a partition, a count.  For the payout split it adds
what a floor is, in products and without the division (`FloorIsLargest`), and what a sum
of floors loses, less than one for each (`SplitLeavesLittle`).  The prover cannot instantiate the library's
induction theorems; the lemmas are inductions all the same, each over the least size
(`LeastElement`, from the well-foundedness of the naturals) at which the claim would
fail.

**`IndexerProofs`**, the chain.  The inductive invariant is
`IInv == TypeOK /\ InvariantI /\ MirrorMatchesBlocks /\ GenesisCached`.
`InvariantI` alone is not inductive: that the first block applied is rooted at the
genesis block on record needs the process's cached genesis hash to agree with the
database (`GenesisCached`), and the refinement needs the mirror.  The argument is
one lemma about actions and one about shapes: `StepShapes` shows that every action
moves the two databases in one of four ways (`Moved`) -- block table kept, and
perhaps checkpointed; one child applied; one block unwound; taken back to the
checkpoint -- and `MoveKeeps` that each of the four keeps the invariants and is a
step or a stutter of `ChainPointer`.

*The search.*  `SearchBounds` and `SearchFinds` follow find_fork's locals: above `bad`
nothing agrees, `lo` agrees.  A probe stands for all the heights it skips because two
chains that agree at a height agree below it (`AgreeDown`), which is `InvariantI` again.

*The audit trail.*  `Unwinding` ties handle_reorg's locals to the open row of reorg_log:
every other row is accounted for, and the blocks unwound since are `reorg.n`.  It has to
be stated of the committed database alone, since a power cut clears the locals with it.

*The rows.*  A table that is a chain is the path to its tip (`BranchIsPath`, by counting
from the end), so the consensus rules apply to it (`BranchFits`: the last block's
transactions follow those before).  `Fits` is then turned into facts about outputs
(`FitsMeans`, `UnspentMoves`), about an address's rows (`RowsReceive`, `RowsSend`: a
partition of the outputs by transaction) and about the rollup (`RollupMoves`,
`RolledUp`: up by a block's rows and down by the same).  `RowsApplied` and
`RowsUnwound` put them together, and `RowsStep` adds kills, checkpoints and power cuts.
That the unwind takes out of address_txs by transaction exactly what the block put in
is where "a transaction is in a branch once" is used.

*The self checks* follow: they ask of the rows what the rules say of the branch
(`ChecksHold`).  The check of the unwind order is the one that needs the rule about the
order within a block.

**`SqlitePipeProofs`**.  The sentinels still to come are slots: the lines of stdout and
then the requests of stdin.  `Embedded` places the waiters, in queue order, in slots of
their own; before the first timeout no slot is left over, so the next sentinel is the
head's own.  `Lines` says what rows are on their way, `Counts` how the totals in the
sentinels add up, so that "fresh" is told to one request per key.  After a timeout only
the placing remains, and it is what `WaitersAreCovered` is.

**`PoolSharesProofs`**.  A share is answered steps after it was recorded or submitted,
so `FramesStand` says what an open frame has behind it: its key in the table, or its
INSERT still in the pipe or lost there (`Backed`).  `Accounted` says the same of the
shares already answered, and a step of the store moves a row from the pipe to the table
or to `lost` and nowhere else.  `SlipInv` adds that before the first timeout the pipe
holds nothing of the kind, so that up to then an acknowledged share has its row or met
an earlier process's.  `Ages` says that rows are of
this process or an earlier one.  The module goes on from the share to its pay:

*The window.*  `Numbered`: ids are given out in order of time and what is left of the
table keeps them (the model's clock does not go backwards; a wall clock set back would
break this).  Over it `ScanInv` says what the query before the last has established,
`Sized`: the newest rows up to the limit weigh the window, or are all there are.  Neither
other user can undo it: a share gets an id above the scan's, and a batch of the prune
takes the lowest ids (`BatchIsLowest`), so that if it reaches into the scanned rows
nothing is left below them (`SizedBelow`).  `SizedIsEnough` and `WindowIsReference` are
about the two queries themselves: a scan of that size, cut off by its running total, is
the fewest newest rows that weigh N, for any rows and weights.

*The prune.*  `PruneInv`: once the guard is read the cutoff is before every block in
flight that did not come back since (`Spares`), or past retention and slack.  A block found after the guard was read is the case
that matters: it is spared because the cutoff is a retention time ago and the margin is
no longer than that.  This is the assumption `Margin <= Retain`: the margin is an hour
and `RETAIN_HOURS` whole hours, 24 by default.  It is needed: with a retention of zero
hours, which the script does not refuse, TLC deletes a row that a block found between
the two queries may still need.

*The split.*  `SplitInv`: after the first pass no dust is left.  Shares are compared as
products (`ShareFits`), so that the comment's argument is one line: removing miners makes
the total smaller, and `DustLimit * Total <= Pot * weight` stays true (`NoSecondDust`).
What was dropped was dust of the whole window (`FirstDust`), since miners without work
add nothing to it.  `MaxPass` is assumed to be at least two; it is 64.

**`MarketProofs`**, over `Delivery` and `Ipn`.  `Room`: every order whose
send is to come (`Racing`: a call between its reading of the balance and its send, or a
send queued in the node) is raced or still has the room its reading saw.  A spend makes
every other such order raced, so it keeps `Room` whoever spends; the send itself costs
at most the fee more than the room (`SendLeaves`).
`Sound`: an order that was not overtaken is, with a send in sight, claimed by one that
will find it, and never on offer (`Safe`, `Calm`).  `Stands`: whatever is ready to be
sent is settled and tied to a payment of its own invoice reported in full, and so is
what each handler is about to do with what it read earlier (`Earned`).

Two attempts failed for a good reason and changed the model.  The reserve was not
inductive because an entry of somebody else, arriving while the node still had a send of
ours queued, did not count as a race (the run has a third fault since, with which TLC
reaches it); and the double send was not because a call whose re-check finds no room
gives its order back (`delivery.mjs:323`) whoever holds the claim by then, which did not
count as `overtaken`.  That one takes three calls of the command at once, more than a run
can afford: the proof found it and TLC had not.

**`StudioProofs`**.  For the money every step is one of five operations on a
reservation, a deposit, or nothing (`AccountStep`), each a change of one term in two
sums.  `Charges` says that a settlement writes over a zero, `Flow` how a reservation
moves beside its job; both are needed, neither follows from the books.

**`PoolTemplateProofs`** proves `TemplateTypeCorrect` and `CoinbaseNeverOverpays`
(`CoinbaseFits`), for any number of overlapping refreshes.  `CoinbaseFits` is
inductive together with the types because its second half says that the pair on
offer now also fits, which is what the next job is built from; the interesting
case is `PublishKeepingPayout`, where the hold makes it true.

`SerialRefreshesKeepJobs` (`SerialRefreshesAgree`) is an implication between two
temporal formulas, `[]OneCallOpen => []JobsAgreeWithTemplate`.  `Agree` adds to the
conclusion that a call which found the tip unchanged still builds on the published
tip (`SameTip`); each step preserves it from a state with one call open, and no
further: it is exactly what a second call's publish makes stale.

**`PoolLedgerProofs`** proves `PaidBlocksStand` (`CreditsAreNeverReversed`).  The
strengthening is `Inv == Shape /\ LateRows /\ CreditsAreNeverReversed`.  The
property alone is not inductive: a block voided before its payout rows arrive would
break it.  `LateRows` rules that out: a block enters the table only in the step
that ends handleSubmit for it, so no payout row is written later; `Shape` says that
the tables have the form the updates expect.

`SerialPassesNeedTwoReads` (`SerialPassesOrphanOnTwoReads`) has the same form, under
`OnePassOpen`.  Its invariant `Twice` ties the strikes in the table to the readings
(`Counted`: a strike is a reading that found the block gone, with none since that
found it) and the strikes a pass selected to those in the table for every row it has
not resolved (`Current`), the copy that an overlapping pass makes stale.

`FlipsNeedARun` (`FlipsAreEarned`) is about the other program that acts on repeated
readings, the failover script.  `CountersCount` says that until the first restart a
counter is the length of the run of equal probes (`RunOf`), whichever queries and writes
fail in between; a flip compares the counter, the property counts the probes.

**Only model-checked**: liveness, that is `Converges`, `EveryRequestSettles`,
`EveryShareIsAnswered`, `WorkFollowsTip`, `LedgerConverges`, `ScanEnds`, `OldRowsGo`,
`NameFollowsHealth`, `SendingEnds`, `SentIsRecorded`, `AcceptedIsServed`, `ChargedIsMade`
and `MoneyComesBack` (the prover does not do fairness or `ENABLED`).  The types are
the other way round: `TypeOK` of the indexer and of the template are theorems and not
part of a run.

## Where the code and its comments disagree

Each of these is what a guard of a property stands for; dropping the guard named makes
TLC print the behaviour.

The pool:

- *A timeout makes the pipe acknowledge the wrong share* (`PromptAcksAreRecorded`
  without `NothingTimedOut`): the timer (`store.mjs:266`) takes the waiter out of the
  queue, its answer arrives later and settles the next caller, whose INSERT has not
  run.  Rule 1 of `store.mjs` ("acknowledged only AFTER it is durable") fails.  In the
  share path (`AckedWorkIsAccountedFor` without its third alternative) that caller's
  share is answered OK; if its INSERT then fails, or the child or the process dies first,
  nobody hears of it and the work is unpaid.  Rule 1 is out of force until the queue of
  waiters has been empty once.  The answer also carries another row's id, and a found
  block is marked by it (markShareIsBlock): that column is not modelled.
- *Job ids are reused after a restart* (`AckedWorkIsAccountedFor` without its second
  alternative): `jobSeq` starts at 0 (`pool.mjs:169`), the table keeps the old keys, and
  a new share that meets an old key is answered OK and credited to nobody.
- *A block whose submitblock answer was lost is never found*: the comment at
  `pool.mjs:587` leaves it to the maturity pass, which reads only rows of the blocks
  table (`SubmitThrew` of `PoolLedger` writes none).
- *stderr* (`store.mjs:211`): "Only one request is ever in flight" -- several are,
  and an error may reject a request other than the one it came from.
- *Overlapping refreshes* (`pool.mjs:223`, `SerialRefreshesAgree` without
  `OneCallOpen`): a slow call publishes an older template over a newer one without
  clearing the newer tip's jobs.
- *The end of a hold* (`WorkFollowsTip` without `~held`): a tip that arrives during
  a hold pushes nothing, and neither does the refresh that ends the hold.
- *A kept payout set* (`pool.mjs:307`): when the window cannot be read, jobs pair
  the new template with the set built for an earlier block.  When it is the first
  window read of the process there is no set, nothing is held, and the coinbase
  pays the pool alone (`pool.mjs:288` says that must not happen).
- *Overlapping passes* (`SerialPassesOrphanOnTwoReads` without `OnePassOpen`): two
  passes can void a block although a read between their two found it on the chain.
- *Two blocks of the pool at one height*: `payouts` is keyed by height and miner,
  so the second block's rows are ignored where the first has them, and the report
  of `payouts.mjs` passes a block without rows over.
- *The prune's guard* (`InFlightRowsAreKept` without `guarded`): an unreadable guard
  query and "no block in flight" take the same branch.
- *A block that comes back* (`InFlightRowsAreKept` without `returned`): a reorganisation
  that takes a mature block back under the maturity depth puts it to pending under its
  old found_at (`store.mjs:819-829`).  If that happens between the script's guard query
  and its batches, the rows from that block's time on are deleted although the block "is not yet
  mature" (`pcoin-pool-prune-shares:79`).  Its payout rows are written by then, which is
  why the comment calls the guard "belt and braces".
- *The prune's retention* is a time and the window an amount of work: a pool that
  finds little work in the retention time still pays on the rows it deletes.
- *Failover's counters*: a cycle whose DNS write failed has counted its probe in
  memory although `main` logs that the state did not advance; a restart between a
  probe and the save restores older counters (`FlipsAreEarned` without
  `restarts = 0`); an edit made between the read and the write is overwritten.

The market:

- *The sweep and a newer claim* (`SentTwiceOnlyBlind` without `overtaken`).  The comment
  at `delivery.mjs:180-195` says a send this process is waiting on is left alone.  That
  holds for the list: `sendingNow` is asked before the lookup, and the verdict comes
  after it.  If, in between, the order is reviewed by hand, sent again and claimed, the
  UPDATE finds `status='sending'` -- the newer claim's -- and declares it unsent while
  it is being sent; a send of the command is in no map at all.
- *The caller's verdict has no guard* (`delivery.mjs:401`): "Only here is 'nothing was
  sent' a fact" -- but the UPDATE has no condition on the status, and a request still
  queued in the node when its 30 seconds are over may be made after the lookup.
- *A claim given back*: a call whose re-check finds no room returns its order to the
  queue with `WHERE order_id=? AND status='sending'` (`delivery.mjs:323`).  If its own
  claim was released meanwhile (the sweep does not know the command's calls) and the
  order claimed again, by a call whose re-check could not be read and which therefore
  sends, the status is the newer claim's: the order is offered while it is being sent,
  and a third call may send it again.  `delivery.mjs:313-315` calls the claimed order
  "exclusively ours".
- *The fee* (`ReserveHolds` with `Stop` instead of `Stop - MaxFee`): both checks ask for
  the order's coins above the reserve (`delivery.mjs:277`, `:322`), and the send pays the
  network fee beside them, `subtractfeefromamount` being false (`:345`).  A delivery that
  just passes leaves the wallet up to one fee under `S.stop()`, "the very reserve the
  floor exists to protect".
- *The re-check* (`ReserveHolds` without `raced`): a spend that comes between re-check
  and send takes the room.  In the run it is `ops-send`'s; with two orders and no fault
  at all it is the other order's: both calls claim, both re-read the balance, both send
  (`delivery.mjs:308-316` calls this the only honest moment to ask).

The bot:

- *Charged and not made* (`ChargedIsMade` without `torn`): `jobs.mjs:334` says that
  nothing below may unwind the money; the settlement and the record of a picture are two
  transactions, and a process that dies between them leaves a charge, no item, and a
  job that the start-up marks unknown.
- *Made and not charged* (`ItemIsSettled` without `torn`): the hold and the end of a
  given-up clip's job are two transactions (`jobs.mjs:243-245`); cut between them the
  clip is polled on, delivered, and its settlement finds the reservation closed.
- *A throw is not a restart* (`MoneyComesBack` without its last alternative): a statement
  that throws after the picture was made leaves its job 'running', which the age-out
  skips: the money stays reserved, and no other picture may start, until the next start.
- *settleLate is not reached*: while the age-out skips running jobs, no settlement meets
  an expired reservation in any state of the model.
- *A second tap while the card is repriced* (`jobs.mjs:172-186`): the new price is in
  the database before the message shows it, so a second tap in between is charged a
  number the user has not seen.  Read from the code; prices are constants in `Studio`.

## Not modelled, and the plan

Not modelled, with reasons, in `PROJECT.json` under `components`.  In short:
upstream and vendored code; user interfaces and operator scripts; floating-point
price policy; byte layouts (`block.mjs`); read-only services.  Nearly all the lines of
the repository are of these kinds -- Bitcoin Core, the Qt translation files
(`src/qt/locale/*.ts`, which are XML), JavaScript bundles -- so that the modelled
programs, a few thousand lines, are a small share of it.  Of the market, what is left out is
the ladder's pricing, retirement and the shop's pages; of the bot, the conversation,
the delivery of results, rewards, Stars, and of a
deposit everything but its credit.

Planned, most important first.  Each is one module, an MC module and one run, with
its safety, its liveness and its mutants; components that are proved get a proof
module.

1. **KeeperPay** (`contrib/wpcn/pcoin-keeper-pay`): sign, save, broadcast, confirm,
   with a crash between any two.  To check: a retry signs anew only when the first
   transaction can no longer be mined.
2. **Deposits** (`contrib/pcnaibot/lib/deposits.mjs`): a deposit seen, confirmed,
   reorganised away and credited, composed with `Studio`'s balance; and the results'
   re-sending.
3. **Reindex** (`indexer.py`): a second index built beside the first and renamed
   over it, composed with `Indexer`.
4. **PoolClient** (`src/node/poolclient.cpp`) composed with `PoolShares` over a
   connection that drops.
5. **LWMA** (`src/pow.cpp`) with scaled integers, and **Vardiff** (`pool.mjs`), as
   operators against reference definitions.
