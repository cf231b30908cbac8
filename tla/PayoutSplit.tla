----------------------------- MODULE PayoutSplit ----------------------------
(***************************************************************************)
(* Who a block's coinbase pays (contrib/pool/store.mjs: feeOf, splitPot and  *)
(* buildPayoutOutputs).  The pot is split by weight with floors; whoever      *)
(* falls under the dust limit is dropped and the pot is split again over the  *)
(* rest; the pool's output takes what is left.  One action is one pass.       *)
(***************************************************************************)
EXTENDS Integers, FiniteSets, Functions

CONSTANTS
  Miner,
  MaxWeight,     \* bound: a miner's weight in the window
  Value,         \* coinbase values
  FeeBp,         \* pool fees, in basis points
  DustLimit,
  MaxPass        \* passes of the loop, 64

ASSUME SplitAssumption ==
  /\ IsFiniteSet(Miner)
  /\ Value \subseteq Nat \ {0} /\ FeeBp \subseteq 0..10000
  /\ MaxWeight \in Nat /\ DustLimit \in Nat /\ MaxPass \in Nat \ {0, 1}

VARIABLES
  weight,        \* the PPLNS window: work per miner
  value,         \* the coinbase value
  feeBp,
  live,          \* miners still in the split
  dropped,       \* miners that fell under the dust limit
  amounts,       \* what each paid miner gets
  passes,        \* splits made so far
  done

splitVars == <<weight, value, feeBp, live, dropped, amounts, passes, done>>

-----------------------------------------------------------------------------
feeOf(v, bp) == (v * bp) \div 10000

Pot == value - feeOf(value, feeBp)

Total(s) == SumFunctionOnSet(weight, s)

\* splitPot: floors, so that a split never overpays.
ShareOf(s, m) == (Pot * weight[m]) \div Total(s)

\* Mutant: the limit itself counts as dust.
UnderOrAt(s) == {m \in s : ShareOf(s, m) <= DustLimit}

Under(s) == {m \in s : ShareOf(s, m) < DustLimit}

Paid == SumFunction(amounts)

\* "The pool output is whatever is left."
PoolValue == value - Paid

SplitInit ==
  /\ weight \in [Miner -> 0..MaxWeight]
  /\ value \in Value /\ feeBp \in FeeBp
  /\ live = {m \in Miner : weight[m] > 0}
  /\ dropped = {} /\ amounts = <<>> /\ passes = 0 /\ done = FALSE

\* Mutant: a pass drops the first miner it finds.
DropDustOne ==
  /\ ~done /\ passes < MaxPass /\ Under(live) # {}
  /\ LET m == CHOOSE n \in Under(live) : TRUE
     IN  live' = live \ {m} /\ dropped' = dropped \cup {m}
  /\ passes' = passes + 1
  /\ UNCHANGED <<weight, value, feeBp, amounts, done>>

\* A pass that finds dust: those miners leave the split.
DropDust ==
  /\ ~done /\ passes < MaxPass /\ Under(live) # {}
  /\ live' = live \ Under(live)
  /\ dropped' = dropped \cup Under(live)
  /\ passes' = passes + 1
  /\ UNCHANGED <<weight, value, feeBp, amounts, done>>

\* A pass that finds none: the split stands, and with no miner left nobody is
\* paid.  A loop that ran out of passes would pay nobody either.
Settle ==
  /\ ~done
  /\ Under(live) = {} \/ passes = MaxPass
  /\ amounts' = IF passes < MaxPass THEN [m \in live |-> ShareOf(live, m)] ELSE <<>>
  /\ passes' = IF passes < MaxPass THEN passes + 1 ELSE passes
  /\ done' = TRUE
  /\ UNCHANGED <<weight, value, feeBp, live, dropped>>

SplitNext == DropDust \/ Settle

SplitSpec == SplitInit /\ [][SplitNext]_splitVars

-----------------------------------------------------------------------------
\* "That recompute cannot cascade -- removing an entry only ever makes the
\* remaining amounts larger": dust is found in the first split or never, so the
\* loop ends after two and never runs out of passes.
RecomputeCannotCascade == passes <= 2

\* "The dropped share goes to the other miners rather than to the pool": nobody's
\* pay is below the dust limit, nobody above it is left out, more work is never
\* paid less, and the pool keeps its fee and less than a satoshi per paid miner.
PaidByWork ==
  done =>
    /\ amounts # <<>> =>
         PoolValue - feeOf(value, feeBp) \in 0..(Cardinality(DOMAIN amounts) - 1)
    /\ \A m \in DOMAIN amounts : amounts[m] >= DustLimit
    /\ \A m \in Miner \ DOMAIN amounts :
         weight[m] > 0 => (Pot * weight[m]) < DustLimit * Total(Miner)
    /\ \A m, n \in DOMAIN amounts : weight[m] <= weight[n] => amounts[m] <= amounts[n]
=============================================================================
