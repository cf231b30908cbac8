------------------------------ MODULE Delivery ------------------------------
(***************************************************************************)
(* contrib/market/delivery.mjs: paying an order out of the hot wallet.  Any   *)
(* number of calls of deliver() run at once, in the server (payment           *)
(* callbacks, the admin panel's Send) and in the market-admin command, which  *)
(* is a process of its own; a sweep in the server resolves orders left in     *)
(* 'sending'.  A step is one query or one wallet RPC.  The database and the   *)
(* node are external: a query or an RPC may throw, a send may be made and its *)
(* answer lost, or still be queued in the node when the caller gives up.      *)
(* Left out: messages, the announcement spool, the low-float monitor,         *)
(* abandoned transactions, the text of delivery_error.  Every order is past   *)
(* the sweep's five minutes.                                                  *)
(***************************************************************************)
EXTENDS Integers, Sequences

CONSTANTS
  Orders,       \* orders, all paid
  Pcn,          \* [Orders -> Nat]: quoted_pcn, the coins an order is for
  Small,        \* the orders isAuto() lets the server send by itself
  Server,       \* calls of deliver() the server has running at once
  Cli,          \* runs of market-admin send
  NoOrder, Other,
  Float,        \* coins in the hot wallet at the start
  MaxFee,       \* the most a send pays the network, on top of its amount
  OtherSpend,   \* what another spend from the same wallet takes, its fee included
  Stop,         \* S.stop(): the reserve
  Window,       \* wallet entries listtransactions returns (1000 in the code)
  MaxTroubles   \* bound: throws, crashes, late sends and foreign wallet entries

ASSUME DeliveryAssumption ==
  /\ Small \subseteq Orders /\ NoOrder \notin Orders /\ Other \notin Orders
  /\ Server \cap Cli = {}
  /\ Pcn \in [Orders -> Nat] /\ MaxFee \in Nat \ {0} /\ OtherSpend \in Nat
  /\ Float \in Nat /\ Stop \in Nat /\ Window \in Nat \ {0} /\ MaxTroubles \in Nat

VARIABLES
  status,       \* the row's status
  recorded,     \* is delivered_txid set
  handled,      \* is delivery_mode or delivery_error set (kept once delivered)
  wallet,       \* the wallet's entries, oldest first: whose send each is
  spent,        \* coins that have left the wallet, fees included
  queued,       \* orders whose send is in the node, its caller gone
  call,         \* call[w]: a call of deliver(), and of the Send around it
  sweep,        \* reconcileSending()
  overtaken,    \* history: orders put back as unsent with a send of theirs under
                \* way, or made since the lookup
  raced,        \* history: orders whose balance was read, and another spend made
                \* since then
  troubles

row     == <<status, recorded, handled>>
node    == <<wallet, spent, queued>>
history == <<overtaken, raced>>
vars    == <<row, node, call, sweep, history, troubles>>

Workers == Server \cup Cli
Idle    == [pc |-> "idle", order |-> NoOrder, force |-> FALSE]
AtRest  == [todo |-> {}, at |-> NoOrder, found |-> FALSE]

Init ==
  /\ status = [o \in Orders |-> "awaiting_delivery"]
  /\ recorded = [o \in Orders |-> FALSE]
  /\ handled = [o \in Orders |-> FALSE]
  /\ wallet = <<>> /\ spent = 0 /\ queued = {}
  /\ call = [w \in Workers |-> Idle] /\ sweep = AtRest
  /\ overtaken = {} /\ raced = {}
  /\ troubles = 0

-----------------------------------------------------------------------------
(* The wallet and what a call knows of it.                                  *)

floatBalance == Float - spent

\* The check before the claim and the one after it.  Neither counts the fee.
HasRoom(o) == floatBalance - Pcn[o] >= Stop

\* subtractfeefromamount is false: the wallet pays the fee beside the amount.
Costs(o) == {Pcn[o] + fee : fee \in 1..MaxFee}

\* Sends that are still to come from a balance that has been read.
Racing(among, inNode) ==
  inNode \cup {call[v].order : v \in {u \in among : call[u].pc \in {"claim", "recheck", "send"}}}

\* findSentTx: an entry with the order's id among the newest Window.
findSentTx(o) == \E i \in DOMAIN wallet : wallet[i] = o /\ i + Window > Len(wallet)

\* One more of the things that can go wrong.
Trouble == troubles < MaxTroubles /\ troubles' = troubles + 1

At(w, pc) == call[w].pc = pc
Goes(w, pc) == call' = [call EXCEPT ![w].pc = pc]
Returns(w) == call' = [call EXCEPT ![w] = Idle]

Sets(o, st) == status' = [status EXCEPT ![o] = st]
Handles(o) == handled' = [handled EXCEPT ![o] = TRUE]

\* Entered before the claim is sent, left when deliver() returns.
sendingNow(o) ==
  \E w \in Server : call[w].order = o
    /\ call[w].pc \in {"claim", "recheck", "giveback", "send", "failed", "review", "record"}

\* A send of o is claimed and on its way, or queued in the node.
UnderWay(o, among) ==
  o \in queued \/ \E w \in among : call[w].order = o /\ call[w].pc \in {"recheck", "send"}

DeclaresUnsent(o, among) ==
  /\ Sets(o, "needs_review") /\ Handles(o)
  /\ overtaken' = IF UnderWay(o, among) THEN overtaken \cup {o} ELSE overtaken

\* The send is made, perhaps after a lookup that said no and before its verdict,
\* and those of the other calls and in the node are raced by it.
MakesSend(o, among, inNode) ==
  /\ wallet' = Append(wallet, o)
  /\ \E c \in Costs(o) : c <= floatBalance /\ spent' = spent + c
  /\ raced' = (raced \ {o}) \cup Racing(among, inNode)
  /\ overtaken' = IF \/ sweep.at = o /\ ~sweep.found
                     \/ \E w \in Workers : call[w].order = o /\ At(w, "review")
                  THEN overtaken \cup {o} ELSE overtaken

\* "Insufficient funds."
Unaffordable(o) == \E c \in Costs(o) : c > floatBalance

\* recordSent: only the first transaction is written.
recordSent(o) ==
  /\ Sets(o, IF recorded[o] THEN status[o] ELSE "delivered")
  /\ recorded' = [recorded EXCEPT ![o] = TRUE]

-----------------------------------------------------------------------------
(* Send on the admin panel, and market-admin send: ask the wallet, release a *)
(* reviewed order, call deliverForce.                                        *)

SendAsked(w, o) ==
  /\ At(w, "idle") /\ ~findSentTx(o)
  /\ w \in Cli => ~recorded[o] /\ status[o] \in {"awaiting_delivery", "needs_review"}
  /\ call' = [call EXCEPT ![w] = [pc |-> "release", order |-> o, force |-> TRUE]]
  /\ UNCHANGED <<row, node, sweep, history, troubles>>

Release(w) ==
  /\ At(w, "release")
  /\ LET o == call[w].order
     IN  Sets(o, IF status[o] = "needs_review" THEN "awaiting_delivery" ELSE status[o])
  /\ Goes(w, "select")
  /\ UNCHANGED <<recorded, handled, node, sweep, history, troubles>>

\* The operator records a delivery made by hand (market-admin deliver): only a
\* recorded one is refused, whatever the order's status.
markDelivered(o) ==
  /\ ~recorded[o]
  /\ recordSent(o) /\ Handles(o)
  /\ UNCHANGED <<node, call, sweep, history, troubles>>

-----------------------------------------------------------------------------
(* deliver(orderId, {force}).                                               *)

Deliver(w, o) ==
  /\ At(w, "idle") /\ w \in Server
  /\ call' = [call EXCEPT ![w] = [pc |-> "select", order |-> o, force |-> FALSE]]
  /\ UNCHANGED <<row, node, sweep, history, troubles>>

\* Mutant: the claim does not ask for the status.
ClaimableUnguarded(o) == ~recorded[o]

Claimable(o) == status[o] = "awaiting_delivery" /\ ~recorded[o]

Select(w) ==
  /\ At(w, "select")
  /\ IF Claimable(call[w].order) THEN Goes(w, "look") ELSE Returns(w)
  /\ UNCHANGED <<row, node, sweep, history, troubles>>

Look(w) ==
  /\ At(w, "look")
  /\ Goes(w, CASE findSentTx(call[w].order) -> "record"
               [] ~findSentTx(call[w].order) /\ (call[w].force \/ call[w].order \in Small) -> "float"
               [] OTHER -> "queue")
  /\ UNCHANGED <<row, node, sweep, history, troubles>>

\* "Never let 'I could not look' read as 'nothing was sent'."
LookFails(w) ==
  /\ At(w, "look") /\ Trouble
  /\ Handles(call[w].order) /\ Returns(w)
  /\ UNCHANGED <<status, recorded, node, sweep, history>>

\* Too large to send by itself: queued for a human, who is paged once.
Queue(w) ==
  /\ At(w, "queue")
  /\ Handles(call[w].order) /\ Returns(w)
  /\ UNCHANGED <<status, recorded, node, sweep, history, troubles>>

ReadFloat(w) ==
  /\ At(w, "float")
  /\ IF HasRoom(call[w].order)
     THEN Goes(w, "claim") /\ raced' = raced \ {call[w].order}
     ELSE Goes(w, "queue") /\ UNCHANGED raced
  /\ UNCHANGED <<row, node, sweep, overtaken, troubles>>

Claim(w) ==
  /\ At(w, "claim")
  /\ IF Claimable(call[w].order)
     THEN Sets(call[w].order, "sending") /\ Handles(call[w].order) /\ Goes(w, "recheck")
     ELSE UNCHANGED <<status, handled>> /\ Returns(w)
  /\ UNCHANGED <<recorded, node, sweep, history, troubles>>

\* Mutant: the float is taken to be what it was.
RecheckSkipped(w) ==
  /\ At(w, "recheck") /\ Goes(w, "send")
  /\ raced' = raced \ {call[w].order}
  /\ UNCHANGED <<row, node, sweep, overtaken, troubles>>

Recheck(w) ==
  /\ At(w, "recheck")
  /\ IF HasRoom(call[w].order)
     THEN Goes(w, "send") /\ raced' = raced \ {call[w].order}
     ELSE Goes(w, "giveback") /\ UNCHANGED raced
  /\ UNCHANGED <<row, node, sweep, overtaken, troubles>>

\* "An unreadable balance resolves nothing and does NOT block the send": the
\* reading before the claim stands.
RecheckUnreadable(w) ==
  /\ At(w, "recheck") /\ Trouble
  /\ Goes(w, "send")
  /\ UNCHANGED <<row, node, sweep, history>>

\* The UPDATE asks for 'sending' and not whose claim it is: it may be another
\* call's by now.
GiveBack(w) ==
  /\ At(w, "giveback")
  /\ LET o == call[w].order
     IN  /\ Sets(o, IF status[o] = "sending" THEN "awaiting_delivery" ELSE status[o])
         /\ overtaken' = IF status[o] = "sending" /\ (UnderWay(o, Workers \ {w}) \/ findSentTx(o))
                         THEN overtaken \cup {o} ELSE overtaken
  /\ Returns(w)
  /\ UNCHANGED <<recorded, handled, node, sweep, raced, troubles>>

SendToAddress(w) ==
  /\ At(w, "send")
  /\ MakesSend(call[w].order, Workers \ {w}, queued)
  /\ Goes(w, "record")
  /\ UNCHANGED <<row, queued, sweep, troubles>>

\* The node refuses the send for want of coins.
SendRefused(w) ==
  /\ At(w, "send") /\ Unaffordable(call[w].order)
  /\ Goes(w, "failed")
  /\ UNCHANGED <<row, node, sweep, history, troubles>>

\* The RPC throws: the node did not make the send, or it did and the answer was lost.
SendThrows(w) ==
  /\ At(w, "send") /\ Trouble
  /\ \/ MakesSend(call[w].order, Workers \ {w}, queued)
     \/ UNCHANGED <<wallet, spent, history>>
  /\ Goes(w, "failed")
  /\ UNCHANGED <<row, queued, sweep>>

\* The caller's 30 seconds pass with the request still in the node.
SendTimesOut(w) ==
  /\ At(w, "send") /\ Trouble
  /\ queued' = queued \cup {call[w].order}
  /\ Goes(w, "failed")
  /\ UNCHANGED <<row, wallet, spent, sweep, history>>

LookAgain(w) ==
  /\ At(w, "failed")
  /\ Goes(w, IF findSentTx(call[w].order) THEN "record" ELSE "review")
  /\ UNCHANGED <<row, node, sweep, history, troubles>>

\* Mutant: a lookup that threw reads as "no such transaction".
LookAgainFailsBlind(w) ==
  /\ At(w, "failed")
  /\ Goes(w, "review")
  /\ UNCHANGED <<row, node, sweep, history, troubles>>

\* Neither the send nor the lookup answered (one outage, so one trouble): left in
\* 'sending' for the sweep.
LookAgainFails(w) ==
  /\ At(w, "failed")
  /\ Returns(w)
  /\ UNCHANGED <<row, node, sweep, history, troubles>>

\* The UPDATE has no condition on the status.
Review(w) ==
  /\ At(w, "review")
  /\ DeclaresUnsent(call[w].order, Workers \ {w})
  /\ Returns(w)
  /\ UNCHANGED <<recorded, node, sweep, raced, troubles>>

Record(w) ==
  /\ At(w, "record")
  /\ recordSent(call[w].order) /\ Returns(w)
  /\ UNCHANGED <<handled, node, sweep, history, troubles>>

\* A query, or the first reading of the float, throws: deliver()'s outer catch.
CallThrows(w) ==
  /\ call[w].pc \in {"release", "select", "queue", "float", "claim", "giveback", "review", "record"}
  /\ Trouble
  /\ Returns(w)
  /\ UNCHANGED <<row, node, sweep, history>>

-----------------------------------------------------------------------------
(* reconcileSending().                                                      *)

\* Mutant: orders delivery has touched are left out.
StuckUntouched == {o \in Orders : status[o] = "sending" /\ ~recorded[o] /\ ~handled[o]}

Stuck == {o \in Orders : status[o] = "sending" /\ ~recorded[o]}

SweepStarts ==
  /\ sweep = AtRest /\ Stuck # {}
  /\ sweep' = [AtRest EXCEPT !.todo = Stuck]
  /\ UNCHANGED <<row, node, call, history, troubles>>

SweepLooks(o) ==
  /\ o \in sweep.todo /\ sweep.at = NoOrder
  /\ sweep' = IF sendingNow(o) THEN [AtRest EXCEPT !.todo = sweep.todo \ {o}]
              ELSE [todo |-> sweep.todo \ {o}, at |-> o, found |-> findSentTx(o)]
  /\ UNCHANGED <<row, node, call, history, troubles>>

SweepResolves ==
  /\ sweep.at # NoOrder
  /\ \/ sweep.found /\ recordSent(sweep.at) /\ UNCHANGED <<handled, overtaken>>
     \/ ~sweep.found /\ status[sweep.at] = "sending"
        /\ DeclaresUnsent(sweep.at, Workers) /\ UNCHANGED recorded
     \/ ~sweep.found /\ status[sweep.at] # "sending" /\ UNCHANGED <<row, overtaken>>
  /\ sweep' = [AtRest EXCEPT !.todo = sweep.todo]
  /\ UNCHANGED <<node, call, raced, troubles>>

\* One order's lookup or update throws: the sweep goes on with the next.
SweepThrows(o) ==
  /\ o = sweep.at \/ (sweep.at = NoOrder /\ o \in sweep.todo)
  /\ Trouble
  /\ sweep' = [AtRest EXCEPT !.todo = sweep.todo \ {o}]
  /\ UNCHANGED <<row, node, call, history>>

-----------------------------------------------------------------------------
(* The world.                                                               *)

LateSend(o) ==
  /\ o \in queued /\ queued' = queued \ {o}
  /\ \/ MakesSend(o, Workers, queued \ {o})
     \/ Unaffordable(o) /\ UNCHANGED <<wallet, spent, history>>
  /\ UNCHANGED <<row, call, sweep, troubles>>

\* Another spend from the same wallet (contrib/market/ops-send.mjs).
OtherEntry ==
  /\ Trouble /\ OtherSpend <= floatBalance
  /\ wallet' = Append(wallet, Other) /\ spent' = spent + OtherSpend
  /\ raced' = raced \cup Racing(Workers, queued)
  /\ UNCHANGED <<row, queued, call, sweep, overtaken>>

\* The server dies with everything it has in memory, and is started again.
Crash ==
  /\ Trouble
  /\ call' = [w \in Workers |-> IF w \in Server THEN Idle ELSE call[w]]
  /\ sweep' = AtRest
  /\ UNCHANGED <<row, node, history>>

CliKilled(w) ==
  /\ w \in Cli /\ ~At(w, "idle")
  /\ Returns(w)
  /\ UNCHANGED <<row, node, sweep, history, troubles>>

CallStep(w) ==
  \/ Release(w) \/ Select(w) \/ Look(w) \/ Queue(w) \/ ReadFloat(w)
  \/ Claim(w) \/ Recheck(w) \/ GiveBack(w) \/ SendToAddress(w) \/ SendRefused(w)
  \/ LookAgain(w) \/ Review(w) \/ Record(w)

CallFault(w) ==
  \/ LookFails(w) \/ RecheckUnreadable(w) \/ SendThrows(w) \/ SendTimesOut(w)
  \/ LookAgainFails(w) \/ CallThrows(w) \/ CliKilled(w)

SweepStep == SweepStarts \/ (\E o \in Orders : SweepLooks(o)) \/ SweepResolves

DeliveryStep ==
  \/ \E w \in Workers, o \in Orders : SendAsked(w, o)
  \/ \E w \in Workers : CallStep(w) \/ CallFault(w)
  \/ \E o \in Orders : markDelivered(o) \/ SweepThrows(o) \/ LateSend(o)
  \/ SweepStep \/ OtherEntry \/ Crash

Next == DeliveryStep \/ \E w \in Workers, o \in Orders : Deliver(w, o)

Spec == Init /\ [][Next]_vars

\* Awaited calls are resumed and the sweep's timer fires; nothing forces a
\* callback, an operator, a fault or the node's backlog.
FairSpec ==
  /\ Spec
  /\ \A w \in Workers : WF_vars(CallStep(w))
  /\ WF_vars(SweepStep)

-----------------------------------------------------------------------------
(* Properties.                                                              *)

\* "NEVER SEND TWICE", as far as it goes: an order leaves the wallet a second
\* time only if its first send has scrolled out of the entries a lookup sees, or
\* the order was put back as unsent on a lookup that a send of it overtook, or by a
\* call that gave back a claim no longer its own.
SentTwiceOnlyBlind ==
  \A i, j \in DOMAIN wallet :
    i < j /\ wallet[i] = wallet[j] /\ wallet[i] # Other => i + Window < j \/ wallet[i] \in overtaken

\* The reserve: a delivery leaves S.stop() in the wallet, less at most the network
\* fee, which neither check counts.  The exception is an order raced by another
\* spend that was made after its last reading of the balance: two orders re-checked
\* together, a send the node made late, another tool of the same wallet.
ReserveHolds ==
  [][Len(wallet') > Len(wallet) /\ wallet'[Len(wallet')] # Other
       => floatBalance' >= Stop - MaxFee \/ wallet'[Len(wallet')] \in raced]_vars

\* "This is the only path that can rescue a crash between claim and record": no
\* order stays in 'sending'.
SendingEnds == \A o \in Orders : status[o] = "sending" ~> status[o] # "sending"

\* "An RPC timeout says nothing about whether the node broadcast it": whatever
\* threw or died after it, a send is found and recorded, unless it scrolls out of
\* the lookup's window first or its order was put back as unsent meanwhile.
SentIsRecorded == \A o \in Orders : findSentTx(o) ~> recorded[o] \/ o \in overtaken \/ ~findSentTx(o)

=============================================================================
