---------------------------- MODULE MarketProofs ----------------------------
(***************************************************************************)
(* The market, for any number of orders, payments, calls and faults: what a  *)
(* delivery leaves in the wallet, when an order can be sent twice, and what a *)
(* send without a human rests on.                                             *)
(***************************************************************************)
EXTENDS Ipn, SequenceTheorems, TLAPS

Pcs ==
  {"idle", "release", "select", "look", "queue", "float", "claim", "recheck", "giveback", "send",
   "failed", "review", "record",
   "load", "accept", "hold", "contradict", "reverse", "close"}

Statuses == {"pending", "closed", "awaiting_delivery", "sending", "delivered", "needs_review"}

Calls  == [pc : Pcs, order : Orders \cup {NoOrder}, force : BOOLEAN]
Sweeps == [todo : SUBSET Orders, at : Orders \cup {NoOrder}, found : BOOLEAN]

\* A call that is under way is about an order.
CallsTyped ==
  /\ call \in [Workers -> Calls]
  /\ \A w \in Workers : call[w].pc # "idle" => call[w].order \in Orders

Types ==
  /\ status \in [Orders -> Statuses]
  /\ recorded \in [Orders -> BOOLEAN] /\ handled \in [Orders -> BOOLEAN]
  /\ wallet \in Seq(Orders \cup {Other}) /\ spent \in Nat /\ queued \subseteq Orders
  /\ CallsTyped /\ sweep \in Sweeps
  /\ overtaken \subseteq Orders /\ raced \subseteq Orders

-----------------------------------------------------------------------------
(* How a call moves.                                                        *)

\* A call goes on at another of its points, for the same order.
LEMMA GoesTo ==
  ASSUME CallsTyped, NEW w \in Workers, NEW pc \in Pcs, Goes(w, pc), call[w].pc # "idle"
  PROVE  /\ CallsTyped'
         /\ call'[w].pc = pc /\ call'[w].order = call[w].order
         /\ \A v \in Workers : v # w => call'[v] = call[v]
  BY DEF CallsTyped, Calls, Goes

\* A call returns.
LEMMA ReturnsTo ==
  ASSUME CallsTyped, NEW w \in Workers, Returns(w)
  PROVE  /\ CallsTyped'
         /\ call'[w].pc = "idle"
         /\ \A v \in Workers : v # w => call'[v] = call[v]
  BY DEF CallsTyped, Calls, Pcs, Returns, Idle

\* A call starts.
LEMMA StartsAt ==
  ASSUME CallsTyped, NEW w \in Workers, NEW pc \in Pcs, NEW o \in Orders, NEW b \in BOOLEAN,
         call' = [call EXCEPT ![w] = [pc |-> pc, order |-> o, force |-> b]]
  PROVE  /\ CallsTyped'
         /\ call'[w].pc = pc /\ call'[w].order = o
         /\ \A v \in Workers : v # w => call'[v] = call[v]
  BY DEF CallsTyped, Calls

\* The first lookup sends the call one of three ways.
LEMMA LookGoes ==
  ASSUME NEW w \in Workers, Look(w)
  PROVE  \E pc \in {"record", "float", "queue"} : Goes(w, pc)
<1> DEFINE to == CASE findSentTx(call[w].order) -> "record"
                   [] ~findSentTx(call[w].order) /\ (call[w].force \/ call[w].order \in Small) -> "float"
                   [] OTHER -> "queue"
<1>1. to \in {"record", "float", "queue"}
  BY Zenon
<1>2. Goes(w, to)
  BY Zenon DEF Look
<1> HIDE DEF to
<1> QED BY <1>1, <1>2

\* What can be raced is orders.
LEMMA RacingTyped ==
  ASSUME Types, NEW among \in SUBSET Workers, NEW inNode \in SUBSET Orders
  PROVE  Racing(among, inNode) \subseteq Orders
  BY DEF Types, CallsTyped, Racing

\* A send appends the order to the wallet, and coins leave it.
LEMMA SendAppends ==
  ASSUME Types, NEW o \in Orders, NEW among \in SUBSET Workers, NEW inNode \in SUBSET Orders,
         MakesSend(o, among, inNode)
  PROVE  /\ wallet' = Append(wallet, o) /\ wallet' \in Seq(Orders \cup {Other})
         /\ overtaken \subseteq overtaken' /\ overtaken' \subseteq overtaken \cup {o}
         /\ spent' \in Nat /\ raced' \subseteq Orders
         /\ spent' <= spent + Pcn[o] + MaxFee
<1>1. wallet' = Append(wallet, o) /\ wallet \in Seq(Orders \cup {Other})
  BY DEF MakesSend, Types
<1>2. wallet' \in Seq(Orders \cup {Other})
  BY <1>1, AppendProperties
<1>3. overtaken \subseteq overtaken' /\ overtaken' \subseteq overtaken \cup {o}
  BY DEF MakesSend
<1>4. spent' \in Nat /\ spent' <= spent + Pcn[o] + MaxFee
  <2>1. PICK fee \in 1..MaxFee : spent' = spent + (Pcn[o] + fee)
    BY DEF MakesSend, Costs
  <2>2. Pcn[o] \in Nat /\ MaxFee \in Nat /\ spent \in Nat
    BY DeliveryAssumption DEF Types
  <2> QED BY <2>1, <2>2
<1>5. raced' \subseteq Orders
  BY RacingTyped DEF MakesSend, Types
<1> QED BY <1>1, <1>2, <1>3, <1>4, <1>5

\* What the server dies with.
LEMMA CrashIdles ==
  ASSUME CallsTyped, Crash
  PROVE  CallsTyped' /\ \A v \in Workers : call'[v] = call[v] \/ call'[v].pc = "idle"
  BY DEF CallsTyped, Crash, Calls, Pcs, Idle

-----------------------------------------------------------------------------
(* Types.                                                                   *)

\* The row after it was put on another status.
LEMMA SetsTyped ==
  ASSUME Types, NEW o \in Orders, NEW st \in Statuses, Sets(o, st)
  PROVE  status' \in [Orders -> Statuses]
  BY DEF Types, Sets

\* The row after delivery marked it.
LEMMA HandlesTyped ==
  ASSUME Types, NEW o \in Orders, Handles(o)
  PROVE  handled' \in [Orders -> BOOLEAN]
  BY DEF Types, Handles

\* The row after the send was recorded.
LEMMA RecordTyped ==
  ASSUME Types, NEW o \in Orders, recordSent(o)
  PROVE  status' \in [Orders -> Statuses] /\ recorded' \in [Orders -> BOOLEAN]
<1>1. (IF recorded[o] THEN status[o] ELSE "delivered") \in Statuses
  BY DEF Types, Statuses
<1>2. status' \in [Orders -> Statuses]
  BY <1>1, SetsTyped DEF recordSent
<1>3. recorded' \in [Orders -> BOOLEAN]
  BY DEF recordSent, Types
<1> QED BY <1>2, <1>3

\* The row after the order was declared unsent.
LEMMA DeclaresTyped ==
  ASSUME Types, NEW o \in Orders, NEW among, DeclaresUnsent(o, among)
  PROVE  /\ status' \in [Orders -> Statuses] /\ handled' \in [Orders -> BOOLEAN]
         /\ overtaken \subseteq overtaken' /\ overtaken' \subseteq Orders
<1>1. status' \in [Orders -> Statuses] /\ handled' \in [Orders -> BOOLEAN]
  BY SetsTyped, HandlesTyped DEF DeclaresUnsent, Statuses
<1>2. overtaken \subseteq overtaken' /\ overtaken' \subseteq Orders
  BY DEF DeclaresUnsent, Types
<1> QED BY <1>1, <1>2

\* A call of deliver() keeps the types.
LEMMA CallTyped ==
  ASSUME Types, NEW w \in Workers, CallStep(w) \/ CallFault(w)
  PROVE  Types' /\ overtaken \subseteq overtaken'
<1> DEFINE o == call[w].order
<1>0. CallsTyped /\ (call[w].pc # "idle" => o \in Orders)
  BY DEF Types, CallsTyped
<1>1. CASE Release(w) \/ GiveBack(w)
  <2>1. o \in Orders /\ call[w].pc # "idle"
    BY <1>0, <1>1 DEF Release, GiveBack, At
  <2>2. status' \in [Orders -> Statuses]
    <3>1. status[o] \in Statuses
      BY <2>1 DEF Types
    <3>2. \E st \in Statuses : Sets(o, st)
      BY <1>1, <3>1 DEF Release, GiveBack, Statuses
    <3> QED BY <2>1, <3>2, SetsTyped
  <2>3. CallsTyped'
    BY <1>0, <1>1, <2>1, GoesTo, ReturnsTo DEF Release, GiveBack, Pcs
  <2>4. overtaken \subseteq overtaken' /\ overtaken' \subseteq Orders
    BY <1>1, <2>1 DEF Release, GiveBack, Types, history
  <2> QED BY <1>1, <2>2, <2>3, <2>4 DEF Release, GiveBack, node, history, Types
<1>2. CASE Select(w) \/ SendRefused(w) \/ LookAgain(w) \/ LookAgainFails(w)
  <2>1. call[w].pc # "idle"
    BY <1>2 DEF Select, SendRefused, LookAgain, LookAgainFails, At
  <2>2. CallsTyped'
    BY <1>0, <1>2, <2>1, GoesTo, ReturnsTo DEF Select, SendRefused, LookAgain, LookAgainFails, Pcs
  <2> QED BY <1>2, <2>2 DEF Select, SendRefused, LookAgain, LookAgainFails, row, node, history, Types
<1>3. CASE Look(w)
  <2>1. PICK pc \in {"record", "float", "queue"} : Goes(w, pc)
    BY <1>3, LookGoes
  <2>2. call[w].pc # "idle" /\ pc \in Pcs
    BY <1>3 DEF Look, At, Pcs
  <2>3. CallsTyped'
    BY <1>0, <2>1, <2>2, GoesTo
  <2>4. UNCHANGED <<row, node, sweep, history>>
    BY <1>3, Zenon DEF Look
  <2> QED BY <2>3, <2>4 DEF row, node, history, Types
<1>4. CASE LookFails(w) \/ Queue(w)
  <2>1. o \in Orders
    BY <1>0, <1>4 DEF LookFails, Queue, At
  <2>2. CallsTyped' /\ handled' \in [Orders -> BOOLEAN]
    BY <1>0, <1>4, <2>1, ReturnsTo DEF LookFails, Queue, Handles, Types
  <2> QED BY <1>4, <2>2 DEF LookFails, Queue, node, history, Types
<1>5. CASE Claim(w)
  <2>1. o \in Orders /\ call[w].pc # "idle"
    BY <1>0, <1>5 DEF Claim, At
  <2>2. CallsTyped'
    BY <1>0, <1>5, <2>1, GoesTo, ReturnsTo DEF Claim, Pcs
  <2>3. status' \in [Orders -> Statuses] /\ handled' \in [Orders -> BOOLEAN]
    BY <1>5, <2>1, SetsTyped, HandlesTyped DEF Claim, Types, Statuses
  <2> QED BY <1>5, <2>2, <2>3 DEF Claim, node, history, Types
<1>6. CASE ReadFloat(w) \/ Recheck(w) \/ RecheckUnreadable(w)
  <2>1. call[w].pc # "idle"
    BY <1>6 DEF ReadFloat, Recheck, RecheckUnreadable, At
  <2>2. CallsTyped'
    BY <1>0, <1>6, <2>1, GoesTo DEF ReadFloat, Recheck, RecheckUnreadable, Pcs
  <2>3. raced' \subseteq raced /\ overtaken' = overtaken
    BY <1>6 DEF ReadFloat, Recheck, RecheckUnreadable, history
  <2> QED BY <1>6, <2>2, <2>3 DEF ReadFloat, Recheck, RecheckUnreadable, row, node, Types
<1>7. CASE SendToAddress(w) \/ SendThrows(w)
  <2>1. o \in Orders /\ call[w].pc # "idle"
    BY <1>0, <1>7 DEF SendToAddress, SendThrows, At
  <2>2. CallsTyped'
    BY <1>0, <1>7, <2>1, GoesTo DEF SendToAddress, SendThrows, Pcs
  <2>3. /\ wallet' \in Seq(Orders \cup {Other}) /\ spent' \in Nat /\ raced' \subseteq Orders
        /\ overtaken \subseteq overtaken' /\ overtaken' \subseteq Orders
    <3>1. CASE MakesSend(o, Workers \ {w}, queued)
      BY <2>1, <3>1, SendAppends DEF Types
    <3>2. CASE UNCHANGED <<wallet, spent, history>>
      BY <3>2 DEF history, Types
    <3> QED BY <1>7, <3>1, <3>2 DEF SendToAddress, SendThrows
  <2> QED BY <1>7, <2>2, <2>3 DEF SendToAddress, SendThrows, row, Types
<1>8. CASE SendTimesOut(w)
  <2>1. o \in Orders /\ call[w].pc # "idle"
    BY <1>0, <1>8 DEF SendTimesOut, At
  <2>2. CallsTyped'
    BY <1>0, <1>8, <2>1, GoesTo DEF SendTimesOut, Pcs
  <2> QED BY <1>8, <2>1, <2>2 DEF SendTimesOut, row, history, Types
<1>9. CASE Review(w)
  <2>1. o \in Orders
    BY <1>0, <1>9 DEF Review, At
  <2>2. CallsTyped'
    BY <1>0, <1>9, ReturnsTo DEF Review
  <2>3. /\ status' \in [Orders -> Statuses] /\ handled' \in [Orders -> BOOLEAN]
        /\ overtaken \subseteq overtaken' /\ overtaken' \subseteq Orders
    BY <1>9, <2>1, DeclaresTyped DEF Review
  <2> QED BY <1>9, <2>2, <2>3 DEF Review, node, Types
<1>10. CASE Record(w)
  <2>1. o \in Orders
    BY <1>0, <1>10 DEF Record, At
  <2>2. CallsTyped'
    BY <1>0, <1>10, ReturnsTo DEF Record
  <2>3. status' \in [Orders -> Statuses] /\ recorded' \in [Orders -> BOOLEAN]
    BY <1>10, <2>1, RecordTyped DEF Record
  <2> QED BY <1>10, <2>2, <2>3 DEF Record, node, history, Types
<1>11. CASE CallThrows(w) \/ CliKilled(w)
  <2>1. CallsTyped'
    BY <1>0, <1>11, ReturnsTo DEF CallThrows, CliKilled
  <2> QED BY <1>11, <2>1 DEF CallThrows, CliKilled, row, node, history, Types
<1> QED BY <1>1, <1>2, <1>3, <1>4, <1>5, <1>6, <1>7, <1>8, <1>9, <1>10, <1>11 DEF CallStep, CallFault

\* So do the sweep, the operator and the world.
LEMMA StepTyped ==
  ASSUME Types, Next \/ UNCHANGED vars
  PROVE  Types' /\ overtaken \subseteq overtaken'
<1>1. ASSUME NEW w \in Workers, CallStep(w) \/ CallFault(w)
      PROVE  Types' /\ overtaken \subseteq overtaken'
  BY <1>1, CallTyped
<1>2. ASSUME NEW w \in Workers, NEW o \in Orders, SendAsked(w, o) \/ Deliver(w, o)
      PROVE  Types' /\ overtaken \subseteq overtaken'
  <2>1. CallsTyped'
    BY <1>2, StartsAt DEF Types, SendAsked, Deliver, Pcs
  <2> QED BY <1>2, <2>1 DEF SendAsked, Deliver, row, node, history, Types
<1>3. ASSUME NEW o \in Orders, markDelivered(o) PROVE Types' /\ overtaken \subseteq overtaken'
  <2>1. /\ status' \in [Orders -> Statuses] /\ recorded' \in [Orders -> BOOLEAN]
        /\ handled' \in [Orders -> BOOLEAN]
    BY <1>3, RecordTyped, HandlesTyped DEF markDelivered
  <2> QED BY <1>3, <2>1 DEF markDelivered, node, history, Types, CallsTyped
<1>4. ASSUME NEW o \in Orders, SweepThrows(o) \/ SweepLooks(o)
      PROVE  Types' /\ overtaken \subseteq overtaken'
  <2>1. sweep' \in Sweeps
    <3>1. sweep.todo \ {o} \in SUBSET Orders /\ findSentTx(o) \in BOOLEAN
      BY DEF Types, Sweeps, findSentTx
    <3>2. [todo |-> sweep.todo \ {o}, at |-> o, found |-> findSentTx(o)] \in Sweeps
      BY <3>1 DEF Sweeps
    <3>3. [AtRest EXCEPT !.todo = sweep.todo \ {o}] \in Sweeps
      BY <3>1 DEF AtRest, Sweeps
    <3> QED BY <1>4, <3>2, <3>3 DEF SweepThrows, SweepLooks
  <2> QED BY <1>4, <2>1 DEF SweepThrows, SweepLooks, row, node, history, Types, CallsTyped
<1>5. ASSUME NEW o \in Orders, LateSend(o) PROVE Types' /\ overtaken \subseteq overtaken'
  <2>1. /\ wallet' \in Seq(Orders \cup {Other}) /\ spent' \in Nat /\ raced' \subseteq Orders
        /\ overtaken \subseteq overtaken' /\ overtaken' \subseteq Orders
    <3>1. CASE MakesSend(o, Workers, queued \ {o})
      BY <3>1, SendAppends DEF Types
    <3>2. CASE UNCHANGED <<wallet, spent, history>>
      BY <3>2 DEF history, Types
    <3> QED BY <1>5, <3>1, <3>2 DEF LateSend
  <2> QED BY <1>5, <2>1 DEF LateSend, row, Types, CallsTyped
<1>6. CASE SweepStarts
  <2>1. sweep' \in Sweeps
    BY <1>6 DEF SweepStarts, Stuck, AtRest, Sweeps
  <2> QED BY <1>6, <2>1 DEF SweepStarts, row, node, history, Types, CallsTyped
<1>7. CASE SweepResolves
  <2>1. sweep.at \in Orders /\ sweep' \in Sweeps
    BY <1>7 DEF SweepResolves, AtRest, Sweeps, Types
  <2>2. /\ status' \in [Orders -> Statuses] /\ recorded' \in [Orders -> BOOLEAN]
        /\ handled' \in [Orders -> BOOLEAN]
        /\ overtaken \subseteq overtaken' /\ overtaken' \subseteq Orders
    BY <1>7, <2>1, RecordTyped, DeclaresTyped DEF SweepResolves, row, Types
  <2> QED BY <1>7, <2>1, <2>2 DEF SweepResolves, node, Types, CallsTyped
<1>8. CASE OtherEntry
  <2>1. wallet' \in Seq(Orders \cup {Other})
    BY <1>8, AppendProperties DEF OtherEntry, Types
  <2>2. spent' \in Nat /\ raced' \subseteq Orders
    BY <1>8, RacingTyped, DeliveryAssumption DEF OtherEntry, Types
  <2> QED BY <1>8, <2>1, <2>2 DEF OtherEntry, row, Types, CallsTyped
<1>9. CASE Crash
  <2>1. CallsTyped' /\ sweep' \in Sweeps
    BY <1>9, CrashIdles DEF Types, Crash, AtRest, Sweeps
  <2> QED BY <1>9, <2>1 DEF Crash, row, node, history, Types
<1>10. CASE UNCHANGED vars
  BY <1>10 DEF vars, row, node, history, Types, CallsTyped
<1> QED BY <1>1, <1>2, <1>3, <1>4, <1>5, <1>6, <1>7, <1>8, <1>9, <1>10 DEF Next, DeliveryStep, SweepStep
-----------------------------------------------------------------------------
(* The reserve.                                                             *)

\* A send that is to come, and that no other spend has raced, still has the room its
\* last reading of the balance saw.
Room == \A o \in Racing(Workers, queued) : o \in raced \/ HasRoom(o)

\* A call that has read the balance and whose send is still to come.
Nears(v) == call[v].pc \in {"claim", "recheck", "send"}

\* A step by which no further send is to come, and no coin is spent.
Spendless ==
  /\ Racing(Workers, queued)' \subseteq Racing(Workers, queued)
  /\ UNCHANGED <<wallet, spent, raced>>

\* Such a step keeps the room.
LEMMA SpendlessKeeps ==
  ASSUME Room, Spendless
  PROVE  Room'
  BY DEF Room, Spendless, HasRoom, floatBalance

\* Whose send is to come.
LEMMA InRacing ==
  ASSUME NEW among, NEW inNode, NEW o
  PROVE  o \in Racing(among, inNode) <=> o \in inNode \/ \E v \in among : Nears(v) /\ call[v].order = o
  BY DEF Racing, Nears

\* A step is spendless if no call comes near its send by it.
LEMMA NobodyNears ==
  ASSUME \A v \in Workers : Nears(v)' => Nears(v) /\ call'[v].order = call[v].order,
         queued' \subseteq Racing(Workers, queued), UNCHANGED <<wallet, spent, raced>>
  PROVE  Spendless
  BY DEF Spendless, Racing, Nears

\* A call that goes on to a point other than "claim" is no nearer.
LEMMA GoesNoNearer ==
  ASSUME CallsTyped, NEW w \in Workers, NEW pc \in Pcs, Goes(w, pc), call[w].pc # "idle",
         pc \in {"claim", "recheck", "send"} => Nears(w)
  PROVE  \A v \in Workers : Nears(v)' => Nears(v) /\ call'[v].order = call[v].order
<1>1. /\ call'[w].pc = pc /\ call'[w].order = call[w].order
      /\ \A v \in Workers : v # w => call'[v] = call[v]
  BY GoesTo
<1> QED BY <1>1 DEF Nears

\* Nor is one that returns.
LEMMA ReturnsNoNearer ==
  ASSUME CallsTyped, NEW w \in Workers, Returns(w)
  PROVE  \A v \in Workers : Nears(v)' => Nears(v) /\ call'[v].order = call[v].order
<1>1. call'[w].pc = "idle" /\ \A v \in Workers : v # w => call'[v] = call[v]
  BY ReturnsTo
<1> QED BY <1>1 DEF Nears

\* Most steps are spendless.
LEMMA MostAreSpendless ==
  ASSUME Types,
         \/ \E w \in Workers :
              \/ Release(w) \/ Select(w) \/ Look(w) \/ Queue(w) \/ Claim(w) \/ GiveBack(w)
              \/ SendRefused(w) \/ LookAgain(w) \/ Review(w) \/ Record(w) \/ LookFails(w)
              \/ RecheckUnreadable(w) \/ SendTimesOut(w) \/ LookAgainFails(w)
              \/ CallThrows(w) \/ CliKilled(w)
              \/ \E o \in Orders : SendAsked(w, o) \/ Deliver(w, o)
         \/ \E o \in Orders : markDelivered(o) \/ SweepThrows(o)
         \/ SweepStep \/ Crash \/ UNCHANGED vars
  PROVE  Spendless
<1>0. CallsTyped /\ queued \subseteq Racing(Workers, queued)
  BY DEF Types, Racing
<1>1. ASSUME NEW w \in Workers,
             \/ Release(w) \/ Select(w) \/ Queue(w) \/ Claim(w) \/ GiveBack(w) \/ SendRefused(w)
             \/ LookAgain(w) \/ Review(w) \/ Record(w) \/ RecheckUnreadable(w)
             \/ LookFails(w) \/ LookAgainFails(w) \/ CallThrows(w) \/ CliKilled(w)
      PROVE  Spendless
  <2>1. \/ Returns(w)
        \/ \E pc \in Pcs : /\ Goes(w, pc) /\ call[w].pc # "idle"
                           /\ pc \in {"claim", "recheck", "send"} => Nears(w)
    BY <1>1 DEF Release, Select, Queue, Claim, GiveBack, SendRefused, LookAgain, Review, Record,
       RecheckUnreadable, LookFails, LookAgainFails, CallThrows, CliKilled, At, Pcs, Nears
  <2>2. \A v \in Workers : Nears(v)' => Nears(v) /\ call'[v].order = call[v].order
    BY <1>0, <2>1, ReturnsNoNearer, GoesNoNearer
  <2>3. UNCHANGED <<wallet, spent, queued, raced>>
    BY <1>1 DEF Release, Select, Queue, Claim, GiveBack, SendRefused, LookAgain, Review, Record,
       RecheckUnreadable, LookFails, LookAgainFails, CallThrows, CliKilled, node, history
  <2> QED BY <1>0, <2>2, <2>3, NobodyNears
<1>2. ASSUME NEW w \in Workers, Look(w) PROVE Spendless
  <2>1. PICK pc \in {"record", "float", "queue"} : Goes(w, pc)
    BY <1>2, LookGoes
  <2>2. call[w].pc # "idle" /\ pc \in Pcs
    BY <1>2 DEF Look, At, Pcs
  <2>3. \A v \in Workers : Nears(v)' => Nears(v) /\ call'[v].order = call[v].order
    BY <1>0, <2>1, <2>2, GoesNoNearer
  <2>4. UNCHANGED <<node, history>>
    BY <1>2, Zenon DEF Look
  <2> QED BY <1>0, <2>3, <2>4, NobodyNears DEF node, history
<1>3. ASSUME NEW w \in Workers, NEW o \in Orders, SendAsked(w, o) \/ Deliver(w, o) PROVE Spendless
  <2>1. /\ call'[w].pc \in {"release", "select"}
        /\ \A v \in Workers : v # w => call'[v] = call[v]
    BY <1>0, <1>3, StartsAt DEF SendAsked, Deliver, Pcs
  <2>2. \A v \in Workers : Nears(v)' => Nears(v) /\ call'[v].order = call[v].order
    BY <2>1 DEF Nears
  <2> QED BY <1>0, <1>3, <2>2, NobodyNears DEF SendAsked, Deliver, node, history
<1>4. ASSUME NEW w \in Workers, SendTimesOut(w) PROVE Spendless
  <2>1. \A v \in Workers : Nears(v)' => Nears(v) /\ call'[v].order = call[v].order
    BY <1>0, <1>4, GoesNoNearer DEF SendTimesOut, At, Pcs
  <2>2. queued' = queued \cup {call[w].order} /\ UNCHANGED <<wallet, spent, raced>>
    BY <1>4 DEF SendTimesOut, history
  <2>3. call[w].order \in Racing(Workers, queued)
    BY <1>4, InRacing DEF SendTimesOut, At, Nears
  <2> QED BY <1>0, <2>1, <2>2, <2>3, NobodyNears
<1>5. ASSUME \/ \E o \in Orders : markDelivered(o) \/ SweepThrows(o)
             \/ SweepStep \/ UNCHANGED vars
      PROVE  Spendless
  <2>1. UNCHANGED <<call, wallet, spent, queued, raced>>
    BY <1>5 DEF markDelivered, SweepThrows, SweepStep, SweepStarts, SweepLooks, SweepResolves,
       node, history, vars
  <2> QED BY <1>0, <2>1, NobodyNears DEF Nears
<1>6. ASSUME Crash PROVE Spendless
  <2>1. \A v \in Workers : Nears(v)' => Nears(v) /\ call'[v].order = call[v].order
    BY <1>0, <1>6, CrashIdles DEF Nears
  <2> QED BY <1>0, <1>6, <2>1, NobodyNears DEF Crash, node, history
<1> QED BY <1>1, <1>2, <1>3, <1>4, <1>5, <1>6

\* One more entry.
LEMMA OneMoreEntry ==
  ASSUME Types, NEW e \in Orders \cup {Other}, wallet' = Append(wallet, e)
  PROVE  /\ Len(wallet) \in Nat /\ Len(wallet') = Len(wallet) + 1
         /\ wallet'[Len(wallet')] = e
<1>1. wallet \in Seq(Orders \cup {Other})
  BY DEF Types
<1> QED BY <1>1, AppendProperties, LenProperties

\* A send for which there was room leaves the reserve, less a fee.
LEMMA SendLeaves ==
  ASSUME Types, NEW o \in Orders, NEW among \in SUBSET Workers, NEW inNode \in SUBSET Orders,
         MakesSend(o, among, inNode), HasRoom(o)
  PROVE  floatBalance' >= Stop - MaxFee
<1>1. spent' \in Nat /\ spent' <= spent + Pcn[o] + MaxFee
  BY SendAppends
<1>2. Float \in Nat /\ Stop \in Nat /\ MaxFee \in Nat /\ Pcn[o] \in Nat /\ spent \in Nat
  BY DeliveryAssumption DEF Types
<1>3. Float - spent - Pcn[o] >= Stop
  BY DEF HasRoom, floatBalance
<1>4. floatBalance' = Float - spent'
  BY DEF floatBalance
<1>5. Float - spent' >= Stop - MaxFee
  <2>1. ASSUME NEW f \in Nat, NEW r \in Nat, NEW m \in Nat, NEW q \in Nat, NEW s \in Nat, NEW t \in Nat,
               t <= s + q + m, f - s - q >= r
        PROVE  f - t >= r - m
    BY <2>1
  <2> QED BY <1>1, <1>2, <1>3, <2>1
<1> QED BY <1>4, <1>5

\* Every step keeps the room, and a delivery it makes leaves the reserve, less a fee.
LEMMA RoomStep ==
  ASSUME Types, Room, Next \/ UNCHANGED vars
  PROVE  /\ Room'
         /\ Len(wallet') > Len(wallet) /\ wallet'[Len(wallet')] # Other
              => floatBalance' >= Stop - MaxFee \/ wallet'[Len(wallet')] \in raced
<1> DEFINE Leaves ==
      Len(wallet') > Len(wallet) /\ wallet'[Len(wallet')] # Other
        => floatBalance' >= Stop - MaxFee \/ wallet'[Len(wallet')] \in raced
<1>0. CallsTyped /\ Len(wallet) \in Nat
  BY LenProperties DEF Types
<1>1. ASSUME Spendless PROVE Room' /\ Leaves
  BY <1>0, <1>1, SpendlessKeeps DEF Spendless
<1>2. ASSUME NEW w \in Workers, ReadFloat(w) \/ Recheck(w) PROVE Room' /\ Leaves
  <2> DEFINE o == call[w].order
  <2>1. /\ call[w].pc \in {"float", "recheck"} /\ call'[w].order = o
        /\ \A v \in Workers : v # w => call'[v] = call[v]
    BY <1>0, <1>2, GoesTo DEF ReadFloat, Recheck, At, Pcs
  <2>2. UNCHANGED <<wallet, spent, queued>>
    BY <1>2 DEF ReadFloat, Recheck, node
  <2>3. CASE HasRoom(o)
    <3>1. raced' = raced \ {o}
      BY <1>2, <2>3 DEF ReadFloat, Recheck
    <3>2. \A p \in Racing(Workers, queued)' : p = o \/ p \in Racing(Workers, queued)
      BY <2>1, <2>2 DEF Racing
    <3> QED BY <2>2, <2>3, <3>1, <3>2 DEF Room, HasRoom, floatBalance
  <2>4. CASE ~HasRoom(o)
    <3>1. call'[w].pc \in {"queue", "giveback"} /\ raced' = raced
      BY <1>0, <1>2, <2>1, <2>4, GoesTo DEF ReadFloat, Recheck, Pcs
    <3>2. Spendless
      BY <2>1, <2>2, <3>1 DEF Spendless, Racing
    <3> QED BY <1>1, <3>2
  <2>5. Leaves
    BY <1>0, <2>2
  <2> QED BY <2>3, <2>4, <2>5
<1>3. ASSUME NEW w \in Workers, At(w, "send"), MakesSend(call[w].order, Workers \ {w}, queued),
             Goes(w, "record") \/ Goes(w, "failed"), queued' = queued
      PROVE  Room' /\ Leaves
  <2>1. /\ call[w].order \in Orders /\ call'[w].pc \in {"record", "failed"}
        /\ \A v \in Workers : v # w => call'[v] = call[v]
    BY <1>0, <1>3, GoesTo DEF At, Pcs, CallsTyped
  <2>2. Room'
    <3>1. Racing(Workers, queued)' \subseteq Racing(Workers \ {w}, queued)
      BY <1>3, <2>1 DEF Racing
    <3>2. Racing(Workers \ {w}, queued) \subseteq raced'
      BY <1>3 DEF MakesSend
    <3> QED BY <3>1, <3>2 DEF Room
  <2>3. call[w].order \in raced \/ HasRoom(call[w].order)
    BY <1>3, InRacing DEF Room, At, Nears
  <2>4. queued \in SUBSET Orders /\ wallet' = Append(wallet, call[w].order)
    BY <1>3 DEF Types, MakesSend
  <2>5. Leaves
    BY <1>3, <2>1, <2>3, <2>4, OneMoreEntry, SendLeaves
  <2> QED BY <2>2, <2>5
<1>4. ASSUME NEW w \in Workers, SendToAddress(w) \/ SendThrows(w) PROVE Room' /\ Leaves
  <2>1. CASE MakesSend(call[w].order, Workers \ {w}, queued)
    <3>1. At(w, "send") /\ queued' = queued /\ (Goes(w, "record") \/ Goes(w, "failed"))
      BY <1>4 DEF SendToAddress, SendThrows
    <3> HIDE DEF Leaves
    <3> QED BY <1>3, <2>1, <3>1
  <2>2. CASE ~MakesSend(call[w].order, Workers \ {w}, queued)
    <3>1. /\ At(w, "send") /\ Goes(w, "failed")
          /\ UNCHANGED <<wallet, spent, history, queued>>
      BY <1>4, <2>2 DEF SendToAddress, SendThrows
    <3>2. \A v \in Workers : Nears(v)' => Nears(v) /\ call'[v].order = call[v].order
      BY <1>0, <3>1, GoesNoNearer DEF At, Pcs
    <3>3. queued \subseteq Racing(Workers, queued)
      BY DEF Racing
    <3>4. Spendless
      BY <3>1, <3>2, <3>3, NobodyNears DEF history
    <3> HIDE DEF Leaves
    <3> QED BY <1>1, <3>4
  <2> QED BY <2>1, <2>2
<1>5. ASSUME NEW o \in Orders, LateSend(o) PROVE Room' /\ Leaves
  <2>1. o \in queued /\ queued' = queued \ {o} /\ call' = call
    BY <1>5 DEF LateSend
  <2>2. CASE MakesSend(o, Workers, queued \ {o})
    <3>1. Room'
      <4>1. Racing(Workers, queued)' = Racing(Workers, queued \ {o})
        BY <2>1 DEF Racing
      <4>2. Racing(Workers, queued \ {o}) \subseteq raced'
        BY <2>2 DEF MakesSend
      <4> QED BY <4>1, <4>2 DEF Room
    <3>2. o \in raced \/ HasRoom(o)
      BY <2>1, InRacing DEF Room
    <3>3. queued \ {o} \in SUBSET Orders /\ wallet' = Append(wallet, o)
      BY <2>2 DEF Types, MakesSend
    <3>4. Leaves
      BY <2>2, <3>2, <3>3, OneMoreEntry, SendLeaves
    <3> QED BY <3>1, <3>4
  <2>3. CASE ~MakesSend(o, Workers, queued \ {o})
    <3>1. UNCHANGED <<wallet, spent, raced>>
      BY <1>5, <2>3 DEF LateSend, history
    <3>2. Spendless
      BY <2>1, <3>1 DEF Spendless, Racing
    <3> HIDE DEF Leaves
    <3> QED BY <1>1, <3>2
  <2> QED BY <2>2, <2>3
<1>6. ASSUME OtherEntry PROVE Room' /\ Leaves
  <2>1. /\ wallet' = Append(wallet, Other) /\ UNCHANGED <<queued, call>>
        /\ Racing(Workers, queued) \subseteq raced'
    BY <1>6 DEF OtherEntry
  <2>2. Racing(Workers, queued)' = Racing(Workers, queued)
    BY <2>1 DEF Racing
  <2>3. Room'
    BY <2>1, <2>2 DEF Room
  <2>4. Leaves
    BY <2>1, OneMoreEntry
  <2> QED BY <2>3, <2>4
<1> HIDE DEF Leaves
<1>7. Room' /\ Leaves
  BY <1>1, <1>2, <1>4, <1>5, <1>6, MostAreSpendless DEF Next, DeliveryStep, CallStep, CallFault
<1> QED BY <1>7 DEF Leaves

\* The delivery's specification starts typed, with the whole float.
LEMMA DeliveryStarts == Init => Types /\ Room
<1> SUFFICES ASSUME Init PROVE Types /\ Room
  OBVIOUS
<1>1. wallet \in Seq(Orders \cup {Other})
  BY EmptySeq DEF Init
<1>2. CallsTyped
  BY DEF Init, CallsTyped, Calls, Pcs, Idle
<1>3. sweep \in Sweeps
  BY DEF Init, AtRest, Sweeps
<1>4. Types
  BY <1>1, <1>2, <1>3 DEF Init, Types, Statuses
<1>5. Room
  BY DEF Init, Room, Racing, Idle
<1> QED BY <1>4, <1>5

\* The floor of delivery.mjs, for any number of orders of any size: whichever calls,
\* sweeps, crashes and late sends come together, a delivery leaves S.stop() coins
\* less at most one network fee, which its two checks do not count, unless another
\* spend was made after the order's last reading of the balance.
THEOREM ReserveIsKept == Spec => ReserveHolds
<1>1. Types /\ Room /\ [Next]_vars => (Types /\ Room)'
  BY StepTyped, RoomStep
<1>2. Types /\ Room /\ [Next]_vars =>
        [Len(wallet') > Len(wallet) /\ wallet'[Len(wallet')] # Other
           => floatBalance' >= Stop - MaxFee \/ wallet'[Len(wallet')] \in raced]_vars
  BY RoomStep
<1> QED BY <1>1, <1>2, DeliveryStarts, PTL DEF Spec, ReserveHolds
-----------------------------------------------------------------------------
(* Sending twice.                                                           *)

\* Call w has claimed o and its send has not been made.
Owes(w, o) == call[w].order = o /\ call[w].pc \in {"recheck", "send"}

\* Call w was told that o was not sent, and has not said so yet.
Doubts(w, o) == call[w].order = o /\ call[w].pc = "review"

\* The sweep was.
SweepDoubts(o) == sweep.at = o /\ ~sweep.found

\* The order can be claimed, now or after an operator releases it.
Offered(o) == status[o] \in {"awaiting_delivery", "needs_review"} /\ ~recorded[o]

\* An order that can be claimed has no send in sight, in the node or coming; one
\* send is coming at most, and none while one is in sight; a verdict of "not sent"
\* is still true when it is written.
Safe(o) ==
  /\ Offered(o) => ~findSentTx(o) /\ o \notin queued /\ \A w \in Workers : ~Owes(w, o)
  /\ \A w \in Workers :
       Owes(w, o) => ~findSentTx(o) /\ o \notin queued /\ \A v \in Workers : Owes(v, o) => v = w
  /\ o \in queued => ~findSentTx(o)
  /\ \A w \in Workers : Doubts(w, o) => ~findSentTx(o)
  /\ SweepDoubts(o) => ~findSentTx(o)

Sound == \A o \in Orders : o \notin overtaken => Safe(o)

\* A step that gives o nothing new to go wrong.
Calm(o) ==
  /\ Offered(o)' => Offered(o)
  /\ \A w \in Workers : (Owes(w, o)' => Owes(w, o)) /\ (Doubts(w, o)' => Doubts(w, o))
  /\ o \in queued' => o \in queued
  /\ SweepDoubts(o)' => SweepDoubts(o)
  /\ findSentTx(o)' => findSentTx(o)

\* Such a step keeps o safe.
LEMMA CalmKeeps ==
  ASSUME NEW o, Safe(o), Calm(o)
  PROVE  Safe(o)'
  BY DEF Safe, Calm, Owes, Doubts

\* The calls of a step by which no call owes a send, or doubts one, that did not.
CalmCalls ==
  \A w \in Workers, o \in Orders : (Owes(w, o)' => Owes(w, o)) /\ (Doubts(w, o)' => Doubts(w, o))

\* A call that goes anywhere else is calm.
LEMMA GoesCalm ==
  ASSUME CallsTyped, NEW w \in Workers, NEW pc \in Pcs, Goes(w, pc), call[w].pc # "idle",
         pc \notin {"recheck", "review"}, pc = "send" => call[w].pc = "recheck"
  PROVE  CalmCalls
<1>1. /\ call'[w].pc = pc /\ call'[w].order = call[w].order
      /\ \A v \in Workers : v # w => call'[v] = call[v]
  BY GoesTo
<1> QED BY <1>1 DEF CalmCalls, Owes, Doubts

\* A call that returns is.
LEMMA ReturnsCalm ==
  ASSUME CallsTyped, NEW w \in Workers, Returns(w)
  PROVE  CalmCalls
<1>1. call'[w].pc = "idle" /\ \A v \in Workers : v # w => call'[v] = call[v]
  BY ReturnsTo
<1> QED BY <1>1 DEF CalmCalls, Owes, Doubts

\* One more entry in the wallet brings nobody else's send into sight.
LEMMA EntryCalm ==
  ASSUME Types, NEW e \in Orders \cup {Other}, NEW o \in Orders, wallet' = Append(wallet, e), o # e
  PROVE  findSentTx(o)' => findSentTx(o)
<1>1. wallet \in Seq(Orders \cup {Other}) /\ Len(wallet) \in Nat /\ Window \in Nat
  BY LenProperties, DeliveryAssumption DEF Types
<1>2. /\ Len(wallet') = Len(wallet) + 1 /\ wallet'[Len(wallet) + 1] = e
      /\ \A i \in 1..Len(wallet) : wallet'[i] = wallet[i]
      /\ DOMAIN wallet = 1..Len(wallet) /\ DOMAIN wallet' = 1..(Len(wallet) + 1)
  BY <1>1, AppendProperties, LenProperties
<1> QED BY <1>1, <1>2 DEF findSentTx

\* An entry keeps SentTwiceOnlyBlind if no send of its order is in sight.
LEMMA EntryBlind ==
  ASSUME Types, SentTwiceOnlyBlind, overtaken \subseteq overtaken',
         NEW e \in Orders \cup {Other}, wallet' = Append(wallet, e),
         e = Other \/ e \in overtaken' \/ ~findSentTx(e)
  PROVE  SentTwiceOnlyBlind'
<1>1. wallet \in Seq(Orders \cup {Other}) /\ Len(wallet) \in Nat /\ Window \in Nat
  BY LenProperties, DeliveryAssumption DEF Types
<1>2. /\ Len(wallet') = Len(wallet) + 1 /\ wallet'[Len(wallet) + 1] = e
      /\ \A i \in 1..Len(wallet) : wallet'[i] = wallet[i]
      /\ DOMAIN wallet = 1..Len(wallet) /\ DOMAIN wallet' = 1..(Len(wallet) + 1)
  BY <1>1, AppendProperties, LenProperties
<1> SUFFICES ASSUME NEW i \in DOMAIN wallet', NEW j \in DOMAIN wallet', i < j,
                    wallet'[i] = wallet'[j], wallet'[i] # Other
             PROVE  i + Window < j \/ wallet'[i] \in overtaken'
  BY DEF SentTwiceOnlyBlind
<1>3. CASE j <= Len(wallet)
  BY <1>1, <1>2, <1>3 DEF SentTwiceOnlyBlind
<1>4. CASE j = Len(wallet) + 1
  <2>1. i \in DOMAIN wallet /\ wallet[i] = e /\ wallet'[i] = e
    BY <1>1, <1>2, <1>4
  <2>2. CASE ~findSentTx(e)
    BY <1>1, <1>4, <2>1, <2>2 DEF findSentTx
  <2> QED BY <2>1, <2>2
<1> QED BY <1>1, <1>2, <1>3, <1>4

\* The steps that offer no order, look at none and send none are calm for all.
LEMMA CalmStep ==
  ASSUME Types, Sound, CalmCalls, overtaken \subseteq overtaken',
         wallet' = wallet, queued' \subseteq queued,
         \A o \in Orders : o \notin overtaken' => (Offered(o)' => Offered(o)),
         \A o \in Orders : SweepDoubts(o)' => SweepDoubts(o)
  PROVE  Sound'
<1> SUFFICES ASSUME NEW o \in Orders, o \notin overtaken' PROVE Safe(o)'
  BY DEF Sound
<1>1. Safe(o)
  BY DEF Sound
<1>2. findSentTx(o)' => findSentTx(o)
  BY DEF findSentTx
<1>3. Calm(o)
  BY <1>2 DEF Calm, CalmCalls
<1> QED BY <1>1, <1>3, CalmKeeps

\* Nor does a recorded order come back.
LEMMA RecordCalm ==
  ASSUME Types, NEW o \in Orders, recordSent(o)
  PROVE  \A p \in Orders : Offered(p)' => Offered(p)
  BY DEF Types, recordSent, Sets, Offered

\* A send made where one is owed or queued, and nothing else of that order is.
LEMMA SendSound ==
  ASSUME Types, Sound, SentTwiceOnlyBlind, NEW o \in Orders, CalmCalls,
         NEW among \in SUBSET Workers, NEW inNode \in SUBSET Orders, MakesSend(o, among, inNode),
         UNCHANGED <<row, sweep>>, queued' \subseteq queued,
         \/ o \in queued /\ o \notin queued'
         \/ \E w \in Workers : Owes(w, o) /\ ~Owes(w, o)'
  PROVE  Sound' /\ SentTwiceOnlyBlind'
<1>1. wallet' = Append(wallet, o) /\ overtaken \subseteq overtaken'
  BY SendAppends
<1>2. o \in overtaken \/ ~findSentTx(o)
  BY DEF Sound, Safe
<1>3. SentTwiceOnlyBlind'
  BY <1>1, <1>2, EntryBlind
<1>4. \A p \in Orders : (Offered(p)' => Offered(p)) /\ (SweepDoubts(p)' => SweepDoubts(p))
  BY DEF Offered, SweepDoubts, row
<1>5. ASSUME NEW p \in Orders, p # o, p \notin overtaken' PROVE Safe(p)'
  <2>1. Safe(p)
    BY <1>1, <1>5 DEF Sound
  <2>2. findSentTx(p)' => findSentTx(p)
    BY <1>1, <1>5, EntryCalm
  <2>3. Calm(p)
    BY <1>4, <2>2 DEF Calm, CalmCalls
  <2> QED BY <2>1, <2>3, CalmKeeps
<1>6. ASSUME o \notin overtaken' PROVE Safe(o)'
  <2>1. Safe(o)
    BY <1>1, <1>6 DEF Sound
  <2>2. ~SweepDoubts(o) /\ \A w \in Workers : ~Doubts(w, o)
    BY <1>6 DEF MakesSend, SweepDoubts, Doubts, At
  <2>3. ~SweepDoubts(o)' /\ \A w \in Workers : ~Doubts(w, o)'
    BY <1>4, <2>2 DEF CalmCalls
  <2>4. ~Offered(o)
    BY <2>1 DEF Safe
  <2>5. ~Offered(o)'
    BY <1>4, <2>4
  <2>6. o \notin queued' /\ \A w \in Workers : ~Owes(w, o)'
    BY <2>1 DEF Safe, CalmCalls
  <2> QED BY <2>3, <2>5, <2>6 DEF Safe
<1> QED BY <1>3, <1>5, <1>6 DEF Sound

\* An order is put back as unsent by a verdict that is true, or counts as overtaken.
LEMMA PutBackSound ==
  ASSUME Types, Sound, CalmCalls, NEW o \in Orders, NEW st \in Statuses, Sets(o, st),
         recorded' = recorded, wallet' = wallet, queued' = queued, overtaken \subseteq overtaken',
         \A p \in Orders : SweepDoubts(p)' => SweepDoubts(p),
         o \notin overtaken' =>
           ~findSentTx(o) /\ o \notin queued /\ \A w \in Workers : ~Owes(w, o)'
  PROVE  Sound'
<1>1. \A p \in Orders : p # o => (Offered(p)' => Offered(p))
  BY DEF Types, Sets, Offered
<1>2. \A p \in Orders : findSentTx(p)' => findSentTx(p)
  BY DEF findSentTx
<1>3. ASSUME NEW p \in Orders, p # o, p \notin overtaken' PROVE Safe(p)'
  <2>1. Safe(p) /\ Calm(p)
    BY <1>1, <1>2, <1>3 DEF Sound, Calm, CalmCalls
  <2> QED BY <2>1, CalmKeeps
<1>4. ASSUME o \notin overtaken' PROVE Safe(o)'
  <2>1. ~findSentTx(o)' /\ o \notin queued' /\ \A w \in Workers : ~Owes(w, o)'
    BY <1>2, <1>4
  <2> QED BY <2>1 DEF Safe
<1> QED BY <1>3, <1>4 DEF Sound

\* A call of deliver() keeps every order sound.
LEMMA CallSound ==
  ASSUME Types, Sound, SentTwiceOnlyBlind, NEW w \in Workers, CallStep(w) \/ CallFault(w)
  PROVE  Sound' /\ SentTwiceOnlyBlind'
<1>a. call[w].pc # "idle"
  BY Zenon DEF CallStep, CallFault, Release, Select, Look, Queue, ReadFloat, Claim, Recheck, GiveBack,
     SendToAddress, SendRefused, LookAgain, Review, Record, LookFails, RecheckUnreadable, SendThrows,
     SendTimesOut, LookAgainFails, CallThrows, CliKilled, At
<1>b. PICK o \in Orders : call[w].order = o
  BY <1>a DEF Types, CallsTyped
<1>0. CallsTyped /\ overtaken \subseteq overtaken' /\ call[w].order = o
  BY <1>b, CallTyped DEF Types
<1>1. ASSUME CalmCalls, UNCHANGED <<status, recorded, node, sweep>> PROVE Sound' /\ SentTwiceOnlyBlind'
  <2>1. \A p \in Orders : (Offered(p)' => Offered(p)) /\ (SweepDoubts(p)' => SweepDoubts(p))
    BY <1>1 DEF Offered, SweepDoubts
  <2>2. wallet' = wallet /\ queued' = queued
    BY <1>1 DEF node
  <2>3. Sound'
    BY <1>0, <1>1, <2>1, <2>2, CalmStep
  <2>4. SentTwiceOnlyBlind'
    BY <1>0, <2>2 DEF SentTwiceOnlyBlind
  <2> QED BY <2>3, <2>4
<1>2. CASE Select(w) \/ ReadFloat(w) \/ Recheck(w) \/ RecheckUnreadable(w) \/ SendRefused(w)
  <2>1. CalmCalls
    BY <1>0, <1>2, GoesCalm, ReturnsCalm
       DEF Select, ReadFloat, Recheck, RecheckUnreadable, SendRefused, At, Pcs
  <2> QED BY <1>1, <1>2, <2>1 DEF Select, ReadFloat, Recheck, RecheckUnreadable, SendRefused, row
<1>3. CASE Look(w)
  <2>1. PICK pc \in {"record", "float", "queue"} : Goes(w, pc)
    BY <1>3, LookGoes
  <2>2. call[w].pc # "idle" /\ pc \in Pcs
    BY <1>3 DEF Look, At, Pcs
  <2>3. CalmCalls
    BY <1>0, <2>1, <2>2, GoesCalm
  <2>4. UNCHANGED <<row, node, sweep>>
    BY <1>3, Zenon DEF Look
  <2> QED BY <1>1, <2>3, <2>4 DEF row
<1>4. CASE LookFails(w) \/ Queue(w) \/ LookAgainFails(w) \/ CallThrows(w) \/ CliKilled(w)
  <2>1. CalmCalls
    BY <1>0, <1>4, ReturnsCalm DEF LookFails, Queue, LookAgainFails, CallThrows, CliKilled
  <2> QED BY <1>1, <1>4, <2>1 DEF LookFails, Queue, LookAgainFails, CallThrows, CliKilled, row
<1>5. CASE Release(w)
  <2>1. CalmCalls
    BY <1>0, <1>5, GoesCalm DEF Release, At, Pcs
  <2>2. \A p \in Orders : (Offered(p)' => Offered(p)) /\ (SweepDoubts(p)' => SweepDoubts(p))
    BY <1>5, <2>1 DEF Release, Sets, Offered, SweepDoubts, Types
  <2>3. wallet' = wallet /\ queued' = queued
    BY <1>5 DEF Release, node
  <2>4. Sound'
    BY <1>0, <2>1, <2>2, <2>3, CalmStep
  <2> QED BY <1>0, <2>3, <2>4 DEF SentTwiceOnlyBlind
<1>6. CASE Claim(w)
  <2>1. /\ wallet' = wallet /\ spent' = spent /\ queued' = queued
        /\ recorded' = recorded /\ sweep' = sweep
    BY <1>0, <1>6 DEF Claim, At, node
  <2>2. CASE ~Claimable(o)
    <3>1. CalmCalls /\ status' = status
      BY <1>0, <1>6, <2>2, ReturnsCalm DEF Claim
    <3> QED BY <1>1, <2>1, <3>1 DEF node
  <2>3. CASE Claimable(o)
    <3>1. /\ call'[w].pc = "recheck" /\ call'[w].order = o
          /\ \A v \in Workers : v # w => call'[v] = call[v]
      BY <1>0, <1>6, <2>3, GoesTo DEF Claim, At, Pcs
    <3>2. status' = [status EXCEPT ![o] = "sending"] /\ overtaken' = overtaken
      BY <1>0, <1>6, <2>3 DEF Claim, Sets, history
    <3>3. \A p \in Orders : (Offered(p)' => Offered(p)) /\ (SweepDoubts(p)' => SweepDoubts(p))
      BY <2>1, <3>2 DEF Offered, SweepDoubts, Types
    <3>4. \A p \in Orders : findSentTx(p)' => findSentTx(p)
      BY <2>1 DEF findSentTx
    <3>5. ASSUME NEW p \in Orders, p # o, p \notin overtaken PROVE Safe(p)'
      <4>1. \A v \in Workers : (Owes(v, p)' => Owes(v, p)) /\ (Doubts(v, p)' => Doubts(v, p))
        BY <3>1, <3>5 DEF Owes, Doubts
      <4>2. Safe(p) /\ Calm(p)
        BY <2>1, <3>3, <3>4, <3>5, <4>1 DEF Sound, Calm
      <4> QED BY <4>2, CalmKeeps
    <3>6. ASSUME o \notin overtaken PROVE Safe(o)'
      <4>1. Safe(o) /\ Offered(o)
        BY <2>1, <2>3, <3>6 DEF Sound, Claimable, Offered
      <4>2. ~findSentTx(o) /\ o \notin queued /\ \A v \in Workers : ~Owes(v, o)
        BY <4>1 DEF Safe
      <4>3. \A v \in Workers : Owes(v, o)' => v = w
        BY <3>1, <4>2 DEF Owes
      <4>4. ~findSentTx(o)' /\ o \notin queued' /\ ~Offered(o)'
        BY <2>1, <3>2, <3>4, <4>2 DEF Offered, Types
      <4> QED BY <4>3, <4>4 DEF Safe
    <3>7. Sound'
      BY <3>2, <3>5, <3>6 DEF Sound
    <3> QED BY <2>1, <3>2, <3>7 DEF SentTwiceOnlyBlind
  <2> QED BY <2>2, <2>3
<1>7. CASE GiveBack(w)
  <2>1. CalmCalls /\ status[o] \in Statuses
    BY <1>0, <1>7, ReturnsCalm DEF GiveBack, At, Types
  <2>2. /\ wallet' = wallet /\ spent' = spent /\ queued' = queued
        /\ recorded' = recorded /\ sweep' = sweep
        /\ \A p \in Orders : SweepDoubts(p)' => SweepDoubts(p)
    BY <1>7 DEF GiveBack, node, SweepDoubts
  <2>3. CASE status[o] # "sending"
    <3>1. status' = status
      BY <1>0, <1>7, <2>1, <2>3 DEF GiveBack, Sets, Types
    <3> QED BY <1>1, <2>1, <2>2, <3>1 DEF node
  <2>4. CASE status[o] = "sending"
    <3>1. Sets(o, "awaiting_delivery") /\ "awaiting_delivery" \in Statuses
      BY <1>0, <1>7, <2>4 DEF GiveBack, Statuses
    <3>2. o \notin overtaken' => ~findSentTx(o) /\ ~UnderWay(o, Workers \ {w})
      BY <1>0, <1>7, <2>4 DEF GiveBack
    <3>3. call'[w].pc = "idle" /\ \A v \in Workers : v # w => call'[v] = call[v]
      BY <1>0, <1>7, ReturnsTo DEF GiveBack
    <3>4. o \notin overtaken' => o \notin queued /\ \A v \in Workers : ~Owes(v, o)'
      BY <3>2, <3>3 DEF UnderWay, Owes
    <3>5. Sound'
      BY <1>0, <2>1, <2>2, <3>1, <3>2, <3>4, PutBackSound
    <3> QED BY <1>0, <2>2, <3>5 DEF SentTwiceOnlyBlind
  <2> QED BY <2>3, <2>4
<1>8. CASE SendToAddress(w) \/ SendThrows(w)
  <2>1. call[w].pc = "send" /\ UNCHANGED <<row, sweep>> /\ queued' = queued
    BY <1>0, <1>8 DEF SendToAddress, SendThrows, At
  <2>2. PICK pc \in {"record", "failed"} : Goes(w, pc)
    BY <1>8 DEF SendToAddress, SendThrows
  <2>3. CalmCalls /\ call'[w].pc = pc
    BY <1>0, <2>1, <2>2, GoesCalm, GoesTo DEF Pcs
  <2>4. CASE MakesSend(o, Workers \ {w}, queued)
    <3>1. Owes(w, o) /\ ~Owes(w, o)' /\ queued \in SUBSET Orders
      BY <1>0, <2>1, <2>2, <2>3 DEF Owes, Types
    <3> QED BY <2>1, <2>3, <2>4, <3>1, SendSound
  <2>5. CASE UNCHANGED <<wallet, spent, history>>
    BY <1>1, <2>1, <2>3, <2>5 DEF row, node
  <2> QED BY <1>0, <1>8, <2>4, <2>5 DEF SendToAddress, SendThrows
<1>9. CASE SendTimesOut(w)
  <2>1. /\ call[w].pc = "send" /\ UNCHANGED <<row, wallet, sweep, history>>
        /\ queued' = queued \cup {o} /\ Goes(w, "failed")
    BY <1>0, <1>9 DEF SendTimesOut, At
  <2>2. CalmCalls /\ call'[w].pc = "failed"
    BY <1>0, <2>1, GoesCalm, GoesTo DEF Pcs
  <2>3. \A p \in Orders : (Offered(p)' => Offered(p)) /\ (SweepDoubts(p)' => SweepDoubts(p))
    BY <2>1 DEF Offered, SweepDoubts, row
  <2>4. (\A p \in Orders : findSentTx(p)' = findSentTx(p)) /\ overtaken' = overtaken
    BY <2>1 DEF findSentTx, history
  <2>5. ASSUME NEW p \in Orders, p # o, p \notin overtaken PROVE Safe(p)'
    <3>1. Safe(p) /\ Calm(p)
      BY <2>1, <2>2, <2>3, <2>4, <2>5 DEF Sound, Calm, CalmCalls
    <3> QED BY <3>1, CalmKeeps
  <2>6. ASSUME o \notin overtaken PROVE Safe(o)'
    <3>1. Safe(o) /\ Owes(w, o)
      BY <1>0, <2>1, <2>6 DEF Sound, Owes
    <3>2. ~findSentTx(o) /\ \A v \in Workers : Owes(v, o) => v = w
      BY <3>1 DEF Safe
    <3>3. ~findSentTx(o)' /\ \A v \in Workers : ~Owes(v, o)'
      BY <2>1, <2>2, <2>4, <3>2 DEF CalmCalls, Owes
    <3>4. ~Offered(o)'
      BY <2>1, <2>3, <3>1 DEF Safe
    <3> QED BY <3>3, <3>4 DEF Safe
  <2>7. Sound'
    BY <2>4, <2>5, <2>6 DEF Sound
  <2> QED BY <2>1, <2>4, <2>7 DEF SentTwiceOnlyBlind
<1>10. CASE LookAgain(w)
  <2>1. call[w].pc = "failed" /\ UNCHANGED <<row, node, sweep, history>>
    BY <1>0, <1>10 DEF LookAgain, At
  <2>2. CASE findSentTx(o)
    <3>1. CalmCalls
      BY <1>0, <1>10, <2>1, <2>2, GoesCalm DEF LookAgain, Pcs
    <3> QED BY <1>1, <2>1, <3>1 DEF row
  <2>3. CASE ~findSentTx(o)
    <3>1. /\ call'[w].pc = "review" /\ call'[w].order = o
          /\ \A v \in Workers : v # w => call'[v] = call[v]
      BY <1>0, <1>10, <2>1, <2>3, GoesTo DEF LookAgain, Pcs
    <3>2. \A p \in Orders : (Offered(p)' => Offered(p)) /\ (SweepDoubts(p)' => SweepDoubts(p))
      BY <2>1 DEF Offered, SweepDoubts, row
    <3>3. /\ \A p \in Orders : findSentTx(p)' = findSentTx(p)
          /\ overtaken' = overtaken /\ queued' = queued /\ wallet' = wallet
      BY <2>1 DEF findSentTx, node, history
    <3>4. \A v \in Workers, p \in Orders :
            /\ Owes(v, p)' => Owes(v, p)
            /\ Doubts(v, p)' => Doubts(v, p) \/ p = o
      BY <3>1 DEF Owes, Doubts
    <3>5. ASSUME NEW p \in Orders, p # o, p \notin overtaken PROVE Safe(p)'
      <4>1. Safe(p) /\ Calm(p)
        BY <3>2, <3>3, <3>4, <3>5 DEF Sound, Calm
      <4> QED BY <4>1, CalmKeeps
    <3>6. ASSUME o \notin overtaken PROVE Safe(o)'
      <4>1. Safe(o) /\ ~findSentTx(o)'
        BY <2>1, <2>3, <3>3, <3>6 DEF Sound
      <4> QED BY <2>1, <3>2, <3>3, <3>4, <4>1 DEF Safe
    <3>7. Sound'
      BY <3>3, <3>5, <3>6 DEF Sound
    <3> QED BY <3>3, <3>7 DEF SentTwiceOnlyBlind
  <2> QED BY <2>2, <2>3
<1>11. CASE Review(w)
  <2>1. /\ CalmCalls /\ Doubts(w, o) /\ recorded' = recorded
        /\ wallet' = wallet /\ queued' = queued /\ sweep' = sweep
        /\ Sets(o, "needs_review") /\ "needs_review" \in Statuses
    BY <1>0, <1>11, ReturnsCalm DEF Review, DeclaresUnsent, At, Doubts, node, Statuses
  <2>2. o \notin overtaken' => ~findSentTx(o)
    BY <1>0, <2>1 DEF Sound, Safe
  <2>3. call'[w].pc = "idle" /\ \A v \in Workers : v # w => call'[v] = call[v]
    BY <1>0, <1>11, ReturnsTo DEF Review
  <2>4. o \notin overtaken' => o \notin queued /\ \A v \in Workers : ~Owes(v, o)'
    BY <1>0, <1>11, <2>3 DEF Review, DeclaresUnsent, UnderWay, Owes
  <2>5. \A p \in Orders : SweepDoubts(p)' => SweepDoubts(p)
    BY <2>1 DEF SweepDoubts
  <2>6. Sound'
    BY <1>0, <2>1, <2>2, <2>4, <2>5, PutBackSound
  <2> QED BY <1>0, <2>1, <2>6 DEF SentTwiceOnlyBlind
<1>12. CASE Record(w)
  <2>1. CalmCalls /\ UNCHANGED <<node, sweep>> /\ recordSent(o)
    BY <1>0, <1>12, ReturnsCalm DEF Record, At
  <2>2. \A p \in Orders : (Offered(p)' => Offered(p)) /\ (SweepDoubts(p)' => SweepDoubts(p))
    BY <2>1, RecordCalm DEF SweepDoubts
  <2>3. wallet' = wallet /\ queued' = queued
    BY <2>1 DEF node
  <2>4. Sound'
    BY <1>0, <2>1, <2>2, <2>3, CalmStep
  <2> QED BY <1>0, <2>3, <2>4 DEF SentTwiceOnlyBlind
<1> QED BY <1>2, <1>3, <1>4, <1>5, <1>6, <1>7, <1>8, <1>9, <1>10, <1>11, <1>12 DEF CallStep, CallFault

\* So does every other step.
LEMMA SoundStep ==
  ASSUME Types, Sound, SentTwiceOnlyBlind, Next \/ UNCHANGED vars
  PROVE  Sound' /\ SentTwiceOnlyBlind'
<1>0. CallsTyped /\ overtaken \subseteq overtaken'
  BY StepTyped DEF Types
<1>1. ASSUME CalmCalls, wallet' = wallet, queued' = queued,
             \A o \in Orders : Offered(o)' => Offered(o),
             \A o \in Orders : SweepDoubts(o)' => SweepDoubts(o)
      PROVE  Sound' /\ SentTwiceOnlyBlind'
  <2>1. Sound'
    BY <1>0, <1>1, CalmStep
  <2> QED BY <1>0, <1>1, <2>1 DEF SentTwiceOnlyBlind
<1>2. call' = call => CalmCalls
  BY DEF CalmCalls, Owes, Doubts
<1>3. ASSUME NEW w \in Workers, CallStep(w) \/ CallFault(w) PROVE Sound' /\ SentTwiceOnlyBlind'
  BY <1>3, CallSound
<1>4. ASSUME NEW w \in Workers, NEW o \in Orders, SendAsked(w, o) \/ Deliver(w, o)
      PROVE  Sound' /\ SentTwiceOnlyBlind'
  <2>1. /\ call'[w].pc \in {"release", "select"}
        /\ \A v \in Workers : v # w => call'[v] = call[v]
    BY <1>0, <1>4, StartsAt DEF SendAsked, Deliver, Pcs
  <2>2. CalmCalls
    BY <2>1 DEF CalmCalls, Owes, Doubts
  <2> QED BY <1>1, <1>4, <2>2 DEF SendAsked, Deliver, row, node, Offered, SweepDoubts
<1>5. ASSUME NEW o \in Orders, markDelivered(o) PROVE Sound' /\ SentTwiceOnlyBlind'
  <2>1. \A p \in Orders : Offered(p)' => Offered(p)
    BY <1>5, RecordCalm DEF markDelivered
  <2> QED BY <1>1, <1>2, <1>5, <2>1 DEF markDelivered, node, SweepDoubts
<1>6. ASSUME NEW o \in Orders, SweepThrows(o) PROVE Sound' /\ SentTwiceOnlyBlind'
  <2>1. \A p \in Orders : ~SweepDoubts(p)'
    BY <1>6, DeliveryAssumption DEF SweepThrows, AtRest, SweepDoubts
  <2> QED BY <1>1, <1>2, <1>6, <2>1 DEF SweepThrows, row, node, Offered
<1>7. ASSUME NEW o \in Orders, SweepLooks(o) PROVE Sound' /\ SentTwiceOnlyBlind'
  <2>1. UNCHANGED <<status, recorded, wallet, queued, call, overtaken>>
    BY <1>7 DEF SweepLooks, row, node, history
  <2>2. \A p \in Orders : SweepDoubts(p)' => p = o /\ ~findSentTx(o)
    <3>1. CASE sendingNow(o)
      BY <1>7, <3>1, DeliveryAssumption DEF SweepLooks, AtRest, SweepDoubts
    <3>2. CASE ~sendingNow(o)
      BY <1>7, <3>2 DEF SweepLooks, SweepDoubts
    <3> QED BY <3>1, <3>2
  <2>3. CalmCalls /\ \A p \in Orders : (Offered(p)' => Offered(p)) /\ (findSentTx(p)' => findSentTx(p))
    BY <1>2, <2>1 DEF Offered, findSentTx
  <2>4. ASSUME NEW p \in Orders, p \notin overtaken PROVE Safe(p)'
    <3>1. Safe(p)
      BY <2>4 DEF Sound
    <3>2. CASE ~SweepDoubts(p)'
      <4>1. Calm(p)
        BY <2>1, <2>3, <3>2 DEF Calm, CalmCalls
      <4> QED BY <3>1, <4>1, CalmKeeps
    <3>3. CASE SweepDoubts(p)'
      <4>1. ~findSentTx(p)'
        BY <2>2, <2>3, <3>3
      <4> QED BY <2>1, <2>3, <3>1, <4>1 DEF Safe, CalmCalls
    <3> QED BY <3>2, <3>3
  <2> QED BY <2>1, <2>4 DEF Sound, SentTwiceOnlyBlind
<1>8. ASSUME NEW o \in Orders, LateSend(o) PROVE Sound' /\ SentTwiceOnlyBlind'
  <2>1. /\ o \in queued /\ queued' = queued \ {o} /\ queued' \in SUBSET Orders /\ CalmCalls
        /\ UNCHANGED <<row, sweep>>
    BY <1>2, <1>8 DEF LateSend, Types
  <2>2. CASE MakesSend(o, Workers, queued \ {o})
    BY <2>1, <2>2, SendSound
  <2>3. CASE UNCHANGED <<wallet, spent, history>>
    <3>1. \A p \in Orders : (Offered(p)' => Offered(p)) /\ (SweepDoubts(p)' => SweepDoubts(p))
      BY <2>1 DEF Offered, SweepDoubts, row
    <3>2. Sound'
      BY <1>0, <2>1, <2>3, <3>1, CalmStep
    <3> QED BY <1>0, <2>3, <3>2 DEF SentTwiceOnlyBlind
  <2> QED BY <1>8, <2>2, <2>3 DEF LateSend
<1>9. CASE SweepStarts
  <2>1. \A p \in Orders : ~SweepDoubts(p)'
    BY <1>9, DeliveryAssumption DEF SweepStarts, AtRest, SweepDoubts
  <2> QED BY <1>1, <1>2, <1>9, <2>1 DEF SweepStarts, row, node, Offered
<1>10. CASE SweepResolves
  <2>1. PICK o \in Orders : sweep.at = o
    BY <1>10 DEF SweepResolves, Types, Sweeps
  <2>2. /\ CalmCalls /\ wallet' = wallet /\ queued' = queued /\ call' = call
        /\ \A p \in Orders : ~SweepDoubts(p)'
    BY <1>2, <1>10, DeliveryAssumption DEF SweepResolves, node, AtRest, SweepDoubts
  <2>3. CASE recordSent(o)
    BY <1>1, <2>2, <2>3, RecordCalm
  <2>4. CASE UNCHANGED row
    BY <1>1, <2>2, <2>4 DEF row, Offered
  <2>5. CASE ~sweep.found /\ DeclaresUnsent(o, Workers) /\ recorded' = recorded
    <3>1. Sets(o, "needs_review") /\ "needs_review" \in Statuses
      BY <2>5 DEF DeclaresUnsent, Statuses
    <3>2. o \notin overtaken' => ~findSentTx(o)
      BY <1>0, <2>1, <2>5 DEF Sound, Safe, SweepDoubts
    <3>3. o \notin overtaken' => o \notin queued /\ \A w \in Workers : ~Owes(w, o)'
      BY <2>2, <2>5 DEF DeclaresUnsent, UnderWay, Owes
    <3>4. Sound'
      BY <1>0, <2>2, <2>5, <3>1, <3>2, <3>3, PutBackSound
    <3> QED BY <1>0, <2>2, <3>4 DEF SentTwiceOnlyBlind
  <2> QED BY <1>10, <2>1, <2>3, <2>4, <2>5 DEF SweepResolves
<1>11. CASE OtherEntry
  <2>1. /\ wallet' = Append(wallet, Other) /\ CalmCalls
        /\ UNCHANGED <<status, recorded, queued, sweep, overtaken>>
    BY <1>2, <1>11 DEF OtherEntry, row
  <2>2. SentTwiceOnlyBlind'
    BY <1>0, <2>1, EntryBlind
  <2>3. ASSUME NEW o \in Orders, o \notin overtaken PROVE Safe(o)'
    <3>1. findSentTx(o)' => findSentTx(o)
      BY <2>1, EntryCalm, DeliveryAssumption
    <3>2. Safe(o) /\ Calm(o)
      BY <2>1, <2>3, <3>1 DEF Sound, Calm, CalmCalls, Offered, SweepDoubts
    <3> QED BY <3>2, CalmKeeps
  <2> QED BY <2>1, <2>2, <2>3 DEF Sound
<1>12. CASE Crash
  <2>1. CalmCalls
    BY <1>0, <1>12, CrashIdles DEF CalmCalls, Owes, Doubts
  <2>2. \A p \in Orders : ~SweepDoubts(p)'
    BY <1>12, DeliveryAssumption DEF Crash, AtRest, SweepDoubts
  <2> QED BY <1>1, <1>12, <2>1, <2>2 DEF Crash, row, node, Offered
<1>13. CASE UNCHANGED vars
  BY <1>1, <1>2, <1>13 DEF vars, row, node, Offered, SweepDoubts
<1> QED BY <1>3, <1>4, <1>5, <1>6, <1>7, <1>8, <1>9, <1>10, <1>11, <1>12, <1>13
        DEF Next, DeliveryStep, SweepStep

\* "NEVER SEND TWICE" of delivery.mjs, for any number of calls, processes, faults
\* and wallet entries: a second send of an order needs the first one out of the
\* lookup's sight, or the order put back as unsent over a send of it.
THEOREM NeverSentTwiceInSight == Spec => []SentTwiceOnlyBlind
<1>1. Init => Types /\ Sound /\ SentTwiceOnlyBlind
  <2>1. Init => Sound
    BY DeliveryAssumption
       DEF Init, Sound, Safe, Offered, Owes, Doubts, SweepDoubts, findSentTx, Idle, AtRest
  <2>2. Init => SentTwiceOnlyBlind
    BY DEF Init, SentTwiceOnlyBlind
  <2> QED BY <2>1, <2>2, DeliveryStarts
<1>2. Types /\ Sound /\ SentTwiceOnlyBlind /\ [Next]_vars => (Types /\ Sound /\ SentTwiceOnlyBlind)'
  BY StepTyped, SoundStep
<1> QED BY <1>1, <1>2, PTL DEF Spec
-----------------------------------------------------------------------------
(* The payment callbacks.                                                   *)

Reports == [pay : Payments, says : Says]

MarketTypes ==
  /\ Types
  /\ tied \in [Orders -> Payments \cup {NoPayment}]
  /\ fills \in [Orders -> {"reserved", "sold", "released"}]
  /\ said \subseteq Reports /\ due \subseteq said
  /\ callback \in [Server -> Reports \cup {None}]

\* What a send without a human rests on.
Backed(o) ==
  fills[o] = "sold" /\ tied[o] \in Genuine /\ [pay |-> tied[o], says |-> "full"] \in said

\* An order that deliver() would claim, or has claimed, is backed.
Ready == \A o \in Orders : status[o] \in {"awaiting_delivery", "sending"} => Backed(o)

\* What a handler or a call of the server has behind it at its present point.
Earned(w) ==
  /\ call[w].pc # "release"
  /\ call[w].pc \in {"recheck", "send"} => Backed(call[w].order)
  /\ call[w].pc \in {"load", "accept", "hold"} => callback[w] \in said
  /\ call[w].pc = "accept" => callback[w].pay \in Genuine /\ callback[w].says = "full"

AllEarned == \A w \in Server : Earned(w)

\* Sold inventory, a tie and a report stay.
Stands ==
  /\ said \subseteq said'
  /\ \A o \in Orders : /\ fills[o] = "sold" => fills'[o] = "sold"
                       /\ tied[o] # NoPayment => tied'[o] = tied[o]

\* So does what is backed by them.
LEMMA BackedStays ==
  ASSUME Stands, NEW o \in Orders, Backed(o)
  PROVE  Backed(o)'
  BY IpnAssumption DEF Stands, Backed

\* No order becomes ready that was not.
NoneReadied ==
  \A o \in Orders : status'[o] \in {"awaiting_delivery", "sending"} =>
                      status[o] \in {"awaiting_delivery", "sending"}

\* Then the ready ones stay backed.
LEMMA ReadyStays ==
  ASSUME Ready, Stands, NoneReadied
  PROVE  Ready'
  BY BackedStays DEF Ready, NoneReadied

\* A call that stays where it is keeps what it has earned.
LEMMA EarnedStays ==
  ASSUME Stands, CallsTyped, NEW w \in Server, Earned(w), call'[w] = call[w], callback'[w] = callback[w]
  PROVE  Earned(w)'
<1>1. call[w].pc \in {"recheck", "send"} => call[w].order \in Orders
  BY DEF CallsTyped, Workers
<1>2. call[w].pc \in {"recheck", "send"} => Backed(call[w].order)'
  <2> SUFFICES ASSUME call[w].pc \in {"recheck", "send"} PROVE Backed(call[w].order)'
    OBVIOUS
  <2>1. PICK o \in Orders : call[w].order = o /\ call'[w].order = o
    BY <1>1
  <2>2. Backed(o)
    BY <2>1 DEF Earned
  <2>3. Backed(o)'
    BY <2>2, BackedStays
  <2> QED BY <2>1, <2>3 DEF Backed
<1> QED BY <1>2 DEF Earned, Stands

\* A call that is at none of the points that need something has it all.
LEMMA NothingToEarn ==
  ASSUME NEW w \in Server, call'[w].pc \notin {"release", "recheck", "send", "load", "accept", "hold"}
  PROVE  Earned(w)'
  BY DEF Earned

\* deliver() in the server: it claims what is ready, sends what it has claimed and
\* readies nothing.
LEMMA DeliverRuns ==
  ASSUME Types, NEW w \in Server, call[w].pc # "release",
         CallStep(w) \/ LookFails(w) \/ SendThrows(w) \/ LookAgainFails(w) \/ CallThrows(w)
  PROVE  /\ \A v \in Workers : v # w => call'[v] = call[v]
         /\ \/ call'[w].pc \notin {"release", "recheck", "send", "load", "accept", "hold"}
            \/ /\ call'[w].pc \in {"recheck", "send"} /\ call'[w].order = call[w].order
               /\ call[w].pc = "recheck" \/ status[call[w].order] = "awaiting_delivery"
         /\ NoneReadied
         /\ wallet' = wallet \/ (call[w].pc = "send" /\ wallet' = Append(wallet, call[w].order))
<1>0. w \in Workers /\ CallsTyped /\ (call[w].pc # "idle" => call[w].order \in Orders)
  BY DEF Workers, Types, CallsTyped
<1> DEFINE Calls1 ==
      /\ \A v \in Workers : v # w => call'[v] = call[v]
      /\ call'[w].pc \notin {"release", "recheck", "send", "load", "accept", "hold"}
<1>1. CASE \/ Select(w) \/ Queue(w) \/ ReadFloat(w) \/ SendRefused(w) \/ LookAgain(w)
           \/ LookFails(w) \/ LookAgainFails(w) \/ CallThrows(w)
  <2>1. call[w].pc # "idle"
    BY <1>1 DEF Select, Queue, ReadFloat, SendRefused, LookAgain, LookFails, LookAgainFails, CallThrows, At
  <2>2. Calls1
    BY <1>0, <1>1, <2>1, GoesTo, ReturnsTo
       DEF Select, Queue, ReadFloat, SendRefused, LookAgain, LookFails, LookAgainFails, CallThrows, Pcs
  <2> QED BY <1>1, <2>2
          DEF Select, Queue, ReadFloat, SendRefused, LookAgain, LookFails, LookAgainFails, CallThrows,
              row, node, NoneReadied
<1>2. CASE Look(w)
  <2>1. PICK pc \in {"record", "float", "queue"} : Goes(w, pc)
    BY <1>0, <1>2, LookGoes
  <2>2. call[w].pc # "idle" /\ pc \in Pcs
    BY <1>2 DEF Look, At, Pcs
  <2>3. Calls1
    BY <1>0, <2>1, <2>2, GoesTo
  <2>4. UNCHANGED <<row, node>>
    BY <1>2, Zenon DEF Look
  <2> QED BY <2>3, <2>4 DEF row, node, NoneReadied
<1>3. CASE Claim(w)
  <2>1. call[w].pc = "claim" /\ call[w].order \in Orders /\ wallet' = wallet
    BY <1>0, <1>3 DEF Claim, At, node
  <2>2. CASE Claimable(call[w].order)
    <3>1. /\ call'[w].pc = "recheck" /\ call'[w].order = call[w].order
          /\ \A v \in Workers : v # w => call'[v] = call[v]
      BY <1>0, <1>3, <2>1, <2>2, GoesTo DEF Claim, Pcs
    <3>2. status[call[w].order] = "awaiting_delivery" /\ NoneReadied
      BY <1>3, <2>1, <2>2 DEF Claim, Claimable, Sets, Types, NoneReadied
    <3> QED BY <2>1, <3>1, <3>2
  <2>3. CASE ~Claimable(call[w].order)
    BY <1>0, <1>3, <2>1, <2>3, ReturnsTo DEF Claim, NoneReadied
  <2> QED BY <2>2, <2>3
<1>4. CASE Recheck(w)
  <2>1. call[w].pc = "recheck"
    BY <1>4 DEF Recheck, At
  <2>2. /\ call'[w].pc \in {"send", "giveback"} /\ call'[w].order = call[w].order
        /\ \A v \in Workers : v # w => call'[v] = call[v]
    BY <1>0, <1>4, <2>1, GoesTo DEF Recheck, Pcs
  <2> QED BY <1>4, <2>1, <2>2 DEF Recheck, row, node, NoneReadied
<1>5. CASE GiveBack(w)
  <2>1. call[w].order \in Orders /\ Calls1
    BY <1>0, <1>5, ReturnsTo DEF GiveBack, At
  <2> QED BY <1>5, <2>1 DEF GiveBack, Sets, Types, node, NoneReadied
<1>6. CASE SendToAddress(w) \/ SendThrows(w)
  <2>1. call[w].pc = "send"
    BY <1>6 DEF SendToAddress, SendThrows, At
  <2>2. Calls1
    BY <1>0, <1>6, <2>1, GoesTo DEF SendToAddress, SendThrows, Pcs
  <2> QED BY <1>6, <2>1, <2>2 DEF SendToAddress, SendThrows, MakesSend, row, NoneReadied
<1>7. CASE Review(w)
  <2>1. call[w].order \in Orders /\ Calls1
    BY <1>0, <1>7, ReturnsTo DEF Review, At
  <2> QED BY <1>7, <2>1 DEF Review, DeclaresUnsent, Sets, Types, node, NoneReadied
<1>8. CASE Record(w)
  <2>1. call[w].order \in Orders /\ Calls1
    BY <1>0, <1>8, ReturnsTo DEF Record, At
  <2> QED BY <1>8, <2>1 DEF Record, recordSent, Sets, Types, node, NoneReadied
<1>9. ~Release(w)
  BY DEF Release, At
<1> QED BY <1>1, <1>2, <1>3, <1>4, <1>5, <1>6, <1>7, <1>8, <1>9 DEF CallStep

\* Where decide() sends a handler: accept() only for a genuine payment in full.
LEMMA DecisionIs ==
  ASSUME NEW o, NEW p, NEW r
  PROVE  /\ Decision(o, p, r) \in {"idle", "select", "contradict", "close", "reverse", "accept", "hold"}
         /\ Decision(o, p, r) = "accept" => p \in Genuine /\ r = "full"
<1>1. Terminal(o, p) \in {"close", "reverse", "idle"}
  BY Zenon DEF Terminal
<1>2. SamePayment(o, r) \in {"select", "contradict", "idle"}
  BY Zenon DEF SamePayment
<1>3. CASE r = "fail"
  <2>1. Decision(o, p, r) = Terminal(o, p)
    BY <1>3, Zenon DEF Decision
  <2> QED BY <1>1, <2>1
<1>4. CASE r # "fail" /\ tied[o] = p
  <2>1. Decision(o, p, r) = SamePayment(o, r)
    BY <1>4, Zenon DEF Decision
  <2> QED BY <1>2, <2>1
<1>5. CASE r # "fail" /\ tied[o] # p /\ tied[o] # NoPayment
  <2>1. Decision(o, p, r) = "idle"
    BY <1>5, Zenon DEF Decision
  <2> QED BY <2>1
<1>6. CASE r # "fail" /\ tied[o] # p /\ tied[o] = NoPayment
  <2>1. Decision(o, p, r) = IF p \in Genuine /\ r = "full" THEN "accept" ELSE "hold"
    BY <1>6, Zenon DEF Decision
  <2> QED BY <2>1
<1> QED BY <1>3, <1>4, <1>5, <1>6

\* Where a handler goes from there.
LEMMA LoadGoes ==
  ASSUME NEW w \in Server, Load(w)
  PROVE  \/ Returns(w)
         \/ \E pc \in {"select", "contradict", "close", "reverse", "accept", "hold"} :
              Goes(w, pc) /\ (pc = "accept" => callback[w].pay \in Genuine /\ callback[w].says = "full")
<1> DEFINE to == Decision(call[w].order, callback[w].pay, callback[w].says)
<1>1. /\ to \in {"idle", "select", "contradict", "close", "reverse", "accept", "hold"}
      /\ to = "accept" => callback[w].pay \in Genuine /\ callback[w].says = "full"
  BY DecisionIs
<1>2. IF to = "idle" THEN Returns(w) ELSE Goes(w, to)
  BY DEF Load
<1> HIDE DEF to
<1> QED BY <1>1, <1>2

\* Every step keeps the types and what stands, and what a send without a human
\* rests on.
LEMMA MarketStep ==
  ASSUME MarketTypes, Ready, AllEarned, IpnNext \/ UNCHANGED ipnVars
  PROVE  MarketTypes' /\ Ready' /\ AllEarned' /\ Stands
<1>0. Types /\ CallsTyped /\ Server \subseteq Workers
  BY DEF MarketTypes, Types, Workers
<1>1. ASSUME UNCHANGED <<market, gateway>> PROVE Stands
  BY <1>1 DEF Stands, market, gateway
<1>2. ASSUME UNCHANGED row PROVE NoneReadied
  BY <1>2 DEF row, NoneReadied
<1>3. ASSUME NEW w \in Server, Stands, \A v \in Workers : v # w => call'[v] = call[v],
             \A v \in Server : v # w => callback'[v] = callback[v], Earned(w)'
      PROVE  AllEarned'
  BY <1>0, <1>3, EarnedStays DEF AllEarned
<1>4. ASSUME NEW p \in Payments, NEW r \in Says, GatewayReports(p, r)
      PROVE  MarketTypes' /\ Ready' /\ AllEarned' /\ Stands
  <2>1. /\ said' = said \cup {[pay |-> p, says |-> r]} /\ due' = due \cup {[pay |-> p, says |-> r]}
        /\ UNCHANGED vars /\ tied' = tied /\ fills' = fills /\ callback' = callback
    BY <1>4 DEF GatewayReports, market
  <2>2. Types' /\ call' = call /\ UNCHANGED row
    BY <1>0, <2>1, StepTyped DEF vars
  <2>3. MarketTypes' /\ Stands
    BY <2>1, <2>2 DEF MarketTypes, Reports, Stands
  <2>4. AllEarned'
    BY <1>0, <2>1, <2>2, <2>3, EarnedStays DEF AllEarned
  <2> QED BY <1>2, <2>2, <2>3, <2>4, ReadyStays
<1>5. ASSUME NEW w \in Server, NEW c \in due, Receive(w, c)
      PROVE  MarketTypes' /\ Ready' /\ AllEarned' /\ Stands
  <2>1. c \in said /\ c \in Reports /\ OrderOf[c.pay] \in Orders
    BY IpnAssumption DEF MarketTypes, Reports
  <2>2. CallsTyped' /\ call'[w].pc = "load" /\ \A v \in Workers : v # w => call'[v] = call[v]
    <3>1. PICK o \in Orders : call' = [call EXCEPT ![w] = [pc |-> "load", order |-> o, force |-> FALSE]]
      BY <1>5, <2>1 DEF Receive
    <3>2. w \in Workers /\ "load" \in Pcs /\ FALSE \in BOOLEAN
      BY <1>0 DEF Pcs
    <3> QED BY <1>0, <3>1, <3>2, StartsAt
  <2>3. UNCHANGED <<row, node, sweep, history, market, gateway>>
          /\ callback' = [callback EXCEPT ![w] = c]
    BY <1>5 DEF Receive
  <2>4. MarketTypes'
    BY <2>1, <2>2, <2>3 DEF MarketTypes, Types, row, node, history, market, gateway
  <2>5. Stands
    BY <1>1, <2>3
  <2>6. Earned(w)'
    BY <2>1, <2>2, <2>3 DEF Earned, MarketTypes, gateway
  <2>7. \A v \in Server : v # w => callback'[v] = callback[v]
    BY <2>3 DEF MarketTypes
  <2>8. AllEarned'
    BY <1>3, <2>2, <2>5, <2>6, <2>7
  <2> QED BY <1>2, <2>3, <2>4, <2>5, <2>8, ReadyStays
<1>6. ASSUME NEW w \in Server, Load(w) PROVE MarketTypes' /\ Ready' /\ AllEarned' /\ Stands
  <2>1. call[w].pc = "load" /\ UNCHANGED <<row, node, sweep, history, market, gateway, callback>>
    BY <1>6 DEF Load, At
  <2>2. Stands
    BY <1>1, <2>1
  <2>3. callback[w] \in said'
    BY <2>1, <2>2 DEF AllEarned, Earned, Stands
  <2>4. /\ CallsTyped' /\ \A v \in Workers : v # w => call'[v] = call[v]
        /\ Earned(w)'
    <3>1. CASE Returns(w)
      BY <1>0, <3>1, ReturnsTo, NothingToEarn
    <3>2. ASSUME NEW pc \in {"select", "contradict", "close", "reverse", "accept", "hold"}, Goes(w, pc),
                 pc = "accept" => callback[w].pay \in Genuine /\ callback[w].says = "full"
          PROVE  /\ CallsTyped' /\ \A v \in Workers : v # w => call'[v] = call[v]
                 /\ Earned(w)'
      <4>1. CallsTyped' /\ call'[w].pc = pc /\ \A v \in Workers : v # w => call'[v] = call[v]
        BY <1>0, <2>1, <3>2, GoesTo DEF Pcs
      <4> QED BY <2>1, <2>3, <3>2, <4>1 DEF Earned
    <3> QED BY <1>6, <3>1, <3>2, LoadGoes
  <2>5. MarketTypes'
    BY <2>1, <2>4 DEF MarketTypes, Types, row, node, history, market, gateway
  <2>6. AllEarned'
    BY <1>3, <2>1, <2>2, <2>4
  <2> QED BY <1>2, <2>1, <2>2, <2>5, <2>6, ReadyStays
<1>7. ASSUME NEW w \in Server, Accept(w) PROVE MarketTypes' /\ Ready' /\ AllEarned' /\ Stands
  <2>1. PICK o \in Orders : call[w].order = o
    BY <1>0, <1>7 DEF Accept, At, CallsTyped
  <2>2. /\ call[w].pc = "accept" /\ UNCHANGED <<recorded, node, sweep, history, gateway, callback>>
        /\ callback[w] \in said /\ callback[w].pay \in Genuine /\ callback[w].says = "full"
    BY <1>7 DEF Accept, At, AllEarned, Earned
  <2>3. CASE ~StillUnpaid(o)
    <3>1. Goes(w, "load") /\ UNCHANGED <<status, handled, market>>
      BY <1>7, <2>1, <2>3 DEF Accept
    <3>2. CallsTyped' /\ call'[w].pc = "load" /\ \A v \in Workers : v # w => call'[v] = call[v]
      BY <1>0, <2>2, <3>1, GoesTo DEF Pcs
    <3>3. Stands
      BY <1>1, <2>2, <3>1
    <3>4. Earned(w)'
      BY <2>2, <3>2 DEF Earned, gateway
    <3>5. MarketTypes'
      BY <2>2, <3>1, <3>2 DEF MarketTypes, Types, node, history, market, gateway
    <3>6. AllEarned'
      BY <1>3, <2>2, <3>2, <3>3, <3>4
    <3> QED BY <1>2, <2>2, <3>1, <3>3, <3>5, <3>6, ReadyStays DEF row
  <2>4. CASE StillUnpaid(o)
    <3>1. /\ Sets(o, AcceptedAs(o))
          /\ handled' = [handled EXCEPT ![o] = @ \/ fills[o] = "released"]
          /\ fills' = [fills EXCEPT ![o] = IF @ = "reserved" THEN "sold" ELSE @]
          /\ tied' = [tied EXCEPT ![o] = callback[w].pay]
          /\ Returns(w) \/ Goes(w, "select")
      BY <1>7, <2>1, <2>4 DEF Accept
    <3>2. /\ CallsTyped' /\ call'[w].pc \in {"idle", "select"}
          /\ \A v \in Workers : v # w => call'[v] = call[v]
      BY <1>0, <2>2, <3>1, GoesTo, ReturnsTo DEF Pcs
    <3>3. Stands
      BY <2>2, <2>4, <3>1 DEF StillUnpaid, Stands, gateway, MarketTypes
    <3>4. callback[w] \in Reports /\ callback[w].pay \in Payments
      BY <2>2, IpnAssumption DEF MarketTypes
    <3>5. /\ AcceptedAs(o) \in Statuses /\ status' \in [Orders -> Statuses]
          /\ handled' \in [Orders -> BOOLEAN]
      <4>1. AcceptedAs(o) \in Statuses
        BY DEF AcceptedAs, Statuses
      <4>2. handled' \in [Orders -> BOOLEAN]
        BY <1>0, <3>1 DEF Types
      <4> QED BY <1>0, <3>1, <4>1, <4>2, SetsTyped
    <3>6. tied' \in [Orders -> Payments \cup {NoPayment}]
          /\ fills' \in [Orders -> {"reserved", "sold", "released"}]
      BY <3>1, <3>4 DEF MarketTypes
    <3>7. MarketTypes'
      BY <2>2, <3>2, <3>5, <3>6 DEF MarketTypes, Types, node, history, gateway
    <3>8. Ready'
      <4>1. ASSUME AcceptedAs(o) = "awaiting_delivery" PROVE Backed(o)'
        <5>1. fills'[o] = "sold" /\ tied'[o] = callback[w].pay
          BY <3>1, <4>1 DEF AcceptedAs, MarketTypes
        <5>2. [pay |-> callback[w].pay, says |-> "full"] = callback[w]
          BY <2>2, <3>4 DEF Reports
        <5> QED BY <2>2, <5>1, <5>2 DEF Backed, gateway
      <4>2. status'[o] \in {"awaiting_delivery", "sending"} => Backed(o)'
        BY <1>0, <3>1, <4>1 DEF Sets, AcceptedAs, Types
      <4>3. ASSUME NEW p \in Orders, p # o, status'[p] \in {"awaiting_delivery", "sending"}
            PROVE  Backed(p)'
        <5>1. status[p] \in {"awaiting_delivery", "sending"}
          BY <1>0, <3>1, <4>3 DEF Sets, Types
        <5>2. Backed(p)
          BY <5>1 DEF Ready
        <5> QED BY <3>3, <5>2, BackedStays
      <4> QED BY <4>2, <4>3 DEF Ready
    <3>9. AllEarned'
      BY <1>3, <2>2, <3>2, <3>3, NothingToEarn
    <3> QED BY <3>3, <3>7, <3>8, <3>9
  <2> QED BY <2>3, <2>4
<1>8. ASSUME NEW w \in Server, Hold(w) PROVE MarketTypes' /\ Ready' /\ AllEarned' /\ Stands
  <2>1. PICK o \in Orders : call[w].order = o
    BY <1>0, <1>8 DEF Hold, At, CallsTyped
  <2>2. /\ call[w].pc = "hold" /\ UNCHANGED <<recorded, node, sweep, history, fills, gateway, callback>>
        /\ callback[w] \in said
    BY <1>8 DEF Hold, At, AllEarned, Earned
  <2>3. /\ \/ StillUnpaid(o) /\ Sets(o, "needs_review") /\ Handles(o) /\ Returns(w)
              /\ tied' = [tied EXCEPT ![o] = callback[w].pay]
           \/ Goes(w, "load") /\ UNCHANGED <<status, handled, tied>>
    BY <1>8, <2>1 DEF Hold
  <2>4. /\ CallsTyped' /\ call'[w].pc \in {"idle", "load"}
        /\ \A v \in Workers : v # w => call'[v] = call[v]
    BY <1>0, <2>2, <2>3, GoesTo, ReturnsTo DEF Pcs
  <2>5. Stands
    BY <2>2, <2>3 DEF StillUnpaid, Stands, gateway, MarketTypes
  <2>6. callback[w].pay \in Payments
    BY <2>2 DEF MarketTypes, Reports
  <2>7. status' \in [Orders -> Statuses] /\ handled' \in [Orders -> BOOLEAN] /\ NoneReadied
    BY <1>0, <2>3, HandlesTyped DEF Sets, Types, Statuses, NoneReadied
  <2>8. tied' \in [Orders -> Payments \cup {NoPayment}]
    BY <2>3, <2>6 DEF MarketTypes
  <2>9. MarketTypes'
    BY <2>2, <2>4, <2>7, <2>8 DEF MarketTypes, Types, node, history, gateway
  <2>10. Earned(w)'
    BY <2>2, <2>4 DEF Earned, gateway
  <2>11. AllEarned'
    BY <1>3, <2>2, <2>4, <2>5, <2>10
  <2> QED BY <2>5, <2>7, <2>9, <2>11, ReadyStays
<1>9. ASSUME NEW w \in Server, Withhold(w) PROVE MarketTypes' /\ Ready' /\ AllEarned' /\ Stands
  <2>1. PICK o \in Orders : call[w].order = o
    BY <1>0, <1>9 DEF Withhold, CallsTyped
  <2>2. /\ Returns(w) /\ UNCHANGED <<recorded, node, sweep, history, market, gateway, callback>>
        /\ (Sets(o, "needs_review") /\ Handles(o)) \/ UNCHANGED <<status, handled>>
    BY <1>9, <2>1 DEF Withhold
  <2>3. /\ CallsTyped' /\ call'[w].pc = "idle"
        /\ \A v \in Workers : v # w => call'[v] = call[v]
    BY <1>0, <2>2, ReturnsTo
  <2>4. status' \in [Orders -> Statuses] /\ handled' \in [Orders -> BOOLEAN] /\ NoneReadied
    BY <1>0, <2>2, HandlesTyped DEF Sets, Types, Statuses, NoneReadied
  <2>5. Stands
    BY <1>1, <2>2
  <2>6. MarketTypes'
    BY <2>2, <2>3, <2>4 DEF MarketTypes, Types, node, history, market, gateway
  <2>7. AllEarned'
    BY <1>3, <2>2, <2>3, <2>5, NothingToEarn
  <2> QED BY <2>4, <2>5, <2>6, <2>7, ReadyStays
<1>10. ASSUME NEW o \in Orders, Closes(o),
              UNCHANGED <<recorded, handled, node, sweep, history, tied, gateway>>
       PROVE  /\ Stands /\ NoneReadied
              /\ status' \in [Orders -> Statuses] /\ fills' \in [Orders -> {"reserved", "sold", "released"}]
  <2>1. status' \in [Orders -> Statuses] /\ NoneReadied
    BY <1>0, <1>10 DEF Closes, Sets, Types, Statuses, NoneReadied
  <2>2. fills' \in [Orders -> {"reserved", "sold", "released"}] /\ Stands
    BY <1>10 DEF Closes, MarketTypes, Stands, gateway
  <2> QED BY <2>1, <2>2
<1>11. ASSUME NEW w \in Server, Close(w) PROVE MarketTypes' /\ Ready' /\ AllEarned' /\ Stands
  <2>1. PICK o \in Orders : call[w].order = o
    BY <1>0, <1>11 DEF Close, At, CallsTyped
  <2>2. /\ Closes(o) /\ Returns(w)
        /\ UNCHANGED <<recorded, handled, node, sweep, history, tied, gateway, callback>>
    BY <1>11, <2>1 DEF Close
  <2>3. /\ CallsTyped' /\ call'[w].pc = "idle"
        /\ \A v \in Workers : v # w => call'[v] = call[v]
    BY <1>0, <2>2, ReturnsTo
  <2>4. /\ Stands /\ NoneReadied
        /\ status' \in [Orders -> Statuses] /\ fills' \in [Orders -> {"reserved", "sold", "released"}]
    BY <1>10, <2>2
  <2>5. MarketTypes'
    BY <2>2, <2>3, <2>4 DEF MarketTypes, Types, node, history, gateway
  <2>6. AllEarned'
    BY <1>3, <2>2, <2>3, <2>4, NothingToEarn
  <2> QED BY <2>4, <2>5, <2>6, ReadyStays
<1>12. ASSUME NEW o \in Orders, Expire(o) PROVE MarketTypes' /\ Ready' /\ AllEarned' /\ Stands
  <2>1. Closes(o) /\ UNCHANGED <<recorded, handled, node, call, sweep, history, tied, gateway, callback>>
    BY <1>12 DEF Expire
  <2>2. /\ Stands /\ NoneReadied
        /\ status' \in [Orders -> Statuses] /\ fills' \in [Orders -> {"reserved", "sold", "released"}]
    BY <1>10, <2>1
  <2>3. MarketTypes'
    BY <2>1, <2>2 DEF MarketTypes, Types, CallsTyped, node, history, gateway
  <2>4. AllEarned'
    BY <1>0, <2>1, <2>2, EarnedStays DEF AllEarned
  <2> QED BY <2>2, <2>3, <2>4, ReadyStays
<1>13. ASSUME NEW o \in Orders, SettleLeft(o) PROVE MarketTypes' /\ Ready' /\ AllEarned' /\ Stands
  <2>1. fills' = [fills EXCEPT ![o] = "sold"] /\ UNCHANGED <<vars, tied, gateway, callback>>
    BY <1>13 DEF SettleLeft
  <2>2. Types' /\ call' = call /\ UNCHANGED row
    BY <1>0, <2>1, StepTyped DEF vars
  <2>3. MarketTypes' /\ Stands
    BY <2>1, <2>2 DEF MarketTypes, Stands, gateway
  <2>4. AllEarned'
    BY <1>0, <2>1, <2>2, <2>3, EarnedStays DEF AllEarned
  <2> QED BY <1>2, <2>2, <2>3, <2>4, ReadyStays
<1>14. ASSUME NEW w \in Server, Answer(w) \/ HandlerThrows(w)
       PROVE  MarketTypes' /\ Ready' /\ AllEarned' /\ Stands
  <2>1. /\ UNCHANGED <<row, node, sweep, history, market>> /\ said' = said /\ due' \subseteq due
        /\ callback' = [callback EXCEPT ![w] = None]
        /\ (call[w].pc = "idle" /\ call' = call) \/ Returns(w)
    BY <1>14 DEF Answer, HandlerThrows, vars, gateway, At
  <2>2. /\ CallsTyped' /\ call'[w].pc = "idle"
        /\ \A v \in Workers : v # w => call'[v] = call[v]
    BY <1>0, <2>1, ReturnsTo DEF CallsTyped
  <2>3. Stands
    BY <2>1 DEF Stands, market
  <2>4. MarketTypes'
    BY <2>1, <2>2 DEF MarketTypes, Types, row, node, history, market
  <2>5. \A v \in Server : v # w => callback'[v] = callback[v]
    BY <2>1 DEF MarketTypes
  <2>6. AllEarned'
    BY <1>3, <2>2, <2>3, <2>5, NothingToEarn
  <2> QED BY <1>2, <2>1, <2>3, <2>4, <2>6, ReadyStays
<1>15. ASSUME NEW w \in Server, UNCHANGED <<market, gateway, callback>>,
              CallStep(w) \/ LookFails(w) \/ SendThrows(w) \/ LookAgainFails(w) \/ CallThrows(w)
       PROVE  MarketTypes' /\ Ready' /\ AllEarned' /\ Stands
  <2>1. Types' /\ Stands
    BY <1>0, <1>1, <1>15, CallTyped DEF CallFault
  <2>2. call[w].pc # "release" /\ w \in Workers
    BY <1>0 DEF AllEarned, Earned
  <2>3. /\ \A v \in Workers : v # w => call'[v] = call[v]
        /\ \/ call'[w].pc \notin {"release", "recheck", "send", "load", "accept", "hold"}
           \/ /\ call'[w].pc \in {"recheck", "send"} /\ call'[w].order = call[w].order
              /\ call[w].pc = "recheck" \/ status[call[w].order] = "awaiting_delivery"
        /\ NoneReadied
    BY <1>0, <1>15, <2>2, DeliverRuns
  <2>4. Earned(w)'
    <3>1. CASE call'[w].pc \notin {"release", "recheck", "send", "load", "accept", "hold"}
      BY <3>1, NothingToEarn
    <3>2. CASE /\ call'[w].pc \in {"recheck", "send"} /\ call'[w].order = call[w].order
               /\ call[w].pc = "recheck" \/ status[call[w].order] = "awaiting_delivery"
      <4>1. PICK o \in Orders : call'[w].order = o
        BY <2>1, <2>2, <3>2 DEF Types, CallsTyped
      <4>2. Backed(o)
        BY <3>2, <4>1 DEF AllEarned, Earned, Ready
      <4>3. Backed(o)'
        BY <2>1, <4>2, BackedStays
      <4>4. Backed(call[w].order)'
        BY <4>1, <4>3 DEF Backed
      <4> QED BY <3>2, <4>4 DEF Earned
    <3> QED BY <2>3, <3>1, <3>2
  <2>5. MarketTypes'
    BY <1>15, <2>1 DEF MarketTypes, market, gateway
  <2>6. AllEarned'
    BY <1>3, <1>15, <2>1, <2>3, <2>4
  <2> QED BY <2>1, <2>3, <2>5, <2>6, ReadyStays
<1>16. ASSUME SweepStep \/ (\E o \in Orders : markDelivered(o)) \/ UNCHANGED vars,
              UNCHANGED <<market, gateway, callback>>
       PROVE  MarketTypes' /\ Ready' /\ AllEarned' /\ Stands
  <2>1. Types' /\ Stands
    BY <1>0, <1>1, <1>16, StepTyped DEF Next, DeliveryStep
  <2>2. call' = call
    BY <1>16 DEF SweepStep, SweepStarts, SweepLooks, SweepResolves, markDelivered, vars
  <2>3. NoneReadied
    <3>1. CASE UNCHANGED row
      BY <1>2, <3>1
    <3>2. ASSUME NEW o \in Orders, recordSent(o) \/ Sets(o, "needs_review") PROVE NoneReadied
      BY <1>0, <3>2 DEF recordSent, Sets, Types, NoneReadied
    <3>3. CASE SweepResolves
      <4>1. sweep.at \in Orders
        BY <1>0, <3>3 DEF SweepResolves, Types, Sweeps
      <4> QED BY <3>1, <3>2, <3>3, <4>1 DEF SweepResolves, DeclaresUnsent
    <3> QED BY <1>16, <3>1, <3>2, <3>3 DEF SweepStep, SweepStarts, SweepLooks, markDelivered, vars
  <2>4. MarketTypes'
    BY <1>16, <2>1 DEF MarketTypes, market, gateway
  <2>5. AllEarned'
    BY <1>0, <1>16, <2>1, <2>2, EarnedStays DEF AllEarned
  <2> QED BY <2>1, <2>3, <2>4, <2>5, ReadyStays
<1>17. CASE ServerDies
  <2>1. Crash /\ callback' = [w \in Server |-> None] /\ UNCHANGED <<market, gateway>>
    BY <1>17 DEF ServerDies
  <2>2. Types' /\ Stands /\ UNCHANGED row
    BY <1>0, <1>1, <2>1, StepTyped DEF Next, DeliveryStep, Crash
  <2>3. \A w \in Server : call'[w].pc = "idle"
    BY <2>1, <1>0 DEF Crash, Idle
  <2>4. AllEarned'
    BY <2>3, NothingToEarn DEF AllEarned
  <2>5. MarketTypes'
    BY <2>1, <2>2 DEF MarketTypes, market, gateway
  <2> QED BY <1>2, <2>2, <2>4, <2>5, ReadyStays
<1> QED BY <1>4, <1>5, <1>6, <1>7, <1>8, <1>9, <1>11, <1>12, <1>13, <1>14, <1>15, <1>16, <1>17
        DEF IpnNext, IpnStep, DeliverThrows, DeliveryRuns, ipnVars

\* A coin that leaves the wallet is for an order that is backed.
LEMMA SendIsBacked ==
  ASSUME MarketTypes, AllEarned, IpnNext \/ UNCHANGED ipnVars, Len(wallet') > Len(wallet)
  PROVE  LET o == wallet'[Len(wallet')]
         IN  /\ fills[o] = "sold" /\ tied[o] \in Genuine
             /\ [pay |-> tied[o], says |-> "full"] \in said
<1>0. Types /\ CallsTyped /\ Server \subseteq Workers /\ Len(wallet) \in Nat
  BY LenProperties DEF MarketTypes, Types, Workers
<1>1. wallet' # wallet
  BY <1>0
<1>2. PICK w \in Server :
        CallStep(w) \/ LookFails(w) \/ SendThrows(w) \/ LookAgainFails(w) \/ CallThrows(w)
  BY <1>1 DEF IpnNext, GatewayReports, Receive, IpnStep, Load, Accept, Hold, Withhold, Close, Answer,
     HandlerThrows, DeliverThrows, Expire, SettleLeft, ServerDies, Crash, DeliveryRuns, SweepStep,
     SweepStarts, SweepLooks, SweepResolves, markDelivered, ipnVars, vars, node
<1>3. call[w].pc = "send" /\ wallet' = Append(wallet, call[w].order)
  BY <1>0, <1>1, <1>2, DeliverRuns DEF AllEarned, Earned
<1>4. PICK o \in Orders : call[w].order = o
  BY <1>0, <1>3 DEF CallsTyped
<1>5. wallet'[Len(wallet')] = o
  BY <1>0, <1>3, <1>4, OneMoreEntry
<1>6. Backed(o)
  BY <1>3, <1>4 DEF AllEarned, Earned
<1> QED BY <1>5, <1>6 DEF Backed

\* The market starts with every order unpaid.
LEMMA MarketStarts == IpnInit => MarketTypes /\ Ready /\ AllEarned
<1> SUFFICES ASSUME IpnInit PROVE MarketTypes /\ Ready /\ AllEarned
  OBVIOUS
<1>1. wallet \in Seq(Orders \cup {Other})
  BY EmptySeq DEF IpnInit
<1>2. CallsTyped
  BY DEF IpnInit, CallsTyped, Calls, Pcs, Idle
<1>3. sweep \in Sweeps
  BY DEF IpnInit, AtRest, Sweeps
<1>4. Types
  BY <1>1, <1>2, <1>3 DEF IpnInit, Types, Statuses
<1>5. MarketTypes
  BY <1>4 DEF IpnInit, MarketTypes
<1>6. Ready /\ AllEarned
  BY DEF IpnInit, Ready, AllEarned, Earned, Idle, Workers
<1> QED BY <1>5, <1>6

\* "PAYS OUT: the only way an order reaches 'awaiting_delivery'" of ipn.mjs, for any
\* number of orders, payments, callbacks and handlers: every coin that deliver()
\* sends by itself is for inventory sold to the order, tied to a genuine payment
\* that was reported in full.
THEOREM EverySendIsEarned == IpnSpec => AutoSendIsEarned
<1>1. MarketTypes /\ Ready /\ AllEarned /\ [IpnNext]_ipnVars => (MarketTypes /\ Ready /\ AllEarned)'
  BY MarketStep
<1>2. MarketTypes /\ AllEarned /\ [IpnNext]_ipnVars =>
        [ Len(wallet') > Len(wallet) =>
            LET o == wallet'[Len(wallet')]
            IN  /\ fills[o] = "sold" /\ tied[o] \in Genuine
                /\ [pay |-> tied[o], says |-> "full"] \in said ]_ipnVars
  BY SendIsBacked
<1> QED BY <1>1, <1>2, MarketStarts, PTL DEF IpnSpec, AutoSendIsEarned

\* The first payment an order accepts or holds stays written on it, whichever
\* handlers decide at once.
THEOREM TieStays == IpnSpec => TieIsForever
<1>1. MarketTypes /\ Ready /\ AllEarned /\ [IpnNext]_ipnVars => (MarketTypes /\ Ready /\ AllEarned)'
  BY MarketStep
<1>2. MarketTypes /\ Ready /\ AllEarned /\ [IpnNext]_ipnVars =>
        [\A o \in Orders : tied[o] # NoPayment => tied'[o] = tied[o]]_ipnVars
  BY MarketStep DEF Stands
<1> QED BY <1>1, <1>2, MarketStarts, PTL DEF IpnSpec, TieIsForever
=============================================================================
