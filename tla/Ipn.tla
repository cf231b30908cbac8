-------------------------------- MODULE Ipn ---------------------------------
(***************************************************************************)
(* contrib/market/ipn.mjs over Delivery: what a payment callback may do to an *)
(* order.  Callbacks are retried until they are answered, arrive in any order *)
(* and are handled at the same time; the handler that accepts a payment goes  *)
(* on as Delivery's deliver().  Beside it run the reservation sweep, the      *)
(* buyer's cancel and the operator's "delivered by hand".  The database's     *)
(* transactions are one step each.  Left out: signatures, amounts (a callback *)
(* says full, short, unreadable or failed; one that says nothing yet changes  *)
(* nothing), alerts, the event log, orders from before paid_payment_id, the   *)
(* operator's Send (Delivery has it) and a payment that names two orders.     *)
(***************************************************************************)
EXTENDS Delivery, FiniteSets

CONSTANTS
  Payments, NoPayment,
  Genuine,      \* payments that match their order's invoice; none is a child payment
  OrderOf,      \* the order a payment's callbacks name
  MaxReports    \* bound: different callbacks the gateway sends

ASSUME IpnAssumption ==
  /\ Genuine \subseteq Payments /\ NoPayment \notin Payments
  /\ OrderOf \in [Payments -> Orders] /\ MaxReports \in Nat

VARIABLES
  tied,         \* orders.paid_payment_id
  fills,        \* the order's ladder_fills: "reserved", "sold", "released"
  due,          \* callbacks the gateway has sent and not seen answered
  said,         \* history: callbacks sent so far
  callback,     \* callback[w]: the one a handler is at, or None
  told          \* history: orders deliver() has told a human it crashed on

market  == <<tied, fills>>
gateway == <<due, said>>
ipnVars == <<vars, market, gateway, callback, told>>

None == [pay |-> NoPayment, says |-> "nothing"]
Says == {"full", "short", "unreadable", "fail"}

\* 'closed' stands for expired, failed and refunded.
UNPAID == {"pending", "closed"}

\* Delivery's variables with every order unpaid.
IpnInit ==
  /\ status = [o \in Orders |-> "pending"]
  /\ recorded = [o \in Orders |-> FALSE] /\ handled = [o \in Orders |-> FALSE]
  /\ wallet = <<>> /\ spent = 0 /\ queued = {} /\ call = [w \in Workers |-> Idle] /\ sweep = AtRest
  /\ overtaken = {} /\ raced = {} /\ troubles = 0
  /\ tied = [o \in Orders |-> NoPayment] /\ fills = [o \in Orders |-> "reserved"]
  /\ due = {} /\ said = {} /\ callback = [w \in Server |-> None] /\ told = {}

-----------------------------------------------------------------------------
(* The gateway.                                                             *)

GatewayReports(p, r) ==
  /\ Cardinality(said) < MaxReports /\ [pay |-> p, says |-> r] \notin said
  /\ said' = said \cup {[pay |-> p, says |-> r]}
  /\ due' = due \cup {[pay |-> p, says |-> r]}
  /\ UNCHANGED <<vars, market, callback, told>>

-----------------------------------------------------------------------------
(* decide(): the order is read once, and what the callback is for follows.  *)

Receive(w, c) ==
  /\ At(w, "idle") /\ callback[w] = None /\ c \in due
  /\ callback' = [callback EXCEPT ![w] = c]
  /\ call' = [call EXCEPT ![w] = [pc |-> "load", order |-> OrderOf[c.pay], force |-> FALSE]]
  /\ UNCHANGED <<row, node, sweep, history, troubles, market, gateway, told>>

\* Mutant: a repeat of the paying callback never finishes a delivery.
SamePaymentNeverFinishes(o, r) ==
  IF ~recorded[o] /\ status[o] = "awaiting_delivery" /\ r = "short" THEN "contradict" ELSE "idle"

\* samePayment(): a callback for the payment the order is tied to.
SamePayment(o, r) ==
  CASE ~recorded[o] /\ status[o] = "awaiting_delivery" /\ r = "full" /\ ~handled[o] -> "select"
    [] ~recorded[o] /\ status[o] = "awaiting_delivery" /\ r = "short" -> "contradict"
    [] OTHER -> "idle"

\* The orders paidPaymentReversed() holds: read here, and asked again by its UPDATE.
Reversible(o) == ~recorded[o] /\ status[o] \in {"awaiting_delivery", "needs_review"}

\* terminal(): failed, expired, refunded.
Terminal(o, p) ==
  CASE tied[o] = NoPayment /\ status[o] = "pending" /\ p \in Genuine -> "close"
    [] tied[o] = p /\ Reversible(o) -> "reverse"
    [] OTHER -> "idle"

Decision(o, p, r) ==
  CASE r = "fail" -> Terminal(o, p)
    [] r # "fail" /\ tied[o] = p -> SamePayment(o, r)
    [] r # "fail" /\ tied[o] \notin {p, NoPayment} -> "idle"
    [] OTHER -> IF p \in Genuine /\ r = "full" THEN "accept" ELSE "hold"

\* "idle" is an answer that changes nothing.
Load(w) ==
  /\ At(w, "load")
  /\ LET to == Decision(call[w].order, callback[w].pay, callback[w].says)
     IN  IF to = "idle" THEN Returns(w) ELSE Goes(w, to)
  /\ UNCHANGED <<row, node, sweep, history, troubles, market, gateway, callback, told>>

\* Mutant: the row is not looked at again under its lock.
StillUnpaidUnchecked(o) == ~recorded[o]

StillUnpaid(o) == tied[o] = NoPayment /\ ~recorded[o] /\ status[o] \in UNPAID

\* Mutant: an order without inventory is handed to delivery all the same.
AcceptedAsBacked(o) == "awaiting_delivery"

AcceptedAs(o) == IF fills[o] = "released" THEN "needs_review" ELSE "awaiting_delivery"

\* accept(): settle the ladder and take the payment, in one transaction; a lost
\* race is rolled back and decided again.  An accepted order goes to deliver().
Accept(w) ==
  /\ At(w, "accept")
  /\ LET o == call[w].order
     IN  IF StillUnpaid(o)
         THEN /\ Sets(o, AcceptedAs(o))
              /\ handled' = [handled EXCEPT ![o] = @ \/ fills[o] = "released"]
              /\ fills' = [fills EXCEPT ![o] = IF @ = "reserved" THEN "sold" ELSE @]
              /\ tied' = [tied EXCEPT ![o] = callback[w].pay]
              /\ IF AcceptedAs(o) = "awaiting_delivery" THEN Goes(w, "select") ELSE Returns(w)
         ELSE Goes(w, "load") /\ UNCHANGED <<status, handled, market>>
  /\ UNCHANGED <<recorded, node, sweep, history, troubles, gateway, callback, told>>

\* holdForHuman(): tie the order and leave it to a human.
Hold(w) ==
  /\ At(w, "hold")
  /\ LET o == call[w].order
     IN  IF StillUnpaid(o)
         THEN /\ Sets(o, "needs_review") /\ Handles(o)
              /\ tied' = [tied EXCEPT ![o] = callback[w].pay]
              /\ Returns(w)
         ELSE Goes(w, "load") /\ UNCHANGED <<status, handled, tied>>
  /\ UNCHANGED <<recorded, node, sweep, history, troubles, fills, gateway, callback, told>>

\* contradicted() and paidPaymentReversed(): held unless it is on its way.
Withhold(w) ==
  /\ call[w].pc \in {"contradict", "reverse"}
  /\ LET o == call[w].order
     IN  IF IF At(w, "reverse") THEN Reversible(o) ELSE Claimable(o)
         THEN Sets(o, "needs_review") /\ Handles(o) ELSE UNCHANGED <<status, handled>>
  /\ Returns(w)
  /\ UNCHANGED <<recorded, node, sweep, history, troubles, market, gateway, callback, told>>

\* releaseLadder and the closing UPDATE in one transaction.
Closes(o) ==
  IF status[o] = "pending" /\ tied[o] = NoPayment
  THEN /\ Sets(o, "closed")
       /\ fills' = [fills EXCEPT ![o] = IF @ = "reserved" THEN "released" ELSE @]
  ELSE UNCHANGED <<status, fills>>

Close(w) ==
  /\ At(w, "close")
  /\ Closes(call[w].order) /\ Returns(w)
  /\ UNCHANGED <<recorded, handled, node, sweep, history, troubles, tied, gateway, callback, told>>

\* The handler returns, after deliver() if it came to that: the gateway has its 200.
Answer(w) ==
  /\ At(w, "idle") /\ callback[w] # None
  /\ due' = due \ {callback[w]}
  /\ callback' = [callback EXCEPT ![w] = None]
  /\ UNCHANGED <<vars, market, said, told>>

\* A query of the handler throws: 500, and the gateway tries again.
HandlerThrows(w) ==
  /\ call[w].pc \in {"load", "accept", "hold", "contradict", "reverse", "close"}
  /\ Trouble /\ Returns(w)
  /\ callback' = [callback EXCEPT ![w] = None]
  /\ UNCHANGED <<row, node, sweep, history, market, gateway, told>>

IpnStep(w) == Load(w) \/ Accept(w) \/ Hold(w) \/ Withhold(w) \/ Close(w) \/ Answer(w)

-----------------------------------------------------------------------------
(* The rest of the market.                                                  *)

\* expireWithRelease(): the reservation sweep, the buyer's cancel, the admin's
\* Expire.
Expire(o) ==
  /\ status[o] = "pending" /\ Closes(o)
  /\ UNCHANGED <<recorded, handled, node, call, sweep, history, troubles, tied, gateway, callback, told>>

\* The reservation sweep settles what a paid order left reserved.
SettleLeft(o) ==
  /\ fills[o] = "reserved" /\ status[o] \in {"awaiting_delivery", "delivered"}
  /\ fills' = [fills EXCEPT ![o] = "sold"]
  /\ UNCHANGED <<vars, tied, gateway, callback, told>>

\* deliver() catches what its queries throw, tells a human and returns.
DeliverThrows(w) ==
  /\ CallThrows(w)
  /\ told' = told \cup {call[w].order}
  /\ UNCHANGED <<market, gateway, callback>>

ServerDies ==
  /\ Crash
  /\ callback' = [w \in Server |-> None]
  /\ UNCHANGED <<market, gateway, told>>

DeliveryRuns ==
  /\ \/ \E w \in Server : CallStep(w) \/ LookFails(w) \/ SendThrows(w) \/ LookAgainFails(w)
     \/ SweepStep
     \/ \E o \in Orders : markDelivered(o)
  /\ UNCHANGED <<market, gateway, callback, told>>

IpnNext ==
  \/ \E p \in Payments, r \in Says : GatewayReports(p, r)
  \/ \E w \in Server, c \in due : Receive(w, c)
  \/ \E w \in Server : IpnStep(w) \/ HandlerThrows(w) \/ DeliverThrows(w)
  \/ \E o \in Orders : Expire(o) \/ SettleLeft(o)
  \/ ServerDies \/ DeliveryRuns

IpnSpec == IpnInit /\ [][IpnNext]_ipnVars

\* The gateway retries, handlers and deliver() are resumed and the two sweeps
\* run; nothing forces a payment, an operator, a cancel or a fault.
IpnFairSpec ==
  /\ IpnSpec
  /\ WF_ipnVars(\E w \in Server, c \in due : Receive(w, c))
  /\ \A w \in Server :
       WF_ipnVars(IpnStep(w) \/ (CallStep(w) /\ UNCHANGED <<market, gateway, callback, told>>))
  /\ WF_ipnVars(SweepStep /\ UNCHANGED <<market, gateway, callback, told>>)
  /\ WF_ipnVars(\E o \in Orders : SettleLeft(o))

-----------------------------------------------------------------------------
(* Properties.                                                              *)

\* "PAYS OUT: the only way an order reaches 'awaiting_delivery'": coins leave
\* without a human only for an order whose inventory was settled for it, tied to
\* a payment of its own invoice that was reported in full, whichever callbacks,
\* expiries and crashes came in between.
AutoSendIsEarned ==
  [][ Len(wallet') > Len(wallet) =>
        LET o == wallet'[Len(wallet')]
        IN  /\ fills[o] = "sold" /\ tied[o] \in Genuine
            /\ [pay |-> tied[o], says |-> "full"] \in said ]_ipnVars

\* "The first payment an order accepts, or holds for a human, is written on the
\* order and nothing moves it back", two payments deciding at once included.
TieIsForever == [][\A o \in Orders : tied[o] # NoPayment => tied'[o] = tied[o]]_ipnVars

\* "Accepted, and delivery never started": a paid order is sent or brought to a
\* human, wherever the process dies between accepting it and delivering it.
AcceptedIsServed ==
  \A o \in Orders : tied[o] # NoPayment ~> handled[o] \/ recorded[o] \/ o \in told

=============================================================================
