------------------------------- MODULE Studio -------------------------------
(***************************************************************************)
(* contrib/pcnaibot: the money of a picture or a video (lib/billing.mjs,      *)
(* lib/jobs.mjs, bot.mjs at its start).  A card is tapped, its price is moved *)
(* from balance to reserved, the provider is called, and the reservation is   *)
(* settled, released, held or aged out.  The bot is one thread over a         *)
(* synchronous database: between two awaits nothing of the bot interleaves,   *)
(* but the deposit watcher is another process, and the bot may die, or a      *)
(* statement throw, between two transactions.  One chat.  Left out: chat      *)
(* turns (they are free), repricing, sources, sending the result, messages,   *)
(* and the reservation keys of Telegram updates, which nothing reserves under.*)
(***************************************************************************)
EXTENDS Integers, FiniteSets, Functions

CONSTANTS
  Cards, NoCard,
  Videos,       \* the cards that are for a clip; the others are for a picture
  Price,        \* price_micro of each card
  Opening,      \* what the user has paid in before the first card
  MaxDeposits,  \* bound: what is paid in altogether
  MaxTroubles   \* bound: deaths of the process and throwing statements

ASSUME StudioAssumption ==
  /\ IsFiniteSet(Cards) /\ Videos \subseteq Cards /\ NoCard \notin Cards
  /\ Price \in [Cards -> Nat \ {0}]
  /\ Opening \in Nat /\ MaxDeposits \in Nat /\ MaxTroubles \in Nat

VARIABLES
  card,         \* proposals.state; "closed" stands for cancelled, replaced, expired
  resv,         \* reservations.state, "none" without a row
  job,          \* media_jobs.state, "none" without a row
  remote,       \* cards whose job has its remote_id
  items,        \* cards with a row in items
  balance, reserved,
  charged,      \* the ai_turn row of a card's reservation, 0 without one
  paid,         \* sum of the deposits' ledger rows
  at,           \* at[c]: where the job's call is, between awaits
  thread,       \* the synchronous stretch that runs, and for which card
  up,           \* FALSE from a death to the end of start-up
  provider,     \* what the provider makes of each card
  age,          \* 1 past the age-out's hour, 2 past the give-up's three
  torn,         \* history: cards whose cut stretch was not, or cannot be, repaired
  troubles

rows    == <<card, resv, job, remote, items>>
money   == <<balance, reserved, charged, paid>>
process == <<at, thread, up>>
world   == <<provider, age>>
vars    == <<rows, money, process, world, torn, troubles>>

Nothing == [card |-> NoCard, pc |-> "idle"]

Init ==
  /\ card = [c \in Cards |-> "none"] /\ resv = [c \in Cards |-> "none"]
  /\ job = [c \in Cards |-> "none"] /\ remote = {} /\ items = {}
  /\ balance = Opening /\ reserved = 0 /\ charged = [c \in Cards |-> 0] /\ paid = Opening
  /\ at = [c \in Cards |-> "none"] /\ thread = Nothing /\ up = TRUE
  /\ provider = [c \in Cards |-> "idle"] /\ age = [c \in Cards |-> 0]
  /\ torn = {} /\ troubles = 0

\* The event loop is free to run something.
Free == up /\ thread = Nothing

Running(c) == job[c] = "running"
InReserved(c) == resv[c] \in {"open", "held"}

Runs(c, pc) == thread' = [card |-> c, pc |-> pc]
Ends == thread' = Nothing

Moves(f, c, v) == [f EXCEPT ![c] = v]

-----------------------------------------------------------------------------
(* Cards.                                                                   *)

\* A new card replaces every open one of the chat.
createProposal(c) ==
  /\ Free /\ card[c] = "none"
  /\ card' = [d \in Cards |-> CASE d = c -> "open"
                                [] d # c /\ card[d] = "open" -> "closed"
                                [] OTHER -> card[d]]
  /\ UNCHANGED <<resv, job, remote, items, money, process, world, torn, troubles>>

\* cancelProposal, expireCards, and a tap on a card past its day.
Dismiss(c) ==
  /\ Free /\ card[c] = "open"
  /\ card' = Moves(card, c, "closed")
  /\ UNCHANGED <<resv, job, remote, items, money, process, world, torn, troubles>>

\* beginJob: one running job of each kind; the card, the reservation and the job
\* row are written one after the other.
beginJob(c) ==
  /\ Free /\ card[c] = "open"
  /\ ~ \E d \in Cards : Running(d) /\ (d \in Videos <=> c \in Videos)
  /\ card' = Moves(card, c, "started") /\ Runs(c, "reserve")
  /\ UNCHANGED <<resv, job, remote, items, money, at, up, world, torn, troubles>>

reserve(c) ==
  /\ thread = [card |-> c, pc |-> "reserve"]
  /\ IF balance >= Price[c]
     THEN /\ balance' = balance - Price[c] /\ reserved' = reserved + Price[c]
          /\ resv' = Moves(resv, c, "open") /\ Runs(c, "job")
          /\ UNCHANGED card
     ELSE card' = Moves(card, c, "open") /\ Ends /\ UNCHANGED <<balance, reserved, resv>>
  /\ UNCHANGED <<job, remote, items, charged, paid, at, up, world, torn, troubles>>

InsertJob(c) ==
  /\ thread = [card |-> c, pc |-> "job"]
  /\ job' = Moves(job, c, "running") /\ at' = Moves(at, c, "call") /\ Ends
  /\ UNCHANGED <<card, resv, remote, items, money, up, world, torn, troubles>>

-----------------------------------------------------------------------------
(* runImageJob, startVideoJob, pollVideos: up to the verdict on the call.   *)

\* The sources could not be read, or the connection never opened: it did not run.
NotRun(c) ==
  /\ Free /\ at[c] = "call"
  /\ at' = Moves(at, c, "none") /\ Runs(c, "release")
  /\ UNCHANGED <<rows, money, up, world, torn, troubles>>

Ask(c) ==
  /\ Free /\ at[c] = "call"
  /\ at' = Moves(at, c, "wait") /\ provider' = Moves(provider, c, "asked")
  /\ UNCHANGED <<rows, money, thread, up, age, torn, troubles>>

\* The picture itself, the clip's remote id, or a refusal.
Answered(c) ==
  /\ Free /\ at[c] = "wait" /\ provider[c] # "asked"
  /\ at' = Moves(at, c, "none")
  /\ \/ provider[c] = "refused" /\ Runs(c, "release") /\ UNCHANGED remote
     \/ provider[c] # "refused" /\ c \notin Videos /\ Runs(c, "settle") /\ UNCHANGED remote
     \/ provider[c] # "refused" /\ c \in Videos /\ remote' = remote \cup {c} /\ UNCHANGED thread
  /\ UNCHANGED <<card, resv, job, items, money, up, world, torn, troubles>>

\* Bucket UNKNOWN: no answer in time, an unreadable one, or one that names no job.
AnswerLost(c) ==
  /\ Free /\ at[c] = "wait"
  /\ at' = Moves(at, c, "none") /\ Runs(c, "hold")
  /\ UNCHANGED <<rows, money, up, world, torn, troubles>>

\* Mutant: a clip that stays unfinished is not given up on.
VerdictPatient(c, seen) ==
  CASE seen = "made" -> "settle"
    [] seen = "failed" -> "release"
    [] seen = "unreadable" /\ age[c] = 2 -> "hold"
    [] OTHER -> "idle"

\* What a poll concludes; "idle" is to ask again.
Verdict(c, seen) ==
  CASE seen = "made" -> "settle"
    [] seen = "failed" -> "release"
    [] seen \in {"making", "unreadable"} /\ age[c] = 2 -> "hold"
    [] OTHER -> "idle"

Polled(c, seen) ==
  /\ Free /\ Running(c) /\ c \in remote
  /\ Verdict(c, seen) # "idle" /\ Runs(c, Verdict(c, seen))
  /\ UNCHANGED <<rows, money, at, up, world, torn, troubles>>

pollVideos(c) == Polled(c, provider[c])

PollFails(c) == Polled(c, "unreadable")

-----------------------------------------------------------------------------
(* The money of a job that ended.                                           *)

\* What is reserved for c goes back to the balance.
Returns(c) == balance' = balance + Price[c] /\ reserved' = reserved - Price[c]

\* Mutant: a reservation that is closed already is settled again.
settleAgain(c, amount) ==
  /\ thread = [card |-> c, pc |-> "settle"]
  /\ balance' = balance + Price[c] - amount /\ reserved' = reserved - Price[c]
  /\ resv' = Moves(resv, c, "settled") /\ charged' = Moves(charged, c, amount)
  /\ Runs(c, "finish")
  /\ UNCHANGED <<card, job, remote, items, paid, at, up, world, torn, troubles>>

\* settleCapped, settle and settleLate: what an aged-out hold gave back is
\* charged all the same; any other closed reservation, and a held one, is left.
settle(c, amount) ==
  /\ thread = [card |-> c, pc |-> "settle"]
  /\ IF resv[c] \in {"open", "expired"}
     THEN /\ balance' = balance - amount + (IF resv[c] = "open" THEN Price[c] ELSE 0)
          /\ reserved' = reserved - (IF resv[c] = "open" THEN Price[c] ELSE 0)
          /\ resv' = Moves(resv, c, "settled") /\ charged' = Moves(charged, c, amount)
     ELSE UNCHANGED <<balance, reserved, resv, charged>>
  /\ Runs(c, "finish")
  /\ UNCHANGED <<card, job, remote, items, paid, at, up, world, torn, troubles>>

\* The item, the job and the card in one transaction.
finishJob(c) ==
  /\ thread = [card |-> c, pc |-> "finish"]
  /\ items' = items \cup {c} /\ job' = Moves(job, c, "done") /\ card' = Moves(card, c, "done")
  /\ Ends
  /\ UNCHANGED <<resv, remote, money, at, up, world, torn, troubles>>

\* unwind: the reservation, the job and the card, one after the other.
release(c) ==
  /\ thread = [card |-> c, pc |-> "release"]
  /\ IF resv[c] = "open" THEN Returns(c) /\ resv' = Moves(resv, c, "released")
                         ELSE UNCHANGED <<balance, reserved, resv>>
  /\ Runs(c, "failed")
  /\ UNCHANGED <<card, job, remote, items, charged, paid, at, up, world, torn, troubles>>

Held(c) == resv' = Moves(resv, c, IF resv[c] = "open" THEN "held" ELSE resv[c])

hold(c) ==
  /\ thread = [card |-> c, pc |-> "hold"]
  /\ Held(c) /\ Runs(c, "unknown")
  /\ torn' = IF resv[c] = "settled" THEN torn \cup {c} ELSE torn
  /\ UNCHANGED <<card, job, remote, items, money, at, up, world, troubles>>

JobEnds(c) ==
  /\ thread.card = c /\ thread.pc \in {"failed", "unknown"}
  /\ job' = Moves(job, c, thread.pc) /\ Runs(c, "card")
  /\ UNCHANGED <<card, resv, remote, items, money, at, up, world, torn, troubles>>

CardFails(c) ==
  /\ thread = [card |-> c, pc |-> "card"]
  /\ card' = Moves(card, c, "failed") /\ Ends
  /\ UNCHANGED <<resv, job, remote, items, money, at, up, world, torn, troubles>>

ageOutReservations(c) ==
  /\ Free /\ InReserved(c) /\ age[c] >= 1 /\ ~Running(c)
  /\ Returns(c) /\ resv' = Moves(resv, c, "expired")
  /\ UNCHANGED <<card, job, remote, items, charged, paid, process, world, torn, troubles>>

-----------------------------------------------------------------------------
(* Deaths, throws and the start of the next process.                        *)

Trouble == troubles < MaxTroubles /\ troubles' = troubles + 1

\* A picture settled and not recorded, or a clip held and still to be polled.
Tears ==
  torn' = torn \cup {c \in {thread.card} \cap Cards :
                       \/ thread.pc = "finish" /\ c \notin Videos
                       \/ thread.pc = "unknown" /\ c \in remote}

Crash ==
  /\ up /\ Trouble /\ Tears
  /\ up' = FALSE /\ Ends /\ at' = [c \in Cards |-> "none"]
  /\ UNCHANGED <<rows, money, world>>

\* A statement throws (the watcher held the database for its five seconds): the
\* stretch ends there.  Only reserve's is caught, and puts the card back.
Throws ==
  /\ thread # Nothing /\ Trouble /\ Tears
  /\ card' = IF thread.pc = "reserve" THEN Moves(card, thread.card, "open") ELSE card
  /\ Ends
  /\ UNCHANGED <<resv, job, remote, items, money, at, up, world>>

\* Mutant: a clip whose id is known is given up too.
LostAll(c) == Running(c)

\* Nobody will hear of it again: a picture, or a clip without its remote id.
Lost(c) == Running(c) /\ (c \in Videos => c \notin remote)

\* Mutant: what a running clip has reserved is given back at a start.
OrphanedAny(c) == resv[c] = "open"

Orphaned(c) == resv[c] = "open" /\ ~Running(c)

\* recoverAfterRestart: three statements; a start that dies between them is repeated,
\* but for the card's.
RecoverJob(c) ==
  /\ ~up /\ Lost(c)
  /\ Held(c) /\ job' = Moves(job, c, "unknown") /\ card' = Moves(card, c, "failed")
  /\ UNCHANGED <<remote, items, money, process, world, torn, troubles>>

ReleaseOrphan(c) ==
  /\ ~up /\ ~(\E d \in Cards : Lost(d)) /\ Orphaned(c)
  /\ Returns(c) /\ resv' = Moves(resv, c, "released")
  /\ UNCHANGED <<card, job, remote, items, charged, paid, process, world, torn, troubles>>

Started ==
  /\ ~up /\ ~(\E d \in Cards : Lost(d) \/ Orphaned(d))
  /\ up' = TRUE
  /\ card' = [c \in Cards |-> IF card[c] = "started" /\ job[c] = "none" THEN "failed" ELSE card[c]]
  /\ UNCHANGED <<resv, job, remote, items, money, at, thread, world, torn, troubles>>

-----------------------------------------------------------------------------
(* The watcher's process, the provider and the clock.                       *)

\* creditDeposit, what it does to the balance; what makes it happen once, its own
\* rows, dust and the rebate are left out.
Deposit ==
  /\ paid < MaxDeposits
  /\ paid' = paid + 1 /\ balance' = balance + 1
  /\ UNCHANGED <<rows, reserved, charged, process, world, torn, troubles>>

Provides(c, from, to) ==
  /\ provider[c] = from /\ provider' = Moves(provider, c, to)
  /\ UNCHANGED <<rows, money, process, age, torn, troubles>>

Provider(c) ==
  \/ Provides(c, "asked", "refused")
  \/ c \notin Videos /\ Provides(c, "asked", "made")
  \/ c \in Videos /\ Provides(c, "asked", "making")
  \/ Provides(c, "making", "made") \/ Provides(c, "making", "failed")

Ages(c) ==
  /\ (InReserved(c) \/ Running(c)) /\ age[c] < 2
  /\ age' = Moves(age, c, age[c] + 1)
  /\ UNCHANGED <<rows, money, process, provider, torn, troubles>>

\* The stretch that runs; a job's charge is capped at the card's price.
Stretch(c) ==
  \/ reserve(c) \/ InsertJob(c) \/ finishJob(c) \/ release(c) \/ hold(c)
  \/ JobEnds(c) \/ CardFails(c)
  \/ \E amount \in 0..Price[c] : settle(c, amount)

CallSteps(c) == NotRun(c) \/ Ask(c) \/ Answered(c) \/ AnswerLost(c)
StartUp == (\E c \in Cards : RecoverJob(c) \/ ReleaseOrphan(c)) \/ Started

Next ==
  \/ \E c \in Cards :
       \/ createProposal(c) \/ Dismiss(c) \/ beginJob(c)
       \/ Stretch(c) \/ CallSteps(c) \/ pollVideos(c) \/ PollFails(c)
       \/ ageOutReservations(c) \/ Provider(c) \/ Ages(c)
  \/ StartUp \/ Crash \/ Throws \/ Deposit

Spec == Init /\ [][Next]_vars

\* The thread runs on, time passes, a dead process is started again, and what
\* waits for the thread gets it however many taps come in between (the event loop
\* is a queue; requests have timeouts, timers fire, some poll is answered);
\* nothing forces a tap, a deposit, the provider or a fault.
FairSpec ==
  /\ Spec
  /\ WF_vars(StartUp \/ \E c \in Cards : Stretch(c)) /\ WF_vars(\E c \in Cards : Ages(c))
  /\ \A c \in Cards : SF_vars(CallSteps(c) \/ pollVideos(c) \/ ageOutReservations(c))

-----------------------------------------------------------------------------
(* Properties.                                                              *)

\* reconcile(): the ledger is balance plus reserved, and reserved is what the
\* open and held reservations are for, wherever the process died in between.
BooksClose ==
  /\ reserved = SumFunctionOnSet(Price, {c \in Cards : InReserved(c)})
  /\ balance + reserved = paid - SumFunctionOnSet(charged, Cards)

\* "A slow video can be free" no more: what was made and recorded went through
\* its settlement, unless its hold was cut off before its job left 'running'.
ItemIsSettled == \A c \in items : resv[c] = "settled" \/ c \in torn

\* "A missing paid one is not" harmless: whoever was charged has a result, unless
\* a picture was cut off between its settlement and its record, or a clip was and
\* then stayed unreadable past its time.
ChargedIsMade == \A c \in Cards : charged[c] > 0 ~> c \in items \/ c \in torn

\* "Held forever" is what the age-out is against: a reservation is settled or goes
\* back, unless a throw left its job to the next start.
MoneyComesBack ==
  \A c \in Cards : InReserved(c) ~> ~InReserved(c) \/ (Lost(c) /\ at[c] = "none" /\ up)
=============================================================================
