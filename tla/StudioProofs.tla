----------------------------- MODULE StudioProofs ---------------------------
(***************************************************************************)
(* The money of the bot, for any number of cards, prices and deposits and     *)
(* any number of deaths and throwing statements: the books close, and what    *)
(* was made and recorded was settled.                                         *)
(*                                                                         *)
(* Neither is inductive.  The books need to know that a settlement writes its *)
(* charge once, over a zero (Charges), and that only a card without a         *)
(* reservation gets one (the first parts of Flow); the items need the way a   *)
(* reservation takes beside its job, which is the rest of Flow.               *)
(***************************************************************************)
EXTENDS Studio, SumTheorems, TLAPS

CardStates == {"none", "open", "closed", "started", "done", "failed"}
ResvStates == {"none", "open", "held", "settled", "released", "expired"}
JobStates  == {"none", "running", "done", "failed", "unknown"}
CallStates == {"none", "call", "wait"}
Stretches  == {"reserve", "job", "settle", "finish", "release", "failed", "hold", "unknown", "card"}
ProviderStates == {"idle", "asked", "refused", "making", "made", "failed"}

Types ==
  /\ card \in [Cards -> CardStates] /\ resv \in [Cards -> ResvStates]
  /\ job \in [Cards -> JobStates] /\ at \in [Cards -> CallStates]
  /\ provider \in [Cards -> ProviderStates]
  /\ remote \subseteq Cards /\ items \subseteq Cards /\ torn \subseteq Cards
  /\ balance \in Int /\ reserved \in Int /\ paid \in Int /\ charged \in [Cards -> Nat]
  /\ thread = Nothing \/ thread \in [card : Cards, pc : Stretches]
  /\ up \in BOOLEAN /\ (~up => thread = Nothing)

On(c, pc) == thread = [card |-> c, pc |-> pc]

\* Nothing has been reserved, started or called for the card.
Fresh(c) == resv[c] = "none" /\ job[c] = "none" /\ c \notin remote /\ at[c] = "none"

\* A clip that is polled may still be settled, unless the provider failed it or it
\* was torn.
Billable(c) == provider[c] = "failed" \/ resv[c] \in {"open", "settled"} \/ c \in torn

\* A call is open only between the job's row and its verdict.
Calls(c) ==
  at[c] # "none" => Running(c) /\ resv[c] = "open" /\ c \notin remote /\ thread.card # c /\ up

\* Where the card's rows are when a stretch of it runs, and when none does.
Flow(c) ==
  /\ card[c] \in {"none", "open"} \/ On(c, "reserve") => Fresh(c)
  /\ thread.card = c => card[c] \notin {"none", "open"}
  /\ On(c, "job") => resv[c] = "open" /\ job[c] = "none" /\ c \notin remote /\ at[c] = "none"
  /\ Calls(c)
  /\ c \in remote /\ Running(c) /\ thread.card # c => Billable(c)
  /\ On(c, "settle") => resv[c] \in {"open", "settled"} \/ c \in torn
  /\ On(c, "finish") => resv[c] = "settled" \/ c \in torn
  /\ (On(c, "release") \/ On(c, "failed")) /\ c \in remote => provider[c] = "failed"
  /\ On(c, "hold") /\ c \in remote => Billable(c)
  /\ On(c, "card") => ~Running(c)

\* A charge is on a settled reservation.
Charges == \A c \in Cards : charged[c] # 0 => resv[c] = "settled"

Inv == Types /\ Charges /\ (\A c \in Cards : Flow(c)) /\ BooksClose /\ ItemIsSettled

\* Types are kept by every step.
LEMMA TypesStep == Inv /\ [Next]_vars => Types'
<1> SUFFICES ASSUME Inv, [Next]_vars PROVE Types'
  OBVIOUS
<1> USE StudioAssumption DEF StudioAssumption, Inv, Types, Nothing, Moves, CardStates, ResvStates,
        JobStates, CallStates, Stretches, ProviderStates, rows, money, process, world
<1>1. ASSUME NEW c \in Cards, createProposal(c) PROVE Types'
  BY <1>1 DEF createProposal, Free
<1>2. ASSUME NEW c \in Cards, Dismiss(c) PROVE Types'
  BY <1>2 DEF Dismiss, Free
<1>3. ASSUME NEW c \in Cards, beginJob(c) PROVE Types'
  BY <1>3 DEF beginJob, Free, Runs
<1>4. ASSUME NEW c \in Cards, reserve(c) PROVE Types'
  BY <1>4 DEF reserve, Runs, Ends
<1>5. ASSUME NEW c \in Cards, InsertJob(c) PROVE Types'
  BY <1>5 DEF InsertJob, Ends
<1>6. ASSUME NEW c \in Cards, finishJob(c) PROVE Types'
  BY <1>6 DEF finishJob, Ends
<1>7. ASSUME NEW c \in Cards, release(c) PROVE Types'
  BY <1>7 DEF release, Returns, Runs
<1>8. ASSUME NEW c \in Cards, hold(c) PROVE Types'
  BY <1>8 DEF hold, Held, Runs
<1>9. ASSUME NEW c \in Cards, JobEnds(c) PROVE Types'
  BY <1>9 DEF JobEnds, Runs
<1>10. ASSUME NEW c \in Cards, CardFails(c) PROVE Types'
  BY <1>10 DEF CardFails, Ends
<1>11. ASSUME NEW c \in Cards, NEW amount \in 0..Price[c], settle(c, amount) PROVE Types'
  BY <1>11 DEF settle, Runs
<1>12. ASSUME NEW c \in Cards, NotRun(c) PROVE Types'
  BY <1>12 DEF NotRun, Free, Runs
<1>13. ASSUME NEW c \in Cards, Ask(c) PROVE Types'
  BY <1>13 DEF Ask, Free
<1>14. ASSUME NEW c \in Cards, Answered(c) PROVE Types'
  BY <1>14 DEF Answered, Free, Runs
<1>15. ASSUME NEW c \in Cards, AnswerLost(c) PROVE Types'
  BY <1>15 DEF AnswerLost, Free, Runs
<1>16. ASSUME NEW c \in Cards, pollVideos(c) PROVE Types'
  BY <1>16 DEF pollVideos, Polled, Verdict, Free, Runs
<1>17. ASSUME NEW c \in Cards, PollFails(c) PROVE Types'
  BY <1>17 DEF PollFails, Polled, Verdict, Free, Runs
<1>18. ASSUME NEW c \in Cards, ageOutReservations(c) PROVE Types'
  BY <1>18 DEF ageOutReservations, Free, InReserved, Returns
<1>19. ASSUME NEW c \in Cards, Provider(c) PROVE Types'
  BY <1>19 DEF Provider, Provides
<1>20. ASSUME NEW c \in Cards, Ages(c) PROVE Types'
  BY <1>20 DEF Ages
<1>21. ASSUME NEW c \in Cards, RecoverJob(c) PROVE Types'
  BY <1>21 DEF RecoverJob, Lost, Held
<1>22. ASSUME NEW c \in Cards, ReleaseOrphan(c) PROVE Types'
  BY <1>22 DEF ReleaseOrphan, Orphaned, Returns
<1>23. CASE Started
  BY <1>23 DEF Started
<1>24. CASE Crash
  BY <1>24 DEF Crash, Trouble, Tears, Ends
<1>25. CASE Throws
  BY <1>25 DEF Throws, Trouble, Tears, Ends
<1>26. CASE Deposit
  BY <1>26 DEF Deposit
<1>27. CASE UNCHANGED vars
  BY <1>27 DEF vars
<1> QED
  BY <1>1, <1>2, <1>3, <1>4, <1>5, <1>6, <1>7, <1>8, <1>9, <1>10, <1>11, <1>12, <1>13, <1>14,
      <1>15, <1>16, <1>17, <1>18, <1>19, <1>20, <1>21, <1>22, <1>23, <1>24, <1>25, <1>26, <1>27
    DEF Next, Stretch, CallSteps, StartUp

\* What a poll concludes from what it saw.
LEMMA Verdicts ==
  ASSUME NEW c, NEW seen
  PROVE  /\ Verdict(c, seen) \in {"settle", "release", "hold", "idle"}
         /\ Verdict(c, seen) = "settle" => seen = "made"
         /\ Verdict(c, seen) = "release" => seen = "failed"
BY Zenon DEF Verdict

\* A new card touches the open ones only.
LEMMA NewCard ==
  ASSUME Types, NEW c \in Cards, createProposal(c), NEW d \in Cards
  PROVE  card'[d] \in {"none", "open"} => card[d] \in {"none", "open"}
<1>1. card'[d] = CASE d = c -> "open"
                   [] d # c /\ card[d] = "open" -> "closed"
                   [] OTHER -> card[d]
  BY DEF createProposal, Types
<1>2. CASE d = c
  BY <1>2 DEF createProposal
<1>3. CASE d # c /\ card[d] = "open"
  BY <1>3
<1>4. CASE d # c /\ card[d] # "open"
  <2>1. card'[d] = card[d]
    BY <1>1, <1>4, Zenon
  <2> QED BY <2>1
<1> QED BY <1>2, <1>3, <1>4

\* Flow is kept by every step.
LEMMA FlowStep ==
  ASSUME Inv, [Next]_vars, NEW d \in Cards
  PROVE  Flow(d)'
<1>1. Flow(d)
  BY DEF Inv
<1>2. /\ card \in [Cards -> CardStates] /\ resv \in [Cards -> ResvStates]
      /\ job \in [Cards -> JobStates] /\ at \in [Cards -> CallStates]
      /\ provider \in [Cards -> ProviderStates]
      /\ d # thread.card \/ thread \in [card : Cards, pc : Stretches]
      /\ ~up => thread = Nothing
      /\ NoCard # d
  BY StudioAssumption DEF StudioAssumption, Inv, Types, Nothing
<1> USE <1>1, <1>2 DEF Flow, Calls, Fresh, Billable, On, Running, Nothing, Moves, rows, money,
        process, world
<1>3. ASSUME NEW c \in Cards, createProposal(c) PROVE Flow(d)'
  <2>1. card'[d] \in {"none", "open"} => card[d] \in {"none", "open"}
    BY <1>3, NewCard DEF Inv
  <2>2. UNCHANGED <<resv, job, remote, items, money, process, world, torn, troubles>>
    BY <1>3 DEF createProposal
  <2> QED BY <2>1, <2>2
<1>4. ASSUME NEW c \in Cards, Dismiss(c) PROVE Flow(d)'
  <2>1. CASE d = c
    BY <1>4, <2>1 DEF Dismiss, Free
  <2>2. CASE d # c
    BY <1>4, <2>2 DEF Dismiss, Free
  <2> QED BY <2>1, <2>2
<1>5. ASSUME NEW c \in Cards, beginJob(c) PROVE Flow(d)'
  <2>1. CASE d = c
    BY <1>5, <2>1 DEF beginJob, Free, Runs
  <2>2. CASE d # c
    BY <1>5, <2>2 DEF beginJob, Free, Runs
  <2> QED BY <2>1, <2>2
<1>6. ASSUME NEW c \in Cards, reserve(c) PROVE Flow(d)'
  <2>1. CASE d = c
    <3>1. On(d, "reserve")
      BY <1>6, <2>1 DEF reserve
    <3>2. CASE balance >= Price[c]
      BY <1>6, <2>1, <3>1, <3>2 DEF reserve, Runs
    <3>3. CASE ~(balance >= Price[c])
      BY <1>6, <2>1, <3>1, <3>3 DEF reserve, Ends
    <3> QED BY <3>2, <3>3
  <2>2. CASE d # c
    BY <1>6, <2>2 DEF reserve, Runs, Ends
  <2> QED BY <2>1, <2>2
<1>7. ASSUME NEW c \in Cards, InsertJob(c) PROVE Flow(d)'
  <2>1. CASE d = c
    BY <1>7, <2>1 DEF InsertJob, Ends
  <2>2. CASE d # c
    BY <1>7, <2>2 DEF InsertJob, Ends
  <2> QED BY <2>1, <2>2
<1>8. ASSUME NEW c \in Cards, finishJob(c) PROVE Flow(d)'
  <2>1. CASE d = c
    BY <1>8, <2>1 DEF finishJob, Ends
  <2>2. CASE d # c
    BY <1>8, <2>2 DEF finishJob, Ends
  <2> QED BY <2>1, <2>2
<1>9. ASSUME NEW c \in Cards, release(c) PROVE Flow(d)'
  <2>1. CASE d = c
    BY <1>9, <2>1 DEF release, Runs
  <2>2. CASE d # c
    BY <1>9, <2>2 DEF release, Runs
  <2> QED BY <2>1, <2>2
<1>10. ASSUME NEW c \in Cards, hold(c) PROVE Flow(d)'
  <2>1. CASE d = c
    BY <1>10, <2>1 DEF hold, Held, Runs
  <2>2. CASE d # c
    BY <1>10, <2>2 DEF hold, Held, Runs
  <2> QED BY <2>1, <2>2
<1>11. ASSUME NEW c \in Cards, JobEnds(c) PROVE Flow(d)'
  <2>1. CASE d = c
    BY <1>11, <2>1 DEF JobEnds, Runs
  <2>2. CASE d # c
    BY <1>11, <2>2 DEF JobEnds, Runs
  <2> QED BY <2>1, <2>2
<1>12. ASSUME NEW c \in Cards, CardFails(c) PROVE Flow(d)'
  <2>1. CASE d = c
    BY <1>12, <2>1 DEF CardFails, Ends
  <2>2. CASE d # c
    BY <1>12, <2>2 DEF CardFails, Ends
  <2> QED BY <2>1, <2>2
<1>13. ASSUME NEW c \in Cards, NEW amount \in 0..Price[c], settle(c, amount) PROVE Flow(d)'
  <2>1. CASE d = c
    BY <1>13, <2>1 DEF settle, Runs
  <2>2. CASE d # c
    BY <1>13, <2>2 DEF settle, Runs
  <2> QED BY <2>1, <2>2
<1>14. ASSUME NEW c \in Cards, NotRun(c) PROVE Flow(d)'
  <2>1. CASE d = c
    BY <1>14, <2>1 DEF NotRun, Free, Runs
  <2>2. CASE d # c
    BY <1>14, <2>2 DEF NotRun, Free, Runs
  <2> QED BY <2>1, <2>2
<1>15. ASSUME NEW c \in Cards, Ask(c) PROVE Flow(d)'
  <2>1. CASE d = c
    BY <1>15, <2>1 DEF Ask, Free
  <2>2. CASE d # c
    BY <1>15, <2>2 DEF Ask, Free
  <2> QED BY <2>1, <2>2
<1>16. ASSUME NEW c \in Cards, Answered(c) PROVE Flow(d)'
  <2>1. CASE d = c
    BY <1>16, <2>1 DEF Answered, Free, Runs
  <2>2. CASE d # c
    BY <1>16, <2>2 DEF Answered, Free, Runs
  <2> QED BY <2>1, <2>2
<1>17. ASSUME NEW c \in Cards, AnswerLost(c) PROVE Flow(d)'
  <2>1. CASE d = c
    BY <1>17, <2>1 DEF AnswerLost, Free, Runs
  <2>2. CASE d # c
    BY <1>17, <2>2 DEF AnswerLost, Free, Runs
  <2> QED BY <2>1, <2>2
<1>18. ASSUME NEW c \in Cards, NEW seen \in {provider[c], "unreadable"}, Polled(c, seen) PROVE Flow(d)'
  <2>1. CASE d = c
    BY <1>18, <2>1, Verdicts DEF Polled, Free, Runs
  <2>2. CASE d # c
    BY <1>18, <2>2, Verdicts DEF Polled, Free, Runs
  <2> QED BY <2>1, <2>2
<1>19. ASSUME NEW c \in Cards, ageOutReservations(c) PROVE Flow(d)'
  <2>1. CASE d = c
    BY <1>19, <2>1 DEF ageOutReservations, Free, InReserved
  <2>2. CASE d # c
    BY <1>19, <2>2 DEF ageOutReservations, Free, InReserved
  <2> QED BY <2>1, <2>2
<1>20. ASSUME NEW c \in Cards, Provider(c) PROVE Flow(d)'
  <2>1. CASE d = c
    BY <1>20, <2>1 DEF Provider, Provides
  <2>2. CASE d # c
    BY <1>20, <2>2 DEF Provider, Provides
  <2> QED BY <2>1, <2>2
<1>21. ASSUME NEW c \in Cards, Ages(c) PROVE Flow(d)'
  <2>1. CASE d = c
    BY <1>21, <2>1 DEF Ages
  <2>2. CASE d # c
    BY <1>21, <2>2 DEF Ages
  <2> QED BY <2>1, <2>2
<1>22. ASSUME NEW c \in Cards, RecoverJob(c) PROVE Flow(d)'
  <2>1. CASE d = c
    BY <1>22, <2>1 DEF RecoverJob, Lost, Held
  <2>2. CASE d # c
    BY <1>22, <2>2 DEF RecoverJob, Lost, Held
  <2> QED BY <2>1, <2>2
<1>23. ASSUME NEW c \in Cards, ReleaseOrphan(c) PROVE Flow(d)'
  <2>1. CASE d = c
    BY <1>23, <2>1 DEF ReleaseOrphan, Orphaned
  <2>2. CASE d # c
    BY <1>23, <2>2 DEF ReleaseOrphan, Orphaned
  <2> QED BY <2>1, <2>2
<1>24. CASE Started
  BY <1>24 DEF Started
<1>25. CASE Crash
  <2>1. CASE thread.card = d
    BY <1>25, <2>1 DEF Crash, Tears, Ends, Stretches
  <2>2. CASE thread.card # d
    BY <1>25, <2>2 DEF Crash, Tears, Ends
  <2> QED BY <2>1, <2>2
<1>26. CASE Throws
  <2>1. CASE thread.card = d
    BY <1>26, <2>1 DEF Throws, Tears, Ends, Stretches
  <2>2. CASE thread.card # d
    BY <1>26, <2>2 DEF Throws, Tears, Ends
  <2> QED BY <2>1, <2>2
<1>27. CASE Deposit
  BY <1>27 DEF Deposit
<1>28. CASE UNCHANGED vars
  BY <1>28 DEF vars
<1> QED
  BY <1>3, <1>4, <1>5, <1>6, <1>7, <1>8, <1>9, <1>10, <1>11, <1>12, <1>13, <1>14, <1>15, <1>16,
      <1>17, <1>18, <1>19, <1>20, <1>21, <1>22, <1>23, <1>24, <1>25, <1>26, <1>27, <1>28
    DEF Next, Stretch, CallSteps, StartUp, pollVideos, PollFails

-----------------------------------------------------------------------------
(* The books.  Every step of the bot is, for the money, one of five           *)
(* operations on a reservation, a deposit, or nothing.                        *)

SameAccount == UNCHANGED <<resv, balance, reserved, charged, paid>>

Reserves(c) ==
  /\ resv[c] = "none" /\ resv' = Moves(resv, c, "open")
  /\ balance' = balance - Price[c] /\ reserved' = reserved + Price[c] /\ UNCHANGED <<charged, paid>>

GivesBack(c) ==
  /\ InReserved(c) /\ resv' \in {Moves(resv, c, "released"), Moves(resv, c, "expired")}
  /\ balance' = balance + Price[c] /\ reserved' = reserved - Price[c] /\ UNCHANGED <<charged, paid>>

Holds(c) == resv[c] = "open" /\ resv' = Moves(resv, c, "held") /\ UNCHANGED money

\* A charge on an open reservation, which ends it, or on one that was given back.
Settles(c, amount) ==
  /\ resv[c] \in {"open", "expired"} /\ resv' = Moves(resv, c, "settled")
  /\ charged' = Moves(charged, c, amount) /\ paid' = paid
  /\ \/ resv[c] = "open" /\ balance' = balance - amount + Price[c] /\ reserved' = reserved - Price[c]
     \/ resv[c] = "expired" /\ balance' = balance - amount /\ reserved' = reserved

PaysIn == paid' = paid + 1 /\ balance' = balance + 1 /\ UNCHANGED <<resv, reserved, charged>>

AccountStep ==
  \/ SameAccount \/ PaysIn
  \/ \E c \in Cards : Reserves(c) \/ GivesBack(c) \/ Holds(c) \/ \E amount \in Nat : Settles(c, amount)

\* Every step is one of them.
LEMMA AccountSteps ==
  ASSUME Inv, [Next]_vars
  PROVE  AccountStep
<1> USE DEF AccountStep
<1>1. ASSUME NEW c \in Cards, reserve(c) PROVE AccountStep
  <2>1. resv[c] = "none"
    BY <1>1 DEF reserve, Inv, Flow, Fresh, On
  <2>2. CASE balance >= Price[c]
    BY <1>1, <2>1, <2>2 DEF reserve, Reserves
  <2>3. CASE ~(balance >= Price[c])
    BY <1>1, <2>3 DEF reserve, SameAccount
  <2> QED BY <2>2, <2>3
<1>2. ASSUME NEW c \in Cards, release(c) PROVE AccountStep
  BY <1>2 DEF release, Returns, GivesBack, SameAccount, InReserved
<1>3. ASSUME NEW c \in Cards, ageOutReservations(c) PROVE AccountStep
  BY <1>3 DEF ageOutReservations, Returns, GivesBack
<1>4. ASSUME NEW c \in Cards, ReleaseOrphan(c) PROVE AccountStep
  BY <1>4 DEF ReleaseOrphan, Orphaned, Returns, GivesBack, InReserved
<1>5. ASSUME NEW c \in Cards, Held(c), UNCHANGED money PROVE AccountStep
  <2>1. CASE resv[c] = "open"
    BY <1>5, <2>1 DEF Held, Holds
  <2>2. CASE resv[c] # "open"
    BY <1>5, <2>2 DEF Held, Moves, SameAccount, money, Inv, Types
  <2> QED BY <2>1, <2>2
<1>6. ASSUME NEW c \in Cards, hold(c) \/ RecoverJob(c) PROVE AccountStep
  BY <1>5, <1>6 DEF hold, RecoverJob
<1>7. ASSUME NEW c \in Cards, NEW amount \in 0..Price[c], settle(c, amount) PROVE AccountStep
  <2>1. amount \in Nat /\ balance \in Int /\ reserved \in Int
    BY StudioAssumption DEF StudioAssumption, Inv, Types
  <2>2. CASE resv[c] = "open"
    BY <1>7, <2>1, <2>2 DEF settle, Settles
  <2>3. CASE resv[c] = "expired"
    <3>1. balance' = balance - amount /\ reserved' = reserved
      BY <1>7, <2>1, <2>3 DEF settle
    <3> QED BY <1>7, <2>1, <2>3, <3>1 DEF settle, Settles
  <2>4. CASE resv[c] \notin {"open", "expired"}
    BY <1>7, <2>4 DEF settle, SameAccount
  <2> QED BY <2>2, <2>3, <2>4
<1>8. CASE Deposit
  BY <1>8 DEF Deposit, PaysIn, rows
<1>9. ASSUME NEW c \in Cards,
            \/ createProposal(c) \/ Dismiss(c) \/ beginJob(c) \/ InsertJob(c) \/ finishJob(c)
            \/ JobEnds(c) \/ CardFails(c) \/ CallSteps(c) \/ pollVideos(c) \/ PollFails(c)
            \/ Provider(c) \/ Ages(c)
      PROVE AccountStep
  BY <1>9 DEF createProposal, Dismiss, beginJob, InsertJob, finishJob, JobEnds, CardFails, CallSteps,
     NotRun, Ask, Answered, AnswerLost, pollVideos, PollFails, Polled, Provider, Provides, Ages,
     SameAccount, rows, money
<1>10. CASE Started \/ Crash \/ Throws \/ UNCHANGED vars
  BY <1>10 DEF Started, Crash, Throws, SameAccount, vars, rows, money
<1> QED
  BY <1>1, <1>2, <1>3, <1>4, <1>6, <1>7, <1>8, <1>9, <1>10 DEF Next, Stretch, StartUp

\* What the cards in reserved are for, and what has been charged.
InReservedSet == {c \in Cards : InReserved(c)}

\* Both sums are integers over finite sets.
LEMMA SumsTyped ==
  ASSUME Types
  PROVE  /\ IsFiniteSet(Cards) /\ IsFiniteSet(InReservedSet)
         /\ \A c \in Cards : Price[c] \in Int /\ charged[c] \in Int
         /\ SumFunctionOnSet(Price, InReservedSet) \in Int
         /\ SumFunctionOnSet(charged, Cards) \in Int
<1>1. IsFiniteSet(Cards) /\ IsFiniteSet(InReservedSet)
  BY StudioAssumption, FS_Subset DEF StudioAssumption, InReservedSet
<1>2. \A c \in Cards : Price[c] \in Int /\ charged[c] \in Int
  BY StudioAssumption DEF StudioAssumption, Types
<1>3. \A c \in InReservedSet : Price[c] \in Int
  BY <1>2 DEF InReservedSet
<1> QED BY <1>1, <1>2, <1>3, SumInt

\* The books close after each of the operations.
LEMMA BooksStep ==
  ASSUME Types, Types', Charges, BooksClose, AccountStep
  PROVE  BooksClose' /\ Charges'
<1> DEFINE S == InReservedSet
           R == SumFunctionOnSet(Price, S)
           C == SumFunctionOnSet(charged, Cards)
<1>1. /\ IsFiniteSet(Cards) /\ IsFiniteSet(S)
      /\ \A c \in Cards : Price[c] \in Int /\ charged[c] \in Int
      /\ R \in Int /\ C \in Int
  BY SumsTyped
<1>2. reserved = R /\ balance + reserved = paid - C
  BY DEF BooksClose, InReservedSet
<1>3. balance \in Int /\ reserved \in Int /\ paid \in Int
  BY DEF Types
<1>4. SUFFICES Charges' /\ reserved' = R' /\ balance' + reserved' = paid' - C'
  BY DEF BooksClose, InReservedSet
<1> HIDE DEF R, C
<1>5. CASE SameAccount
  BY <1>2, <1>5 DEF SameAccount, Charges, R, C, InReservedSet, InReserved
<1>6. CASE PaysIn
  <2>1. R' = R /\ C' = C /\ Charges'
    BY <1>6 DEF PaysIn, Charges, R, C, InReservedSet, InReserved
  <2> QED BY <1>1, <1>2, <1>3, <1>6, <2>1 DEF PaysIn
<1>7. ASSUME NEW c \in Cards, Reserves(c)
      PROVE  Charges' /\ reserved' = R' /\ balance' + reserved' = paid' - C'
  <2>1. c \notin S /\ S' = S \cup {c}
    BY <1>7 DEF Reserves, Moves, Types, InReservedSet, InReserved
  <2>2. \A y \in S \cup {c} : Price[y] \in Int
    BY <1>1 DEF InReservedSet
  <2>3. SumFunctionOnSet(Price, S \cup {c}) = Price[c] + R
    BY <1>1, <2>1, <2>2, SumInsert DEF R
  <2>4. R' = Price[c] + R
    BY <2>1, <2>3 DEF R
  <2>5. C' = C /\ Charges'
    BY <1>7 DEF Reserves, C, Charges, Moves, Types
  <2> QED BY <1>1, <1>2, <1>3, <1>7, <2>4, <2>5 DEF Reserves
<1>8. ASSUME NEW c \in Cards, c \in S, S' = S \ {c} PROVE R' = R - Price[c]
  <2>1. \A y \in S : Price[y] \in Int
    BY <1>1 DEF InReservedSet
  <2>2. R = Price[c] + SumFunctionOnSet(Price, S \ {c})
    BY <1>1, <1>8, <2>1, SumRemove DEF R
  <2>3. SumFunctionOnSet(Price, S \ {c}) \in Int
    BY <1>1, <2>1, FS_Subset, SumInt
  <2> QED BY <1>1, <1>8, <2>2, <2>3 DEF R
<1>9. ASSUME NEW c \in Cards, GivesBack(c)
      PROVE  Charges' /\ reserved' = R' /\ balance' + reserved' = paid' - C'
  <2>1. c \in S /\ S' = S \ {c}
    BY <1>9 DEF GivesBack, Moves, Types, InReservedSet, InReserved
  <2>2. R' = R - Price[c]
    BY <1>8, <2>1
  <2>3. C' = C /\ Charges'
    BY <1>9 DEF GivesBack, InReserved, C, Charges, Moves, Types
  <2> QED BY <1>1, <1>2, <1>3, <1>9, <2>2, <2>3 DEF GivesBack
<1>10. ASSUME NEW c \in Cards, Holds(c)
       PROVE  Charges' /\ reserved' = R' /\ balance' + reserved' = paid' - C'
  <2>1. S' = S
    BY <1>10 DEF Holds, Moves, Types, InReservedSet, InReserved
  <2>2. R' = R /\ C' = C /\ Charges'
    BY <1>10, <2>1 DEF Holds, money, R, C, Charges, Moves, Types
  <2> QED BY <1>2, <1>10, <2>2 DEF Holds, money
<1>11. ASSUME NEW c \in Cards, NEW amount \in Nat, Settles(c, amount)
       PROVE  Charges' /\ reserved' = R' /\ balance' + reserved' = paid' - C'
  <2>1. charged[c] = 0
    BY <1>11 DEF Settles, Charges
  <2>2. C' = C + amount
    <3>1. \A y \in Cards : charged[y] \in Int /\ charged'[y] \in Int
      BY DEF Types
    <3>2. charged'[c] = amount /\ \A y \in Cards \ {c} : charged'[y] = charged[y]
      BY <1>11 DEF Settles, Moves, Types
    <3>3. SumFunctionOnSet(charged', Cards) = SumFunctionOnSet(charged, Cards) - charged[c] + charged'[c]
      BY <1>1, <3>1, <3>2, SumUpdate
    <3> QED BY <1>1, <2>1, <3>2, <3>3 DEF C
  <2>3. Charges'
    BY <1>11 DEF Settles, Charges, Moves, Types
  <2>4. CASE resv[c] = "open"
    <3>1. c \in S /\ S' = S \ {c}
      BY <1>11, <2>4 DEF Settles, Moves, Types, InReservedSet, InReserved
    <3>2. R' = R - Price[c]
      BY <1>8, <3>1
    <3>3. balance' = balance - amount + Price[c] /\ reserved' = reserved - Price[c] /\ paid' = paid
      BY <1>11, <2>4 DEF Settles
    <3> QED BY <1>1, <1>2, <1>3, <2>2, <2>3, <3>2, <3>3
  <2>5. CASE resv[c] = "expired"
    <3>1. S' = S
      BY <1>11, <2>5 DEF Settles, Moves, Types, InReservedSet, InReserved
    <3>2. R' = R
      BY <3>1 DEF R
    <3>3. balance' = balance - amount /\ reserved' = reserved /\ paid' = paid
      BY <1>11, <2>5 DEF Settles
    <3> QED BY <1>1, <1>2, <1>3, <2>2, <2>3, <3>2, <3>3
  <2> QED BY <1>11, <2>4, <2>5 DEF Settles
<1> QED BY <1>5, <1>6, <1>7, <1>9, <1>10, <1>11 DEF AccountStep
-----------------------------------------------------------------------------
(* The items, and the theorems.                                             *)

\* A settled reservation stays settled.
LEMMA SettledStays ==
  ASSUME Types, AccountStep, NEW c \in Cards, resv[c] = "settled"
  PROVE  resv'[c] = "settled"
BY DEF Types, AccountStep, SameAccount, Reserves, GivesBack, Holds, Settles, PaysIn, InReserved, Moves

\* A card is torn for ever, and an item is recorded by finishJob alone.
LEMMA ItemsGrow ==
  ASSUME Inv, [Next]_vars
  PROVE  torn \subseteq torn' /\ (items' = items \/ \E c \in Cards : finishJob(c))
<1>1. ASSUME NEW c \in Cards,
             \/ createProposal(c) \/ Dismiss(c) \/ beginJob(c) \/ reserve(c) \/ InsertJob(c)
             \/ release(c) \/ JobEnds(c) \/ CardFails(c) \/ CallSteps(c) \/ pollVideos(c) \/ PollFails(c)
             \/ ageOutReservations(c) \/ Provider(c) \/ Ages(c) \/ RecoverJob(c) \/ ReleaseOrphan(c)
      PROVE  torn' = torn /\ items' = items
  BY <1>1 DEF createProposal, Dismiss, beginJob, reserve, InsertJob, release, JobEnds, CardFails,
          CallSteps,
     NotRun, Ask, Answered, AnswerLost, pollVideos, PollFails, Polled, ageOutReservations, Provider,
     Provides, Ages, RecoverJob, ReleaseOrphan, rows
<1>2. ASSUME NEW c \in Cards, hold(c) \/ \E amount \in 0..Price[c] : settle(c, amount)
      PROVE  torn \subseteq torn' /\ items' = items
  BY <1>2 DEF hold, settle
<1>3. ASSUME NEW c \in Cards, finishJob(c) PROVE torn' = torn
  BY <1>3 DEF finishJob
<1>4. CASE Started \/ Deposit \/ Crash \/ Throws \/ UNCHANGED vars
  BY <1>4 DEF Started, Deposit, Crash, Throws, Tears, vars, rows
<1> QED BY <1>1, <1>2, <1>3, <1>4 DEF Next, Stretch, StartUp

\* Every step keeps the invariant.
LEMMA InvStep == Inv /\ [Next]_vars => Inv'
<1> SUFFICES ASSUME Inv, [Next]_vars PROVE Inv'
  OBVIOUS
<1>1. Types' /\ AccountStep
  BY TypesStep, AccountSteps
<1>2. Charges' /\ BooksClose'
  BY <1>1, BooksStep DEF Inv
<1>3. \A c \in Cards : Flow(c)'
  BY FlowStep
<1>4. ASSUME NEW c \in items' PROVE resv'[c] = "settled" \/ c \in torn'
  <2>1. c \in items \/ finishJob(c)
    BY ItemsGrow DEF finishJob
  <2>2. c \in Cards /\ (resv[c] = "settled" \/ c \in torn)
    BY <1>1, <2>1 DEF finishJob, Inv, Types, ItemIsSettled, Flow, On
  <2> QED BY <1>1, <2>2, SettledStays, ItemsGrow DEF Inv
<1> QED BY <1>1, <1>2, <1>3, <1>4 DEF Inv, ItemIsSettled

\* The bot starts with the user's opening deposit and nothing reserved.
LEMMA InvInit == Init => Inv
<1> SUFFICES ASSUME Init PROVE Inv
  OBVIOUS
<1>1. Types
  BY StudioAssumption DEF StudioAssumption, Init, Types, CardStates, ResvStates, JobStates, CallStates,
     ProviderStates
<1>2. Charges /\ ItemIsSettled
  BY DEF Init, Charges, ItemIsSettled
<1>3. \A c \in Cards : Flow(c)
  BY StudioAssumption DEF StudioAssumption, Init, Flow, Calls, Fresh, On, Nothing
<1>4. BooksClose
  <2>1. InReservedSet = {}
    BY DEF Init, InReservedSet, InReserved
  <2>2. SumFunctionOnSet(Price, InReservedSet) = 0
    BY <2>1, SumEmpty
  <2>3. SumFunctionOnSet(charged, Cards) = 0
    BY SumZero, StudioAssumption DEF StudioAssumption, Init
  <2> QED BY <2>2, <2>3, StudioAssumption DEF StudioAssumption, Init, BooksClose, InReservedSet
<1> QED BY <1>1, <1>2, <1>3, <1>4 DEF Inv

\* reconcile() finds no difference in any state: for any cards, prices and
\* deposits, and wherever the process died or a statement threw, the ledger is
\* balance plus reserved and reserved is what the open and held reservations are for.
THEOREM BooksAlwaysClose == Spec => []BooksClose
  BY InvInit, InvStep, PTL DEF Spec, Inv

\* finishJob records no picture and no clip that did not go through settleCapped,
\* but for a clip whose hold was cut off before its job left 'running'.
THEOREM ItemsAreSettled == Spec => []ItemIsSettled
  BY InvInit, InvStep, PTL DEF Spec, Inv
=============================================================================
