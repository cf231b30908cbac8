---------------------------- MODULE PoolTemplate ----------------------------
(***************************************************************************)
(* The pool's template poll (contrib/pool/pool.mjs, refreshTemplate and     *)
(* makeJob): which block a job builds on and what its coinbase pays.         *)
(*                                                                         *)
(* refreshTemplate runs from a 2 s timer that does not wait for the last     *)
(* call, and after every block found, so calls overlap.  It yields twice: at *)
(* getblocktemplate, a child process per call, and while the PPLNS window is *)
(* read, a varying number of queries any of which may fail.  Nothing orders  *)
(* the answers of two calls, and one action is the code between two awaits.  *)
(*                                                                         *)
(* A template is the tip it builds on and the coinbase value it may spend.   *)
(* A payout set is the template it was built for: its outputs sum to that    *)
(* template's value (PayoutSplit).                                            *)
(***************************************************************************)
EXTENDS Naturals, FiniteSets

CONSTANTS
  Call,         \* refreshTemplate calls that may be open at once
  Miner,
  Value,        \* coinbase values: the subsidy and what fees add to it
  MaxTip,       \* bound: the tip moves this often
  MaxFaults,    \* bound: failed getblocktemplate calls
  MaxUnread,    \* bound: failed window reads
  None

ASSUME TemplateAssumption ==
  /\ Value \subseteq Nat /\ Value # {}
  /\ MaxTip \in Nat /\ MaxFaults \in Nat /\ MaxUnread \in Nat
  /\ None \notin Call \cup Miner

VARIABLES
  node,         \* the template the node would hand out now
  tpl,          \* state.tpl
  payout,       \* state.payout: the template it was built for
  held,         \* state.payoutHeld
  jobs,         \* state.jobs: what the live jobs build on and pay
  miners,       \* state.miners: the sessions that are logged in
  work,         \* the job each of them was sent last
  call,         \* the open refreshTemplate calls
  faults, unread

vars == <<node, tpl, payout, held, jobs, miners, work, call, faults, unread>>

Template == [tip : 0..MaxTip, value : Value]
Job      == [on : Template, pays : Template \cup {None}]

Idle         == [at |-> "idle"]
Asking       == [at |-> "asking"]
Answered(t)  == [at |-> "answered", t |-> t]
Window(t, c) == [at |-> "window", t |-> t, changed |-> c]

Init ==
  /\ node \in {t \in Template : t.tip = 0}
  /\ tpl = None /\ payout = None /\ held = FALSE
  /\ jobs = {} /\ miners = {} /\ work = [m \in Miner |-> None]
  /\ call = [c \in Call |-> Idle]
  /\ faults = 0 /\ unread = 0

-----------------------------------------------------------------------------
(* The node and the miners.                                                 *)

\* A block arrives; its successor's template is worth some value.
TipMoves ==
  /\ node.tip < MaxTip
  /\ \E v \in Value : node' = [tip |-> node.tip + 1, value |-> v]
  /\ UNCHANGED <<tpl, payout, held, jobs, miners, work, call, faults, unread>>

\* A fee-paying transaction enters the mempool: same tip, another value.
FeesArrive ==
  /\ \E v \in Value : v > node.value /\ node' = [node EXCEPT !.value = v]
  /\ UNCHANGED <<tpl, payout, held, jobs, miners, work, call, faults, unread>>

\* makeJob reads the published pair once; it serves nothing while held.
Serves(t, h) == t # None /\ ~h

JobOn(t, p) == [on |-> t, pays |-> p]

\* A job for one miner, if any is to be had.
MakeJob(m) ==
  IF Serves(tpl, held)
  THEN /\ jobs' = jobs \cup {JobOn(tpl, payout)}
       /\ work' = [work EXCEPT ![m] = JobOn(tpl, payout)]
  ELSE UNCHANGED <<jobs, work>>

\* A login succeeds with a null job while jobs are held.
Login(m) ==
  /\ m \notin miners /\ tpl # None
  /\ miners' = miners \cup {m}
  /\ MakeJob(m)
  /\ UNCHANGED <<node, tpl, payout, held, call, faults, unread>>

\* getjob, and retune() after a share.
GetJob(m) ==
  /\ m \in miners
  /\ MakeJob(m)
  /\ UNCHANGED <<node, tpl, payout, held, miners, call, faults, unread>>

Bye(m) ==
  /\ m \in miners
  /\ miners' = miners \ {m}
  /\ work' = [work EXCEPT ![m] = None]
  /\ UNCHANGED <<node, tpl, payout, held, jobs, call, faults, unread>>

-----------------------------------------------------------------------------
(* refreshTemplate.                                                         *)

\* The timer, or a found block, starts a call; the first one runs alone, and
\* the timer is set only once it has produced a template.
Refresh(c) ==
  /\ call[c] = Idle
  /\ tpl # None \/ \A d \in Call : call[d] = Idle
  /\ call' = [call EXCEPT ![c] = Asking]
  /\ UNCHANGED <<node, tpl, payout, held, jobs, miners, work, faults, unread>>

\* The node evaluates getblocktemplate; its answer is still on its way.
NodeAnswers(c) ==
  /\ call[c] = Asking
  /\ call' = [call EXCEPT ![c] = Answered(node)]
  /\ UNCHANGED <<node, tpl, payout, held, jobs, miners, work, faults, unread>>

\* "Keep serving the last job rather than inventing one."
TemplateUnreadable(c) ==
  /\ call[c] = Asking
  /\ faults < MaxFaults
  /\ faults' = faults + 1
  /\ call' = [call EXCEPT ![c] = Idle]
  /\ UNCHANGED <<node, tpl, payout, held, jobs, miners, work, unread>>

\* Mutant: the template goes out before the window is read.
ReadWindowPublishesTemplate(c) ==
  /\ call[c].at = "answered"
  /\ LET t == call[c].t
     IN  /\ call' = [call EXCEPT ![c] = Window(t, tpl = None \/ tpl.tip # t.tip)]
         /\ tpl' = t
  /\ UNCHANGED <<node, payout, held, jobs, miners, work, faults, unread>>

\* Mutant: a new template is recognised by its value.
ReadWindowComparesValue(c) ==
  /\ call[c].at = "answered"
  /\ LET t == call[c].t
     IN  call' = [call EXCEPT ![c] = Window(t, tpl = None \/ tpl.value # t.value)]
  /\ UNCHANGED <<node, tpl, payout, held, jobs, miners, work, faults, unread>>

\* `changed` is decided here, against the template published by now; the
\* window is read next.
ReadWindow(c) ==
  /\ call[c].at = "answered"
  /\ LET t == call[c].t
     IN  call' = [call EXCEPT ![c] = Window(t, tpl = None \/ tpl.tip # t.tip)]
  /\ UNCHANGED <<node, tpl, payout, held, jobs, miners, work, faults, unread>>

Sent(ms, j) == [m \in Miner |-> IF m \in ms THEN j ELSE work[m]]

\* Mutant: a changed tip pushes new jobs and leaves the old ones live.
PushJobsKeepsOld(c, t, p, h) ==
  IF call[c].changed /\ Serves(t, h) /\ miners # {}
  THEN jobs' = jobs \cup {JobOn(t, p)} /\ work' = Sent(miners, JobOn(t, p))
  ELSE UNCHANGED <<jobs, work>>

\* What follows a publish: retune() may push some miners a job at a new
\* difficulty, and a changed tip drops every job and pushes a new one to every
\* miner -- none while jobs are held.
PushJobs(c, t, p, h) ==
  \/ /\ call[c].changed /\ Serves(t, h)
     /\ jobs' = {JobOn(t, p) : m \in miners}
     /\ work' = Sent(miners, JobOn(t, p))
  \/ /\ call[c].changed /\ ~Serves(t, h)
     /\ jobs' = {} /\ UNCHANGED work
  \/ /\ ~call[c].changed /\ Serves(t, h)
     /\ \E retuned \in SUBSET miners :
          /\ jobs' = jobs \cup {JobOn(t, p) : m \in retuned}
          /\ work' = Sent(retuned, JobOn(t, p))
  \/ /\ ~call[c].changed /\ ~Serves(t, h)
     /\ UNCHANGED <<jobs, work>>

\* The window was read: template and payout set are published together.
Publish(c) ==
  /\ call[c].at = "window"
  /\ LET t == call[c].t
     IN  /\ tpl' = t /\ payout' = t /\ held' = FALSE
         /\ PushJobs(c, t, t, FALSE)
  /\ call' = [call EXCEPT ![c] = Idle]
  /\ UNCHANGED <<node, miners, faults, unread>>

\* The kept payout set pays more than this template has.
KeptDoesNotFit(t) == payout # None /\ payout.value > t.value

\* The window could not be read: the previous payout set is kept, and jobs are
\* held if it does not fit.  A hold already there stays.
PublishKeepingPayout(c) ==
  /\ call[c].at = "window"
  /\ unread < MaxUnread
  /\ unread' = unread + 1
  /\ LET t == call[c].t
         h == held \/ KeptDoesNotFit(t)
     IN  /\ tpl' = t /\ held' = h
         /\ PushJobs(c, t, payout, h)
  /\ call' = [call EXCEPT ![c] = Idle]
  /\ UNCHANGED <<node, payout, miners, faults>>

\* A call's continuations, for fairness: a call that is open makes progress.
Continue(c) == NodeAnswers(c) \/ ReadWindow(c) \/ Publish(c)

Next ==
  \/ TipMoves \/ FeesArrive
  \/ \E m \in Miner : Login(m) \/ GetJob(m) \/ Bye(m)
  \/ \E c \in Call :
       \/ Refresh(c) \/ Continue(c)
       \/ TemplateUnreadable(c) \/ PublishKeepingPayout(c)

Spec == Init /\ [][Next]_vars

\* setInterval keeps firing and an open call runs on.
FairSpec == Spec /\ \A c \in Call : WF_vars(Refresh(c)) /\ WF_vars(Continue(c))

-----------------------------------------------------------------------------
\* Type correctness.
TypeOK ==
  /\ node \in Template
  /\ tpl \in Template \cup {None} /\ payout \in Template \cup {None} /\ held \in BOOLEAN
  /\ jobs \subseteq Job /\ miners \subseteq Miner
  /\ work \in [Miner -> Job \cup {None}]
  /\ call \in [Call -> [at : {"idle", "asking"}] \cup [at : {"answered"}, t : Template]
                         \cup [at : {"window"}, t : Template, changed : BOOLEAN]]
  /\ faults \in 0..MaxFaults /\ unread \in 0..MaxUnread

\* buildCoinbase never has to refuse: whatever the interleaving of refreshes,
\* failed window reads and getjob calls, no job's coinbase pays more than its
\* template is worth ("a job that pays 5000000141 but only 5000000000 is
\* available" took the pool down once), and the next job's would not either.
CoinbaseFits ==
  /\ \A j \in jobs : j.pays # None => j.pays.value <= j.on.value
  /\ Serves(tpl, held) /\ payout # None => payout.value <= tpl.value

OneCallOpen == \A c, d \in Call : call[c] # Idle /\ call[d] # Idle => c = d

JobsAgreeWithTemplate == \A j \in jobs : j.on.tip = tpl.tip

\* pool.mjs, makeJob: "The two agree today because jobs are cleared whenever the
\* tip moves" -- every live job builds on the published template's tip, as long
\* as no refresh starts before the last one is done.
SerialRefreshesAgree == []OneCallOpen => []JobsAgreeWithTemplate

\* DESIGN.md: "Push a new job the instant the tip changes" -- once the tip stays,
\* every miner that stays connected ends up with work on it, as long as refreshes
\* do not overlap and no payout set has to be held back (a hold that ends pushes
\* nothing).
WorkFollowsTip ==
  [](OneCallOpen /\ ~held) =>
    <>[](\A m \in miners : work[m] # None /\ work[m].on.tip = node.tip)
=============================================================================
