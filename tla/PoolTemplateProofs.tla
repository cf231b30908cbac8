-------------------------- MODULE PoolTemplateProofs ------------------------
(***************************************************************************)
(* No coinbase the pool builds pays more than its template is worth, for any  *)
(* number of overlapping refreshes, of miners, of coinbase values and of      *)
(* failed window reads.                                                       *)
(*                                                                         *)
(* TypeOK /\ CoinbaseFits is inductive.  CoinbaseFits speaks of the live jobs  *)
(* and of the published pair: the second half is what a new job inherits, so   *)
(* every action that makes jobs is one lemma, NewJobFits, about JobOn applied  *)
(* to a pair that fits.                                                        *)
(*                                                                         *)
(* When refreshes do not overlap, the live jobs also build on the published    *)
(* tip: Agree, which each step keeps from a state with one call open.          *)
(***************************************************************************)
EXTENDS PoolTemplate, TLAPS

IInv == TypeOK /\ CoinbaseFits

\* A payout set fits a template when there is none or it pays no more than it.
Fits(t, p) == p # None => p.value <= t.value

\* The types of a template's fields.
LEMMA TemplateHasValue ==
  ASSUME NEW t \in Template
  PROVE  /\ t.tip \in 0..MaxTip
         /\ t.value \in Value
         /\ t.value \in Nat
         /\ t.value <= t.value
<1>1. t.tip \in 0..MaxTip /\ t.value \in Value
  BY DEF Template
<1>2. t.value \in Nat
  BY <1>1, TemplateAssumption DEF TemplateAssumption
<1> QED BY <1>1, <1>2

\* A job made of a pair that fits is a job, and its coinbase fits.
LEMMA NewJobFits ==
  ASSUME NEW t \in Template, NEW p \in Template \cup {None}, Fits(t, p)
  PROVE  /\ JobOn(t, p) \in Job
         /\ JobOn(t, p).pays # None => JobOn(t, p).pays.value <= JobOn(t, p).on.value
  BY DEF JobOn, Job, Fits

\* What PushJobs leaves behind, for a pair that fits whenever it is served.
LEMMA PushedJobsFit ==
  ASSUME TypeOK, CoinbaseFits,
         NEW c \in Call, NEW t \in Template, NEW p \in Template \cup {None}, NEW h \in BOOLEAN,
         Serves(t, h) => Fits(t, p),
         PushJobs(c, t, p, h)
  PROVE  /\ jobs' \subseteq Job
         /\ work' \in [Miner -> Job \cup {None}]
         /\ \A j \in jobs' : j.pays # None => j.pays.value <= j.on.value
<1>1. CASE Serves(t, h)
  <2>1. /\ JobOn(t, p) \in Job
        /\ JobOn(t, p).pays # None => JobOn(t, p).pays.value <= JobOn(t, p).on.value
    BY <1>1, NewJobFits
  <2> DEFINE j0 == JobOn(t, p)
  <2>2. \A ms \in SUBSET Miner : Sent(ms, j0) \in [Miner -> Job \cup {None}]
    BY <2>1 DEF Sent, TypeOK
  <2>3. miners \subseteq Miner
    BY DEF TypeOK
  <2>4. PICK ms \in SUBSET miners :
          /\ jobs' \subseteq jobs \cup {j0}
          /\ work' = Sent(ms, j0)
    BY <1>1 DEF PushJobs
  <2> HIDE DEF j0
  <2>5. work' \in [Miner -> Job \cup {None}]
    BY <2>2, <2>3, <2>4
  <2>6. /\ j0 \in Job
        /\ j0.pays # None => j0.pays.value <= j0.on.value
    BY <2>1 DEF j0
  <2> QED BY <2>4, <2>5, <2>6 DEF TypeOK, CoinbaseFits
<1>2. CASE ~Serves(t, h)
  BY <1>2 DEF PushJobs, TypeOK, CoinbaseFits
<1> QED BY <1>1, <1>2

\* The induction starts with no template and no job.
LEMMA InitEstablishes == Init => IInv
<1> SUFFICES ASSUME Init PROVE IInv
  OBVIOUS
<1>1. CoinbaseFits
  BY DEF Init, CoinbaseFits, Serves
<1>2. node \in Template /\ jobs \subseteq Job /\ miners \subseteq Miner
      /\ work \in [Miner -> Job \cup {None}]
  BY DEF Init
<1>3. call \in [Call -> [at : {"idle", "asking"}]]
  BY DEF Init, Idle
<1>4. faults \in 0..MaxFaults /\ unread \in 0..MaxUnread
  BY TemplateAssumption DEF TemplateAssumption, Init
<1> QED BY <1>1, <1>2, <1>3, <1>4 DEF Init, IInv, TypeOK

\* Every step of a refresh, a miner or the node keeps the invariant.
LEMMA StepPreserves == IInv /\ [Next]_vars => IInv'
<1> SUFFICES ASSUME IInv, [Next]_vars PROVE IInv'
  OBVIOUS
<1> USE DEF IInv
<1>1. CASE TipMoves
  BY <1>1, TemplateAssumption DEF TemplateAssumption, TipMoves, TypeOK, CoinbaseFits, Serves, Template
<1>2. CASE FeesArrive
  BY <1>2, TemplateAssumption DEF TemplateAssumption, FeesArrive, TypeOK, CoinbaseFits, Serves, Template
<1>3. ASSUME NEW m \in Miner, Login(m) \/ GetJob(m) PROVE IInv'
  <2>1. CASE Serves(tpl, held)
    <3>1. tpl \in Template /\ Fits(tpl, payout)
      BY <2>1 DEF Serves, TypeOK, CoinbaseFits, Fits
    <3>2. /\ JobOn(tpl, payout) \in Job
          /\ JobOn(tpl, payout).pays # None
               => JobOn(tpl, payout).pays.value <= JobOn(tpl, payout).on.value
      BY <3>1, NewJobFits DEF TypeOK
    <3> QED BY <1>3, <2>1, <3>2 DEF Login, GetJob, MakeJob, TypeOK, CoinbaseFits, Serves
  <2>2. CASE ~Serves(tpl, held)
    BY <1>3, <2>2 DEF Login, GetJob, MakeJob, TypeOK, CoinbaseFits, Serves
  <2> QED BY <2>1, <2>2
<1>4. ASSUME NEW m \in Miner, Bye(m) PROVE IInv'
  BY <1>4 DEF Bye, TypeOK, CoinbaseFits, Serves
<1>5. ASSUME NEW c \in Call, Refresh(c) PROVE IInv'
  BY <1>5 DEF Refresh, Asking, TypeOK, CoinbaseFits, Serves
<1>6. ASSUME NEW c \in Call, NodeAnswers(c) PROVE IInv'
  BY <1>6 DEF NodeAnswers, Answered, TypeOK, CoinbaseFits, Serves
<1>7. ASSUME NEW c \in Call, TemplateUnreadable(c) PROVE IInv'
  BY <1>7, TemplateAssumption DEF TemplateAssumption, TemplateUnreadable, Idle, TypeOK, CoinbaseFits, Serves
<1>8. ASSUME NEW c \in Call, ReadWindow(c) PROVE IInv'
  <2>1. call[c].t \in Template
    BY <1>8 DEF ReadWindow, TypeOK
  <2> QED BY <1>8, <2>1 DEF ReadWindow, Window, TypeOK, CoinbaseFits, Serves
<1>9. ASSUME NEW c \in Call, Publish(c) PROVE IInv'
  <2> DEFINE t == call[c].t
  <2>1. t \in Template
    BY <1>9 DEF Publish, TypeOK
  <2>2. Fits(t, t)
    BY <2>1, TemplateHasValue DEF Fits
  <2>3. tpl' = t /\ payout' = t /\ held' = FALSE /\ PushJobs(c, t, t, FALSE)
    BY <1>9 DEF Publish
  <2>4. /\ jobs' \subseteq Job
        /\ work' \in [Miner -> Job \cup {None}]
        /\ \A j \in jobs' : j.pays # None => j.pays.value <= j.on.value
    BY <2>1, <2>2, <2>3, PushedJobsFit
  <2>5. call' \in [Call -> [at : {"idle", "asking"}] \cup [at : {"answered"}, t : Template]
                            \cup [at : {"window"}, t : Template, changed : BOOLEAN]]
    BY <1>9 DEF Publish, Idle, TypeOK
  <2>6. TypeOK'
    BY <1>9, <2>1, <2>3, <2>4, <2>5 DEF Publish, TypeOK
  <2> HIDE DEF t
  <2> QED BY <2>2, <2>3, <2>4, <2>6 DEF CoinbaseFits, Serves, Fits
<1>10. ASSUME NEW c \in Call, PublishKeepingPayout(c) PROVE IInv'
  <2> DEFINE t == call[c].t
             h == held \/ KeptDoesNotFit(t)
  <2>1. t \in Template /\ h \in BOOLEAN
    BY <1>10 DEF PublishKeepingPayout, KeptDoesNotFit, TypeOK
  <2>2. Serves(t, h) => Fits(t, payout)
    BY <2>1, TemplateHasValue DEF Serves, Fits, KeptDoesNotFit, TypeOK
  <2>3. tpl' = t /\ payout' = payout /\ held' = h /\ PushJobs(c, t, payout, h)
    BY <1>10 DEF PublishKeepingPayout
  <2>4. /\ jobs' \subseteq Job
        /\ work' \in [Miner -> Job \cup {None}]
        /\ \A j \in jobs' : j.pays # None => j.pays.value <= j.on.value
    BY <2>1, <2>2, <2>3, PushedJobsFit DEF TypeOK
  <2>5. /\ call' \in [Call -> [at : {"idle", "asking"}] \cup [at : {"answered"}, t : Template]
                               \cup [at : {"window"}, t : Template, changed : BOOLEAN]]
        /\ unread' \in 0..MaxUnread
    BY <1>10, TemplateAssumption DEF TemplateAssumption, PublishKeepingPayout, Idle, TypeOK
  <2>6. TypeOK'
    BY <1>10, <2>1, <2>3, <2>4, <2>5 DEF PublishKeepingPayout, TypeOK
  <2> HIDE DEF t, h
  <2> QED BY <2>2, <2>3, <2>4, <2>6 DEF CoinbaseFits, Serves, Fits
<1>11. CASE UNCHANGED vars
  BY <1>11 DEF vars, TypeOK, CoinbaseFits, Serves
<1> QED
  BY <1>1, <1>2, <1>3, <1>4, <1>5, <1>6, <1>7, <1>8, <1>9, <1>10, <1>11 DEF Next, Continue

\* Type correctness of the template poll, for every value of the constants.
THEOREM TemplateTypeCorrect == Spec => []TypeOK
  BY InitEstablishes, StepPreserves, PTL DEF Spec, IInv

\* buildCoinbase never has to throw "coinbase pays X but only Y is available":
\* in every behaviour, with any number of overlapping refreshTemplate calls and
\* of failed window reads, every live job's coinbase and the next one fit.
THEOREM CoinbaseNeverOverpays == Spec => []CoinbaseFits
  BY InitEstablishes, StepPreserves, PTL DEF Spec, IInv
-----------------------------------------------------------------------------
(* While one refresh is open at a time, the live jobs agree with the template. *)

\* A call that found the tip unchanged builds on the published template's tip.
\* Only a publish could make this stale, and a publish is the call's own last
\* step as long as no other call is open.
SameTip(c) == call[c].at = "window" /\ ~call[c].changed => call[c].t.tip = tpl.tip

Agree == JobsAgreeWithTemplate /\ \A c \in Call : SameTip(c)

\* The jobs left by what follows a publish build on the new template's tip, when
\* the old jobs of a call that found the tip unchanged already did.
LEMMA PushedJobsAgree ==
  ASSUME NEW c \in Call, NEW t, NEW p, NEW h,
         PushJobs(c, t, p, h), JobsAgreeWithTemplate,
         ~call[c].changed => t.tip = tpl.tip,
         tpl' = t
  PROVE  JobsAgreeWithTemplate'
<1> SUFFICES ASSUME NEW j \in jobs' PROVE j.on.tip = t.tip
  BY DEF JobsAgreeWithTemplate
<1>1. JobOn(t, p).on = t
  BY DEF JobOn
<1>2. j = JobOn(t, p) \/ (~call[c].changed /\ j \in jobs)
  BY DEF PushJobs
<1> QED BY <1>1, <1>2 DEF JobsAgreeWithTemplate

\* A publish by the only open call.
LEMMA PublishAgrees ==
  ASSUME TypeOK, Agree, OneCallOpen, NEW c \in Call,
         Publish(c) \/ PublishKeepingPayout(c)
  PROVE  Agree'
<1> DEFINE t == call[c].t
<1>1. /\ call[c].at = "window" /\ tpl' = t
      /\ call' = [call EXCEPT ![c] = Idle]
      /\ \E p, h : PushJobs(c, t, p, h)
  BY DEF Publish, PublishKeepingPayout
<1>2. ~call[c].changed => t.tip = tpl.tip
  BY <1>1 DEF Agree, SameTip
<1>3. JobsAgreeWithTemplate'
  BY <1>1, <1>2, PushedJobsAgree DEF Agree
<1>4. Idle.at # "window"
  BY DEF Idle
<1>5. \A d \in Call : call'[d] = Idle
  BY <1>1, <1>4 DEF OneCallOpen, TypeOK
<1>6. \A d \in Call : SameTip(d)'
  BY <1>4, <1>5 DEF SameTip
<1> QED BY <1>3, <1>6 DEF Agree

\* Every step from a state with at most one refresh open keeps the agreement.
LEMMA SerialStepAgrees == TypeOK /\ Agree /\ OneCallOpen /\ [Next]_vars => Agree'
<1> SUFFICES ASSUME TypeOK, Agree, OneCallOpen, [Next]_vars PROVE Agree'
  OBVIOUS
<1>1. CASE UNCHANGED <<tpl, jobs, call>>
  BY <1>1 DEF Agree, JobsAgreeWithTemplate, SameTip
<1>2. ASSUME NEW m \in Miner, Login(m) \/ GetJob(m) PROVE Agree'
  <2>1. tpl' = tpl /\ call' = call /\ jobs' \subseteq jobs \cup {JobOn(tpl, payout)}
    BY <1>2 DEF Login, GetJob, MakeJob
  <2>2. JobOn(tpl, payout).on = tpl
    BY DEF JobOn
  <2> QED BY <2>1, <2>2 DEF Agree, JobsAgreeWithTemplate, SameTip
<1>3. ASSUME NEW c \in Call, Refresh(c) \/ NodeAnswers(c) \/ TemplateUnreadable(c) PROVE Agree'
  <2>1. /\ tpl' = tpl /\ jobs' = jobs
        /\ \E r : r.at # "window" /\ call' = [call EXCEPT ![c] = r]
    BY <1>3 DEF Refresh, NodeAnswers, TemplateUnreadable, Asking, Answered, Idle
  <2>2. \A d \in Call : call'[d].at # "window" \/ call'[d] = call[d]
    BY <2>1 DEF TypeOK
  <2> QED BY <2>1, <2>2 DEF Agree, JobsAgreeWithTemplate, SameTip
<1>4. ASSUME NEW c \in Call, ReadWindow(c) PROVE Agree'
  <2>1. /\ tpl' = tpl /\ jobs' = jobs
        /\ call' = [call EXCEPT ![c] = Window(call[c].t, tpl = None \/ tpl.tip # call[c].t.tip)]
    BY <1>4 DEF ReadWindow
  <2>2. /\ call'[c].t = call[c].t
        /\ call'[c].changed = (tpl = None \/ tpl.tip # call[c].t.tip)
        /\ \A d \in Call : d # c => call'[d] = call[d]
    BY <2>1 DEF Window, TypeOK
  <2> QED BY <2>1, <2>2 DEF Agree, JobsAgreeWithTemplate, SameTip
<1>5. CASE TipMoves \/ FeesArrive \/ \E m \in Miner : Bye(m)
  BY <1>1, <1>5 DEF TipMoves, FeesArrive, Bye
<1>6. CASE UNCHANGED vars
  BY <1>1, <1>6 DEF vars
<1> QED
  BY <1>2, <1>3, <1>4, <1>5, <1>6, PublishAgrees DEF Next, Continue

\* pool.mjs, makeJob: "The two agree today because jobs are cleared whenever the
\* tip moves".  In every behaviour in which no refreshTemplate starts before the
\* last one is done, every live job builds on the published template's tip -- so
\* overlapping calls are the only way the two can disagree.
THEOREM SerialRefreshesKeepJobs == Spec => SerialRefreshesAgree
<1>1. Init => Agree
  BY DEF Init, Agree, JobsAgreeWithTemplate, SameTip, Idle
<1>2. Agree => JobsAgreeWithTemplate
  BY DEF Agree
<1> QED
  BY <1>1, <1>2, SerialStepAgrees, TemplateTypeCorrect, PTL DEF Spec, SerialRefreshesAgree
=============================================================================
