----------------------------- MODULE PoolShares -----------------------------
(***************************************************************************)
(* The pool's share path (contrib/pool/pool.mjs): jobs, handleSubmit and    *)
(* the validator child.  Node runs one callback at a time and yields at     *)
(* every await, so one action is the code between two awaits; the frames of *)
(* many submits are open at once, while the tip moves, the validator falls  *)
(* behind or dies, the store fails, miners leave and the process restarts.  *)
(*                                                                         *)
(* A share is <<job id, nonce>>.  The store is what its callers see of the   *)
(* pipe in SqlitePipe: an insert happens or does not, and in either case its *)
(* answer may be lost.  Once a request has timed out the answers slip: a     *)
(* caller may be answered by an earlier request's sentinel, OK or not, while *)
(* its own INSERT is still on its way to sqlite3.                            *)
(***************************************************************************)
EXTENDS Naturals, Sequences, FiniteSets, SequencesExt

CONSTANTS
  Session,      \* stratum sessions
  Nonce,
  OrderOf,      \* [Nonce -> {"standard", "legacy", "none"}]: the byte order whose
                \* header hash meets the share target
  Palindrome,   \* nonces that read the same in both orders
  Blocks,       \* shares whose hash meets the network target as well
  MaxQueue,     \* validator.maxQueue
  MaxJobs,      \* the cap on state.jobs
  MaxSeq,       \* bound: jobs per process
  MaxRestarts,  \* bound: restarts of the pool process
  MaxTimeouts   \* bound: requests of the store that time out

ASSUME SharesAssumption ==
  /\ OrderOf \in [Nonce -> {"standard", "legacy", "none"}]
  /\ Palindrome \subseteq Nonce
  /\ Blocks \subseteq (1..MaxSeq) \X {n \in Nonce : OrderOf[n] # "none"}
  /\ MaxQueue \in Nat \ {0} /\ MaxJobs \in Nat \ {0}
  /\ MaxSeq \in Nat /\ MaxRestarts \in Nat /\ MaxTimeouts \in Nat

VARIABLES
  epoch,        \* restarts so far: tells this process's jobs from earlier ones
  sessions,     \* state.miners
  gone,         \* sessions that left; a new login gets a new session id
  jobSeq,       \* state.jobSeq
  jobs,         \* state.jobs: job id -> session
  seen,         \* every job's seen-set, as shares
  nonceOrder,   \* m.nonceOrder
  valive,       \* validator.alive
  vq,           \* validator.q: the shares whose check is awaited
  storeDown,    \* state.storeDown
  timeouts,     \* requests of the store that timed out so far
  slipped,      \* a request of the store timed out and the pipe has not caught up:
                \* an answer may be another request's
  unwritten,    \* rows whose INSERT is in the pipe with no caller waiting for it
  lost,         \* history: shares answered ahead of their INSERT, which then failed
                \* or died in the pipe
  frame,        \* where the open handleSubmit call of a share stands
  shares,       \* the `shares` table, durable; epoch is history
  acked,        \* history: shares answered OK
  submitted     \* history: shares this process passed to submitblock

vars == <<epoch, sessions, gone, jobSeq, jobs, seen, nonceOrder, valive, vq, storeDown,
          timeouts, slipped, unwritten, lost, frame, shares, acked, submitted>>

clients == <<sessions, gone, jobSeq, jobs>>
storage == <<epoch, shares, timeouts, slipped, unwritten, lost>>

-----------------------------------------------------------------------------
Share  == (1..MaxSeq) \X Nonce
Orders == {"standard", "legacy"}

\* A frame is closed, awaits its k-th share check in a byte order, awaits the
\* store, the confirming check, or submitblock and what follows it.
Closed            == [at |-> "closed"]
Checking(s, o, k) == [at |-> "check", session |-> s, order |-> o, try |-> k]
Recording         == [at |-> "record"]
Confirming        == [at |-> "confirm"]
Submitting        == [at |-> "submit"]
Replying          == [at |-> "reply"]

OtherOrder(o) == IF o = "standard" THEN "legacy" ELSE "standard"
FirstOrder(s) == IF nonceOrder[s] = "legacy" THEN "legacy" ELSE "standard"

HashMeetsTarget(n, o) == OrderOf[n] = o \/ (n \in Palindrome /\ OrderOf[n] # "none")

Row(f) == [id |-> f[1], nonce |-> f[2], epoch |-> epoch]
Stored(f) == \E r \in shares : r.id = f[1] /\ r.nonce = f[2]

\* Mutant: the key is the nonce alone.
InsertedByNonce(f) ==
  IF \E r \in shares : r.nonce = f[2] THEN shares ELSE shares \cup {Row(f)}

\* INSERT OR IGNORE under UNIQUE(job_id, nonce).
Inserted(f) == IF Stored(f) THEN shares ELSE shares \cup {Row(f)}

Init ==
  /\ epoch = 0
  /\ sessions = {} /\ gone = {}
  /\ jobSeq = 0 /\ jobs = <<>> /\ seen = {}
  /\ nonceOrder = [s \in Session |-> "unknown"]
  /\ valive = TRUE /\ vq = <<>> /\ storeDown = FALSE
  /\ timeouts = 0 /\ slipped = FALSE /\ unwritten = {} /\ lost = {}
  /\ frame = [f \in Share |-> Closed]
  /\ shares = {} /\ acked = {} /\ submitted = {}

-----------------------------------------------------------------------------
(* Jobs.                                                                    *)

\* Over its cap the map loses its oldest jobs.
Capped(js) ==
  LET newer(i) == {k \in DOMAIN js : k > i}
  IN  [i \in {k \in DOMAIN js : Cardinality(newer(k)) < MaxJobs} |-> js[i]]

\* makeJob: a job under the next id.
MakeJob(s) ==
  /\ jobSeq < MaxSeq
  /\ jobSeq' = jobSeq + 1
  /\ jobs' = Capped([i \in DOMAIN jobs \cup {jobSeq + 1} |-> IF i > jobSeq THEN s ELSE jobs[i]])

Login(s) ==
  /\ s \notin sessions \cup gone
  /\ MakeJob(s)
  /\ sessions' = sessions \cup {s}
  /\ UNCHANGED <<gone, seen, nonceOrder, valive, vq, storeDown, frame, storage, acked, submitted>>

\* getjob, and the job that retune() pushes after it changed a difficulty.
GetJob(s) ==
  /\ s \in sessions
  /\ MakeJob(s)
  /\ UNCHANGED <<sessions, gone, seen, nonceOrder, valive, vq, storeDown, frame, storage,
                 acked, submitted>>

\* refreshTemplate on a new tip: every job is dropped, every miner gets one.
NewTip ==
  LET n == Cardinality(sessions)
  IN  /\ jobs # <<>>
      /\ jobSeq + n <= MaxSeq
      /\ jobSeq' = jobSeq + n
      /\ jobs' = Capped([i \in (jobSeq + 1)..(jobSeq + n) |-> SetToSeq(sessions)[i - jobSeq]])
      /\ UNCHANGED <<sessions, gone, seen, nonceOrder, valive, vq, storeDown, frame, storage,
                     acked, submitted>>

Bye(s) ==
  /\ s \in sessions
  /\ sessions' = sessions \ {s}
  /\ gone' = gone \cup {s}
  /\ UNCHANGED <<jobSeq, jobs, seen, nonceOrder, valive, vq, storeDown, frame, storage,
                 acked, submitted>>

-----------------------------------------------------------------------------
(* handleSubmit, up to its first await.  A refused call -- a stale or       *)
(* foreign job, a duplicate, a dead validator -- changes nothing.            *)

Backlogged(queue) == Len(queue) >= MaxQueue

Submit(s, f) ==
  /\ s \in sessions /\ ~storeDown
  /\ f[1] \in DOMAIN jobs /\ jobs[f[1]] = s
  /\ f \notin seen
  /\ valive /\ ~Backlogged(vq)
  /\ seen' = seen \cup {f}
  /\ vq' = Append(vq, f)
  /\ frame' = [frame EXCEPT ![f] = Checking(s, FirstOrder(s), 1)]
  /\ UNCHANGED <<clients, nonceOrder, valive, storeDown, storage, acked, submitted>>

\* The validator answers the oldest check, for a share: it meets the target,
\* or the other byte order is tried, or the share is rejected.
ShareMeetsTarget ==
  /\ vq # <<>> /\ frame[Head(vq)].at = "check"
  /\ LET f == Head(vq)
         o == frame[f].order
     IN  /\ HashMeetsTarget(f[2], o)
         /\ frame' = [frame EXCEPT ![f] = Recording]
         /\ nonceOrder' = [nonceOrder EXCEPT ![frame[f].session] = o]
  /\ vq' = Tail(vq)
  /\ UNCHANGED <<clients, seen, valive, storeDown, storage, acked, submitted>>

LastTry(f) == frame[f].try = 2 \/ f[2] \in Palindrome

\* Shed on the second try: the nonce comes back out of the seen-set.
TryOtherOrder ==
  /\ vq # <<>> /\ frame[Head(vq)].at = "check"
  /\ LET f == Head(vq)
         o == frame[f].order
     IN  /\ ~HashMeetsTarget(f[2], o) /\ ~LastTry(f)
         /\ IF Backlogged(Tail(vq))
            THEN /\ frame' = [frame EXCEPT ![f] = Closed]
                 /\ seen' = seen \ {f}
                 /\ vq' = Tail(vq)
            ELSE /\ frame' = [frame EXCEPT ![f] = Checking(frame[f].session, OtherOrder(o), 2)]
                 /\ vq' = Append(Tail(vq), f)
                 /\ UNCHANGED seen
  /\ UNCHANGED <<clients, nonceOrder, valive, storeDown, storage, acked, submitted>>

ShareAboveTarget ==
  /\ vq # <<>> /\ frame[Head(vq)].at = "check"
  /\ ~HashMeetsTarget(Head(vq)[2], frame[Head(vq)].order) /\ LastTry(Head(vq))
  /\ frame' = [frame EXCEPT ![Head(vq)] = Closed]
  /\ vq' = Tail(vq)
  /\ UNCHANGED <<clients, seen, nonceOrder, valive, storeDown, storage, acked, submitted>>

-----------------------------------------------------------------------------
(* The share is good: record it, then see whether it is a block.            *)

\* The INSERT ran before its caller is answered.
InsertRan(f) == shares' = Inserted(f) /\ UNCHANGED unwritten

\* The caller goes on and its INSERT is still in the pipe.
InsertPending(f) == unwritten' = unwritten \cup {Row(f)} /\ UNCHANGED shares

\* Mutant: the confirming check can be shed like any other.
ShareRecordedUnforced(f) ==
  /\ frame[f] = Recording /\ ~storeDown
  /\ InsertRan(f) \/ (slipped /\ InsertPending(f))
  /\ IF f \in Blocks /\ valive /\ ~Backlogged(vq)
     THEN /\ vq' = Append(vq, f)
          /\ frame' = [frame EXCEPT ![f] = Confirming]
          /\ UNCHANGED acked
     ELSE /\ frame' = [frame EXCEPT ![f] = Closed]
          /\ acked' = acked \cup {Row(f)}
          /\ UNCHANGED vq
  /\ UNCHANGED <<epoch, clients, seen, nonceOrder, valive, storeDown, timeouts, slipped, lost,
                 submitted>>

\* recordShare resolved, on its own sentinel or, once the answers have slipped, on
\* an earlier one that came with rows.  A share that may be a block is checked
\* again, forced past the backlog; a dead validator answers that it is not one.
ShareRecorded(f) ==
  /\ frame[f] = Recording /\ ~storeDown
  /\ InsertRan(f) \/ (slipped /\ InsertPending(f))
  /\ IF f \in Blocks /\ valive
     THEN /\ vq' = Append(vq, f)
          /\ frame' = [frame EXCEPT ![f] = Confirming]
          /\ UNCHANGED acked
     ELSE /\ frame' = [frame EXCEPT ![f] = Closed]
          /\ acked' = acked \cup {Row(f)}
          /\ UNCHANGED vq
  /\ UNCHANGED <<epoch, clients, seen, nonceOrder, valive, storeDown, timeouts, slipped, lost,
                 submitted>>

\* recordShare threw: the caller is told so and may send the share again.
Refused(f) ==
  /\ frame[f] = Recording
  /\ seen' = seen \ {f}
  /\ frame' = [frame EXCEPT ![f] = Closed]
  /\ UNCHANGED <<epoch, clients, nonceOrder, valive, vq, storeDown, lost, acked, submitted>>

\* Rejected, or no row came back: the INSERT failed, or ran and its answer was lost,
\* or the answer was another request's and the INSERT is still to come.
ShareNotRecorded(f) ==
  /\ Refused(f)
  /\ \/ UNCHANGED <<shares, unwritten>>
     \/ ~storeDown /\ InsertRan(f)
     \/ ~storeDown /\ slipped /\ InsertPending(f)
  /\ UNCHANGED <<timeouts, slipped>>

\* The timer of run(): the waiter leaves the queue, its SQL does not, and the
\* sentinel that answers it will settle somebody else.
ShareTimesOut(f) ==
  /\ Refused(f) /\ ~storeDown
  /\ timeouts < MaxTimeouts
  /\ timeouts' = timeouts + 1
  /\ UNCHANGED <<shares, unwritten>> \/ InsertRan(f) \/ InsertPending(f)
  /\ slipped' = TRUE

\* The same timer for another request: the window, the ledger, the statistics.
QueryTimesOut ==
  /\ ~storeDown /\ timeouts < MaxTimeouts
  /\ timeouts' = timeouts + 1
  /\ slipped' = TRUE
  /\ UNCHANGED <<epoch, clients, seen, nonceOrder, valive, vq, storeDown, unwritten, lost, frame,
                 shares, acked, submitted>>

\* Shares that are answered OK, or will be whatever becomes of their row.
Owed == acked \cup {Row(f) : f \in {g \in Share : frame[g] \in {Confirming, Submitting, Replying}}}

\* sqlite3 comes to an INSERT nobody waits for.  If it fails nobody hears of it;
\* an INSERT of the same share, sent again, may follow it.
LateInsert(f) ==
  /\ ~storeDown /\ Row(f) \in unwritten
  /\ shares' = Inserted(f)
  /\ unwritten' = unwritten \ {Row(f)}
  /\ UNCHANGED <<epoch, clients, seen, nonceOrder, valive, vq, storeDown, timeouts, slipped, lost,
                 frame, acked, submitted>>

LateInsertFails(f) ==
  /\ ~storeDown /\ Row(f) \in unwritten
  /\ lost' = lost \cup ({Row(f)} \cap Owed)
  /\ unwritten' \in {unwritten, unwritten \ {Row(f)}}
  /\ UNCHANGED <<epoch, clients, seen, nonceOrder, valive, vq, storeDown, timeouts, slipped, frame,
                 shares, acked, submitted>>

\* A sentinel that finds the queue empty is dropped: with every request answered
\* and every INSERT run, the answers are in step again.
StoreCatchesUp ==
  /\ slipped /\ unwritten = {} /\ \A f \in Share : frame[f] # Recording
  /\ slipped' = FALSE
  /\ UNCHANGED <<epoch, clients, seen, nonceOrder, valive, vq, storeDown, timeouts, unwritten, lost,
                 frame, shares, acked, submitted>>

BlockConfirmed ==
  /\ vq # <<>> /\ frame[Head(vq)] = Confirming
  /\ frame' = [frame EXCEPT ![Head(vq)] = Submitting]
  /\ vq' = Tail(vq)
  /\ UNCHANGED <<clients, seen, nonceOrder, valive, storeDown, storage, acked, submitted>>

\* submitblock, whatever comes of it, and the bookkeeping that follows it
\* (PoolLedger), then the template refresh; the miner is answered at the end.
SubmitBlock(f) ==
  /\ frame[f] = Submitting
  /\ submitted' = submitted \cup {Row(f)}
  /\ frame' = [frame EXCEPT ![f] = Replying]
  /\ UNCHANGED <<clients, seen, nonceOrder, valive, vq, storeDown, storage, acked>>

Reply(f) ==
  /\ frame[f] = Replying
  /\ frame' = [frame EXCEPT ![f] = Closed]
  /\ acked' = acked \cup {Row(f)}
  /\ UNCHANGED <<clients, seen, nonceOrder, valive, vq, storeDown, storage, submitted>>

-----------------------------------------------------------------------------
(* Faults.                                                                  *)

\* Mutant: the queued calls are dropped and their promises never settle.
ValidatorDiesSilently ==
  /\ valive
  /\ valive' = FALSE
  /\ vq' = <<>>
  /\ UNCHANGED <<clients, seen, nonceOrder, storeDown, frame, storage, acked, submitted>>

\* The validator exits: queued share checks come back as malformed shares, a
\* queued confirmation as "not a block", and that share is answered OK.
ValidatorDies ==
  /\ valive
  /\ valive' = FALSE
  /\ vq' = <<>>
  /\ frame' = [f \in Share |-> IF frame[f].at \in {"check", "confirm"} THEN Closed ELSE frame[f]]
  /\ acked' = acked \cup {Row(f) : f \in {g \in Share : frame[g] = Confirming}}
  /\ UNCHANGED <<clients, seen, nonceOrder, storeDown, storage, submitted>>

\* sqlite3 exits, and what was in its pipe dies with it.
StoreDies ==
  /\ ~storeDown
  /\ storeDown' = TRUE
  /\ lost' = lost \cup (unwritten \cap Owed) /\ unwritten' = {}
  /\ UNCHANGED <<epoch, clients, seen, nonceOrder, valive, vq, timeouts, slipped, frame, shares,
                 acked, submitted>>

\* Memory is lost, jobSeq starts from 0 again, the table stays.
Restart ==
  /\ epoch < MaxRestarts
  /\ epoch' = epoch + 1
  /\ sessions' = {} /\ gone' = {}
  /\ jobSeq' = 0 /\ jobs' = <<>> /\ seen' = {}
  /\ nonceOrder' = [s \in Session |-> "unknown"]
  /\ valive' = TRUE /\ vq' = <<>> /\ storeDown' = FALSE
  /\ slipped' = FALSE /\ lost' = lost \cup (unwritten \cap acked) /\ unwritten' = {}
  /\ frame' = [f \in Share |-> Closed]
  /\ submitted' = {}
  /\ UNCHANGED <<timeouts, shares, acked>>

Validate == ShareMeetsTarget \/ TryOtherOrder \/ ShareAboveTarget \/ BlockConfirmed

Finish(f) ==
  ShareRecorded(f) \/ ShareNotRecorded(f) \/ ShareTimesOut(f) \/ SubmitBlock(f) \/ Reply(f)

\* What sqlite3 does behind the callers' backs.
LateStore ==
  \/ \E f \in Share : LateInsert(f) \/ LateInsertFails(f)
  \/ QueryTimesOut \/ StoreCatchesUp

Next ==
  \/ \E s \in Session : Login(s) \/ GetJob(s) \/ Bye(s)
  \/ \E s \in Session, f \in Share : Submit(s, f)
  \/ NewTip
  \/ Validate
  \/ \E f \in Share : Finish(f)
  \/ LateStore
  \/ ValidatorDies \/ StoreDies \/ Restart

Spec == Init /\ [][Next]_vars

\* The validator works off its queue, and the store, the node and the event
\* loop answer every call; nothing forces the miners, the tip or a fault.
FairSpec ==
  /\ Spec
  /\ WF_vars(Validate)
  /\ \A f \in Share : WF_vars(Finish(f))

-----------------------------------------------------------------------------
(* Properties.                                                              *)

\* An acknowledged share has its row, or the row of an earlier process holds its
\* key -- however often it is sent again, shed or answered late.  The exceptions
\* are the answers given out of turn, after a request of the store timed out: the
\* INSERT of such a share is in the pipe without its caller, and it is written
\* later, or it fails or dies there and the work is unpaid.
AckedWorkIsAccountedFor ==
  \A r \in acked :
    \/ r \in shares
    \/ \E old \in shares : old.id = r.id /\ old.nonce = r.nonce /\ old.epoch < r.epoch
    \/ timeouts > 0 /\ r \in unwritten \cup lost

\* "Never shed it": as long as the validator lives, a share that is a block is
\* answered only after the block went to the node, however long the backlog.
FoundBlockIsSubmitted ==
  valive => \A r \in acked : r.epoch = epoch /\ <<r.id, r.nonce>> \in Blocks => r \in submitted

\* Every submit is answered, also when the backlog sheds it half way, when the
\* store throws and when the validator dies.
EveryShareIsAnswered ==
  \A f \in Share : frame[f] # Closed ~> frame[f] = Closed
=============================================================================
