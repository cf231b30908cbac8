-------------------------- MODULE PoolSharesProofs --------------------------
(***************************************************************************)
(* From a share to its pay: what an answer of the pool is worth, what the     *)
(* window that is paid holds, and how the pot is split over it.  The three    *)
(* components meet in the shares table, and each is proved on its own.        *)
(*                                                                         *)
(* PoolShares: an acknowledged share has its row or met an earlier process's, *)
(* unless it was answered out of turn after a timeout, and a share that is a  *)
(* block went to the node first.  A share is answered steps after it was      *)
(* recorded or submitted, so the invariant says what an open frame has behind *)
(* it (FramesStand), and that the rows and the answers are of this process or *)
(* of an earlier one (Ages): a row under the share's key is then its own or   *)
(* an older one.                                                              *)
(*                                                                         *)
(* ShareTable: the window is read and the table is pruned with several        *)
(* queries each.  The invariants say what the earlier queries found and the   *)
(* other users of the table cannot undo: the size of the scan (ScanInv), for  *)
(* rows go from below and come in above it, and the cutoff (PruneInv), for a  *)
(* new block is younger than retention.                                       *)
(*                                                                         *)
(* PayoutSplit: dust is found in the first split or never (SplitInv).         *)
(***************************************************************************)
EXTENDS PoolShares, ShareTable, PayoutSplit, SumTheorems, SequenceTheorems, TLAPS

Frame ==
  {Closed, Recording, Confirming, Submitting, Replying}
    \cup [at : {"check"}, session : Session, order : Orders, try : {1, 2}]

Rows == [id : 1..MaxSeq, nonce : Nonce, epoch : Nat]

Types ==
  /\ epoch \in Nat /\ valive \in BOOLEAN
  /\ nonceOrder \in [Session -> {"unknown"} \cup Orders]
  /\ vq \in Seq(Share) /\ frame \in [Share -> Frame]
  /\ shares \subseteq Rows /\ acked \subseteq Rows

\* No row and no answer is from a later process.
Ages == \A r \in shares \cup acked : r.epoch <= epoch

\* The share's key is in the table, or its INSERT was left in the pipe.
Backed(f) == Stored(f) \/ Row(f) \in unwritten \cup lost

\* What is behind a frame that has got that far.
FramesStand ==
  \A f \in Share :
    /\ frame[f] \in {Confirming, Submitting, Replying} => Backed(f)
    /\ frame[f] = Replying => Row(f) \in submitted

\* An acknowledged share has its row, met an earlier process's, or is in the pipe.
Accounted ==
  \A r \in acked :
    \/ r \in shares
    \/ \E old \in shares : old.id = r.id /\ old.nonce = r.nonce /\ old.epoch < r.epoch
    \/ r \in unwritten \cup lost

Inv == Types /\ Ages /\ FramesStand /\ Accounted /\ FoundBlockIsSubmitted

-----------------------------------------------------------------------------
\* The row of a share has its type, and names the share.
LEMMA RowOf ==
  ASSUME Types, NEW f \in Share
  PROVE  /\ Row(f) \in Rows /\ Row(f).epoch = epoch
         /\ Row(f).id = f[1] /\ Row(f).nonce = f[2] /\ <<Row(f).id, Row(f).nonce>> = f
  BY DEF Row, Rows, Share, Types

\* In a table with no row of a later process, a share of process e that is stored
\* has a row of its own or an earlier process's.
LEMMA StoredIsCredited ==
  ASSUME NEW T, T \subseteq Rows, NEW e \in Nat, \A r \in T : r.epoch <= e,
         NEW f \in Share, NEW r \in T, r.id = f[1], r.nonce = f[2],
         NEW a, a = [id |-> f[1], nonce |-> f[2], epoch |-> e]
  PROVE  a \in T \/ \E old \in T : old.id = a.id /\ old.nonce = a.nonce /\ old.epoch < a.epoch
<1>1. r \in Rows /\ r.epoch <= e
  OBVIOUS
<1>2. CASE r.epoch = e
  BY <1>1, <1>2 DEF Rows
<1>3. CASE r.epoch < e
  BY <1>3
<1> QED BY <1>1, <1>2, <1>3 DEF Rows

\* INSERT OR IGNORE: the key is there afterwards, and nothing goes.
LEMMA InsertedStores ==
  ASSUME Types, NEW f \in Share, shares' = Inserted(f), epoch' = epoch
  PROVE  /\ shares \subseteq shares' /\ shares' \subseteq Rows /\ Stored(f)'
         /\ Ages => \A r \in shares' : r.epoch <= epoch
<1>1. Row(f) \in Rows /\ Row(f).epoch = epoch /\ Row(f).id = f[1] /\ Row(f).nonce = f[2]
  BY RowOf
<1>2. epoch \in Nat
  BY DEF Types
<1> QED BY <1>1, <1>2 DEF Inserted, Stored, Types, Ages

\* A queue of shares and what is left of it.
LEMMA QueueTail ==
  ASSUME Types, vq # <<>>
  PROVE  Head(vq) \in Share /\ Tail(vq) \in Seq(Share)
  BY HeadTailProperties DEF Types
-----------------------------------------------------------------------------
\* What is owed and in the pipe, or lost there, stays so or gets to the table.
PipeKeeps ==
  \A r \in Owed \cap (unwritten \cup lost) :
    r \in unwritten' \cup lost' \/ \E f \in Share : r = Row(f) /\ Stored(f)'

\* The step of a process answers nobody without what the properties ask for.
Answers ==
  /\ PipeKeeps
  /\ epoch' = epoch /\ (valive' => valive)
  /\ shares \subseteq shares' /\ (\A r \in shares' : r.epoch <= epoch) /\ submitted \subseteq submitted'
  /\ \A r \in acked' \ acked :
       \E f \in Share : r = Row(f) /\ Backed(f)' /\ (valive' /\ f \in Blocks => Row(f) \in submitted')

\* Such a step keeps both properties.
LEMMA AnswersKeep ==
  ASSUME Inv, Types', Answers
  PROVE  Ages' /\ Accounted' /\ FoundBlockIsSubmitted'
<1>1. \A f \in Share : Row(f)' = Row(f)
  BY DEF Row, Answers
<1>2. \A r \in acked' \ acked : r.epoch = epoch
  BY RowOf DEF Answers, Inv
<1>3. Ages'
  BY <1>2 DEF Answers, Inv, Types, Ages
<1>6. ASSUME NEW r, NEW f \in Share, r = Row(f), Stored(f)'
      PROVE  \/ r \in shares'
             \/ \E old \in shares' : old.id = r.id /\ old.nonce = r.nonce /\ old.epoch < r.epoch
  <2>1. PICK q \in shares' : q.id = f[1] /\ q.nonce = f[2]
    BY <1>6 DEF Stored
  <2>2. shares' \subseteq Rows /\ epoch \in Nat /\ \A q2 \in shares' : q2.epoch <= epoch
    BY DEF Inv, Types, Answers
  <2> QED BY <1>6, <2>1, <2>2, StoredIsCredited DEF Row
<1>4. ASSUME NEW r \in acked'
      PROVE  \/ r \in shares'
             \/ \E old \in shares' : old.id = r.id /\ old.nonce = r.nonce /\ old.epoch < r.epoch
             \/ r \in unwritten' \cup lost'
  <2>1. CASE r \in acked /\ r \in unwritten \cup lost
    <3>1. r \in Owed
      BY <2>1 DEF Owed
    <3>2. r \in unwritten' \cup lost' \/ \E f \in Share : r = Row(f) /\ Stored(f)'
      BY <2>1, <3>1 DEF Answers, PipeKeeps
    <3> QED BY <1>6, <3>2
  <2>2. CASE r \in acked /\ r \notin unwritten \cup lost
    BY <2>2 DEF Inv, Accounted, Answers
  <2>3. CASE r \notin acked
    <3>1. PICK f \in Share : r = Row(f) /\ Backed(f)'
      BY <1>4, <2>3 DEF Answers
    <3> QED BY <1>1, <1>6, <3>1 DEF Backed
  <2> QED BY <2>1, <2>2, <2>3
<1>5. ASSUME valive', NEW r \in acked', r.epoch = epoch', <<r.id, r.nonce>> \in Blocks
      PROVE  r \in submitted'
  <2>1. CASE r \in acked
    BY <1>5, <2>1 DEF Inv, FoundBlockIsSubmitted, Answers
  <2>2. CASE r \notin acked
    <3>1. PICK f \in Share : r = Row(f) /\ (valive' /\ f \in Blocks => Row(f) \in submitted')
      BY <1>5, <2>2 DEF Answers
    <3>2. f \in Blocks
      BY <1>5, <3>1, RowOf DEF Inv
    <3> QED BY <1>5, <3>1, <3>2
  <2> QED BY <2>1, <2>2
<1> QED BY <1>3, <1>4, <1>5 DEF Accounted, FoundBlockIsSubmitted

\* Frames stand when each did before, or got what it needs in this step.
LEMMA FramesKeep ==
  ASSUME Inv, Answers,
         \A f \in Share :
           \/ frame'[f] = frame[f]
           \/ /\ frame'[f] \in {Confirming, Submitting, Replying} => Backed(f)'
              /\ frame'[f] = Replying => Row(f) \in submitted'
  PROVE  FramesStand'
<1> SUFFICES ASSUME NEW f \in Share
             PROVE  /\ frame'[f] \in {Confirming, Submitting, Replying} => Backed(f)'
                    /\ frame'[f] = Replying => Row(f)' \in submitted'
  BY DEF FramesStand
<1>1. \A g \in Share : Row(g)' = Row(g)
  BY DEF Row, Answers
<1>2. ASSUME frame[f] \in {Confirming, Submitting, Replying} PROVE Backed(f)'
  <2>1. Backed(f)
    BY <1>2 DEF Inv, FramesStand
  <2>2. CASE Stored(f)
    <3>1. Stored(f)'
      BY <2>2 DEF Stored, Answers
    <3> QED BY <3>1 DEF Backed
  <2>3. CASE Row(f) \in unwritten \cup lost
    <3>1. Row(f) \in Owed
      BY <1>2 DEF Owed
    <3>2. Row(f) \in unwritten' \cup lost' \/ \E g \in Share : Row(f) = Row(g) /\ Stored(g)'
      BY <2>3, <3>1 DEF Answers, PipeKeeps
    <3>3. \A g \in Share : Row(f) = Row(g) => f = g
      BY RowOf DEF Inv
    <3> QED BY <1>1, <3>2, <3>3 DEF Backed
  <2> QED BY <2>1, <2>2, <2>3 DEF Backed
<1>3. ASSUME frame[f] = Replying PROVE Row(f)' \in submitted'
  BY <1>1, <1>3 DEF Inv, FramesStand, Answers
<1> QED BY <1>1, <1>2, <1>3

\* Every step of the pool keeps the invariant.
LEMMA InvStep == Inv /\ [Next]_vars => Inv'
<1> SUFFICES ASSUME Inv, [Next]_vars PROVE Inv'
  OBVIOUS
<1>1. Types /\ Ages /\ FramesStand /\ epoch \in Nat /\ frame \in [Share -> Frame]
  BY DEF Inv, Types
<1>2. ASSUME Types', Answers,
             \A f \in Share :
               \/ frame'[f] = frame[f]
               \/ /\ frame'[f] \in {Confirming, Submitting, Replying} => Backed(f)'
                  /\ frame'[f] = Replying => Row(f) \in submitted'
      PROVE  Inv'
  BY <1>2, AnswersKeep, FramesKeep DEF Inv
<1>3. CASE \/ \E s \in Session : Login(s) \/ GetJob(s) \/ Bye(s)
           \/ NewTip \/ QueryTimesOut \/ StoreCatchesUp \/ UNCHANGED vars
  <2>1. UNCHANGED <<epoch, valive, nonceOrder, vq, frame, shares, acked, submitted, unwritten, lost>>
    BY <1>3 DEF Login, GetJob, Bye, NewTip, QueryTimesOut, StoreCatchesUp, vars, storage
  <2> QED BY <1>1, <1>2, <2>1 DEF Types, Answers, PipeKeeps, Ages
<1>4. ASSUME NEW s \in Session, NEW f \in Share, Submit(s, f) PROVE Inv'
  <2>1. FirstOrder(s) \in Orders
    BY DEF FirstOrder, Orders
  <2>2. Checking(s, FirstOrder(s), 1) \in Frame
    BY <2>1 DEF Checking, Frame
  <2>3. Types'
    BY <1>1, <1>4, <2>2, AppendProperties DEF Submit, storage, Types
  <2>4. \A g \in Share : frame'[g] = frame[g] \/ frame'[g].at = "check"
    BY <1>1, <1>4 DEF Submit, Checking
  <2> QED BY <1>1, <1>2, <1>4, <2>3, <2>4
          DEF Submit, storage, Answers, PipeKeeps, Ages, Confirming, Submitting, Replying
<1>5. ASSUME ShareMeetsTarget \/ TryOtherOrder \/ ShareAboveTarget PROVE Inv'
  <2> DEFINE f == Head(vq)
  <2>1. f \in Share /\ Tail(vq) \in Seq(Share)
    BY <1>1, <1>5, QueueTail DEF ShareMeetsTarget, TryOtherOrder, ShareAboveTarget
  <2>2. frame[f] \in [at : {"check"}, session : Session, order : Orders, try : {1, 2}]
    BY <1>1, <1>5, <2>1 DEF ShareMeetsTarget, TryOtherOrder, ShareAboveTarget, Frame, Closed, Recording,
       Confirming, Submitting, Replying
  <2>3. Checking(frame[f].session, OtherOrder(frame[f].order), 2) \in Frame
    BY <2>2 DEF Checking, OtherOrder, Orders, Frame
  <2>4. Types'
    <3>1. Append(Tail(vq), f) \in Seq(Share)
      BY <2>1, AppendProperties
    <3>2. frame' \in [Share -> Frame] /\ vq' \in Seq(Share)
          /\ nonceOrder' \in [Session -> {"unknown"} \cup Orders]
      BY <1>1, <1>5, <2>1, <2>2, <2>3, <3>1
         DEF ShareMeetsTarget, TryOtherOrder, ShareAboveTarget, Frame, Types
    <3> QED BY <1>1, <1>5, <3>2 DEF ShareMeetsTarget, TryOtherOrder, ShareAboveTarget, storage, Types
  <2>5. \A g \in Share : frame'[g] = frame[g] \/ frame'[g].at \in {"check", "record", "closed"}
    BY <1>1, <1>5, <2>1 DEF ShareMeetsTarget, TryOtherOrder, ShareAboveTarget, Checking,
            Recording, Closed
  <2> QED BY <1>1, <1>2, <1>5, <2>4, <2>5
          DEF ShareMeetsTarget, TryOtherOrder, ShareAboveTarget, storage, Answers, PipeKeeps, Ages,
              Confirming, Submitting, Replying
<1>6. ASSUME NEW f \in Share, ShareRecorded(f) PROVE Inv'
  <2>1. /\ shares \subseteq shares' /\ shares' \subseteq Rows /\ Backed(f)'
        /\ \A r \in shares' : r.epoch <= epoch
        /\ unwritten \subseteq unwritten' /\ lost' = lost
    <3>1. CASE InsertRan(f)
      BY <1>1, <1>6, <3>1, InsertedStores DEF ShareRecorded, InsertRan, Backed
    <3>2. CASE InsertPending(f)
      <4>1. Row(f)' = Row(f) /\ lost' = lost
        BY <1>6 DEF ShareRecorded, Row
      <4> QED BY <1>1, <3>2, <4>1 DEF InsertPending, Backed, Types, Ages
    <3> QED BY <1>6, <3>1, <3>2 DEF ShareRecorded
  <2>2. Types'
    <3>1. vq' \in Seq(Share)
      BY <1>1, <1>6, AppendProperties DEF ShareRecorded, Types
    <3>2. frame' \in [Share -> Frame]
      BY <1>1, <1>6 DEF ShareRecorded, Frame
    <3>3. acked' \subseteq Rows
      BY <1>1, <1>6, RowOf DEF ShareRecorded, Types
    <3> QED BY <1>1, <1>6, <2>1, <3>1, <3>2, <3>3 DEF ShareRecorded, Types
  <2>3. Answers
    BY <1>1, <1>6, <2>1 DEF ShareRecorded, Answers, PipeKeeps
  <2> QED BY <1>1, <1>2, <1>6, <2>1, <2>2, <2>3
          DEF ShareRecorded, Confirming, Submitting, Replying, Closed
<1>7. ASSUME NEW f \in Share, ShareNotRecorded(f) \/ ShareTimesOut(f) PROVE Inv'
  <2>0. Refused(f) /\ (UNCHANGED <<shares, unwritten>> \/ InsertRan(f) \/ InsertPending(f))
    BY <1>7 DEF ShareNotRecorded, ShareTimesOut
  <2>1. /\ shares \subseteq shares' /\ shares' \subseteq Rows
        /\ \A r \in shares' : r.epoch <= epoch
        /\ unwritten \subseteq unwritten' /\ lost' = lost
    BY <1>1, <2>0, InsertedStores DEF Refused, InsertRan, InsertPending, Types, Ages
  <2>2. Types'
    BY <1>1, <2>0, <2>1 DEF Refused, Types, Frame
  <2>3. Answers
    BY <1>1, <2>0, <2>1 DEF Refused, Answers, PipeKeeps
  <2> QED BY <1>1, <1>2, <2>0, <2>1, <2>2, <2>3
          DEF Refused, Confirming, Submitting, Replying, Closed
<1>8. CASE BlockConfirmed
  <2>1. Head(vq) \in Share /\ Tail(vq) \in Seq(Share)
    BY <1>1, <1>8, QueueTail DEF BlockConfirmed
  <2>2. Types'
    BY <1>1, <1>8, <2>1 DEF BlockConfirmed, storage, Types, Frame
  <2>3. Answers
    BY <1>1, <1>8 DEF BlockConfirmed, storage, Answers, PipeKeeps, Ages
  <2>4. PICK f \in Share : frame[f] = Confirming /\ frame' = [frame EXCEPT ![f] = Submitting]
    BY <1>8, <2>1 DEF BlockConfirmed
  <2>5. Backed(f)
    BY <1>1, <2>4 DEF FramesStand
  <2>6. Backed(f)'
    BY <1>8, <2>5 DEF BlockConfirmed, storage, Backed, Stored, Row
  <2>7. \A g \in Share : frame'[g] = frame[g] \/ (g = f /\ frame'[g] = Submitting)
    BY <1>1, <2>4
  <2> QED BY <1>2, <2>2, <2>3, <2>6, <2>7 DEF Submitting, Replying
<1>9. ASSUME NEW f \in Share, SubmitBlock(f) PROVE Inv'
  <2>1. Types'
    BY <1>1, <1>9 DEF SubmitBlock, storage, Types, Frame
  <2>2. Answers
    BY <1>1, <1>9 DEF SubmitBlock, storage, Answers, PipeKeeps, Ages
  <2>3. Backed(f)'
    BY <1>1, <1>9 DEF SubmitBlock, storage, FramesStand, Backed, Stored, Row
  <2> QED BY <1>1, <1>2, <1>9, <2>1, <2>2, <2>3 DEF SubmitBlock
<1>10. ASSUME NEW f \in Share, Reply(f) PROVE Inv'
  <2>1. Types'
    BY <1>1, <1>10, RowOf DEF Reply, storage, Types, Frame
  <2>2. Backed(f)' /\ Row(f) \in submitted'
    BY <1>1, <1>10 DEF Reply, storage, FramesStand, Backed, Stored, Row
  <2>3. Answers
    BY <1>1, <1>10, <2>2 DEF Reply, storage, Answers, PipeKeeps, Ages
  <2> QED BY <1>1, <1>2, <1>10, <2>1, <2>2, <2>3 DEF Reply, Confirming, Submitting, Replying, Closed
<1>11. CASE ValidatorDies
  <2>1. Types'
    <3>1. <<>> \in Seq(Share)
      BY EmptySeq
    <3>2. \A f \in Share : Row(f) \in Rows
      BY <1>1, RowOf
    <3>3. acked' \subseteq Rows
      BY <1>1, <1>11, <3>2 DEF ValidatorDies, Types
    <3>4. frame' \in [Share -> Frame]
      BY <1>1, <1>11 DEF ValidatorDies, Frame
    <3> QED BY <1>1, <1>11, <3>1, <3>3, <3>4 DEF ValidatorDies, storage, Types
  <2>2. \A f \in Share : frame[f] = Confirming => Backed(f)'
    BY <1>1, <1>11 DEF ValidatorDies, storage, FramesStand, Backed, Stored, Row
  <2>3. Answers
    BY <1>1, <1>11, <2>2 DEF ValidatorDies, storage, Answers, PipeKeeps, Ages
  <2> QED BY <1>1, <1>2, <1>11, <2>1, <2>3 DEF ValidatorDies, Confirming, Submitting, Replying, Closed
<1>12. CASE Restart
  <2>1. Types'
    BY <1>1, <1>12, EmptySeq DEF Restart, Types, Frame
  <2>2. Ages' /\ FoundBlockIsSubmitted'
    BY <1>1, <1>12 DEF Restart, Types, Ages, Rows, FoundBlockIsSubmitted
  <2>3. FramesStand'
    BY <1>12 DEF Restart, FramesStand, Confirming, Submitting, Replying, Closed
  <2>4. Accounted'
    BY <1>12 DEF Restart, Inv, Accounted
  <2> QED BY <2>1, <2>2, <2>3, <2>4 DEF Inv
<1>13. ASSUME NEW f \in Share, LateInsert(f) PROVE Inv'
  <2>1. /\ shares \subseteq shares' /\ shares' \subseteq Rows /\ Stored(f)'
        /\ \A r \in shares' : r.epoch <= epoch
    BY <1>1, <1>13, InsertedStores DEF LateInsert
  <2>2. Types'
    BY <1>1, <1>13, <2>1 DEF LateInsert, Types
  <2>3. PipeKeeps
    BY <1>13, <2>1 DEF LateInsert, PipeKeeps
  <2>4. Answers
    BY <1>13, <2>1, <2>3 DEF LateInsert, Answers
  <2> QED BY <1>2, <1>13, <2>2, <2>4 DEF LateInsert
<1>14. CASE (\E f \in Share : LateInsertFails(f)) \/ StoreDies
  <2>1. /\ UNCHANGED <<epoch, valive, nonceOrder, vq, frame, shares, acked, submitted>>
        /\ Owed \cap (unwritten \cup lost) \subseteq unwritten' \cup lost'
    BY <1>14 DEF LateInsertFails, StoreDies
  <2> QED BY <1>1, <1>2, <2>1 DEF Types, Answers, PipeKeeps, Ages
<1> QED BY <1>3, <1>4, <1>5, <1>6, <1>7, <1>8, <1>9, <1>10, <1>11, <1>12, <1>13, <1>14
        DEF Next, Validate, Finish, LateStore

\* The pool starts with nothing recorded and nobody answered.
LEMMA InvInit == Init => Inv
  BY EmptySeq DEF Init, Inv, Types, Frame, Ages, FramesStand, Confirming, Submitting, Replying, Closed,
     Accounted, FoundBlockIsSubmitted

\* Answers slip, and INSERTs are left in the pipe, after a timeout only.
SlipInv ==
  /\ timeouts \in Nat
  /\ slipped \/ unwritten \cup lost # {} => timeouts > 0

LEMMA SlipInit == Init => SlipInv
  BY DEF Init, SlipInv

LEMMA SlipStep == SlipInv /\ [Next]_vars => SlipInv'
<1> SUFFICES ASSUME SlipInv, [Next]_vars PROVE SlipInv'
  OBVIOUS
<1>1. CASE UNCHANGED <<timeouts, slipped, unwritten, lost>>
  BY <1>1 DEF SlipInv
<1>2. ASSUME NEW f \in Share, ShareRecorded(f) \/ ShareNotRecorded(f) PROVE SlipInv'
  BY <1>2 DEF ShareRecorded, ShareNotRecorded, Refused, InsertRan, InsertPending, SlipInv
<1>3. ASSUME NEW f \in Share, ShareTimesOut(f) PROVE SlipInv'
  BY <1>3 DEF ShareTimesOut, SlipInv
<1>4. CASE QueryTimesOut
  BY <1>4 DEF QueryTimesOut, SlipInv
<1>5. ASSUME NEW f \in Share, LateInsert(f) \/ LateInsertFails(f) PROVE SlipInv'
  BY <1>5 DEF LateInsert, LateInsertFails, SlipInv
<1>6. CASE StoreCatchesUp \/ StoreDies \/ Restart
  BY <1>6 DEF StoreCatchesUp, StoreDies, Restart, SlipInv
<1> QED
  BY <1>1, <1>2, <1>3, <1>4, <1>5, <1>6
     DEF Next, Validate, Finish, LateStore, Login, GetJob, Bye, NewTip, Submit, ShareMeetsTarget,
         TryOtherOrder, ShareAboveTarget, BlockConfirmed, SubmitBlock, Reply, ValidatorDies,
         storage, vars

\* Whatever the backlog sheds, the store loses and the validator leaves unanswered,
\* handleSubmit answers OK only for a share with a row of its own, or under a key
\* that an earlier process of the pool had used, or out of turn: then a request of
\* the store had timed out, and the share's INSERT is in the pipe or was lost there.
THEOREM AcknowledgedIsCredited == Spec => []AckedWorkIsAccountedFor
<1>1. Inv /\ SlipInv => AckedWorkIsAccountedFor
  BY DEF Inv, SlipInv, Accounted, AckedWorkIsAccountedFor
<1>2. Spec => []Inv
  BY InvInit, InvStep, PTL DEF Spec
<1>3. Spec => []SlipInv
  BY SlipInit, SlipStep, PTL DEF Spec
<1> QED BY <1>1, <1>2, <1>3, PTL

\* The forced second check: as long as the validator lives, a share that is a block
\* is answered only after submitblock, for every queue length.
THEOREM BlocksAreSubmittedFirst == Spec => []FoundBlockIsSubmitted
  BY InvInit, InvStep, PTL DEF Spec, Inv

-----------------------------------------------------------------------------
(* The table the window is read from.                                       *)

\* Ids are given out in order of time, and the rows that are left keep them.
Numbered ==
  /\ now \in Nat /\ lastId \in Nat
  /\ DOMAIN rows \subseteq 1..lastId
  /\ rows \in [DOMAIN rows -> [at : Nat, weight : Nat]]
  /\ \A i \in DOMAIN rows : rows[i].at <= now
  /\ \A i, j \in DOMAIN rows : i <= j => rows[i].at <= rows[j].at

\* The newest n of ids weigh the window, or are all of them.
Sized(ids, n) == WeightOf(Newest(ids, n)) >= Window \/ Newest(ids, n) = ids

Scans == [at : {"covered", "have", "final"}, last : Nat, limit : Nat \ {0}]

ScanInv ==
  /\ scan = Idle \/ scan \in Scans
  /\ scan # Idle => scan.last <= lastId
  /\ scan.at = "final" => Sized(UpTo(scan.last), scan.limit)

Prunes == [at : {"guard", "clock", "delete"}, cutoff : Int, guarded : BOOLEAN]

\* The cutoff is before every in-flight block, less the margin, but for those that
\* came back since the guard was read.
Spares == \A t \in inFlight \ returned : prune.cutoff <= t - Margin

\* The cutoff is past retention and slack.
Overdue == prune.cutoff <= now - (Retain + Slack)

PruneInv ==
  /\ now \in Nat /\ inFlight \subseteq Nat /\ returned \subseteq inFlight
  /\ prune = Idle \/ prune \in Prunes
  /\ prune # Idle =>
       /\ prune.cutoff <= now - Retain
       /\ prune.at = "clock" /\ prune.guarded => Spares
       /\ prune.at = "delete" /\ prune.guarded => Spares \/ Overdue
-----------------------------------------------------------------------------
\* Integers that are not below a bound have a least among them.
LEMMA LeastInt ==
  ASSUME NEW S \in SUBSET Int, S # {}, NEW low \in Int, \A y \in S : low <= y
  PROVE  Min(S) \in S /\ \A y \in S : Min(S) <= y
<1> DEFINE T == {n \in Nat : n + low \in S}
<1>1. PICK x \in S : TRUE
  OBVIOUS
<1>2. x - low \in T
  BY <1>1
<1>3. PICK n \in T : \A m \in T : n <= m
  BY <1>2, LeastElement
<1>4. n + low \in S /\ \A y \in S : n + low <= y
  <2>1. \A y \in S : y - low \in T
    OBVIOUS
  <2> QED BY <1>3, <2>1
<1> QED BY <1>4 DEF Min

\* Naturals up to a bound have a greatest among them.
LEMMA GreatestNat ==
  ASSUME NEW S \in SUBSET Nat, S # {}, NEW top \in Nat, \A y \in S : y <= top
  PROVE  Max(S) \in S /\ \A y \in S : Max(S) >= y
<1> DEFINE T == {n \in Nat : top - n \in S}
<1>1. PICK x \in S : TRUE
  OBVIOUS
<1>2. top - x \in T
  BY <1>1
<1>3. PICK n \in T : \A m \in T : n <= m
  BY <1>2, LeastElement
<1>4. top - n \in S /\ \A y \in S : top - n >= y
  <2>1. \A y \in S : top - y \in T
    OBVIOUS
  <2> QED BY <1>3, <2>1
<1> QED BY <1>4 DEF Max

\* The later of two times is one of them.
LEMMA LaterOf ==
  ASSUME NEW a \in Int, NEW b \in Int
  PROVE  /\ Max({a, b}) \in {a, b} /\ Max({a, b}) >= a /\ Max({a, b}) >= b
<1>1. \E x \in {a, b} : \A y \in {a, b} : x >= y
  OBVIOUS
<1> QED BY <1>1 DEF Max

-----------------------------------------------------------------------------
(* The ids.                                                                 *)

LEMMA NumberedStarts == TableInit => Numbered
<1> SUFFICES ASSUME TableInit PROVE Numbered
  OBVIOUS
<1>1. rows = <<>> /\ DOMAIN rows = {} /\ now = 1 /\ lastId = 0
  BY DEF TableInit
<1>2. rows \in [DOMAIN rows -> [at : Nat, weight : Nat]]
  BY <1>1
<1> QED BY <1>1, <1>2 DEF Numbered

\* A share gets the highest id and the latest time; the script only removes rows.
LEMMA NumberedStep == Numbered /\ [TableNext]_tableVars => Numbered'
<1> SUFFICES ASSUME Numbered, [TableNext]_tableVars PROVE Numbered'
  OBVIOUS
<1>0. /\ now \in Nat /\ lastId \in Nat /\ DOMAIN rows \subseteq 1..lastId
      /\ \A i \in DOMAIN rows : /\ rows[i] \in [at : Nat, weight : Nat] /\ rows[i].at \in Nat
                                /\ rows[i].at <= now
      /\ \A i, j \in DOMAIN rows : i <= j => rows[i].at <= rows[j].at
  BY DEF Numbered
<1>1. CASE UNCHANGED <<now, lastId, rows>>
  BY <1>1 DEF Numbered
<1>2. CASE Tick
  <2>1. now' = now + 1 /\ lastId' = lastId /\ rows' = rows
    BY <1>2 DEF Tick
  <2>2. \A i \in DOMAIN rows : rows[i].at <= now + 1
    BY <1>0
  <2> QED BY <1>0, <2>1, <2>2 DEF Numbered
<1>3. CASE RecordShare
  <2> DEFINE D == DOMAIN rows \cup {lastId + 1}
  <2>1. PICK w \in Weight :
          rows' = [i \in D |-> IF i = lastId + 1 THEN [at |-> now, weight |-> w] ELSE rows[i]]
    BY <1>3 DEF RecordShare
  <2>2. now' = now /\ lastId' = lastId + 1 /\ DOMAIN rows' = D /\ lastId + 1 \notin DOMAIN rows
    BY <1>0, <1>3, <2>1 DEF RecordShare
  <2>3. w \in Nat
    BY <2>1, TableAssumption DEF TableAssumption
  <2>4. /\ rows'[lastId + 1] = [at |-> now, weight |-> w]
        /\ \A i \in DOMAIN rows : rows'[i] = rows[i]
    BY <2>1, <2>2
  <2>5. \A i \in D : rows'[i] \in [at : Nat, weight : Nat] /\ rows'[i].at <= now
    BY <1>0, <2>3, <2>4
  <2>6. rows' \in [D -> [at : Nat, weight : Nat]]
    BY <2>1, <2>2, <2>5
  <2>7. D \subseteq 1..(lastId + 1)
    BY <1>0
  <2>8. ASSUME NEW i \in D, NEW j \in D, i <= j PROVE rows'[i].at <= rows'[j].at
    <3>1. CASE j = lastId + 1
      BY <2>4, <2>5, <3>1
    <3>2. CASE j # lastId + 1
      <4>1. i \in DOMAIN rows /\ j \in DOMAIN rows
        BY <1>0, <2>8, <3>2
      <4> QED BY <1>0, <2>4, <2>8, <4>1
    <3> QED BY <3>1, <3>2
  <2> HIDE DEF D
  <2> QED BY <1>0, <2>2, <2>5, <2>6, <2>7, <2>8 DEF Numbered
<1>4. CASE DeleteBatch
  <2>1. PICK S \in SUBSET DOMAIN rows : rows' = [i \in S |-> rows[i]]
    BY <1>4 DEF DeleteBatch, Restrict
  <2>2. now' = now /\ lastId' = lastId /\ DOMAIN rows' = S /\ \A i \in S : rows'[i] = rows[i]
    BY <1>4, <2>1 DEF DeleteBatch
  <2>3. rows' \in [S -> [at : Nat, weight : Nat]]
    BY <1>0, <2>1, <2>2
  <2> QED BY <1>0, <2>2, <2>3 DEF Numbered
<1> QED
  BY <1>1, <1>2, <1>3, <1>4
     DEF TableNext, Scan, Prune, BlockFound, BlockResolved, BlockReturns, MaxIdQuery, CoveredQuery,
         HaveQuery, FinalQuery, StartPrune, ReadGuard, ReadClock, EndPrune,
         GuardUnreadable, PruneFails, tableVars

-----------------------------------------------------------------------------
(* The prune script and the blocks in flight.                               *)

LEMMA PruneStarts == TableInit => PruneInv
BY DEF TableInit, PruneInv

\* Nothing below the cutoff the script deletes by is kept for a block in flight.
LEMMA PruneStep == PruneInv /\ [TableNext]_tableVars => PruneInv'
<1> SUFFICES ASSUME PruneInv, [TableNext]_tableVars PROVE PruneInv'
  OBVIOUS
<1>0. /\ now \in Nat /\ inFlight \subseteq Nat /\ returned \subseteq inFlight
      /\ Retain \in Nat /\ Slack \in Nat /\ Margin \in Nat /\ Margin <= Retain
  BY TableAssumption DEF PruneInv, TableAssumption
<1>1. CASE UNCHANGED <<now, blocks, prune>>
  BY <1>1 DEF blocks, PruneInv, Spares, Overdue
<1>2. CASE Tick
  <2>1. now' = now + 1 /\ inFlight' = inFlight /\ returned' = returned /\ prune' = prune
    BY <1>2 DEF Tick, blocks
  <2>2. prune # Idle => prune.cutoff \in Int
    BY DEF PruneInv, Prunes
  <2>3. Spares => Spares'
    BY <2>1 DEF Spares
  <2>4. prune # Idle /\ Overdue => Overdue'
    BY <1>0, <2>1, <2>2 DEF Overdue
  <2>5. prune # Idle /\ prune.cutoff <= now - Retain => prune'.cutoff <= now' - Retain
    BY <1>0, <2>1, <2>2
  <2>6. now' \in Nat /\ inFlight' \subseteq Nat /\ returned' \subseteq inFlight'
    BY <1>0, <2>1
  <2> QED BY <2>1, <2>3, <2>4, <2>5, <2>6 DEF PruneInv
<1>3. CASE BlockFound
  <2>1. now' = now /\ inFlight' = inFlight \cup {now} /\ returned' = returned /\ prune' = prune
    BY <1>3 DEF BlockFound
  <2>2. prune # Idle => prune.cutoff \in Int /\ prune.cutoff <= now - Retain
    BY DEF PruneInv, Prunes
  <2>3. prune # Idle => prune.cutoff <= now - Margin
    BY <1>0, <2>2
  <2>4. prune # Idle /\ Spares => Spares'
    BY <2>1, <2>3 DEF Spares
  <2>5. Overdue => Overdue'
    BY <2>1 DEF Overdue
  <2>6. now' \in Nat /\ inFlight' \subseteq Nat /\ returned' \subseteq inFlight'
    BY <1>0, <2>1
  <2> QED BY <2>1, <2>4, <2>5, <2>6 DEF PruneInv
<1>4. CASE BlockResolved
  <2>1. PICK t \in inFlight : /\ now' = now /\ prune' = prune
                               /\ inFlight' = inFlight \ {t} /\ returned' = returned \ {t}
    BY <1>4 DEF BlockResolved
  <2>2. Spares => Spares'
    BY <2>1 DEF Spares
  <2>3. Overdue => Overdue'
    BY <2>1 DEF Overdue
  <2>4. now' \in Nat /\ inFlight' \subseteq Nat /\ returned' \subseteq inFlight'
    BY <1>0, <2>1
  <2> QED BY <2>1, <2>2, <2>3, <2>4 DEF PruneInv
<1>5. CASE prune' = Idle /\ returned' = {} /\ UNCHANGED <<now, inFlight>>
  BY <1>0, <1>5 DEF PruneInv
<1>10. CASE BlockReturns
  <2>1. PICK t \in 1..now : /\ now' = now /\ prune' = prune /\ inFlight' = inFlight \cup {t}
                            /\ returned' = IF GuardWasRead THEN returned \cup {t} ELSE returned
                            /\ t \notin inFlight
    BY <1>10 DEF BlockReturns
  <2>2. GuardWasRead /\ Spares => Spares'
    BY <2>1 DEF Spares
  <2>3. Overdue => Overdue'
    BY <2>1 DEF Overdue
  <2>4. now' \in Nat /\ inFlight' \subseteq Nat /\ returned' \subseteq inFlight'
    BY <1>0, <2>1
  <2> QED BY <2>1, <2>2, <2>3, <2>4 DEF PruneInv, GuardWasRead
<1>6. CASE StartPrune
  <2>1. /\ now' = now /\ inFlight' = inFlight /\ returned' = returned
        /\ prune' = [at |-> "guard", cutoff |-> now - Retain, guarded |-> FALSE]
    BY <1>6 DEF StartPrune, Pruning, blocks
  <2>2. now - Retain \in Int
    BY <1>0
  <2>3. prune' \in Prunes
    BY <2>1, <2>2 DEF Prunes
  <2>4. prune'.cutoff <= now' - Retain /\ prune'.at = "guard"
    BY <2>1, <2>2
  <2> QED BY <1>0, <2>1, <2>3, <2>4 DEF PruneInv
<1>7. CASE ReadGuard
  <2> DEFINE S == {prune.cutoff} \cup {t - Margin : t \in inFlight}
  <2>1. /\ now' = now /\ inFlight' = inFlight /\ returned' = returned
        /\ prune' = [at |-> "clock", cutoff |-> Min(S), guarded |-> TRUE]
    BY <1>7 DEF ReadGuard, Pruning, blocks
  <2>2. prune # Idle
    BY <1>7 DEF ReadGuard, Idle
  <2>3. prune.cutoff \in Int /\ prune.cutoff <= now - Retain
    BY <2>2 DEF PruneInv, Prunes
  <2>4. Min(S) \in Int /\ Min(S) <= prune.cutoff /\ \A t \in inFlight : Min(S) <= t - Margin
    <3>1. S \in SUBSET Int /\ S # {}
      BY <1>0, <2>3
    <3>2. \E low \in Int : \A y \in S : low <= y
      <4>1. CASE prune.cutoff <= 0 - Margin
        <5>1. \A t \in inFlight : prune.cutoff <= t - Margin
          BY <1>0, <2>3, <4>1
        <5> QED BY <2>3, <5>1
      <4>2. CASE ~(prune.cutoff <= 0 - Margin)
        <5>1. 0 - Margin \in Int /\ 0 - Margin <= prune.cutoff
              /\ \A t \in inFlight : 0 - Margin <= t - Margin
          BY <1>0, <2>3, <4>2
        <5> QED BY <5>1
      <4> QED BY <4>1, <4>2
    <3>3. Min(S) \in S /\ \A y \in S : Min(S) <= y
      BY <3>1, <3>2, LeastInt
    <3> QED BY <3>1, <3>3
  <2> HIDE DEF S
  <2>5. prune' \in Prunes
    BY <2>1, <2>4 DEF Prunes
  <2>6. prune'.cutoff = Min(S) /\ prune'.at = "clock"
    BY <2>1
  <2>7. Spares'
    BY <2>1, <2>4, <2>6 DEF Spares
  <2>8. prune'.cutoff <= now' - Retain
    BY <1>0, <2>1, <2>3, <2>4, <2>6
  <2> QED BY <1>0, <2>1, <2>5, <2>6, <2>7, <2>8 DEF PruneInv
<1>8. CASE GuardUnreadable
  <2>1. /\ now' = now /\ inFlight' = inFlight /\ returned' = returned
        /\ prune' = [at |-> "clock", cutoff |-> prune.cutoff, guarded |-> FALSE]
    BY <1>8 DEF GuardUnreadable, Pruning, blocks
  <2>2. prune # Idle
    BY <1>8 DEF GuardUnreadable, Idle
  <2>3. prune.cutoff \in Int /\ prune.cutoff <= now - Retain
    BY <2>2 DEF PruneInv, Prunes
  <2>4. prune' \in Prunes
    BY <2>1, <2>3 DEF Prunes
  <2>5. prune'.cutoff = prune.cutoff /\ ~prune'.guarded
    BY <2>1
  <2> QED BY <1>0, <2>1, <2>3, <2>4, <2>5 DEF PruneInv
<1>9. CASE ReadClock
  <2> DEFINE late == now - (Retain + Slack)
             cut  == Max({prune.cutoff, late})
  <2>1. /\ now' = now /\ inFlight' = inFlight /\ returned' = returned
        /\ prune' = [at |-> "delete", cutoff |-> cut, guarded |-> prune.guarded]
        /\ prune.at = "clock"
    BY <1>9 DEF ReadClock, Pruning, blocks
  <2>2. prune # Idle
    BY <2>1 DEF Idle
  <2>3. /\ prune.cutoff \in Int /\ prune.cutoff <= now - Retain /\ prune.guarded \in BOOLEAN
        /\ prune.guarded => Spares
    BY <2>1, <2>2 DEF PruneInv, Prunes
  <2>4. late \in Int /\ late <= now - Retain
    BY <1>0
  <2>5. cut \in {prune.cutoff, late}
    BY <2>3, <2>4, LaterOf
  <2> HIDE DEF cut
  <2>6. prune' \in Prunes /\ prune'.cutoff = cut /\ prune'.guarded = prune.guarded
        /\ prune'.at = "delete"
    <3>1. cut \in Int
      BY <2>3, <2>4, <2>5
    <3> QED BY <2>1, <2>3, <3>1 DEF Prunes
  <2>7. prune'.cutoff <= now' - Retain
    BY <2>1, <2>3, <2>4, <2>5, <2>6
  <2>8. prune.guarded => Spares' \/ Overdue'
    <3>1. CASE cut = prune.cutoff
      <4>1. prune'.cutoff = prune.cutoff
        BY <2>6, <3>1
      <4> QED BY <2>1, <2>3, <4>1 DEF Spares
    <3>2. CASE cut = late
      <4>1. prune'.cutoff = now - (Retain + Slack) /\ late <= late
        BY <2>4, <2>6, <3>2
      <4> QED BY <2>1, <4>1 DEF Overdue
    <3> QED BY <2>5, <3>1, <3>2
  <2> QED BY <1>0, <2>1, <2>6, <2>7, <2>8 DEF PruneInv
<1> QED
  BY <1>1, <1>2, <1>3, <1>4, <1>5, <1>6, <1>7, <1>8, <1>9, <1>10
     DEF TableNext, Scan, Prune, RecordShare, MaxIdQuery, CoveredQuery, HaveQuery,
         FinalQuery, DeleteBatch, EndPrune, PruneFails, tableVars, blocks

\* Rows leave the table in DeleteBatch, and only those below the cutoff.
LEMMA OnlyDoomedGo ==
  ASSUME [TableNext]_tableVars, NEW i \in DOMAIN rows \ DOMAIN rows'
  PROVE  prune.at = "delete" /\ rows[i].at < prune.cutoff
<1>1. CASE DeleteBatch
  <2>1. DOMAIN rows \ Doomed \subseteq DOMAIN rows'
    BY <1>1 DEF DeleteBatch, Restrict
  <2> QED BY <1>1, <2>1 DEF DeleteBatch, Doomed
<1>2. CASE RecordShare
  <2>1. DOMAIN rows \subseteq DOMAIN rows'
    BY <1>2 DEF RecordShare
  <2> QED BY <2>1
<1>3. CASE UNCHANGED rows
  BY <1>3
<1> QED
  BY <1>1, <1>2, <1>3
     DEF TableNext, Scan, Prune, Tick, BlockFound, BlockResolved, BlockReturns, MaxIdQuery, CoveredQuery,
         HaveQuery, FinalQuery, StartPrune, ReadGuard, ReadClock, EndPrune,
         GuardUnreadable, PruneFails, tableVars

\* InFlightRowsAreKept, of pcoin-pool-prune-shares: however many blocks are found,
\* settled or put back to pending between its queries, a script that read its guard
\* deletes no row a block in flight may still need before retention and slack have
\* passed -- unless that block was put back to pending after the guard was read.
THEOREM PruneSparesInFlight == TableSpec => InFlightRowsAreKept
<1> DEFINE Kept ==
      GuardWasRead =>
        \A i \in DOMAIN rows \ DOMAIN rows', t \in inFlight \ returned :
          rows[i].at >= t - Margin => rows[i].at < now - (Retain + Slack)
<1>1. ASSUME Numbered, PruneInv, [TableNext]_tableVars PROVE Kept
  <2> SUFFICES ASSUME prune # Idle, prune.guarded,
                      NEW i \in DOMAIN rows \ DOMAIN rows', NEW t \in inFlight \ returned,
                      rows[i].at >= t - Margin
               PROVE  rows[i].at < now - (Retain + Slack)
    BY DEF GuardWasRead
  <2>1. prune.at = "delete" /\ rows[i].at < prune.cutoff
    BY <1>1, OnlyDoomedGo
  <2>2. /\ prune.cutoff \in Int /\ rows[i].at \in Nat /\ t \in Nat /\ now \in Nat
        /\ Retain \in Nat /\ Slack \in Nat /\ Margin \in Nat
    BY <1>1, TableAssumption DEF Numbered, PruneInv, Prunes, TableAssumption
  <2>3. Spares \/ Overdue
    BY <1>1, <2>1 DEF PruneInv
  <2>4. CASE Spares
    <3>1. prune.cutoff <= t - Margin
      BY <2>4 DEF Spares
    <3> QED BY <2>1, <2>2, <3>1
  <2>5. CASE Overdue
    BY <2>1, <2>2, <2>5 DEF Overdue
  <2> QED BY <2>3, <2>4, <2>5
<1>2. TableSpec => []PruneInv
  BY PruneStarts, PruneStep, PTL DEF TableSpec
<1>3. TableSpec => []Numbered
  BY NumberedStarts, NumberedStep, PTL DEF TableSpec
<1>4. TableSpec => [][Kept]_tableVars
  BY <1>1, <1>2, <1>3, PTL DEF TableSpec
<1> QED BY <1>4 DEF InFlightRowsAreKept
-----------------------------------------------------------------------------
(* The newest rows of a set of ids.                                         *)

Above(ids, i) == {j \in ids : j > i}

\* What is above an id is a finite set, smaller the higher the id.
LEMMA AboveSizes ==
  ASSUME NEW U \in SUBSET Nat, IsFiniteSet(U), NEW i \in U, NEW j \in U
  PROVE  /\ Cardinality(Above(U, i)) \in Nat
         /\ Cardinality(Above(U, i)) < Cardinality(U) /\ Cardinality(U) \in Nat
         /\ Above(U, i) \in SUBSET U
         /\ i < j => Cardinality(Above(U, j)) < Cardinality(Above(U, i))
<1>1. \A T \in SUBSET U : IsFiniteSet(T) /\ Cardinality(T) \in Nat
  BY FS_Subset, FS_CardinalityType
<1>2. ASSUME NEW S \in SUBSET U, NEW T \in SUBSET S, NEW x \in S \ T
      PROVE  Cardinality(T) < Cardinality(S)
  <2>1. IsFiniteSet(S) /\ IsFiniteSet(S \ {x}) /\ T \in SUBSET (S \ {x})
    BY <1>1
  <2>2. Cardinality(S \ {x}) = Cardinality(S) - 1
    BY <2>1, FS_RemoveElement
  <2>3. Cardinality(T) <= Cardinality(S \ {x})
    BY <2>1, FS_Subset
  <2> QED BY <1>1, <2>2, <2>3
<1>3. Above(U, i) \in SUBSET U /\ i \in U \ Above(U, i)
  BY DEF Above
<1>4. Cardinality(Above(U, i)) < Cardinality(U)
  BY <1>2, <1>3
<1>5. ASSUME i < j PROVE Cardinality(Above(U, j)) < Cardinality(Above(U, i))
  <2>1. Above(U, j) \in SUBSET Above(U, i)
    <3>1. \A k \in U : k > j => k > i
      BY <1>5
    <3> QED BY <3>1 DEF Above
  <2>2. j \in Above(U, i) \ Above(U, j)
    BY <1>5 DEF Above
  <2> QED BY <1>2, <1>3, <2>1, <2>2
<1> QED BY <1>1, <1>3, <1>4, <1>5

\* ORDER BY id DESC LIMIT n, row by row.
LEMMA NewestIs ==
  ASSUME NEW U, NEW n, NEW i
  PROVE  i \in Newest(U, n) <=> i \in U /\ Cardinality(Above(U, i)) < n
BY DEF Newest, Above

\* A limit that is not below the number of rows takes them all.
LEMMA NewestIsAll ==
  ASSUME NEW U \in SUBSET Nat, IsFiniteSet(U), NEW n \in Nat, Cardinality(U) <= n
  PROVE  Newest(U, n) = U
<1>1. ASSUME NEW i \in U PROVE i \in Newest(U, n)
  BY AboveSizes, NewestIs
<1>2. Newest(U, n) \subseteq U
  BY NewestIs
<1> QED BY <1>1, <1>2

\* What is above a row is the newest so many rows.
LEMMA NewestAbove ==
  ASSUME NEW U \in SUBSET Nat, IsFiniteSet(U), NEW i \in U
  PROVE  Newest(U, Cardinality(Above(U, i))) = Above(U, i)
<1>1. ASSUME NEW j \in U
      PROVE  j > i <=> Cardinality(Above(U, j)) < Cardinality(Above(U, i))
  <2>1. /\ Cardinality(Above(U, i)) \in Nat /\ Cardinality(Above(U, j)) \in Nat
        /\ i < j => Cardinality(Above(U, j)) < Cardinality(Above(U, i))
        /\ j < i => Cardinality(Above(U, i)) < Cardinality(Above(U, j))
    BY AboveSizes
  <2>2. i \in Nat /\ j \in Nat
    OBVIOUS
  <2>3. CASE j = i
    BY <2>1, <2>2, <2>3
  <2>4. CASE j < i
    BY <2>1, <2>2, <2>4
  <2>5. CASE j > i
    BY <2>1, <2>2, <2>5
  <2> QED BY <2>2, <2>3, <2>4, <2>5
<1>2. \A j : j \in Above(U, i) <=> j \in U /\ j > i
  BY DEF Above
<1> QED BY <1>1, <1>2, NewestIs

\* The newest n rows are closed upwards.
LEMMA NewestIsUpper ==
  ASSUME NEW U \in SUBSET Nat, IsFiniteSet(U), NEW n \in Nat,
         NEW i \in Newest(U, n), NEW j \in U, i < j
  PROVE  j \in Newest(U, n)
<1>1. i \in U /\ Cardinality(Above(U, i)) < n
  BY NewestIs
<1>2. /\ Cardinality(Above(U, j)) < Cardinality(Above(U, i))
      /\ Cardinality(Above(U, j)) \in Nat /\ Cardinality(Above(U, i)) \in Nat
  BY <1>1, AboveSizes
<1>3. Cardinality(Above(U, j)) < n
  BY <1>1, <1>2
<1> QED BY <1>3, NewestIs

\* A wider limit takes more.
LEMMA NewestGrows ==
  ASSUME NEW U \in SUBSET Nat, IsFiniteSet(U), NEW m \in Nat, NEW n \in Nat, m <= n
  PROVE  Newest(U, m) \subseteq Newest(U, n)
<1> SUFFICES ASSUME NEW i \in Newest(U, m) PROVE i \in Newest(U, n)
  OBVIOUS
<1>1. i \in U /\ Cardinality(Above(U, i)) < m
  BY NewestIs
<1>2. Cardinality(Above(U, i)) \in Nat
  BY <1>1, AboveSizes
<1>3. Cardinality(Above(U, i)) < n
  BY <1>1, <1>2
<1> QED BY <1>1, <1>3, NewestIs

-----------------------------------------------------------------------------
(* The window of a set of ids.                                              *)

Weighed(ids) == ids \subseteq Nat /\ IsFiniteSet(ids) /\ \A i \in ids : rows[i].weight \in Nat

LEMMA WeightOfPart ==
  ASSUME NEW U, Weighed(U), NEW T \in SUBSET U
  PROVE  /\ WeightOf(T) \in Nat /\ WeightOf(U) \in Nat /\ WeightOf(T) <= WeightOf(U)
         /\ Weighed(T)
<1> DEFINE w == [i \in U |-> rows[i].weight]
           v == [i \in T |-> rows[i].weight]
<1>1. IsFiniteSet(U) /\ IsFiniteSet(T) /\ \A i \in U : w[i] \in Nat
  BY FS_Subset DEF Weighed
<1>2. Agree(v, w, T)
  BY DEF Agree
<1>3. WeightOf(U) = SumFunctionOnSet(w, U) /\ WeightOf(T) = SumFunctionOnSet(v, T)
  BY DEF WeightOf
<1> HIDE DEF w, v
<1>4. SumFunctionOnSet(v, T) = SumFunctionOnSet(w, T)
  BY <1>1, <1>2, SumSame
<1>5. SumFunctionOnSet(w, T) <= SumFunctionOnSet(w, U)
  BY <1>1, SumOfPart
<1>6. \A i \in T : w[i] \in Nat
  BY <1>1
<1>7. SumFunctionOnSet(w, T) \in Nat /\ SumFunctionOnSet(w, U) \in Nat
  BY <1>1, <1>6, SumNat
<1>8. Weighed(T)
  BY <1>1 DEF Weighed
<1> QED BY <1>3, <1>4, <1>5, <1>7, <1>8

LEMMA WindowIs ==
  ASSUME NEW U, NEW i
  PROVE  i \in WindowOf(U) <=> i \in U /\ WeightOf(Above(U, i)) < Window
BY DEF WindowOf, Above

\* A scan of the right size sees the window of all rows.
LEMMA SizedIsEnough ==
  ASSUME NEW U, Weighed(U), NEW n \in Nat, Sized(U, n)
  PROVE  WindowOf(Newest(U, n)) = WindowOf(U)
<1> DEFINE N == Newest(U, n)
<1>1. CASE N = U
  BY <1>1
<1>2. CASE N # U
  <2>1. U \in SUBSET Nat /\ IsFiniteSet(U) /\ N \subseteq U
    BY NewestIs DEF Weighed
  <2>2. WeightOf(N) >= Window
    BY <1>2 DEF Sized
  <2>3. ASSUME NEW i \in N PROVE Above(N, i) = Above(U, i)
    <3>1. \A j \in U : i < j => j \in N
      BY <2>1, NewestIsUpper
    <3>2. \A j \in U : j > i <=> i < j
      BY <2>1
    <3> QED BY <2>1, <3>1, <3>2 DEF Above
  <2>4. ASSUME NEW i \in U \ N PROVE ~(WeightOf(Above(U, i)) < Window)
    <3>1. ASSUME NEW j \in N PROVE j \in Above(U, i)
      <4>1. j \in Nat /\ i \in Nat /\ j # i /\ j \in U
        BY <2>1
      <4>2. ~(j < i)
        BY <2>1, NewestIsUpper
      <4> QED BY <4>1, <4>2 DEF Above
    <3>2. Above(U, i) \in SUBSET U /\ N \in SUBSET Above(U, i)
      BY <3>1 DEF Above
    <3> HIDE DEF N
    <3>3. Weighed(Above(U, i)) /\ WeightOf(Above(U, i)) \in Nat
      BY <3>2, WeightOfPart
    <3>4. WeightOf(N) <= WeightOf(Above(U, i)) /\ WeightOf(N) \in Nat
      BY <3>2, <3>3, WeightOfPart
    <3>5. Window \in Nat
      BY TableAssumption DEF TableAssumption
    <3> QED BY <2>2, <3>3, <3>4, <3>5
  <2> HIDE DEF N
  <2>5. \A i : i \in WindowOf(N) <=> i \in WindowOf(U)
    <3> SUFFICES ASSUME NEW i PROVE i \in WindowOf(N) <=> i \in WindowOf(U)
      OBVIOUS
    <3>1. CASE i \in N
      BY <2>1, <2>3, <3>1, WindowIs
    <3>2. CASE i \notin N
      BY <2>4, <3>2, WindowIs
    <3> QED BY <3>1, <3>2
  <2>6. WindowOf(N) = WindowOf(U)
    BY <2>5
  <2> QED BY <2>6 DEF N
<1> QED BY <1>1, <1>2

\* The running total of the query finds the fewest newest rows that reach N.
LEMMA WindowIsReference ==
  ASSUME NEW U, Weighed(U)
  PROVE  WindowOf(U) = Reference(U)
<1> DEFINE reaching == {k \in 0..Cardinality(U) : WeightOf(Newest(U, k)) >= Window}
<1>1. U \in SUBSET Nat /\ IsFiniteSet(U) /\ Cardinality(U) \in Nat /\ Window \in Nat
  BY TableAssumption, FS_CardinalityType DEF Weighed, TableAssumption
<1>2. ASSUME NEW i \in U
      PROVE  /\ Cardinality(Above(U, i)) \in 0..Cardinality(U)
             /\ Newest(U, Cardinality(Above(U, i))) = Above(U, i)
             /\ WeightOf(Above(U, i)) \in Nat /\ Weighed(Above(U, i))
  <2>1. /\ Cardinality(Above(U, i)) \in Nat /\ Cardinality(Above(U, i)) < Cardinality(U)
        /\ Above(U, i) \in SUBSET U
    BY <1>1, AboveSizes
  <2>2. Cardinality(Above(U, i)) \in 0..Cardinality(U)
    BY <1>1, <2>1
  <2> QED BY <1>1, <2>1, <2>2, NewestAbove, WeightOfPart
<1>3. ASSUME NEW i \in U, Cardinality(Above(U, i)) \notin reaching
      PROVE  i \in WindowOf(U)
  <2>1. ~(WeightOf(Above(U, i)) >= Window)
    BY <1>2, <1>3
  <2>2. WeightOf(Above(U, i)) < Window
    BY <1>1, <1>2, <2>1
  <2> QED BY <2>2, WindowIs
<1>4. WindowOf(U) \subseteq U
  BY WindowIs
<1>5. CASE reaching = {}
  <2>1. U \subseteq WindowOf(U)
    BY <1>3, <1>5
  <2>2. Reference(U) = U
    BY <1>5 DEF Reference
  <2> QED BY <1>4, <2>1, <2>2
<1>6. CASE reaching # {}
  <2> DEFINE least == Min(reaching)
  <2>1. least \in reaching /\ \A k \in reaching : least <= k
    <3>1. reaching \in SUBSET Int /\ 0 \in Int /\ \A k \in reaching : 0 <= k
      BY <1>1
    <3> HIDE DEF reaching
    <3> QED BY <1>6, <3>1, LeastInt
  <2>2. Reference(U) = Newest(U, least)
    BY <1>6 DEF Reference
  <2>3. least \in Nat /\ WeightOf(Newest(U, least)) >= Window
    BY <1>1, <2>1
  <2> HIDE DEF least
  <2>4. ASSUME NEW i \in U PROVE i \in WindowOf(U) <=> i \in Newest(U, least)
    <3>0. Cardinality(Above(U, i)) \in Nat
      BY <1>1, AboveSizes
    <3>1. CASE Cardinality(Above(U, i)) < least
      <4>1. Cardinality(Above(U, i)) \notin reaching
        BY <2>1, <2>3, <3>0, <3>1
      <4> QED BY <1>3, <3>1, <4>1, NewestIs
    <3>2. CASE ~(Cardinality(Above(U, i)) < least)
      <4>1. least <= Cardinality(Above(U, i))
        BY <2>3, <3>0, <3>2
      <4>2. Newest(U, least) \in SUBSET Above(U, i)
        <5>1. Newest(U, least) \subseteq Newest(U, Cardinality(Above(U, i)))
          BY <1>1, <2>3, <3>0, <4>1, NewestGrows
        <5> QED BY <1>2, <5>1
      <4>3. WeightOf(Newest(U, least)) <= WeightOf(Above(U, i)) /\ WeightOf(Newest(U, least)) \in Nat
        BY <1>2, <4>2, WeightOfPart
      <4>4. ~(WeightOf(Above(U, i)) < Window)
        BY <1>1, <1>2, <2>3, <4>3
      <4> QED BY <3>2, <4>4, WindowIs, NewestIs
    <3> QED BY <3>1, <3>2
  <2>5. Newest(U, least) \subseteq U
    BY NewestIs
  <2> QED BY <1>4, <2>2, <2>4, <2>5
<1> QED BY <1>5, <1>6
-----------------------------------------------------------------------------
(* The scan between the other two users of the table.                       *)

\* The rows a scan may see.
LEMMA RowsAreWeighed ==
  ASSUME Numbered, NEW last
  PROVE  /\ Weighed(UpTo(last)) /\ Weighed(DOMAIN rows)
<1>0. lastId \in Int /\ 1 \in Int
  BY DEF Numbered
<1>1. IsFiniteSet(1..lastId) /\ 1..lastId \subseteq Nat
  <2>1. IsFiniteSet(1..lastId)
    BY <1>0, FS_Interval
  <2>2. 1..lastId \subseteq Nat
    BY <1>0
  <2> QED BY <2>1, <2>2
<1>2. IsFiniteSet(DOMAIN rows) /\ DOMAIN rows \subseteq Nat
  BY <1>1, FS_Subset DEF Numbered
<1>3. \A i \in DOMAIN rows : rows[i].weight \in Nat
  BY DEF Numbered
<1>4. UpTo(last) \subseteq DOMAIN rows
  BY DEF UpTo
<1> QED BY <1>2, <1>3, <1>4, FS_Subset DEF Weighed

\* A batch takes the lowest ids, for they are the oldest.
LEMMA BatchIsLowest ==
  ASSUME Numbered, DeleteBatch, prune.cutoff \in Int
  PROVE  /\ DOMAIN rows' \subseteq DOMAIN rows
         /\ \A i \in DOMAIN rows' : rows'[i] = rows[i]
         /\ \A g \in DOMAIN rows \ DOMAIN rows', u \in DOMAIN rows' : g < u
<1> DEFINE older(i) == {j \in Doomed : j < i}
           batch == {i \in Doomed : Cardinality(older(i)) < Batch}
<1>1. rows' = [i \in DOMAIN rows \ batch |-> rows[i]]
  BY DEF DeleteBatch, Restrict
<1>2. /\ DOMAIN rows' = DOMAIN rows \ batch
      /\ \A i \in DOMAIN rows' : rows'[i] = rows[i]
  BY <1>1
<1>3. /\ DOMAIN rows \subseteq Nat /\ IsFiniteSet(DOMAIN rows) /\ Doomed \subseteq DOMAIN rows
  BY RowsAreWeighed DEF Weighed, Doomed
<1>4. ASSUME NEW g \in batch, NEW u \in DOMAIN rows \ batch PROVE g < u
  <2> SUFFICES ASSUME u <= g PROVE FALSE
    BY <1>3
  <2>1. g \in Doomed /\ Cardinality(older(g)) < Batch /\ g \in Nat /\ u \in Nat
    BY <1>3
  <2>2. u \in Doomed
    <3>1. rows[u].at <= rows[g].at /\ rows[g].at < prune.cutoff
      BY <1>3, <2>1 DEF Numbered, Doomed
    <3>2. rows[u].at \in Nat /\ rows[g].at \in Nat
      BY <1>3, <2>1 DEF Numbered
    <3> QED BY <3>1, <3>2 DEF Doomed
  <2>3. older(u) \subseteq older(g)
    BY <1>3, <2>1
  <2>4. IsFiniteSet(older(g)) /\ IsFiniteSet(older(u))
    BY <1>3, FS_Subset
  <2>5. Cardinality(older(u)) <= Cardinality(older(g))
    BY <2>3, <2>4, FS_Subset
  <2>6. /\ Cardinality(older(u)) \in Nat /\ Cardinality(older(g)) \in Nat /\ Batch \in Nat
    BY <2>4, TableAssumption, FS_CardinalityType DEF TableAssumption
  <2>7. Cardinality(older(u)) < Batch
    BY <2>1, <2>5, <2>6
  <2> QED BY <2>2, <2>7
<1> QED BY <1>2, <1>4

\* Losing its lowest rows leaves a set as much of its newest ones as there is.
LEMMA SizedBelow ==
  ASSUME NEW U, Weighed(U), NEW V \in SUBSET U, NEW n \in Nat,
         \A g \in U \ V, u \in V : g < u
  PROVE  Newest(V, n) = Newest(U, n) \/ Newest(V, n) = V
<1>1. U \in SUBSET Nat /\ IsFiniteSet(U)
  BY DEF Weighed
<1>2. ASSUME NEW i \in V PROVE Above(V, i) = Above(U, i)
  <2>1. \A j \in U : j > i => j \in V
    <3> SUFFICES ASSUME NEW j \in U, j > i, j \notin V PROVE FALSE
      OBVIOUS
    <3>1. j < i /\ i \in Nat /\ j \in Nat
      BY <1>1
    <3> QED BY <3>1
  <2> QED BY <2>1 DEF Above
<1>3. \A i \in V : i \in Newest(V, n) <=> i \in Newest(U, n)
  BY <1>2, NewestIs
<1>4. Newest(V, n) \subseteq V /\ Newest(U, n) \subseteq U
  BY NewestIs
<1>5. CASE Newest(U, n) \subseteq V
  BY <1>3, <1>4, <1>5
<1>6. CASE ~(Newest(U, n) \subseteq V)
  <2>1. PICK g \in Newest(U, n) : g \in U \ V
    BY <1>4, <1>6
  <2>2. \A u \in V : u \in Newest(U, n)
    BY <1>1, <2>1, NewestIsUpper
  <2> QED BY <1>3, <1>4, <2>2
<1> QED BY <1>5, <1>6

LEMMA ScanStarts == TableInit => ScanInv
BY DEF TableInit, ScanInv, Idle

\* A scan's size stays right while no row it may see is added or changed and rows
\* go from below.
LEMMA SizedStays ==
  ASSUME Numbered, NEW last, NEW n \in Nat, Sized(UpTo(last), n),
         UpTo(last)' \subseteq UpTo(last),
         \A i \in UpTo(last)' : rows'[i] = rows[i],
         \A g \in UpTo(last) \ UpTo(last)', u \in UpTo(last)' : g < u
  PROVE  Sized(UpTo(last), n)'
<1> PICK U : U = UpTo(last)
  OBVIOUS
<1> PICK V : V = UpTo(last)'
  OBVIOUS
<1>1. Newest(V, n) = Newest(U, n) \/ Newest(V, n) = V
  <2>1. Weighed(U) /\ V \in SUBSET U
    BY RowsAreWeighed
  <2> QED BY <2>1, SizedBelow
<1>2. ASSUME NEW T \in SUBSET V PROVE WeightOf(T)' = WeightOf(T)
  <2>1. \A i \in T : rows'[i] = rows[i]
    OBVIOUS
  <2> QED BY <2>1 DEF WeightOf
<1>3. Newest(V, n) \in SUBSET V
  BY NewestIs
<1>4. WeightOf(Newest(U, n)) >= Window \/ Newest(U, n) = U
  BY DEF Sized
<1>5. CASE Newest(V, n) = V
  <2>1. Newest(UpTo(last), n)' = UpTo(last)'
    BY <1>5 DEF Newest
  <2> QED BY <2>1 DEF Sized
<1>6. CASE Newest(V, n) # V
  <2>1. Newest(V, n) = Newest(U, n) /\ WeightOf(Newest(U, n)) >= Window
    BY <1>1, <1>3, <1>4, <1>6
  <2> PICK N : N = Newest(V, n)
    OBVIOUS
  <2>2. WeightOf(N)' >= Window
    BY <1>2, <1>3, <2>1
  <2>3. Newest(UpTo(last), n)' = N
    BY DEF Newest
  <2>4. WeightOf(Newest(UpTo(last), n))' = WeightOf(N)'
    BY <2>3
  <2> QED BY <2>2, <2>4 DEF Sized
<1> QED BY <1>5, <1>6

LEMMA ScanStep == Numbered /\ PruneInv /\ ScanInv /\ [TableNext]_tableVars => ScanInv'
<1> SUFFICES ASSUME Numbered, PruneInv, ScanInv, [TableNext]_tableVars PROVE ScanInv'
  OBVIOUS
<1>0. /\ lastId \in Nat /\ DOMAIN rows \subseteq 1..lastId
      /\ scan # Idle => /\ scan \in Scans /\ scan.last \in Nat /\ scan.limit \in Nat \ {0}
                        /\ scan.last <= lastId
      /\ scan.at = "final" => scan # Idle
  BY DEF Numbered, ScanInv, Scans, Idle
<1>1. CASE UNCHANGED <<lastId, rows, scan>>
  BY <1>1 DEF ScanInv, Sized, UpTo, Newest, WeightOf
<1>2. CASE RecordShare
  <2>1. PICK w \in Weight :
          rows' = [i \in DOMAIN rows \cup {lastId + 1} |->
                     IF i = lastId + 1 THEN [at |-> now, weight |-> w] ELSE rows[i]]
    BY <1>2 DEF RecordShare
  <2>2. lastId' = lastId + 1 /\ scan' = scan
    BY <1>2 DEF RecordShare
  <2>3. ASSUME scan.at = "final" PROVE Sized(UpTo(scan.last), scan.limit)'
    <3> PICK last : last = scan.last
      OBVIOUS
    <3> PICK n : n = scan.limit
      OBVIOUS
    <3>1. last \in Nat /\ last <= lastId /\ n \in Nat /\ Sized(UpTo(last), n)
      BY <1>0, <2>3 DEF ScanInv
    <3>2. \A i \in DOMAIN rows' : i <= last => i \in DOMAIN rows /\ i # lastId + 1
      BY <1>0, <2>1, <3>1
    <3>3. DOMAIN rows \subseteq DOMAIN rows' /\ \A i \in DOMAIN rows : rows'[i] = rows[i]
      BY <1>0, <2>1
    <3>4. UpTo(last)' = UpTo(last)
      BY <3>2, <3>3 DEF UpTo
    <3>5. \A i \in UpTo(last) : rows'[i] = rows[i]
      BY <3>3 DEF UpTo
    <3>6. Sized(UpTo(last), n)'
      BY <3>1, <3>4, <3>5, SizedStays
    <3>7. scan'.last = last /\ scan'.limit = n
      BY <2>2
    <3> QED BY <3>6, <3>7 DEF Sized, UpTo, Newest, WeightOf
  <2>4. scan # Idle => scan.last <= lastId + 1
    BY <1>0
  <2> QED BY <2>2, <2>3, <2>4 DEF ScanInv
<1>3. CASE DeleteBatch
  <2>1. lastId' = lastId /\ scan' = scan /\ prune.at = "delete"
    BY <1>3 DEF DeleteBatch
  <2>2. prune.cutoff \in Int
    BY <2>1 DEF PruneInv, Prunes, Idle
  <2>3. /\ DOMAIN rows' \subseteq DOMAIN rows
        /\ \A i \in DOMAIN rows' : rows'[i] = rows[i]
        /\ \A g \in DOMAIN rows \ DOMAIN rows', u \in DOMAIN rows' : g < u
    BY <1>3, <2>2, BatchIsLowest
  <2>4. ASSUME scan.at = "final" PROVE Sized(UpTo(scan.last), scan.limit)'
    <3> PICK last : last = scan.last
      OBVIOUS
    <3> PICK n : n = scan.limit
      OBVIOUS
    <3>1. last \in Nat /\ n \in Nat /\ Sized(UpTo(last), n)
      BY <1>0, <2>4 DEF ScanInv
    <3>2. /\ UpTo(last)' \subseteq UpTo(last)
          /\ \A i \in UpTo(last)' : rows'[i] = rows[i]
          /\ \A g \in UpTo(last) \ UpTo(last)', u \in UpTo(last)' : g < u
      BY <2>3 DEF UpTo
    <3>3. Sized(UpTo(last), n)'
      BY <3>1, <3>2, SizedStays
    <3>4. scan'.last = last /\ scan'.limit = n
      BY <2>1
    <3> QED BY <3>3, <3>4 DEF Sized, UpTo, Newest, WeightOf
  <2> QED BY <2>1, <2>4 DEF ScanInv
<1>4. CASE MaxIdQuery
  <2>1. /\ rows # <<>> /\ lastId' = lastId
        /\ scan' = [at |-> "covered", last |-> Max(DOMAIN rows), limit |-> FirstLimit]
    BY <1>4 DEF MaxIdQuery, Scanning
  <2>2. Max(DOMAIN rows) \in DOMAIN rows
    <3>1. DOMAIN rows # {}
      <4> SUFFICES ASSUME DOMAIN rows = {} PROVE FALSE
        OBVIOUS
      <4>1. rows = <<>>
        BY DEF Numbered
      <4> QED BY <2>1, <4>1
    <3>2. DOMAIN rows \in SUBSET Nat /\ \A i \in DOMAIN rows : i <= lastId
      BY <1>0
    <3> QED BY <1>0, <3>1, <3>2, GreatestNat
  <2>3. Max(DOMAIN rows) \in Nat /\ Max(DOMAIN rows) <= lastId
    BY <1>0, <2>2
  <2>4. FirstLimit \in Nat \ {0}
    BY TableAssumption DEF TableAssumption
  <2>5. scan' \in Scans /\ scan'.last <= lastId' /\ scan'.at # "final"
    BY <2>1, <2>3, <2>4 DEF Scans
  <2> QED BY <2>5 DEF ScanInv
<1>5. CASE CoveredQuery
  <2>1. /\ scan # Idle /\ lastId' = lastId /\ rows' = rows
        /\ scan' = [scan EXCEPT !.at =
                      IF Covers(scan.last, scan.limit) THEN "final" ELSE "have"]
    BY <1>5 DEF CoveredQuery, Idle
  <2>2. /\ scan' \in Scans /\ scan'.last = scan.last /\ scan'.limit = scan.limit
        /\ scan'.at = "final" => Covers(scan.last, scan.limit)
    BY <1>0, <2>1 DEF Scans
  <2>3. scan'.at = "final" => Sized(UpTo(scan.last), scan.limit)
    BY <2>2 DEF Covers, Sized
  <2>4. scan'.at = "final" => Sized(UpTo(scan.last), scan.limit)'
    BY <2>1, <2>2, <2>3 DEF Sized, UpTo, Newest, WeightOf
  <2> QED BY <1>0, <2>1, <2>2, <2>4 DEF ScanInv
<1>6. CASE HaveQuery
  <2> DEFINE have == Cardinality(UpTo(scan.last))
  <2>1. /\ scan # Idle /\ lastId' = lastId /\ rows' = rows
        /\ scan' = IF scan.limit >= have
                   THEN [at |-> "final", last |-> scan.last,
                         limit |-> IF have = 0 THEN 1 ELSE have]
                   ELSE [at |-> "covered", last |-> scan.last, limit |-> 2 * scan.limit]
    BY <1>6 DEF HaveQuery, Idle, Scanning
  <2>2. Weighed(UpTo(scan.last)) /\ have \in Nat
    BY RowsAreWeighed, FS_CardinalityType DEF Weighed
  <2> DEFINE wide == IF have = 0 THEN 1 ELSE have
  <2>3. wide \in Nat \ {0} /\ have <= wide
    BY <2>2
  <2>4. Newest(UpTo(scan.last), wide) = UpTo(scan.last)
    BY <2>2, <2>3, NewestIsAll DEF Weighed
  <2> HIDE DEF wide
  <2>5. CASE scan.limit >= have
    <3>1. scan' = [at |-> "final", last |-> scan.last, limit |-> wide]
      BY <2>1, <2>5 DEF wide
    <3>2. scan' \in Scans /\ scan'.last = scan.last /\ scan'.limit = wide
      BY <1>0, <2>1, <2>3, <3>1 DEF Scans
    <3>3. Newest(UpTo(scan.last), scan.limit)' = UpTo(scan.last)'
      BY <2>1, <2>4, <3>2 DEF UpTo, Newest
    <3>4. Sized(UpTo(scan.last), scan.limit)'
      BY <3>3 DEF Sized
    <3> QED BY <1>0, <2>1, <3>2, <3>4 DEF ScanInv
  <2>6. CASE ~(scan.limit >= have)
    <3>1. scan' = [at |-> "covered", last |-> scan.last, limit |-> 2 * scan.limit]
      BY <2>1, <2>6
    <3>2. 2 * scan.limit \in Nat \ {0}
      BY <1>0, <2>1
    <3>3. scan' \in Scans /\ scan'.last = scan.last /\ scan'.at # "final"
      BY <1>0, <2>1, <3>1, <3>2 DEF Scans
    <3> QED BY <1>0, <2>1, <3>3 DEF ScanInv
  <2> QED BY <2>5, <2>6
<1>7. CASE FinalQuery
  <2>1. scan' = Idle /\ scan'.at # "final"
    BY <1>7 DEF FinalQuery, Idle
  <2> QED BY <2>1 DEF ScanInv
<1> QED
  BY <1>1, <1>2, <1>3, <1>4, <1>5, <1>6, <1>7
     DEF TableNext, Scan, Prune, Tick, BlockFound, BlockResolved, BlockReturns, StartPrune, ReadGuard,
         ReadClock, EndPrune, GuardUnreadable, PruneFails, tableVars

\* ScanIsExact, of currentWindow and pplnsWindow: however many shares come in and
\* however much is pruned between the queries, the bounded scan that is paid out is
\* the window of the whole table.
THEOREM WindowScanIsExact == TableSpec => []ScanIsExact
<1>1. Numbered /\ ScanInv => ScanIsExact
  <2> SUFFICES ASSUME Numbered, ScanInv, scan.at = "final"
               PROVE  WindowOf(Newest(UpTo(scan.last), scan.limit)) = Reference(UpTo(scan.last))
    BY DEF ScanIsExact
  <2>1. scan.limit \in Nat /\ Sized(UpTo(scan.last), scan.limit)
    BY DEF ScanInv, Scans, Idle
  <2>2. Weighed(UpTo(scan.last))
    BY RowsAreWeighed
  <2> QED BY <2>1, <2>2, SizedIsEnough, WindowIsReference
<1>2. TableSpec => [](Numbered /\ PruneInv /\ ScanInv)
  BY NumberedStarts, NumberedStep, PruneStarts, PruneStep, ScanStarts, ScanStep, PTL
     DEF TableSpec
<1> QED BY <1>1, <1>2, PTL

-----------------------------------------------------------------------------
(* The split of the window.                                                 *)

\* The miners with work in the window.
Working == {m \in Miner : weight[m] > 0}

\* The window and the block do not change while the loop runs.
Offer == weight \in [Miner -> Nat] /\ value \in Value /\ feeBp \in FeeBp

\* Whoever was dropped had less than the dust limit coming from the whole window.
DroppedAreDust == \A m \in dropped : Pot * weight[m] < DustLimit * Total(Miner)

SplitInv ==
  /\ Offer
  /\ dropped \subseteq Working /\ live = Working \ dropped /\ DroppedAreDust
  /\ done \in BOOLEAN /\ passes \in 0..2
  /\ ~done => passes \in {0, 1}
  /\ passes = 0 => dropped = {}
  /\ passes # 0 => Under(live) = {}
  /\ done => passes # 0 /\ amounts = [m \in live |-> ShareOf(live, m)]

\* The fee is part of the value, so there is a pot.
LEMMA PotIsNat ==
  ASSUME Offer
  PROVE  Pot \in Nat /\ feeOf(value, feeBp) \in Nat /\ value \in Nat
<1>1. value \in Nat /\ feeBp \in 0..10000
  BY SplitAssumption DEF SplitAssumption, Offer
<1>2. value * feeBp \in Nat /\ value * feeBp <= value * 10000
  BY <1>1
<1> DEFINE fee == (value * feeBp) \div 10000
<1>3. fee \in Nat /\ fee * 10000 <= value * feeBp
  BY <1>2, Floor
<1> HIDE DEF fee
<1>4. fee <= value
  <2>1. fee * 10000 <= value * 10000
    <3> PICK a \in Nat : a = value * feeBp
      BY <1>2
    <3>1. a <= value * 10000 /\ fee * 10000 <= a
      BY <1>2, <1>3
    <3>2. value * 10000 \in Nat /\ fee * 10000 \in Nat
      BY <1>1, <1>3
    <3> QED BY <3>1, <3>2
  <2>2. fee \in Nat /\ value \in Nat
    BY <1>1, <1>3
  <2> QED BY <2>1, <2>2
<1>5. feeOf(value, feeBp) = fee
  BY DEF feeOf, fee
<1> QED BY <1>1, <1>3, <1>4, <1>5 DEF Pot

\* The total weight of some miners.
LEMMA Totals ==
  ASSUME Offer, NEW s \in SUBSET Miner
  PROVE  /\ IsFiniteSet(s) /\ Total(s) \in Nat
         /\ \A t \in SUBSET s : Total(t) <= Total(s)
         /\ \A m \in s : weight[m] \in Nat /\ (weight[m] > 0 => Total(s) \in Nat \ {0})
<1>1. IsFiniteSet(s) /\ \A m \in s : weight[m] \in Nat /\ weight[m] \in Int
  BY SplitAssumption, FS_Subset DEF SplitAssumption, Offer
<1>2. Total(s) \in Nat
  BY <1>1, SumNat DEF Total
<1>3. \A t \in SUBSET s : Total(t) <= Total(s)
  BY <1>1, SumOfPart DEF Total
<1>4. ASSUME NEW m \in s, weight[m] > 0 PROVE Total(s) # 0
  <2>1. Total(s) = weight[m] + Total(s \ {m})
    BY <1>1, SumRemove DEF Total
  <2>2. IsFiniteSet(s \ {m})
    BY <1>1, FS_Subset
  <2>3. Total(s \ {m}) \in Nat
    BY <1>1, <2>2, SumNat DEF Total
  <2> QED BY <1>1, <1>4, <2>1, <2>3
<1> QED BY <1>1, <1>2, <1>3, <1>4

\* Miners without work add nothing.
LEMMA TotalIsOfWorking ==
  ASSUME Offer
  PROVE  Total(Miner) = Total(Working)
<1> DEFINE Off == Miner \ Working
<1>1. IsFiniteSet(Miner) /\ IsFiniteSet(Off) /\ Off \in SUBSET Miner
  BY SplitAssumption, FS_Subset DEF SplitAssumption
<1>2. \A m \in Miner : weight[m] \in Nat /\ weight[m] \in Int
  BY DEF Offer
<1>3. \A m \in Off : weight[m] = 0
  BY <1>2 DEF Working
<1>4. SumFunctionOnSet(weight, Off) = 0
  BY <1>1, <1>3, SumZero
<1>5. SumFunctionOnSet(weight, Miner \ Off)
        = SumFunctionOnSet(weight, Miner) - SumFunctionOnSet(weight, Off)
  BY <1>1, <1>2, SumWithout
<1>6. Miner \ Off = Working
  BY DEF Working
<1>7. SumFunctionOnSet(weight, Miner) \in Int
  BY <1>1, <1>2, SumInt
<1> QED BY <1>4, <1>5, <1>6, <1>7 DEF Total

\* A share in terms of products, without the division.
LEMMA ShareFits ==
  ASSUME Offer, NEW s \in SUBSET Miner, NEW m \in s, weight[m] > 0, NEW q \in Nat
  PROVE  /\ ShareOf(s, m) \in Nat
         /\ q <= ShareOf(s, m) <=> q * Total(s) <= Pot * weight[m]
<1>1. Total(s) \in Nat \ {0} /\ weight[m] \in Nat /\ Pot \in Nat
  BY Totals, PotIsNat
<1>2. Pot * weight[m] \in Nat
  BY <1>1
<1> QED BY <1>1, <1>2, Floor, FloorIsLargest DEF ShareOf

\* "Removing an entry only ever makes the remaining amounts larger": what is left
\* after the dust is dropped holds no more of it.
LEMMA NoSecondDust ==
  ASSUME Offer, live \subseteq Working
  PROVE  Under(live \ Under(live)) = {}
<1> DEFINE rest == live \ Under(live)
<1> SUFFICES ASSUME NEW m \in rest, ShareOf(rest, m) < DustLimit PROVE FALSE
  BY DEF Under
<1>1. live \in SUBSET Miner /\ rest \in SUBSET Miner /\ rest \in SUBSET live /\ m \in live
      /\ weight[m] > 0
  BY DEF Working
<1>2. DustLimit \in Nat
  BY SplitAssumption DEF SplitAssumption
<1>3. ShareOf(live, m) \in Nat /\ ~(ShareOf(live, m) < DustLimit)
  <2>1. ShareOf(live, m) \in Nat
    BY <1>1, <1>2, ShareFits
  <2> QED BY <1>1, <2>1 DEF Under
<1>4. DustLimit * Total(live) <= Pot * weight[m]
  BY <1>1, <1>2, <1>3, ShareFits
<1>5. Total(rest) <= Total(live) /\ Total(rest) \in Nat /\ Total(live) \in Nat
  BY <1>1, Totals
<1>6. Pot * weight[m] \in Nat
  <2>1. Pot \in Nat /\ weight[m] \in Nat
    BY <1>1, PotIsNat, Totals
  <2> QED BY <2>1
<1> HIDE DEF rest
<1>7. DustLimit * Total(rest) <= DustLimit * Total(live)
  BY <1>2, <1>5
<1>8. DustLimit * Total(rest) <= Pot * weight[m]
  <2>1. DustLimit * Total(rest) \in Nat /\ DustLimit * Total(live) \in Nat
    BY <1>2, <1>5
  <2> QED BY <1>4, <1>6, <1>7, <2>1
<1>9. DustLimit <= ShareOf(rest, m) /\ ShareOf(rest, m) \in Nat
  BY <1>1, <1>2, <1>8, ShareFits
<1> QED BY <1>2, <1>9

\* Dust of the first split is dust of the whole window.
LEMMA FirstDust ==
  ASSUME Offer, live = Working, NEW m \in Under(live)
  PROVE  Pot * weight[m] < DustLimit * Total(Miner)
<1>1. Working \in SUBSET Miner /\ m \in Working /\ weight[m] > 0 /\ ShareOf(Working, m) < DustLimit
  BY DEF Under, Working
<1>2. DustLimit \in Nat
  BY SplitAssumption DEF SplitAssumption
<1>3. ~(DustLimit <= ShareOf(Working, m))
  <2>1. ShareOf(Working, m) \in Nat
    BY <1>1, <1>2, ShareFits
  <2> QED BY <1>1, <1>2, <2>1
<1>4. ~(DustLimit * Total(Working) <= Pot * weight[m])
  BY <1>1, <1>2, <1>3, ShareFits
<1>5. Pot \in Nat /\ weight[m] \in Nat /\ Total(Working) \in Nat
  BY <1>1, PotIsNat, Totals
<1>6. Pot * weight[m] \in Nat /\ DustLimit * Total(Working) \in Nat
  BY <1>2, <1>5
<1> QED BY <1>4, <1>6, TotalIsOfWorking

\* A step that keeps the window and the block keeps the pot.
LEMMA SameOffer ==
  ASSUME Offer, weight' = weight, value' = value, feeBp' = feeBp
  PROVE  /\ Offer' /\ Working' = Working /\ Pot' = Pot /\ Total(Miner)' = Total(Miner)
BY DEF Offer, Working, Pot, Total

\* Only the first pass finds dust, and the split that stands is the second at the
\* latest.
LEMMA SplitStep == SplitInv /\ [SplitNext]_splitVars => SplitInv'
<1> SUFFICES ASSUME SplitInv, [SplitNext]_splitVars PROVE SplitInv'
  OBVIOUS
<1>1. /\ weight' = weight /\ value' = value /\ feeBp' = feeBp
  BY DEF SplitNext, DropDust, Settle, splitVars
<1>2. Offer
  BY DEF SplitInv
<1>3. /\ Offer' /\ Working' = Working /\ Pot' = Pot /\ Total(Miner)' = Total(Miner)
  BY <1>1, <1>2, SameOffer
<1>4. CASE DropDust
  <2>1. passes = 0 /\ ~done /\ dropped = {} /\ live = Working
    BY <1>4 DEF SplitInv, DropDust
  <2>2. /\ live' = live \ Under(live) /\ dropped' = Under(live) /\ passes' = 1 /\ done' = done
    BY <1>4, <2>1 DEF DropDust
  <2>3. dropped' \subseteq Working' /\ live' = Working' \ dropped'
    BY <1>3, <2>1, <2>2 DEF Under
  <2>4. \A m \in dropped' : Pot * weight[m] < DustLimit * Total(Miner)
    BY <1>2, <2>1, <2>2, FirstDust
  <2>5. DroppedAreDust'
    BY <1>1, <1>3, <2>4 DEF DroppedAreDust
  <2>6. Under(live \ Under(live)) = {}
    BY <1>2, <2>1, NoSecondDust
  <2>7. Under(live)' = {}
    <3> PICK rest : rest = live \ Under(live)
      OBVIOUS
    <3>1. Under(rest) = {} /\ live' = rest
      BY <2>2, <2>6
    <3> QED BY <1>1, <3>1 DEF Under, ShareOf, Total, Pot
  <2> QED
    BY <1>3, <2>1, <2>2, <2>3, <2>5, <2>7 DEF SplitInv
<1>5. CASE Settle
  <2>1. /\ ~done /\ passes \in {0, 1} /\ done' = TRUE
        /\ live' = live /\ dropped' = dropped
        /\ Under(live) = {} \/ passes = MaxPass
    BY <1>5 DEF SplitInv, Settle
  <2>2. passes < MaxPass /\ passes # MaxPass
    BY <2>1, SplitAssumption DEF SplitAssumption
  <2>3. passes' = passes + 1 /\ amounts' = [m \in live |-> ShareOf(live, m)]
    BY <1>5, <2>2 DEF Settle
  <2>4. amounts' = [m \in live |-> ShareOf(live, m)]'
    BY <1>1, <2>1, <2>3 DEF ShareOf, Total, Pot
  <2>5. DroppedAreDust'
    BY <1>1, <1>3, <2>1 DEF DroppedAreDust, SplitInv
  <2>6. Under(live)' = {}
    BY <1>1, <2>1, <2>2 DEF Under, ShareOf, Total, Pot
  <2>7. /\ dropped' \subseteq Working' /\ live' = Working' \ dropped'
    BY <1>3, <2>1 DEF SplitInv
  <2>8. passes' \in 0..2 /\ passes' # 0
    BY <2>1, <2>3
  <2> QED
    BY <1>3, <2>1, <2>4, <2>5, <2>6, <2>7, <2>8 DEF SplitInv
<1>6. CASE UNCHANGED splitVars
  <2>1. /\ live' = live /\ dropped' = dropped /\ done' = done /\ passes' = passes
        /\ amounts' = amounts
    BY <1>6 DEF splitVars
  <2>2. DroppedAreDust'
    BY <1>1, <1>3, <2>1 DEF DroppedAreDust, SplitInv
  <2>3. Under(live)' = Under(live)
    BY <1>1, <2>1 DEF Under, ShareOf, Total, Pot
  <2>4. [m \in live |-> ShareOf(live, m)]' = [m \in live |-> ShareOf(live, m)]
    BY <1>1, <2>1 DEF ShareOf, Total, Pot
  <2> QED
    BY <1>3, <2>1, <2>2, <2>3, <2>4 DEF SplitInv
<1> QED
  BY <1>4, <1>5, <1>6 DEF SplitNext
\* The loop starts with every miner that has work.
LEMMA SplitStarts == SplitInit => SplitInv
<1> SUFFICES ASSUME SplitInit PROVE SplitInv
  OBVIOUS
<1>1. Offer
  BY SplitAssumption DEF SplitInit, SplitAssumption, Offer
<1>2. dropped = {} /\ live = Working /\ passes = 0 /\ done = FALSE
  BY DEF SplitInit, Working
<1>3. DroppedAreDust
  BY <1>2 DEF DroppedAreDust
<1>4. dropped \subseteq Working /\ live = Working \ dropped
  BY <1>2
<1>5. passes \in 0..2 /\ passes \in {0, 1}
  BY <1>2
<1>6. ~done /\ done \in BOOLEAN
  BY <1>2, Zenon
<1> QED BY <1>1, <1>2, <1>3, <1>4, <1>5, <1>6, Zenon DEF SplitInv

\* A miner that is paid gets its floor of the pot, and the floors leave less than
\* a satoshi each.
LEMMA SplitPays ==
  ASSUME SplitInv, done, amounts # <<>>
  PROVE  PoolValue - feeOf(value, feeBp) \in 0..(Cardinality(DOMAIN amounts) - 1)
<1>1. /\ Offer /\ live \in SUBSET Miner /\ (\A m \in live : weight[m] > 0)
      /\ amounts = [m \in live |-> ShareOf(live, m)]
  BY DEF SplitInv, Working
<1>2. DOMAIN amounts = live /\ Paid = SumFunctionOnSet(amounts, live)
  BY <1>1 DEF Paid, SumFunction
<1>3. live # {}
  <2> SUFFICES ASSUME live = {} PROVE FALSE
    OBVIOUS
  <2>1. amounts = <<>>
    BY <1>1
  <2> QED BY <2>1
<1>4. IsFiniteSet(live) /\ Total(live) # 0 /\ \A m \in live : weight[m] \in Nat
  BY <1>1, <1>3, Totals
<1>5. Pot \in Nat /\ feeOf(value, feeBp) \in Nat /\ value \in Nat
  BY <1>1, PotIsNat
<1>6. Floors(amounts, weight, Pot, SumFunctionOnSet(weight, live), live)
  BY <1>1 DEF Floors, ShareOf, Total
<1>7. Pot - Paid \in 0..(Cardinality(live) - 1)
  <2>1. SumFunctionOnSet(weight, live) # 0
    BY <1>4 DEF Total
  <2> QED BY <1>2, <1>3, <1>4, <1>5, <1>6, <2>1, SplitLeavesLittle
<1>8. Paid \in Int
  <2>1. ASSUME NEW m \in live PROVE amounts[m] \in Int
    <3>1. 0 \in Nat
      OBVIOUS
    <3>2. ShareOf(live, m) \in Nat
      BY <1>1, <3>1, ShareFits
    <3> QED BY <1>1, <3>2
  <2> QED BY <1>2, <1>4, <2>1, SumInt
<1>9. PoolValue - feeOf(value, feeBp) = Pot - Paid
  BY <1>5, <1>8 DEF PoolValue, Pot
<1> QED BY <1>2, <1>7, <1>9

\* Two shares of one split compare as the work does.
LEMMA MoreWorkMorePay ==
  ASSUME Offer, NEW s \in SUBSET Miner, NEW m \in s, NEW n \in s,
         weight[m] > 0, weight[n] > 0, weight[m] <= weight[n]
  PROVE  ShareOf(s, m) <= ShareOf(s, n)
<1>1. /\ Pot \in Nat /\ weight[m] \in Nat /\ weight[n] \in Nat /\ Total(s) \in Nat
  BY PotIsNat, Totals
<1>2. ShareOf(s, m) \in Nat
  BY <1>1, ShareFits
<1>3. ShareOf(s, m) * Total(s) <= Pot * weight[m]
  BY <1>2, ShareFits
<1>4. Pot * weight[m] <= Pot * weight[n]
  BY <1>1
<1>5. ShareOf(s, m) * Total(s) <= Pot * weight[n]
  <2>1. /\ ShareOf(s, m) * Total(s) \in Nat /\ Pot * weight[m] \in Nat
        /\ Pot * weight[n] \in Nat
    BY <1>1, <1>2
  <2> QED BY <1>3, <1>4, <2>1
<1> QED BY <1>2, <1>5, ShareFits

LEMMA SplitIsFair == SplitInv => PaidByWork
<1> SUFFICES ASSUME SplitInv, done PROVE PaidByWork
  BY DEF PaidByWork
<1>1. /\ Offer /\ live \in SUBSET Miner /\ (\A m \in live : weight[m] > 0)
      /\ amounts = [m \in live |-> ShareOf(live, m)]
      /\ live = Working \ dropped /\ Under(live) = {} /\ DroppedAreDust
  BY DEF SplitInv, Working
<1>2. DOMAIN amounts = live /\ \A m \in live : amounts[m] = ShareOf(live, m)
  BY <1>1
<1>3. DustLimit \in Nat
  BY SplitAssumption DEF SplitAssumption
<1>4. ASSUME NEW m \in live PROVE amounts[m] >= DustLimit
  <2>1. ShareOf(live, m) \in Nat
    BY <1>1, <1>3, ShareFits
  <2>2. ~(ShareOf(live, m) < DustLimit)
    BY <1>1 DEF Under
  <2> QED BY <1>2, <1>3, <2>1, <2>2
<1>5. ASSUME NEW m \in Miner \ live, weight[m] > 0
      PROVE  Pot * weight[m] < DustLimit * Total(Miner)
  <2>1. m \in dropped
    BY <1>1, <1>5 DEF Working
  <2> QED BY <1>1, <2>1 DEF DroppedAreDust
<1>6. ASSUME NEW m \in live, NEW n \in live, weight[m] <= weight[n]
      PROVE  amounts[m] <= amounts[n]
  BY <1>1, <1>2, <1>6, MoreWorkMorePay
<1>7. amounts # <<>> =>
        PoolValue - feeOf(value, feeBp) \in 0..(Cardinality(DOMAIN amounts) - 1)
  BY SplitPays
<1> QED
  BY <1>2, <1>4, <1>5, <1>6, <1>7 DEF PaidByWork

LEMMA SplitHolds == SplitSpec => []SplitInv
BY SplitStarts, SplitStep, PTL DEF SplitSpec

\* RecomputeCannotCascade, of buildPayoutOutputs: whatever the window, the fee and
\* the dust limit, dropping the dust once leaves none, so the loop ends after two
\* splits and never runs out of passes.
THEOREM RecomputeEnds == SplitSpec => []RecomputeCannotCascade
<1>1. SplitInv => RecomputeCannotCascade
  BY DEF SplitInv, RecomputeCannotCascade
<1> QED BY <1>1, SplitHolds, PTL

\* PaidByWork, of buildPayoutOutputs and splitPot: the split that stands pays by
\* work, leaves out only dust, and leaves the pool its fee and less than a satoshi
\* per paid miner.
THEOREM SplitIsByWork == SplitSpec => []PaidByWork
BY SplitHolds, SplitIsFair, PTL
=============================================================================
