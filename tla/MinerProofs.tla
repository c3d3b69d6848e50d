---------------------------- MODULE MinerProofs ----------------------------
(***************************************************************************)
(* Proofs about Miner for every set of workers and of jobs, every queue    *)
(* size and every bound.                                                   *)
(***************************************************************************)
EXTENDS MinerProps, FiniteSetTheorems, SequenceTheorems, TLAPS

USE WorkersAssumption, JobsAssumption, BoundsAssumption
    DEF WorkersAssumption, JobsAssumption, BoundsAssumption

(* Clearing the queue keeps its type and counts what it drops.              *)
LEMMA ClearQueueType ==
  ASSUME TypeOK, ClearQueue
  PROVE  /\ submitQueue' \in Seq(PendingSubmit) /\ Len(submitQueue') <= QueueMax
         /\ staleDrops' \in Nat
  BY EmptySeq, LenProperties DEF TypeOK, ClearQueue

(* Taking the oldest share off the batch leaves shares.                     *)
LEMMA TakeHeadType ==
  ASSUME TypeOK, TakeHead
  PROVE  /\ Tail(batch) \in Seq(PendingSubmit)
         /\ Len(Tail(batch)) \in Nat
         /\ settledSeq' \in Nat
<1>1. batch \in Seq(PendingSubmit) /\ batch # <<>>
  BY DEF TypeOK, TakeHead
<1>2. Tail(batch) \in Seq(PendingSubmit) /\ Head(batch) \in PendingSubmit
  BY <1>1, HeadTailProperties
<1>3. Len(Tail(batch)) \in Nat
  BY <1>2, LenProperties
<1>4. QED
  BY <1>2, <1>3 DEF TakeHead, PendingSubmit

(* The types hold in every reachable state; with them the queue bound and   *)
(* the ownership of submitMutex.                                            *)
THEOREM TypeCorrect == Spec => []TypeOK
<1>1. Init => TypeOK
  <2> SUFFICES ASSUME Init PROVE TypeOK
    OBVIOUS
  <2> USE DEF Init
  <2>1. submitQueue \in Seq(PendingSubmit) /\ Len(submitQueue) <= QueueMax
    BY EmptySeq
  <2>2. batch \in Seq(PendingSubmit)
    BY EmptySeq
  <2>3. workerPc \in [Workers -> WorkerPcs]
    BY DEF WorkerPcs
  <2>4. \A w \in Workers : submitMutex = w <=> workerPc[w] = "push"
    OBVIOUS
  <2>5. QED
    BY <2>1, <2>2, <2>3, <2>4 DEF TypeOK, NetPcs, MainPcs
<1>2. TypeOK /\ [Next]_vars => TypeOK'
  <2> SUFFICES ASSUME TypeOK, [Next]_vars PROVE TypeOK'
    OBVIOUS
  <2> USE DEF TypeOK
  <2>1. CASE Signal
    BY <2>1 DEF Signal, jobVars, counters, queueVars, sessionVars, drainVars,
       workerVars, mainVars
  <2>2. ASSUME NEW w \in Workers, WorkerNext(w) PROVE TypeOK'
    <3> USE DEF jobVars, counters, queueVars, sessionVars, drainVars, mainVars,
        WorkerGoto, WorkerPcs, AfterShare
    <3>1. CASE WorkerStart(w)
      BY <3>1 DEF WorkerStart
    <3>2. CASE WorkerReady(w)
      BY <3>2 DEF WorkerReady
    <3>3. CASE WorkerSnapshot(w)
      <4>1. workerPc' \in [Workers -> WorkerPcs]
        BY <3>3 DEF WorkerSnapshot
      <4>2. wJob' \in [Workers -> Jobs \cup {NoJob}]
        BY <3>3 DEF WorkerSnapshot
      <4>3. wEpoch' \in [Workers -> Nat]
        BY <3>3 DEF WorkerSnapshot
      <4>4. \A v \in Workers : submitMutex' = v <=> workerPc'[v] = "push"
        BY <3>3 DEF WorkerSnapshot
      <4>5. QED
        BY <3>3, <4>1, <4>2, <4>3, <4>4 DEF WorkerSnapshot
    <3>4. CASE WorkerPoll(w)
      BY <3>4 DEF WorkerPoll, NextAfterPoll
    <3>5. CASE WorkerMiss(w)
      BY <3>5 DEF WorkerMiss
    <3>6. CASE WorkerHit(w)
      BY <3>6 DEF WorkerHit
    <3>7. CASE WorkerGate1(w)
      <4>1. workerPc' \in [Workers -> WorkerPcs]
        BY <3>7 DEF WorkerGate1
      <4>2. \A v \in Workers : submitMutex' = v <=> workerPc'[v] = "push"
        BY <3>7 DEF WorkerGate1
      <4>3. carried' \in [Workers -> Nat] /\ staleDrops' \in Nat
        BY <3>7 DEF WorkerGate1
      <4>4. QED
        BY <3>7, <4>1, <4>2, <4>3 DEF WorkerGate1
    <3>8. CASE WorkerGate2(w)
      <4>1. workerPc' \in [Workers -> WorkerPcs]
        BY <3>8 DEF WorkerGate2
      <4>2. \A v \in Workers : submitMutex' = v <=> workerPc'[v] = "push"
        BY <3>8 DEF WorkerGate2
      <4>3. QED
        BY <3>8, <4>1, <4>2 DEF WorkerGate2
    <3>9. CASE WorkerPush(w)
      <4>1. submitQueue' \in Seq(PendingSubmit) /\ Len(submitQueue') <= QueueMax
        BY <3>9 DEF WorkerPush, Enqueue, Full, Evict, PendingSubmit
      <4>2. QED
        BY <3>9, <4>1 DEF WorkerPush, Enqueue
    <3>10. QED
      BY <2>2, <3>1, <3>2, <3>3, <3>4, <3>5, <3>6, <3>7, <3>8, <3>9
         DEF WorkerNext
  <2>3. CASE NetNext
    <3> USE DEF jobVars, counters, queueVars, sessionVars, drainVars, workerVars,
        mainVars, NetGoto, NetPcs
    <3>1. CASE NetInit
      BY <3>1 DEF NetInit
    <3>2. CASE NetLoop
      BY <3>2, ClearQueueType DEF NetLoop, Cleanup, ClearQueue
    <3>3. CASE NetDialFail
      BY <3>3, ClearQueueType DEF NetDialFail, Cleanup, ClearQueue
    <3>4. CASE NetDialOk
      BY <3>4, ClearQueueType DEF NetDialOk, ClearQueue, OpenSession
    <3>5. CASE NetSession
      BY <3>5 DEF NetSession
    <3>6. CASE NetReadNoJob
      BY <3>6 DEF NetReadNoJob
    <3>7. ASSUME NEW j \in Jobs, NetReadJob(j) PROVE TypeOK'
      BY <3>7 DEF NetReadJob, WorkChanged
    <3>8. CASE NetDrainNoJob
      BY <3>8 DEF NetDrainNoJob, ClearQueue
    <3>9. CASE NetDrain
      BY <3>9 DEF NetDrain
    <3>10. CASE NetSendStale
      BY <3>10, TakeHeadType DEF NetSendStale, TakeHead
    <3>11. CASE NetSendOk
      BY <3>11, TakeHeadType DEF NetSendOk, TakeHead
    <3>12. CASE NetSendFail
      <4>1. /\ batch' \in Seq(PendingSubmit) /\ discarded' \in Nat
            /\ settledSeq' \in Nat
        BY <3>12, TakeHeadType, EmptySeq DEF NetSendFail
      <4>2. QED
        BY <3>12, <4>1 DEF NetSendFail
    <3>13. CASE NetBatchDone
      BY <3>13 DEF NetBatchDone
    <3>14. CASE NetClose
      BY <3>14, ClearQueueType DEF NetClose, Cleanup, ClearQueue
    <3>15. CASE NetBackoff
      BY <3>15 DEF NetBackoff
    <3>16. CASE NetFinal
      BY <3>16, ClearQueueType DEF NetFinal, Cleanup, ClearQueue
    <3>17. QED
      BY <2>3, <3>1, <3>2, <3>3, <3>4, <3>5, <3>6, <3>7, <3>8, <3>9, <3>10,
         <3>11, <3>12, <3>13, <3>14, <3>15, <3>16 DEF NetNext
  <2>4. CASE ReporterExit
    BY <2>4 DEF ReporterExit, jobVars, counters, queueVars, sessionVars,
       drainVars, workerVars
  <2>5. CASE MainJoin
    BY <2>5 DEF MainJoin, jobVars, counters, queueVars, sessionVars, drainVars,
       workerVars, MainPcs
  <2>6. CASE UNCHANGED vars
    BY <2>6 DEF vars, jobVars, counters, queueVars, sessionVars, drainVars,
       workerVars, mainVars
  <2>7. QED
    BY <2>1, <2>2, <2>3, <2>4, <2>5, <2>6 DEF Next, Exited
<1>3. QED
  BY <1>1, <1>2, PTL DEF Spec
-----------------------------------------------------------------------------
(* What a step can do to one part of the state.                             *)

(* The unfolding of Next down to the actions, without what they do to the   *)
(* sequences.                                                               *)
USE DEF jobVars, counters, queueVars, sessionVars, drainVars, workerVars,
    mainVars

(* The line of shares is left alone, or the queue is cleared, pushed to or  *)
(* swapped into the batch, or the drain takes the head of the batch and     *)
(* keeps or loses the rest.                                                 *)
LEMMA LineStep ==
  ASSUME [Next]_vars
  PROVE  \/ UNCHANGED <<submitQueue, enqueued, batch, settledSeq>>
         \/ submitQueue' = <<>> /\ UNCHANGED <<enqueued, batch, settledSeq>>
         \/ \E w \in Workers : WorkerPush(w)
         \/ NetDrain
         \/ /\ TakeHead
            /\ batch' = Tail(batch) \/ batch' = <<>>
            /\ UNCHANGED <<submitQueue, enqueued>>
<1>1. CASE \E w \in Workers : WorkerNext(w)
  BY <1>1 DEF WorkerNext, WorkerStart, WorkerReady, WorkerSnapshot, WorkerPoll,
     WorkerMiss, WorkerHit, WorkerGate1, WorkerGate2
<1>2. CASE NetNext
  <2>1. CASE NetSendStale \/ NetSendOk \/ NetSendFail
    BY <2>1 DEF NetSendStale, NetSendOk, NetSendFail
  <2>2. CASE \/ NetInit \/ NetLoop \/ NetDialFail \/ NetDialOk
             \/ NetSession \/ NetReadNoJob \/ (\E j \in Jobs : NetReadJob(j))
             \/ NetDrainNoJob \/ NetBatchDone \/ NetClose \/ NetBackoff
             \/ NetFinal
    BY <2>2 DEF NetInit, NetLoop, NetDialFail, NetDialOk, NetSession,
       NetReadNoJob, NetReadJob, NetDrainNoJob, NetBatchDone, NetClose,
       NetBackoff, NetFinal, Cleanup, ClearQueue
  <2>3. QED
    BY <1>2, <2>1, <2>2 DEF NetNext
<1>3. QED
  BY <1>1, <1>2 DEF Next, Signal, ReporterExit, MainJoin, Exited, vars

(* The batch without its head is the batch, one place further on.           *)
LEMMA TailOfBatch ==
  ASSUME TypeOK, TakeHead
  PROVE  /\ Len(batch) \in Nat \ {0} /\ DOMAIN batch = 1 .. Len(batch)
         /\ Head(batch) = batch[1]
         /\ Len(Tail(batch)) = Len(batch) - 1
         /\ DOMAIN Tail(batch) = 1 .. Len(batch) - 1
         /\ \A k \in 1 .. Len(batch) - 1 : Tail(batch)[k] = batch[k + 1]
<1>1. batch \in Seq(PendingSubmit) /\ batch # <<>>
  BY DEF TypeOK, TakeHead
<1>2. QED
  BY <1>1, HeadTailProperties, LenProperties, EmptySeq

(* What a push appends, and how many shares it evicts.                      *)
Pushed(w) == [job |-> wJob[w], epoch |-> wEpoch[w], find |-> carried[w],
              seq |-> enqueued + 1]
Evicted == IF Full THEN 1 ELSE 0

LEMMA PushedQueue ==
  ASSUME TypeOK, NEW w \in Workers, WorkerPush(w)
  PROVE  /\ Evicted \in 0 .. 1 /\ Evicted <= Len(submitQueue)
         /\ Len(submitQueue) \in Nat
         /\ Pushed(w) \in PendingSubmit
         /\ submitQueue' \in Seq(PendingSubmit)
         /\ Len(submitQueue') = Len(submitQueue) - Evicted + 1
         /\ \A k \in 1 .. Len(submitQueue) - Evicted :
               submitQueue'[k] = submitQueue[k + Evicted]
         /\ submitQueue'[Len(submitQueue) - Evicted + 1] = Pushed(w)
<1> DEFINE rest == IF Full THEN Evict ELSE submitQueue
<1>1. submitQueue \in Seq(PendingSubmit) /\ Len(submitQueue) \in Nat
  BY LenProperties DEF TypeOK
<1>2. Pushed(w) \in PendingSubmit
  BY DEF TypeOK, PendingSubmit, Pushed
<1>3. submitQueue' = Append(rest, Pushed(w))
  BY DEF WorkerPush, Enqueue, Pushed
<1>4. /\ Evicted \in 0 .. 1 /\ Evicted <= Len(submitQueue)
      /\ rest \in Seq(PendingSubmit)
      /\ Len(rest) = Len(submitQueue) - Evicted
      /\ \A k \in 1 .. Len(rest) : rest[k] = submitQueue[k + Evicted]
  <2>1. CASE Full
    <3>1. submitQueue # <<>> /\ Len(submitQueue) >= 1
      BY <1>1, <2>1 DEF Full
    <3>2. QED
      BY <1>1, <2>1, <3>1, HeadTailProperties DEF Evict, Evicted
  <2>2. CASE ~Full
    BY <1>1, <2>2 DEF Evicted
  <2>3. QED
    BY <2>1, <2>2
<1> HIDE DEF rest
<1>5. /\ submitQueue' \in Seq(PendingSubmit)
      /\ Len(submitQueue') = Len(rest) + 1
      /\ \A k \in 1 .. Len(rest) : submitQueue'[k] = rest[k]
      /\ submitQueue'[Len(rest) + 1] = Pushed(w)
  BY <1>2, <1>3, <1>4, AppendProperties
<1>6. QED
  BY <1>1, <1>2, <1>4, <1>5

(* A worker's snapshot is left alone, or is of the job in force.            *)
LEMMA SnapshotStep ==
  ASSUME TypeOK, [Next]_vars, NEW w \in Workers
  PROVE  \/ wEpoch'[w] = wEpoch[w] /\ wJob'[w] = wJob[w]
         \/ wEpoch'[w] = jobEpoch /\ wJob'[w] = job
<1>1. CASE \E v \in Workers : WorkerNext(v)
  <2>1. PICK v \in Workers : WorkerNext(v)
    BY <1>1
  <2>2. CASE WorkerSnapshot(v)
    BY <2>2 DEF WorkerSnapshot, TypeOK
  <2>3. CASE ~WorkerSnapshot(v)
    BY <2>1, <2>3 DEF WorkerNext, WorkerStart, WorkerReady, WorkerPoll,
       WorkerMiss, WorkerHit, WorkerGate1, WorkerGate2, WorkerPush
  <2>4. QED
    BY <2>2, <2>3
<1>2. CASE NetNext
  BY <1>2 DEF NetNext, NetInit, NetLoop, NetDialFail, NetDialOk, NetSession,
     NetReadNoJob, NetReadJob, NetDrainNoJob, NetDrain, NetSendStale,
     NetSendOk, NetSendFail, NetBatchDone, NetClose, NetBackoff, NetFinal
<1>3. QED
  BY <1>1, <1>2 DEF Next, Signal, ReporterExit, MainJoin, Exited, vars

(* The job changes only with a new epoch.                                   *)
LEMMA JobStep ==
  ASSUME TypeOK, [Next]_vars
  PROVE  \/ jobEpoch' = jobEpoch /\ job' = job
         \/ jobEpoch' = jobEpoch + 1
<1>1. CASE \E w \in Workers : WorkerNext(w)
  BY <1>1 DEF WorkerNext, WorkerStart, WorkerReady, WorkerSnapshot, WorkerPoll,
     WorkerMiss, WorkerHit, WorkerGate1, WorkerGate2, WorkerPush
<1>2. CASE NetNext
  BY <1>2 DEF NetNext, NetInit, NetLoop, NetDialFail, NetDialOk, NetSession,
     NetReadNoJob, NetReadJob, WorkChanged, NetDrainNoJob, NetDrain,
     NetSendStale, NetSendOk, NetSendFail, NetBatchDone, NetClose, NetBackoff,
     NetFinal
<1>3. QED
  BY <1>1, <1>2 DEF Next, Signal, ReporterExit, MainJoin, Exited, vars
-----------------------------------------------------------------------------
(* Epochs and jobs.                                                         *)

(* A step brings no binding of an epoch to a job but the one now in force.  *)
LEMMA BindingsGrow ==
  ASSUME TypeOK, [Next]_vars
  PROVE  Bindings' \subseteq Bindings \cup {<<jobEpoch', job'>>}
<1>1. ASSUME NEW w \in Workers PROVE <<wEpoch'[w], wJob'[w]>> \in Bindings
  BY <1>1, SnapshotStep DEF Bindings
<1>2. ASSUME NEW i \in DOMAIN submitQueue'
      PROVE  <<submitQueue'[i].epoch, submitQueue'[i].job>> \in Bindings
  <2>1. CASE submitQueue' = submitQueue
    BY <1>2, <2>1 DEF Bindings
  <2>2. CASE submitQueue' = <<>>
    BY <1>2, <2>2
  <2>3. ASSUME NEW w \in Workers, WorkerPush(w)
        PROVE  <<submitQueue'[i].epoch, submitQueue'[i].job>> \in Bindings
    <3>1. i \in 1 .. Len(submitQueue) - Evicted + 1
      BY <1>2, <2>3, PushedQueue, LenProperties
    <3>2. CASE i = Len(submitQueue) - Evicted + 1
      <4>1. submitQueue'[i] = Pushed(w)
        BY <2>3, <3>2, PushedQueue
      <4>2. QED
        BY <4>1 DEF Pushed, Bindings
    <3>3. CASE i # Len(submitQueue) - Evicted + 1
      <4>1. submitQueue'[i] = submitQueue[i + Evicted]
        BY <2>3, <3>1, <3>3, PushedQueue
      <4>2. i + Evicted \in 1 .. Len(submitQueue)
        BY <2>3, <3>1, <3>3, PushedQueue
      <4>3. i + Evicted \in DOMAIN submitQueue
        BY <4>2, LenProperties DEF TypeOK
      <4>4. QED
        BY <4>1, <4>3 DEF Bindings
    <3>4. QED
      BY <3>2, <3>3
  <2>4. QED
    BY <2>1, <2>2, <2>3, LineStep DEF NetDrain
<1>3. ASSUME NEW i \in DOMAIN batch'
      PROVE  <<batch'[i].epoch, batch'[i].job>> \in Bindings
  <2>1. CASE batch' = batch
    BY <1>3, <2>1 DEF Bindings
  <2>2. CASE batch' = <<>>
    BY <1>3, <2>2
  <2>3. CASE NetDrain
    BY <1>3, <2>3 DEF NetDrain, Bindings
  <2>4. CASE TakeHead /\ batch' = Tail(batch)
    <3>1. batch'[i] = batch[i + 1] /\ i + 1 \in DOMAIN batch
      BY <1>3, <2>4, TailOfBatch
    <3>2. QED
      BY <3>1 DEF Bindings
  <2>5. QED
    BY <2>1, <2>2, <2>3, <2>4, LineStep DEF WorkerPush
<1>4. QED
  BY <1>1, <1>2, <1>3 DEF Bindings

(* Bindings are of numbered epochs.                                         *)
LEMMA BindingsType ==
  ASSUME TypeOK
  PROVE  \A a \in Bindings : a[1] \in Nat
<1>1. \A w \in Workers : wEpoch[w] \in Nat
  BY DEF TypeOK
<1>2. \A i \in DOMAIN submitQueue : submitQueue[i].epoch \in Nat
  <2>1. \A i \in DOMAIN submitQueue : submitQueue[i] \in PendingSubmit
    BY ElementOfSeq, LenProperties DEF TypeOK
  <2>2. QED
    BY <2>1 DEF PendingSubmit
<1>3. \A i \in DOMAIN batch : batch[i].epoch \in Nat
  <2>1. \A i \in DOMAIN batch : batch[i] \in PendingSubmit
    BY ElementOfSeq, LenProperties DEF TypeOK
  <2>2. QED
    BY <2>1 DEF PendingSubmit
<1>4. QED
  BY <1>1, <1>2, <1>3 DEF Bindings, TypeOK

(* An epoch names one job, in every reachable state.                        *)
THEOREM EpochNamesOneJob == Spec => []EpochNamesJob
<1>1. Init => EpochNamesJob
  BY DEF Init, EpochNamesJob, Bindings
<1>2. TypeOK /\ EpochNamesJob /\ [Next]_vars => EpochNamesJob'
  <2> SUFFICES ASSUME TypeOK, EpochNamesJob, [Next]_vars PROVE EpochNamesJob'
    OBVIOUS
  <2>1. jobEpoch \in Nat /\ <<jobEpoch, job>> \in Bindings
    BY DEF TypeOK, Bindings
  <2>2. ASSUME NEW a \in Bindings' PROVE a \in Bindings \/ a = <<jobEpoch', job'>>
    BY BindingsGrow
  <2>3. \A a \in Bindings' : a[1] <= jobEpoch'
    <3>1. \A a \in Bindings : a[1] <= jobEpoch
      BY DEF EpochNamesJob
    <3>2. \A a \in Bindings : a[1] \in Nat
      BY BindingsType
    <3>3. QED
      BY <2>1, <2>2, <3>1, <3>2, JobStep
  <2>4. ASSUME NEW a \in Bindings', NEW b \in Bindings', a[1] = b[1]
        PROVE  a[2] = b[2]
    <3>1. CASE jobEpoch' = jobEpoch /\ job' = job
      BY <2>1, <2>2, <2>4, <3>1 DEF EpochNamesJob
    <3>2. CASE jobEpoch' = jobEpoch + 1
      BY <2>1, <2>2, <2>4, <3>2 DEF EpochNamesJob
    <3>3. QED
      BY <3>1, <3>2, JobStep
  <2>5. QED
    BY <2>3, <2>4 DEF EpochNamesJob
<1>3. QED
  BY <1>1, <1>2, TypeCorrect, PTL DEF Spec
-----------------------------------------------------------------------------
(* No replay across sessions.                                               *)

(* What makes the drain's gates enough: a session that has a job was issued *)
(* the job in force, and while a batch is being sent the session has a job  *)
(* and the epoch read at the swap is still the current one.                 *)
DrainInv ==
  /\ sessionHasJob => job \in issued
  /\ netPc = "send" => sessionHasJob /\ curEpoch = jobEpoch

LEMMA DrainInvStep ==
  ASSUME TypeOK, DrainInv, [Next]_vars
  PROVE  DrainInv'
<1> USE DEF DrainInv
<1>1. CASE \E w \in Workers : WorkerNext(w)
  BY <1>1 DEF WorkerNext, WorkerStart, WorkerReady, WorkerSnapshot, WorkerPoll,
     WorkerMiss, WorkerHit, WorkerGate1, WorkerGate2, WorkerPush
<1>2. CASE NetNext
  <2> USE DEF NetGoto
  <2>1. CASE NetDrain
    BY <2>1 DEF NetDrain
  <2>2. ASSUME NEW j \in Jobs, NetReadJob(j) PROVE DrainInv'
    BY <2>2 DEF NetReadJob
  <2>3. CASE NetDialOk
    BY <2>3 DEF NetDialOk, OpenSession
  <2>4. CASE NetSendStale \/ NetSendOk
    BY <2>4 DEF NetSendStale, NetSendOk, TakeHead
  <2>5. CASE NetSendFail
    BY <2>5 DEF NetSendFail
  <2>6. CASE \/ NetInit \/ NetLoop \/ NetDialFail \/ NetSession
             \/ NetReadNoJob \/ NetDrainNoJob \/ NetBatchDone \/ NetClose
             \/ NetBackoff \/ NetFinal
    BY <2>6 DEF NetInit, NetLoop, NetDialFail, NetSession, NetReadNoJob,
       NetDrainNoJob, NetBatchDone, NetClose, NetBackoff, NetFinal
  <2>7. QED
    BY <1>2, <2>1, <2>2, <2>3, <2>4, <2>5, <2>6 DEF NetNext
<1>3. QED
  BY <1>1, <1>2 DEF Next, Signal, ReporterExit, MainJoin, Exited, vars

(* The two counters of the wire move only in a send, of the batch's head.   *)
LEMMA WireStep ==
  ASSUME [Next]_vars, submitted' # submitted \/ sendFails' # sendFails
  PROVE  TakeHead /\ Head(batch).epoch = curEpoch
<1>1. CASE \E w \in Workers : WorkerNext(w)
  BY <1>1 DEF WorkerNext, WorkerStart, WorkerReady, WorkerSnapshot, WorkerPoll,
     WorkerMiss, WorkerHit, WorkerGate1, WorkerGate2, WorkerPush
<1>2. CASE NetNext
  BY <1>2 DEF NetNext, NetInit, NetLoop, NetDialFail, NetDialOk, NetSession,
     NetReadNoJob, NetReadJob, NetDrainNoJob, NetDrain, NetSendStale,
     NetSendOk, NetSendFail, NetBatchDone, NetClose, NetBackoff, NetFinal
<1>3. QED
  BY <1>1, <1>2 DEF Next, Signal, ReporterExit, MainJoin, Exited, vars

(* The gate of the drain: a head of the batch found in the epoch read at    *)
(* the swap is for the job in force, which the session has issued.          *)
LEMMA HeadIsIssued ==
  ASSUME TypeOK, DrainInv, EpochNamesJob, TakeHead, Head(batch).epoch = curEpoch
  PROVE  Head(batch).job \in issued /\ Head(batch).job = job
<1>1. sessionHasJob /\ curEpoch = jobEpoch /\ job \in issued
  BY DEF TakeHead, DrainInv
<1>2. 1 \in DOMAIN batch /\ Head(batch) = batch[1]
  BY LenProperties, EmptySeq DEF TakeHead, TypeOK
<1>3. <<Head(batch).epoch, Head(batch).job>> \in Bindings
  BY <1>2 DEF Bindings
<1>4. Head(batch).job = job
  BY <1>1, <1>3 DEF EpochNamesJob, Bindings
<1>5. QED
  BY <1>1, <1>4

(* A share reaches the wire only for the job in force, on a session that    *)
(* has issued that job: shares of a lost session are never replayed.        *)
THEOREM NoReplayAcrossSessions == Spec => SentOnItsSession
<1> DEFINE Step == submitted' # submitted \/ sendFails' # sendFails
                     => Head(batch).job \in issued /\ Head(batch).job = job
<1>1. Init => DrainInv
  BY DEF Init, DrainInv
<1>2. TypeOK /\ DrainInv /\ [Next]_vars => DrainInv'
  BY DrainInvStep
<1>3. TypeOK /\ DrainInv /\ EpochNamesJob /\ [Next]_vars => [Step]_vars
  <2> SUFFICES ASSUME TypeOK, DrainInv, EpochNamesJob, [Next]_vars,
                      submitted' # submitted \/ sendFails' # sendFails
               PROVE  Head(batch).job \in issued /\ Head(batch).job = job
    OBVIOUS
  <2>1. TakeHead /\ Head(batch).epoch = curEpoch
    BY WireStep
  <2>2. QED
    BY <2>1, HeadIsIssued
<1>4. QED
  BY <1>1, <1>2, <1>3, TypeCorrect, EpochNamesOneJob, PTL
     DEF Spec, SentOnItsSession
-----------------------------------------------------------------------------
(* The share funnel.                                                        *)

(* A worker that begins or ends a submission changes their number by one.   *)
LEMMA SubmittingCount ==
  ASSUME NEW w \in Workers
  PROVE  /\ Cardinality(Submitting) \in Nat
         /\ w \notin Submitting /\ Submitting' = Submitting \cup {w}
              => Cardinality(Submitting') = Cardinality(Submitting) + 1
         /\ w \in Submitting /\ Submitting' = Submitting \ {w}
              => Cardinality(Submitting') = Cardinality(Submitting) - 1
<1>1. IsFiniteSet(Submitting)
  BY FS_Subset DEF Submitting
<1>2. QED
  BY <1>1, FS_CardinalityType, FS_AddElement, FS_RemoveElement

(* Clearing the queue moves what it held to staleDrops.                     *)
LEMMA ClearQueueCount ==
  ASSUME TypeOK, ClearQueue
  PROVE  /\ Len(submitQueue) \in Nat
         /\ Len(submitQueue') = 0
         /\ staleDrops' = staleDrops + Len(submitQueue)
  BY EmptySeq, LenProperties DEF TypeOK, ClearQueue

(* A worker's step keeps the account.                                       *)
LEMMA FunnelWorkerStep ==
  ASSUME TypeOK, FunnelAccounting, NEW w \in Workers, WorkerNext(w)
  PROVE  FunnelAccounting'
<1> USE DEF FunnelAccounting, TypeOK, WorkerGoto
<1>0. /\ Len(submitQueue) \in Nat /\ Len(batch) \in Nat
      /\ Cardinality(Submitting) \in Nat
      /\ found \in Nat /\ staleDrops \in Nat /\ submitDrops \in Nat
      /\ submitted \in Nat /\ sendFails \in Nat /\ discarded \in Nat
  BY LenProperties, SubmittingCount
<1>1. CASE WorkerHit(w)
  <2>1. w \notin Submitting /\ Submitting' = Submitting \cup {w}
    BY <1>1 DEF WorkerHit, Submitting
  <2>2. Cardinality(Submitting') = Cardinality(Submitting) + 1
    BY <2>1, SubmittingCount
  <2>3. /\ found' = found + 1
        /\ UNCHANGED <<staleDrops, submitDrops, submitted, sendFails,
                       submitQueue, batch, discarded>>
    BY <1>1 DEF WorkerHit
  <2> HIDE DEF TypeOK
  <2>4. QED
    BY <1>0, <2>2, <2>3
<1>2. ASSUME WorkerGate1(w) \/ WorkerGate2(w), jobEpoch = wEpoch[w]
      PROVE  FunnelAccounting'
  <2>1. workerPc[w] \in {"gate1", "gate2"} /\ UNCHANGED staleDrops
    BY <1>2 DEF WorkerGate1, WorkerGate2
  <2>2. \E to \in {"gate2", "push"} : workerPc' = [workerPc EXCEPT ![w] = to]
    BY <1>2 DEF WorkerGate1, WorkerGate2
  <2>3. Submitting' = Submitting
    BY <2>1, <2>2 DEF Submitting
  <2>4. UNCHANGED <<found, submitted, submitDrops, sendFails, submitQueue,
                    batch, discarded>>
    BY <1>2 DEF WorkerGate1, WorkerGate2, drainVars, queueVars
  <2>5. QED
    BY <2>1, <2>3, <2>4
<1>3. ASSUME WorkerGate1(w) \/ WorkerGate2(w), jobEpoch # wEpoch[w]
      PROVE  FunnelAccounting'
  <2>1. /\ workerPc[w] \in {"gate1", "gate2"}
        /\ staleDrops' = staleDrops + 1
    BY <1>3 DEF WorkerGate1, WorkerGate2
  <2>2. \E to \in {"poll", "hash"} : workerPc' = [workerPc EXCEPT ![w] = to]
    BY <1>3 DEF WorkerGate1, WorkerGate2, AfterShare
  <2>3. w \in Submitting /\ Submitting' = Submitting \ {w}
    BY <2>1, <2>2 DEF Submitting
  <2>4. Cardinality(Submitting') = Cardinality(Submitting) - 1
    BY <2>3, SubmittingCount
  <2>5. UNCHANGED <<found, submitted, submitDrops, sendFails, submitQueue,
                    batch, discarded>>
    BY <1>3 DEF WorkerGate1, WorkerGate2, drainVars, queueVars
  <2>6. QED
    BY <1>0, <2>1, <2>4, <2>5
<1>4. CASE WorkerPush(w)
  <2>1. w \in Submitting /\ Submitting' = Submitting \ {w}
    BY <1>4 DEF WorkerPush, Submitting, AfterShare
  <2>2. Cardinality(Submitting') = Cardinality(Submitting) - 1
    BY <2>1, SubmittingCount
  <2>3. /\ Len(submitQueue') = Len(submitQueue) - Evicted + 1
        /\ Evicted \in 0 .. 1
    BY <1>4, PushedQueue
  <2>4. submitDrops' = submitDrops + Evicted
    BY <1>4 DEF WorkerPush, Enqueue, Evicted
  <2>5. UNCHANGED <<found, staleDrops, submitted, sendFails, batch, discarded>>
    BY <1>4 DEF WorkerPush
  <2> HIDE DEF TypeOK
  <2>6. QED
    BY <1>0, <2>2, <2>3, <2>4, <2>5
<1>5. CASE \/ WorkerStart(w) \/ WorkerReady(w) \/ WorkerSnapshot(w)
           \/ WorkerPoll(w) \/ WorkerMiss(w)
  <2>1. /\ workerPc[w] \in {"start", "wait", "snap", "poll", "hash"}
        /\ \E to \in {"wait", "done", "snap", "poll", "hash"} :
             workerPc' = [workerPc EXCEPT ![w] = to]
    BY <1>5 DEF WorkerStart, WorkerReady, WorkerSnapshot, WorkerPoll,
       NextAfterPoll, WorkerMiss
  <2>2. Submitting' = Submitting
    BY <2>1 DEF Submitting
  <2>3. QED
    BY <1>5, <2>2 DEF WorkerStart, WorkerReady, WorkerSnapshot, WorkerPoll,
       WorkerMiss
<1>6. QED
  BY <1>1, <1>2, <1>3, <1>4, <1>5 DEF WorkerNext

(* So does a step of the network thread.                                    *)
LEMMA FunnelNetStep ==
  ASSUME TypeOK, FunnelAccounting, NetNext
  PROVE  FunnelAccounting'
<1> USE DEF FunnelAccounting, TypeOK, NetGoto
<1>0. /\ Len(submitQueue) \in Nat /\ Len(batch) \in Nat /\ Len(<<>>) = 0
      /\ Cardinality(Submitting) \in Nat
  BY LenProperties, SubmittingCount, EmptySeq
<1>1. workerPc' = workerPc /\ Submitting' = Submitting
  BY DEF NetNext, NetInit, NetLoop, NetDialFail, NetDialOk, NetSession,
     NetReadNoJob, NetReadJob, NetDrainNoJob, NetDrain, NetSendStale,
     NetSendOk, NetSendFail, NetBatchDone, NetClose, NetBackoff, NetFinal,
     Submitting
<1>2. CASE ClearQueue /\ UNCHANGED <<found, submitDrops, submitted, sendFails,
                                     batch, discarded>>
  <2>1. /\ Len(submitQueue') = 0
        /\ staleDrops' = staleDrops + Len(submitQueue)
    BY <1>2, ClearQueueCount
  <2>2. /\ Cardinality(Submitting') = Cardinality(Submitting)
        /\ Len(batch') = Len(batch)
    BY <1>1, <1>2
  <2>3. QED
    BY <1>0, <1>2, <2>1, <2>2
<1>3. CASE NetDrain
  <2>1. batch = <<>>
    BY <1>3 DEF NetDrain
  <2>2. QED
    BY <1>0, <1>1, <1>3, <2>1 DEF NetDrain
<1>4. CASE NetSendStale \/ NetSendOk \/ NetSendFail
  <2>1. batch \in Seq(PendingSubmit) /\ batch # <<>>
    BY <1>4 DEF NetSendStale, NetSendOk, NetSendFail, TakeHead
  <2>2. Len(Tail(batch)) = Len(batch) - 1
    BY <2>1, HeadTailProperties
  <2>3. CASE NetSendStale
    BY <1>0, <1>1, <2>2, <2>3 DEF NetSendStale
  <2>4. CASE NetSendOk
    BY <1>0, <1>1, <2>2, <2>4 DEF NetSendOk
  <2>5. CASE NetSendFail
    BY <1>0, <1>1, <2>2, <2>5 DEF NetSendFail
  <2>6. QED
    BY <1>4, <2>3, <2>4, <2>5
<1>5. CASE UNCHANGED <<counters, submitQueue, batch, discarded>>
  BY <1>1, <1>5
<1>6. QED
  BY <1>2, <1>3, <1>4, <1>5 DEF NetNext, NetInit, NetLoop, NetDialFail,
     NetDialOk, NetSession, NetReadNoJob, NetReadJob, NetDrainNoJob,
     NetBatchDone, NetClose, NetBackoff, NetFinal, Cleanup

(* Every find is counted once, is on its way, or was discarded with a       *)
(* failed batch, in every reachable state.                                  *)
THEOREM FunnelIsExact == Spec => []FunnelAccounting
<1>1. Init => FunnelAccounting
  <2> SUFFICES ASSUME Init PROVE FunnelAccounting
    OBVIOUS
  <2>1. Submitting = {}
    BY DEF Init, Submitting
  <2>2. Cardinality(Submitting) = 0 /\ Len(<<>>) = 0
    BY <2>1, FS_EmptySet, EmptySeq
  <2>3. QED
    BY <2>2 DEF Init, FunnelAccounting
<1>2. TypeOK /\ FunnelAccounting /\ [Next]_vars => FunnelAccounting'
  <2> SUFFICES ASSUME TypeOK, FunnelAccounting, [Next]_vars
               PROVE  FunnelAccounting'
    OBVIOUS
  <2>1. CASE \E w \in Workers : WorkerNext(w)
    BY <2>1, FunnelWorkerStep
  <2>2. CASE NetNext
    BY <2>2, FunnelNetStep
  <2>3. CASE Signal \/ ReporterExit \/ MainJoin \/ UNCHANGED vars
    BY <2>3 DEF Signal, ReporterExit, MainJoin, vars, FunnelAccounting,
       Submitting
  <2>4. QED
    BY <2>1, <2>2, <2>3 DEF Next, Exited
<1>3. QED
  BY <1>1, <1>2, TypeCorrect, PTL DEF Spec
-----------------------------------------------------------------------------
(* First found, first sent.                                                 *)

(* What makes the order inductive: the queue holds the last numbers given,  *)
(* without a gap, and everything in the batch is older and not yet settled. *)
LineEnd == enqueued - Len(submitQueue)

OrderInv ==
  /\ Len(submitQueue) <= enqueued
  /\ settledSeq <= LineEnd
  /\ \A i \in DOMAIN submitQueue : submitQueue[i].seq = LineEnd + i
  /\ \A i \in DOMAIN batch : settledSeq < batch[i].seq /\ batch[i].seq <= LineEnd
  /\ \A i, j \in DOMAIN batch : i < j => batch[i].seq < batch[j].seq

(* The numbers in line are numbers.                                         *)
LEMMA LineTypes ==
  ASSUME TypeOK
  PROVE  /\ enqueued \in Nat /\ settledSeq \in Nat
         /\ Len(submitQueue) \in Nat /\ DOMAIN submitQueue = 1 .. Len(submitQueue)
         /\ Len(batch) \in Nat /\ DOMAIN batch = 1 .. Len(batch)
         /\ \A i \in DOMAIN submitQueue : submitQueue[i].seq \in Nat
         /\ \A i \in DOMAIN batch : batch[i].seq \in Nat
<1>1. /\ \A i \in DOMAIN submitQueue : submitQueue[i] \in PendingSubmit
      /\ \A i \in DOMAIN batch : batch[i] \in PendingSubmit
  BY ElementOfSeq, LenProperties DEF TypeOK
<1>2. QED
  BY <1>1, LenProperties DEF TypeOK, PendingSubmit

LEMMA OrderInvStep ==
  ASSUME TypeOK, OrderInv, [Next]_vars
  PROVE  OrderInv'
<1>0. /\ enqueued \in Nat /\ settledSeq \in Nat
      /\ Len(submitQueue) \in Nat /\ DOMAIN submitQueue = 1 .. Len(submitQueue)
      /\ Len(batch) \in Nat /\ DOMAIN batch = 1 .. Len(batch)
  BY LineTypes
<1>1. CASE UNCHANGED <<submitQueue, enqueued, batch, settledSeq>>
  BY <1>1 DEF OrderInv, LineEnd
<1>2. CASE submitQueue' = <<>> /\ UNCHANGED <<enqueued, batch, settledSeq>>
  <2>1. Len(submitQueue') = 0 /\ DOMAIN submitQueue' = {}
    BY <1>2, EmptySeq
  <2>2. LineEnd' = enqueued /\ LineEnd <= LineEnd' /\ LineEnd \in Int
    BY <1>0, <1>2, <2>1 DEF LineEnd
  <2>3. \A i \in DOMAIN batch : batch[i].seq \in Nat
    BY LineTypes
  <2>4. QED
    BY <1>0, <1>2, <2>1, <2>2, <2>3 DEF OrderInv
<1>3. ASSUME NEW w \in Workers, WorkerPush(w) PROVE OrderInv'
  <2>1. /\ Evicted \in 0 .. 1 /\ Evicted <= Len(submitQueue)
        /\ submitQueue' \in Seq(PendingSubmit)
        /\ Len(submitQueue') = Len(submitQueue) - Evicted + 1
        /\ \A k \in 1 .. Len(submitQueue) - Evicted :
              submitQueue'[k] = submitQueue[k + Evicted]
        /\ submitQueue'[Len(submitQueue) - Evicted + 1] = Pushed(w)
    BY <1>3, PushedQueue
  <2>2. enqueued' = enqueued + 1 /\ UNCHANGED <<batch, settledSeq>>
    BY <1>3 DEF WorkerPush, Enqueue
  <2>3. LineEnd' = LineEnd + Evicted /\ LineEnd \in Int
    BY <1>0, <2>1, <2>2 DEF LineEnd
  <2>4. DOMAIN submitQueue' = 1 .. Len(submitQueue')
    BY <2>1, LenProperties
  <2>5. ASSUME NEW i \in DOMAIN submitQueue'
        PROVE  submitQueue'[i].seq = LineEnd' + i
    <3>1. CASE i = Len(submitQueue) - Evicted + 1
      <4>1. submitQueue'[i].seq = enqueued + 1
        BY <2>1, <3>1 DEF Pushed
      <4>2. QED
        BY <1>0, <2>1, <2>3, <3>1, <4>1 DEF LineEnd
    <3>2. CASE i # Len(submitQueue) - Evicted + 1
      <4>1. i \in 1 .. Len(submitQueue) - Evicted
        BY <1>0, <2>1, <2>4, <3>2
      <4>2. submitQueue'[i] = submitQueue[i + Evicted]
        BY <2>1, <4>1
      <4>3. i + Evicted \in DOMAIN submitQueue
        BY <1>0, <2>1, <4>1
      <4>4. submitQueue[i + Evicted].seq = LineEnd + (i + Evicted)
        BY <4>3 DEF OrderInv
      <4>5. QED
        BY <2>1, <2>3, <4>1, <4>2, <4>4
    <3>3. QED
      BY <3>1, <3>2
  <2>6. LineEnd <= LineEnd' /\ LineEnd' \in Int
    BY <2>1, <2>3
  <2>7. Len(submitQueue') <= enqueued'
    BY <1>0, <2>1, <2>2 DEF OrderInv
  <2>8. \A i \in DOMAIN batch : batch[i].seq \in Nat
    BY LineTypes
  <2>9. /\ settledSeq <= LineEnd'
        /\ \A i \in DOMAIN batch : batch[i].seq <= LineEnd'
    BY <1>0, <2>3, <2>6, <2>8 DEF OrderInv
  <2>10. QED
    BY <2>2, <2>5, <2>7, <2>9 DEF OrderInv
<1>4. CASE NetDrain
  <2>1. /\ batch' = submitQueue /\ submitQueue' = <<>>
        /\ UNCHANGED <<enqueued, settledSeq>>
    BY <1>4 DEF NetDrain
  <2>2. Len(submitQueue') = 0 /\ DOMAIN submitQueue' = {}
    BY <2>1, EmptySeq
  <2>3. LineEnd' = enqueued /\ LineEnd \in Int /\ LineEnd <= enqueued
    BY <1>0, <2>1, <2>2 DEF LineEnd
  <2>4. ASSUME NEW i \in DOMAIN batch'
        PROVE  /\ i \in 1 .. Len(submitQueue)
               /\ batch'[i].seq = LineEnd + i
               /\ settledSeq < batch'[i].seq /\ batch'[i].seq <= enqueued
    <3>1. i \in 1 .. Len(submitQueue) /\ batch'[i].seq = LineEnd + i
      BY <1>0, <2>1, <2>4 DEF OrderInv
    <3>2. QED
      BY <1>0, <2>3, <3>1 DEF OrderInv, LineEnd
  <2>5. \A i, j \in DOMAIN batch' : i < j => batch'[i].seq < batch'[j].seq
    BY <2>3, <2>4
  <2>6. QED
    BY <1>0, <2>1, <2>2, <2>3, <2>4, <2>5 DEF OrderInv
<1>5. CASE /\ TakeHead
           /\ batch' = Tail(batch) \/ batch' = <<>>
           /\ UNCHANGED <<submitQueue, enqueued>>
  <2>1. /\ 1 \in DOMAIN batch /\ settledSeq' = batch[1].seq
        /\ DOMAIN Tail(batch) = 1 .. Len(batch) - 1
        /\ \A k \in 1 .. Len(batch) - 1 : Tail(batch)[k] = batch[k + 1]
    BY <1>0, <1>5, TailOfBatch DEF TakeHead
  <2>2. LineEnd' = LineEnd /\ settledSeq' <= LineEnd
    BY <1>5, <2>1 DEF LineEnd, OrderInv
  <2>3. CASE batch' = <<>>
    BY <1>5, <2>2, <2>3, EmptySeq DEF OrderInv
  <2>4. CASE batch' = Tail(batch)
    <3>1. ASSUME NEW i \in DOMAIN batch'
          PROVE  i + 1 \in DOMAIN batch /\ batch'[i] = batch[i + 1] /\ 1 < i + 1
      BY <1>0, <2>1, <2>4, <3>1
    <3>2. ASSUME NEW i \in DOMAIN batch'
          PROVE  settledSeq' < batch'[i].seq /\ batch'[i].seq <= LineEnd'
      BY <2>1, <2>2, <3>1 DEF OrderInv
    <3>3. ASSUME NEW i \in DOMAIN batch', NEW j \in DOMAIN batch', i < j
          PROVE  batch'[i].seq < batch'[j].seq
      <4>1. i + 1 < j + 1
        BY <2>1, <2>4, <3>3
      <4>2. QED
        BY <3>1, <4>1 DEF OrderInv
    <3>4. QED
      BY <1>5, <2>2, <3>2, <3>3 DEF OrderInv
  <2>5. QED
    BY <1>5, <2>3, <2>4
<1>6. QED
  BY <1>1, <1>2, <1>3, <1>4, <1>5, LineStep

(* Shares leave in the order they were queued, each at most once, and an    *)
(* eviction takes only the oldest, in every reachable state.                *)
THEOREM SharesLeaveInOrder == Spec => []DeliveryOrder
<1>1. Init => OrderInv
  <2> SUFFICES ASSUME Init PROVE OrderInv
    OBVIOUS
  <2>1. Len(submitQueue) = 0 /\ DOMAIN submitQueue = {} /\ DOMAIN batch = {}
    BY EmptySeq DEF Init
  <2>2. QED
    BY <2>1 DEF Init, OrderInv, LineEnd
<1>2. TypeOK /\ OrderInv /\ [Next]_vars => OrderInv'
  BY OrderInvStep
<1>3. TypeOK /\ OrderInv => DeliveryOrder
  <2> SUFFICES ASSUME TypeOK, OrderInv PROVE DeliveryOrder
    OBVIOUS
  <2>1. /\ enqueued \in Nat /\ settledSeq \in Nat
        /\ Len(submitQueue) \in Nat
        /\ DOMAIN submitQueue = 1 .. Len(submitQueue)
        /\ Len(batch) \in Nat /\ DOMAIN batch = 1 .. Len(batch)
        /\ LineEnd \in Int
        /\ \A i \in DOMAIN batch : batch[i].seq \in Nat
    BY LineTypes DEF LineEnd
  <2>2. /\ DOMAIN InLine = 1 .. Len(batch) + Len(submitQueue)
        /\ \A i \in 1 .. Len(batch) + Len(submitQueue) :
             InLine[i] = IF i <= Len(batch) THEN batch[i]
                         ELSE submitQueue[i - Len(batch)]
    BY ConcatProperties, LenProperties DEF InLine, TypeOK
  <2>3. ASSUME NEW i \in DOMAIN InLine
        PROVE  /\ settledSeq < InLine[i].seq
               /\ i <= Len(batch) => InLine[i].seq <= LineEnd
               /\ i > Len(batch) => InLine[i].seq = LineEnd + (i - Len(batch))
    <3>1. CASE i <= Len(batch)
      <4>1. i \in DOMAIN batch /\ InLine[i] = batch[i]
        BY <2>1, <2>2, <2>3, <3>1
      <4>2. QED
        BY <2>1, <2>2, <2>3, <3>1, <4>1 DEF OrderInv
    <3>2. CASE i > Len(batch)
      <4>1. /\ i - Len(batch) \in DOMAIN submitQueue /\ i - Len(batch) > 0
            /\ InLine[i] = submitQueue[i - Len(batch)]
        BY <2>1, <2>2, <2>3, <3>2
      <4>2. InLine[i].seq = LineEnd + (i - Len(batch))
        BY <4>1 DEF OrderInv
      <4>3. QED
        BY <2>1, <2>2, <2>3, <3>2, <4>1, <4>2 DEF OrderInv
    <3>3. QED
      BY <2>1, <2>2, <2>3, <3>1, <3>2
  <2>4. ASSUME NEW i \in DOMAIN InLine, NEW j \in DOMAIN InLine, i < j
        PROVE  InLine[i].seq < InLine[j].seq
    <3>1. CASE j <= Len(batch)
      <4>1. /\ i \in DOMAIN batch /\ InLine[i] = batch[i]
            /\ j \in DOMAIN batch /\ InLine[j] = batch[j]
        BY <2>1, <2>2, <2>4, <3>1
      <4>2. QED
        BY <2>4, <4>1 DEF OrderInv
    <3>2. CASE i <= Len(batch) /\ j > Len(batch)
      <4>1. InLine[i].seq <= LineEnd /\ InLine[i].seq \in Nat
        BY <2>1, <2>2, <2>3, <2>4, <3>2
      <4>2. InLine[j].seq = LineEnd + (j - Len(batch))
        BY <2>3, <3>2
      <4>3. QED
        BY <2>1, <2>2, <2>4, <3>2, <4>1, <4>2
    <3>3. CASE i > Len(batch)
      <4>1. j > Len(batch)
        BY <2>1, <2>2, <2>4, <3>3
      <4>2. /\ InLine[i].seq = LineEnd + (i - Len(batch))
            /\ InLine[j].seq = LineEnd + (j - Len(batch))
        BY <2>3, <3>3, <4>1
      <4>3. QED
        BY <2>1, <2>2, <2>4, <4>2
    <3>4. QED
      BY <2>1, <2>2, <2>4, <3>1, <3>2, <3>3
  <2>5. \A i \in DOMAIN submitQueue :
           submitQueue[i].seq = enqueued - Len(submitQueue) + i
    BY DEF OrderInv, LineEnd
  <2>6. QED
    BY <2>3, <2>4, <2>5 DEF DeliveryOrder
<1>4. QED
  BY <1>1, <1>2, <1>3, TypeCorrect, PTL DEF Spec
-----------------------------------------------------------------------------
(* The ledger of ShareDelivery.                                             *)

(* A worker that mines, mines a job of the daemon: it left its wait, or     *)
(* came back from a poll, after the first job.                              *)
RealJobs ==
  /\ jobEpoch > 0 => job \in Jobs
  /\ \A w \in Workers :
       /\ workerPc[w] \notin {"start", "wait", "done"} => quit \/ jobEpoch > 0
       /\ workerPc[w] \in {"poll", "hash", "gate1", "gate2", "push"}
            => wJob[w] \in Jobs

LEMMA RealJobsStep ==
  ASSUME TypeOK, RealJobs, [Next]_vars
  PROVE  RealJobs'
<1> USE DEF RealJobs
<1>0. jobEpoch \in Nat
  BY DEF TypeOK
<1>1. ASSUME NEW v \in Workers, WorkerNext(v) PROVE RealJobs'
  <2>1. UNCHANGED <<quit, jobEpoch, job>>
    BY <1>1 DEF WorkerNext, WorkerStart, WorkerReady, WorkerSnapshot,
       WorkerPoll, WorkerMiss, WorkerHit, WorkerGate1, WorkerGate2, WorkerPush
  <2>2. \A w \in Workers : w # v => /\ workerPc'[w] = workerPc[w]
                                    /\ wJob'[w] = wJob[w]
    BY <1>1 DEF TypeOK, WorkerGoto, WorkerNext, WorkerStart, WorkerReady,
       WorkerSnapshot, WorkerPoll, WorkerMiss, WorkerHit, WorkerGate1,
       WorkerGate2, WorkerPush
  <2> SUFFICES /\ workerPc'[v] \notin {"start", "wait", "done"}
                    => quit \/ jobEpoch > 0
               /\ workerPc'[v] \in {"poll", "hash", "gate1", "gate2", "push"}
                    => wJob'[v] \in Jobs
    BY <2>1, <2>2
  <2> USE DEF TypeOK, WorkerGoto
  <2>3. CASE WorkerStart(v)
    BY <2>3 DEF WorkerStart
  <2>4. CASE WorkerReady(v)
    BY <1>0, <2>4 DEF WorkerReady, WaitOver
  <2>5. CASE WorkerSnapshot(v)
    BY <2>5 DEF WorkerSnapshot
  <2>6. CASE WorkerPoll(v)
    BY <2>6 DEF WorkerPoll, NextAfterPoll
  <2>7. CASE WorkerMiss(v) \/ WorkerHit(v)
    BY <2>7 DEF WorkerMiss, WorkerHit
  <2>8. CASE WorkerGate1(v) \/ WorkerGate2(v)
    BY <2>8 DEF WorkerGate1, WorkerGate2, AfterShare
  <2>9. CASE WorkerPush(v)
    BY <2>9 DEF WorkerPush, AfterShare
  <2>10. QED
    BY <1>1, <2>3, <2>4, <2>5, <2>6, <2>7, <2>8, <2>9 DEF WorkerNext
<1>2. ASSUME NEW j \in Jobs, NetReadJob(j) PROVE RealJobs'
  BY <1>0, <1>2 DEF NetReadJob
<1>3. CASE NetNext /\ ~(\E j \in Jobs : NetReadJob(j))
  BY <1>3 DEF NetNext, NetInit, NetLoop, NetDialFail, NetDialOk, NetSession,
     NetReadNoJob, NetDrainNoJob, NetDrain, NetSendStale, NetSendOk,
     NetSendFail, NetBatchDone, NetClose, NetBackoff, NetFinal
<1>4. CASE Signal
  BY <1>4 DEF Signal
<1>5. QED
  BY <1>1, <1>2, <1>3, <1>4 DEF Next, ReporterExit, MainJoin, Exited, vars

(* A union has at most as many members as its parts together.               *)
LEMMA UnionCount ==
  ASSUME NEW S, NEW T, IsFiniteSet(S), IsFiniteSet(T)
  PROVE  /\ IsFiniteSet(S \cup T)
         /\ Cardinality(S \cup T) <= Cardinality(S) + Cardinality(T)
<1>1. /\ IsFiniteSet(S \cup T) /\ IsFiniteSet(S \cap T)
      /\ Cardinality(S \cup T)
           = Cardinality(S) + Cardinality(T) - Cardinality(S \cap T)
  BY FS_Union, FS_Intersection
<1>2. /\ Cardinality(S) \in Nat /\ Cardinality(T) \in Nat
      /\ Cardinality(S \cap T) \in Nat
  BY <1>1, FS_CardinalityType
<1>3. QED
  BY <1>1, <1>2

(* A set of k that loses at least k - n members, all of them among n, loses *)
(* exactly n.                                                               *)
LEMMA ExactLoss ==
  ASSUME NEW P, NEW Q \in SUBSET P, NEW G, NEW n \in Nat,
         IsFiniteSet(P), IsFiniteSet(G), Cardinality(G) <= n,
         P \subseteq Q \cup G, Cardinality(Q) <= Cardinality(P) - n
  PROVE  /\ Cardinality(Q) = Cardinality(P) - n
         /\ IsFiniteSet(P \ Q) /\ Cardinality(P \ Q) = n
<1>1. IsFiniteSet(Q) /\ P \cap Q = Q
  BY FS_Subset
<1>2. /\ IsFiniteSet(P \ Q)
      /\ Cardinality(P \ Q) = Cardinality(P) - Cardinality(Q)
  BY <1>1, FS_Difference
<1>3. Cardinality(P \ Q) <= Cardinality(G)
  <2>1. P \ Q \in SUBSET G
    OBVIOUS
  <2>2. QED
    BY <2>1, FS_Subset
<1>4. /\ Cardinality(P) \in Nat /\ Cardinality(Q) \in Nat
      /\ Cardinality(G) \in Nat /\ Cardinality(P \ Q) \in Nat
  BY <1>1, <1>2, FS_CardinalityType
<1>5. QED
  BY <1>2, <1>3, <1>4

(* Shares on their way, counted where they are; there are never more        *)
(* different finds among them.                                              *)
InFlight == Cardinality(Submitting) + Len(batch) + Len(submitQueue)

PendingBounded ==
  /\ InFlight \in Nat
  /\ IsFiniteSet(Pending) /\ Cardinality(Pending) <= InFlight

LEMMA OfSeqCount ==
  ASSUME NEW s \in Seq(PendingSubmit)
  PROVE  /\ IsFiniteSet(OfSeq(s)) /\ Cardinality(OfSeq(s)) \in Nat
         /\ Cardinality(OfSeq(s)) <= Len(s)
<1> DEFINE D == 1 .. Len(s)
           f == [i \in D |-> Share(s[i].find, s[i].job)]
<1>1. Len(s) \in Nat /\ DOMAIN s = D
  BY LenProperties
<1>2. IsFiniteSet(D) /\ Cardinality(D) = Len(s)
  BY <1>1, FS_Interval
<1>3. f \in Surjection(D, OfSeq(s))
  BY <1>1 DEF Surjection, OfSeq
<1> HIDE DEF D, f
<1>4. QED
  BY <1>2, <1>3, FS_Surjection, FS_CardinalityType

LEMMA PendingCount == TypeOK => PendingBounded
<1> SUFFICES ASSUME TypeOK PROVE PendingBounded
  OBVIOUS
<1>1. /\ IsFiniteSet(Submitting) /\ Cardinality(Submitting) \in Nat
  BY FS_Subset, FS_CardinalityType DEF Submitting
<1>2. IsFiniteSet(InHand) /\ Cardinality(InHand) <= Cardinality(Submitting)
  <2> DEFINE f == [w \in Submitting |-> Share(carried[w], wJob[w])]
  <2>1. f \in Surjection(Submitting, InHand)
    BY DEF Surjection, InHand
  <2> HIDE DEF f
  <2>2. QED
    BY <1>1, <2>1, FS_Surjection
<1>3. /\ IsFiniteSet(OfSeq(batch)) /\ Cardinality(OfSeq(batch)) \in Nat
      /\ Cardinality(OfSeq(batch)) <= Len(batch)
      /\ IsFiniteSet(OfSeq(submitQueue)) /\ Cardinality(OfSeq(submitQueue)) \in Nat
      /\ Cardinality(OfSeq(submitQueue)) <= Len(submitQueue)
      /\ Len(batch) \in Nat /\ Len(submitQueue) \in Nat
  BY OfSeqCount, LenProperties DEF TypeOK
<1>4. /\ IsFiniteSet(InHand \cup OfSeq(batch))
      /\ Cardinality(InHand \cup OfSeq(batch))
           <= Cardinality(InHand) + Cardinality(OfSeq(batch))
      /\ Cardinality(InHand) \in Nat
  BY <1>2, <1>3, UnionCount, FS_CardinalityType
<1>5. /\ IsFiniteSet(Pending)
      /\ Cardinality(Pending) <= Cardinality(InHand \cup OfSeq(batch))
                                   + Cardinality(OfSeq(submitQueue))
      /\ Cardinality(InHand \cup OfSeq(batch)) \in Nat
      /\ Cardinality(Pending) \in Nat
  BY <1>3, <1>4, UnionCount, FS_CardinalityType DEF Pending
<1>6. QED
  BY <1>1, <1>2, <1>3, <1>4, <1>5 DEF PendingBounded, InFlight

(* No two of the shares on their way are the same find, and none is a find  *)
(* still to come.  Only so does a share that leaves leave the ledger.       *)
LedgerInv ==
  /\ Cardinality(Pending) = InFlight
  /\ \A s \in Pending : s.find \in Nat /\ s.find <= found

(* The step is one of the ledger, and keeps the invariant.                  *)
LedgerStep == LedgerInv' /\ [Delivery!Next]_(Delivery!vars)

(* n of the shares on their way are given up and counted so.                *)
GivesUp(n) ==
  /\ InFlight' = InFlight - n
  /\ (staleDrops + submitDrops + discarded)'
        = staleDrops + submitDrops + discarded + n
  /\ UNCHANGED <<found, submitted, sendFails>>

(* A step gives up n of the shares on their way, all of them among `gone`.  *)
LEMMA SharesGivenUp ==
  ASSUME TypeOK, LedgerInv, PendingBounded, PendingBounded',
         NEW n \in Nat, NEW gone, IsFiniteSet(gone), Cardinality(gone) <= n,
         Pending' \subseteq Pending, Pending \subseteq Pending' \cup gone,
         GivesUp(n),
         issued' = issued \/ issued' = {}
  PROVE  LedgerStep
<1>0. /\ Pending' \in SUBSET Pending /\ IsFiniteSet(Pending)
      /\ Cardinality(Pending') <= Cardinality(Pending) - n
  BY DEF LedgerInv, PendingBounded, GivesUp
<1>1. /\ Cardinality(Pending') = Cardinality(Pending) - n
      /\ Cardinality(Pending \ Pending') = n
  BY <1>0, ExactLoss
<1>2. LedgerInv'
  BY <1>1 DEF LedgerInv, PendingBounded, GivesUp
<1>3. Pending' = Pending \ (Pending \ Pending')
  OBVIOUS
<1>4. Delivery!Settle({})
  <2>1. Pending \ Pending' \in SUBSET (Pending \ {})
    OBVIOUS
  <2>2. Pending' = Pending \ ({} \cup (Pending \ Pending'))
    BY <1>3
  <2>3. QED
    BY <1>1, <2>1, <2>2 DEF GivesUp, Delivery!Settle, Delivery!Cardinality, Cardinality
<1>5. Delivery!Next
  BY <1>4 DEF GivesUp, Delivery!Next, Delivery!Connect, Delivery!Drop
<1>6. QED
  BY <1>2, <1>5 DEF LedgerStep

(* A step that moves no share.                                              *)
LEMMA SharesStay ==
  ASSUME TypeOK, LedgerInv, PendingBounded, PendingBounded',
         Pending' = Pending, InFlight' = InFlight,
         UNCHANGED <<staleDrops, submitDrops, discarded, found, submitted,
                     sendFails>>,
         issued' = issued \/ issued' = {}
  PROVE  LedgerStep
<1>1. IsFiniteSet({}) /\ Cardinality({}) = 0
  BY FS_EmptySet
<1>2. GivesUp(0)
  BY DEF GivesUp, PendingBounded, TypeOK
<1>3. QED
  BY <1>1, <1>2, SharesGivenUp

(* A worker's share leaves its hands.                                       *)
LEMMA LeavesHand ==
  ASSUME TypeOK, NEW w \in Workers, w \in Submitting,
         workerPc'[w] \notin {"gate1", "gate2", "push"},
         \A v \in Workers \ {w} : /\ workerPc'[v] = workerPc[v]
                                  /\ carried'[v] = carried[v]
                                  /\ wJob'[v] = wJob[v]
  PROVE  /\ InHand' \subseteq InHand
         /\ InHand \subseteq InHand' \cup {Share(carried[w], wJob[w])}
         /\ Share(carried[w], wJob[w]) \in InHand
         /\ Cardinality(Submitting') = Cardinality(Submitting) - 1
<1>1. Submitting' = Submitting \ {w}
  BY DEF Submitting
<1>2. Cardinality(Submitting') = Cardinality(Submitting) - 1
  BY <1>1, SubmittingCount
<1>3. QED
  BY <1>1, <1>2 DEF InHand, Submitting

LEMMA LedgerWorkerStep ==
  ASSUME TypeOK, RealJobs, LedgerInv, PendingBounded, PendingBounded',
         NEW w \in Workers, WorkerNext(w)
  PROVE  LedgerStep
<1> USE DEF WorkerGoto
<1>0. /\ Len(batch) \in Nat /\ Len(submitQueue) \in Nat
      /\ Cardinality(Submitting) \in Nat
      /\ staleDrops \in Nat /\ submitDrops \in Nat /\ discarded \in Nat
      /\ found \in Nat
  BY LenProperties, SubmittingCount DEF TypeOK
<1>1. CASE WorkerHit(w)
  <2> DEFINE new == Share(found + 1, wJob[w])
  <2>1. w \notin Submitting /\ Submitting' = Submitting \cup {w}
    BY <1>1 DEF WorkerHit, Submitting, TypeOK
  <2>2. /\ UNCHANGED <<batch, submitQueue, wJob, issued, submitted, sendFails,
                       staleDrops, submitDrops, discarded>>
        /\ found' = found + 1
        /\ carried' = [carried EXCEPT ![w] = found + 1]
    BY <1>1 DEF WorkerHit
  <2>3. InHand' = InHand \cup {new}
    <3>1. /\ carried'[w] = found + 1
          /\ \A v \in Submitting : carried'[v] = carried[v]
      BY <2>1, <2>2 DEF TypeOK, Submitting
    <3>2. wJob' = wJob
      BY <2>2
    <3>3. QED
      BY <2>1, <3>1, <3>2 DEF InHand
  <2>4. Pending' = Pending \cup {new}
    BY <2>2, <2>3 DEF Pending
  <2>5. new \notin Pending
    BY <1>0 DEF LedgerInv, Share
  <2>6. Cardinality(Pending') = Cardinality(Pending) + 1
    BY <2>4, <2>5, FS_AddElement DEF PendingBounded
  <2>7. InFlight' = InFlight + 1
    <3>1. Cardinality(Submitting') = Cardinality(Submitting) + 1
      BY <2>1, SubmittingCount
    <3>2. QED
      BY <1>0, <2>2, <3>1 DEF InFlight
  <2>8. LedgerInv'
    <3>1. new.find \in Nat /\ new.find <= found'
      BY <1>0, <2>2 DEF Share
    <3>2. \A s \in Pending : s.find \in Nat /\ s.find <= found'
      BY <1>0, <2>2 DEF LedgerInv
    <3> HIDE DEF new
    <3>3. QED
      BY <2>4, <2>6, <2>7, <3>1, <3>2 DEF LedgerInv
  <2>9. wJob[w] \in Jobs
    BY <1>1 DEF WorkerHit, RealJobs
  <2>10. Delivery!Find(wJob[w])
    BY <2>2, <2>4 DEF Delivery!Find, Share
  <2>11. QED
    BY <2>8, <2>9, <2>10 DEF LedgerStep, Delivery!Next
<1>2. ASSUME WorkerGate1(w) \/ WorkerGate2(w), jobEpoch # wEpoch[w]
      PROVE  LedgerStep
  <2>1. /\ w \in Submitting
        /\ \E to \in AfterShare : workerPc' = [workerPc EXCEPT ![w] = to]
        /\ carried' = [carried EXCEPT ![w] = 0]
        /\ staleDrops' = staleDrops + 1
        /\ UNCHANGED <<batch, submitQueue, wJob, issued, found, submitted,
                       sendFails, submitDrops, discarded>>
    BY <1>2 DEF WorkerGate1, WorkerGate2, Submitting
  <2>2. /\ InHand' \subseteq InHand
        /\ InHand \subseteq InHand' \cup {Share(carried[w], wJob[w])}
        /\ Cardinality(Submitting') = Cardinality(Submitting) - 1
    BY <2>1, LeavesHand DEF TypeOK, AfterShare
  <2>3. /\ Pending' \subseteq Pending
        /\ Pending \subseteq Pending' \cup {Share(carried[w], wJob[w])}
    BY <2>1, <2>2 DEF Pending
  <2>4. InFlight' = InFlight - 1
    BY <1>0, <2>1, <2>2 DEF InFlight
  <2>5. /\ IsFiniteSet({Share(carried[w], wJob[w])})
        /\ Cardinality({Share(carried[w], wJob[w])}) = 1
    BY FS_Singleton
  <2>6. (staleDrops + submitDrops + discarded)'
          = staleDrops + submitDrops + discarded + 1
    BY <1>0, <2>1
  <2>7. QED
    BY <2>1, <2>3, <2>4, <2>5, <2>6, SharesGivenUp DEF GivesUp
<1>3. CASE WorkerPush(w)
  <2> DEFINE mine == Share(carried[w], wJob[w])
             gone == IF Full THEN {Share(submitQueue[1].find, submitQueue[1].job)}
                     ELSE {}
  <2>1. /\ w \in Submitting
        /\ \E to \in AfterShare : workerPc' = [workerPc EXCEPT ![w] = to]
        /\ carried' = [carried EXCEPT ![w] = 0]
        /\ UNCHANGED <<batch, wJob, issued, found, submitted,
                       sendFails, staleDrops, discarded>>
    BY <1>3 DEF WorkerPush, Submitting
  <2>2. /\ InHand' \subseteq InHand
        /\ InHand \subseteq InHand' \cup {mine}
        /\ mine \in InHand
        /\ Cardinality(Submitting') = Cardinality(Submitting) - 1
    BY <2>1, LeavesHand DEF TypeOK, AfterShare
  <2>3. /\ Evicted \in 0 .. 1 /\ Evicted <= Len(submitQueue)
        /\ DOMAIN submitQueue = 1 .. Len(submitQueue)
        /\ DOMAIN submitQueue' = 1 .. Len(submitQueue) - Evicted + 1
        /\ Len(submitQueue') = Len(submitQueue) - Evicted + 1
        /\ \A k \in 1 .. Len(submitQueue) - Evicted :
              submitQueue'[k] = submitQueue[k + Evicted]
        /\ submitQueue'[Len(submitQueue) - Evicted + 1] = Pushed(w)
    BY <1>3, PushedQueue, LenProperties DEF TypeOK
  <2>4. Share(Pushed(w).find, Pushed(w).job) = mine
    BY DEF Pushed
  <2> HIDE DEF mine
  <2>5. OfSeq(submitQueue') \subseteq OfSeq(submitQueue) \cup {mine}
    <3> SUFFICES ASSUME NEW k \in DOMAIN submitQueue'
                 PROVE  Share(submitQueue'[k].find, submitQueue'[k].job)
                          \in OfSeq(submitQueue) \cup {mine}
      BY DEF OfSeq
    <3>1. CASE k = Len(submitQueue) - Evicted + 1
      BY <2>3, <2>4, <3>1
    <3>2. CASE k # Len(submitQueue) - Evicted + 1
      <4>1. k \in 1 .. Len(submitQueue) - Evicted
        BY <1>0, <2>3, <3>2
      <4>2. k + Evicted \in DOMAIN submitQueue
        BY <1>0, <2>3, <4>1
      <4>3. QED
        BY <2>3, <4>1, <4>2 DEF OfSeq
    <3>3. QED
      BY <3>1, <3>2
  <2>6. mine \in OfSeq(submitQueue')
    <3>1. Len(submitQueue) - Evicted + 1 \in DOMAIN submitQueue'
      BY <1>0, <2>3
    <3>2. QED
      BY <2>3, <2>4, <3>1 DEF OfSeq
  <2>7. OfSeq(submitQueue) \subseteq OfSeq(submitQueue') \cup gone
    <3> SUFFICES ASSUME NEW k \in DOMAIN submitQueue
                 PROVE  Share(submitQueue[k].find, submitQueue[k].job)
                          \in OfSeq(submitQueue') \cup gone
      BY DEF OfSeq
    <3>1. CASE k <= Evicted
      <4>1. Full /\ k = 1
        BY <1>0, <2>3, <3>1 DEF Evicted
      <4>2. QED
        BY <4>1
    <3>2. CASE ~(k <= Evicted)
      <4>1. k - Evicted \in 1 .. Len(submitQueue) - Evicted
        BY <1>0, <2>3, <3>2
      <4>2. /\ submitQueue'[k - Evicted] = submitQueue[(k - Evicted) + Evicted]
            /\ (k - Evicted) + Evicted = k
        BY <1>0, <2>3, <4>1
      <4>3. k - Evicted \in DOMAIN submitQueue'
        BY <1>0, <2>3, <4>1
      <4>4. submitQueue'[k - Evicted] = submitQueue[k]
        BY <4>2
      <4>5. QED
        BY <4>3, <4>4 DEF OfSeq
    <3>3. QED
      BY <3>1, <3>2
  <2>8. IsFiniteSet(gone) /\ Cardinality(gone) <= Evicted
    <3>1. CASE Full
      <4>1. gone = {Share(submitQueue[1].find, submitQueue[1].job)}
        BY <3>1
      <4> HIDE DEF gone
      <4>2. IsFiniteSet(gone) /\ Cardinality(gone) = 1
        BY <4>1, FS_Singleton
      <4>3. QED
        BY <3>1, <4>2 DEF Evicted
    <3>2. CASE ~Full
      BY <3>2, FS_EmptySet DEF Evicted
    <3>3. QED
      BY <3>1, <3>2
  <2> HIDE DEF gone
  <2>9. Pending' \subseteq Pending /\ Pending \subseteq Pending' \cup gone
    BY <2>1, <2>2, <2>5, <2>6, <2>7 DEF Pending
  <2>10. InFlight' = InFlight - Evicted /\ Evicted \in Nat
    <3>1. /\ InFlight' = Cardinality(Submitting') + Len(batch') + Len(submitQueue')
          /\ InFlight = Cardinality(Submitting) + Len(batch) + Len(submitQueue)
          /\ batch' = batch
      BY <2>1 DEF InFlight
    <3>2. QED
      BY <1>0, <2>2, <2>3, <3>1
  <2>11. (staleDrops + submitDrops + discarded)'
           = staleDrops + submitDrops + discarded + Evicted
    <3>1. submitDrops' = submitDrops + Evicted
      BY <1>0, <1>3 DEF WorkerPush, Enqueue, Evicted
    <3>2. staleDrops' = staleDrops /\ discarded' = discarded
      BY <2>1
    <3>3. QED
      BY <1>0, <2>3, <3>1, <3>2
  <2>12. QED
    BY <2>1, <2>8, <2>9, <2>10, <2>11, SharesGivenUp DEF GivesUp
<1>4. ASSUME \/ WorkerStart(w) \/ WorkerReady(w) \/ WorkerSnapshot(w)
             \/ WorkerPoll(w) \/ WorkerMiss(w)
             \/ (WorkerGate1(w) \/ WorkerGate2(w)) /\ jobEpoch = wEpoch[w]
      PROVE  LedgerStep
  <2>1. /\ UNCHANGED <<batch, submitQueue, carried, issued, found, submitted,
                       sendFails, staleDrops, submitDrops, discarded>>
        /\ w \in Submitting => wJob' = wJob
    BY <1>4 DEF WorkerStart, WorkerReady, WorkerSnapshot, WorkerPoll,
       WorkerMiss, WorkerGate1, WorkerGate2, Submitting
  <2>2. \A v \in Workers \ {w} : wJob'[v] = wJob[v]
    BY <1>4 DEF WorkerStart, WorkerReady, WorkerSnapshot, WorkerPoll,
       WorkerMiss, WorkerGate1, WorkerGate2, TypeOK
  <2>3. Submitting' = Submitting
    <3>1. CASE WorkerStart(w) \/ WorkerReady(w)
      BY <3>1 DEF WorkerStart, WorkerReady, Submitting, TypeOK
    <3>2. CASE WorkerSnapshot(w) \/ WorkerPoll(w) \/ WorkerMiss(w)
      BY <3>2 DEF WorkerSnapshot, WorkerPoll, NextAfterPoll, WorkerMiss,
         Submitting, TypeOK
    <3>3. CASE (WorkerGate1(w) \/ WorkerGate2(w)) /\ jobEpoch = wEpoch[w]
      BY <3>3 DEF WorkerGate1, WorkerGate2, Submitting, TypeOK
    <3>4. QED
      BY <1>4, <3>1, <3>2, <3>3
  <2>4. InHand' = InHand
    BY <2>1, <2>2, <2>3 DEF InHand, Submitting
  <2>5. Pending' = Pending /\ InFlight' = InFlight
    BY <2>1, <2>3, <2>4 DEF Pending, InFlight
  <2>6. QED
    BY <2>1, <2>5, SharesStay
<1>5. QED
  BY <1>1, <1>2, <1>3, <1>4 DEF WorkerNext

(* The queue is dropped.                                                    *)
LEMMA LedgerClearQueue ==
  ASSUME TypeOK, LedgerInv, PendingBounded, PendingBounded', ClearQueue,
         UNCHANGED <<batch, workerVars, found, submitDrops, submitted,
                     sendFails, discarded>>,
         issued' = issued \/ issued' = {}
  PROVE  LedgerStep
<1>1. /\ Len(submitQueue) \in Nat /\ Len(batch) \in Nat
      /\ Cardinality(Submitting) \in Nat
      /\ staleDrops \in Nat /\ submitDrops \in Nat /\ discarded \in Nat
  BY LenProperties, SubmittingCount DEF TypeOK
<1>2. Submitting' = Submitting /\ InHand' = InHand
  BY DEF Submitting, InHand
<1>3. submitQueue' = <<>> /\ staleDrops' = staleDrops + Len(submitQueue)
  BY DEF ClearQueue
<1>4. OfSeq(submitQueue') = {} /\ Len(submitQueue') = 0
  BY <1>3, EmptySeq DEF OfSeq
<1>5. /\ Pending' \subseteq Pending
      /\ Pending \subseteq Pending' \cup OfSeq(submitQueue)
  BY <1>2, <1>4 DEF Pending
<1>6. GivesUp(Len(submitQueue))
  <2>1. InFlight' = InFlight - Len(submitQueue)
    BY <1>1, <1>2, <1>4 DEF InFlight
  <2>2. QED
    BY <1>1, <1>3, <2>1 DEF GivesUp
<1>7. /\ IsFiniteSet(OfSeq(submitQueue))
      /\ Cardinality(OfSeq(submitQueue)) <= Len(submitQueue)
  BY OfSeqCount DEF TypeOK
<1>8. QED
  BY <1>1, <1>5, <1>6, <1>7, SharesGivenUp

(* One turn of the drain: the head of the batch is dropped as stale, sent,  *)
(* or refused, when it takes the rest of the batch with it.                 *)
LEMMA LedgerSend ==
  ASSUME TypeOK, DrainInv, EpochNamesJob, LedgerInv, PendingBounded,
         PendingBounded', NetSendStale \/ NetSendOk \/ NetSendFail
  PROVE  LedgerStep
<1> DEFINE head == Share(batch[1].find, batch[1].job)
<1>0. TakeHead
  BY DEF NetSendStale, NetSendOk, NetSendFail
<1>1. /\ Len(batch) \in Nat \ {0} /\ DOMAIN batch = 1 .. Len(batch)
      /\ Head(batch) = batch[1]
      /\ Len(Tail(batch)) = Len(batch) - 1
      /\ DOMAIN Tail(batch) = 1 .. Len(batch) - 1
      /\ \A k \in 1 .. Len(batch) - 1 : Tail(batch)[k] = batch[k + 1]
  BY <1>0, TailOfBatch
<1>2. /\ Len(submitQueue) \in Nat /\ Cardinality(Submitting) \in Nat
      /\ staleDrops \in Nat /\ submitDrops \in Nat /\ discarded \in Nat
      /\ Tail(batch) \in Seq(PendingSubmit)
  BY <1>0, LenProperties, SubmittingCount, TakeHeadType DEF TypeOK
<1>3. /\ UNCHANGED <<submitQueue, workerVars, found, submitDrops, issued>>
      /\ Submitting' = Submitting /\ InHand' = InHand
  BY DEF NetSendStale, NetSendOk, NetSendFail, Submitting, InHand
<1>4. /\ OfSeq(Tail(batch)) \subseteq OfSeq(batch) /\ head \in OfSeq(batch)
      /\ OfSeq(batch) \subseteq OfSeq(Tail(batch)) \cup {head}
  <2>1. OfSeq(Tail(batch)) \subseteq OfSeq(batch)
    BY <1>1 DEF OfSeq
  <2>2. ASSUME NEW k \in DOMAIN batch
        PROVE  Share(batch[k].find, batch[k].job)
                 \in OfSeq(Tail(batch)) \cup {head}
    <3>1. CASE k # 1
      <4>1. /\ k - 1 \in DOMAIN Tail(batch)
            /\ Tail(batch)[k - 1] = batch[(k - 1) + 1] /\ (k - 1) + 1 = k
        BY <1>1, <3>1
      <4>2. QED
        BY <4>1 DEF OfSeq
    <3>2. QED
      BY <3>1
  <2>3. 1 \in DOMAIN batch
    BY <1>1
  <2>4. QED
    BY <2>1, <2>2, <2>3 DEF OfSeq
<1> HIDE DEF head
<1>5. head \in Pending
  BY <1>4 DEF Pending
<1>6. IsFiniteSet({head}) /\ Cardinality({head}) = 1
  BY FS_Singleton
<1>7. ASSUME batch' = Tail(batch)
      PROVE  /\ Pending' \subseteq Pending
             /\ Pending \subseteq Pending' \cup {head}
             /\ InFlight' = InFlight - 1
  <2>1. Pending' \subseteq Pending /\ Pending \subseteq Pending' \cup {head}
    BY <1>3, <1>4, <1>7 DEF Pending
  <2>2. InFlight' = InFlight - 1
    BY <1>1, <1>2, <1>3, <1>7 DEF InFlight
  <2>3. QED
    BY <2>1, <2>2
<1>8. CASE NetSendStale
  <2>1. batch' = Tail(batch)
    BY <1>8 DEF NetSendStale
  <2>2. GivesUp(1)
    BY <1>2, <1>7, <1>8, <2>1 DEF NetSendStale, GivesUp
  <2>3. QED
    BY <1>3, <1>6, <1>7, <2>1, <2>2, SharesGivenUp
<1>9. CASE NetSendOk
  <2>1. /\ batch' = Tail(batch) /\ submitted' = submitted + 1
        /\ UNCHANGED <<staleDrops, sendFails, discarded>>
    BY <1>9 DEF NetSendOk
  <2>2. /\ Pending' \in SUBSET Pending /\ IsFiniteSet(Pending)
        /\ Pending \subseteq Pending' \cup {head}
        /\ Cardinality(Pending') <= Cardinality(Pending) - 1
    BY <1>7, <2>1 DEF LedgerInv, PendingBounded
  <2>3. /\ Cardinality(Pending') = Cardinality(Pending) - 1
        /\ Cardinality(Pending) \in Nat
    BY <1>6, <2>2, ExactLoss, FS_CardinalityType
  <2>4. Pending' = Pending \ {head}
    <3>1. Pending' # Pending
      BY <2>3
    <3>2. QED
      BY <1>7, <2>1, <3>1
  <2>5. LedgerInv'
    BY <1>3, <1>7, <2>1, <2>3, <2>4 DEF LedgerInv
  <2>6. head.job \in issued
    BY <1>0, <1>1, <1>9, HeadIsIssued DEF NetSendOk, head, Share
  <2>7. Delivery!Send(head)
    <3>1. (staleDrops + submitDrops + discarded)'
            = staleDrops + submitDrops + discarded
      BY <1>3, <2>1
    <3>2. QED
      BY <1>3, <2>1, <2>4, <2>6, <3>1 DEF Delivery!Send
  <2>8. QED
    BY <1>5, <2>5, <2>7 DEF LedgerStep, Delivery!Next
<1>10. CASE NetSendFail
  <2> DEFINE lost == (Pending \ Pending') \ {head}
  <2>1. /\ batch' = <<>> /\ sendFails' = sendFails + 1
        /\ discarded' = discarded + (Len(batch) - 1)
        /\ UNCHANGED <<staleDrops, submitted>>
    BY <1>1, <1>10 DEF NetSendFail
  <2>2. OfSeq(batch') = {} /\ Len(batch') = 0
    BY <2>1, EmptySeq DEF OfSeq
  <2>3. /\ Pending' \subseteq Pending
        /\ Pending \subseteq Pending' \cup OfSeq(batch)
        /\ InFlight' = InFlight - Len(batch)
    <3>1. Pending' \subseteq Pending /\ Pending \subseteq Pending' \cup OfSeq(batch)
      BY <1>3, <2>2 DEF Pending
    <3>2. InFlight' = InFlight - Len(batch)
      BY <1>1, <1>2, <1>3, <2>2 DEF InFlight
    <3>3. QED
      BY <3>1, <3>2
  <2>4. /\ Pending' \in SUBSET Pending /\ IsFiniteSet(Pending)
        /\ Pending \subseteq Pending' \cup OfSeq(batch) /\ Len(batch) \in Nat
        /\ Cardinality(Pending') <= Cardinality(Pending) - Len(batch)
        /\ IsFiniteSet(OfSeq(batch)) /\ Cardinality(OfSeq(batch)) <= Len(batch)
    BY <1>1, <2>3, OfSeqCount DEF LedgerInv, PendingBounded, TypeOK
  <2>5. /\ IsFiniteSet(OfSeq(Tail(batch)))
        /\ Cardinality(OfSeq(Tail(batch))) <= Len(batch) - 1
        /\ Cardinality(OfSeq(Tail(batch))) \in Nat
    BY <1>1, <1>2, OfSeqCount
  <2>6. /\ Cardinality(Pending') = Cardinality(Pending) - Len(batch)
        /\ IsFiniteSet(Pending \ Pending')
        /\ Cardinality(Pending \ Pending') = Len(batch)
    <3> DEFINE n == Len(batch)  all == OfSeq(batch)
    <3>1. /\ n \in Nat /\ IsFiniteSet(all) /\ Cardinality(all) <= n
          /\ Pending \subseteq Pending' \cup all
          /\ Cardinality(Pending') <= Cardinality(Pending) - n
      BY <2>4
    <3> HIDE DEF n, all
    <3>2. /\ Cardinality(Pending') = Cardinality(Pending) - n
          /\ IsFiniteSet(Pending \ Pending') /\ Cardinality(Pending \ Pending') = n
      BY <2>4, <3>1, ExactLoss
    <3>3. QED
      BY <3>2 DEF n
  <2>7. head \in Pending \ Pending'
    <3> SUFFICES ASSUME head \in Pending' PROVE FALSE
      BY <1>5
    <3>1. Pending \ Pending' \in SUBSET OfSeq(Tail(batch))
      BY <1>4, <2>3
    <3>2. Cardinality(Pending \ Pending') <= Cardinality(OfSeq(Tail(batch)))
      BY <2>5, <3>1, FS_Subset
    <3>3. QED
      BY <1>1, <2>5, <2>6, <3>2
  <2>8. Cardinality(lost) = Len(batch) - 1
    BY <2>6, <2>7, FS_RemoveElement
  <2>9. lost \in SUBSET (Pending \ {head}) /\ Pending' = Pending \ ({head} \cup lost)
    BY <2>3, <2>7
  <2>10. (staleDrops + submitDrops + discarded)'
           = staleDrops + submitDrops + discarded + (Len(batch) - 1)
    BY <1>1, <1>2, <1>3, <2>1
  <2> HIDE DEF lost
  <2>11. Delivery!Settle({head})
    BY <2>8, <2>9, <2>10 DEF Delivery!Settle, Delivery!Cardinality, Cardinality
  <2>12. LedgerInv'
    BY <1>3, <2>3, <2>6 DEF LedgerInv
  <2>13. head.job \in issued
    BY <1>0, <1>1, <1>10, HeadIsIssued DEF NetSendFail, head, Share
  <2>14. Delivery!SendFails(head)
    BY <1>3, <2>1, <2>11, <2>13 DEF Delivery!SendFails
  <2>15. QED
    BY <1>5, <2>12, <2>14 DEF LedgerStep, Delivery!Next
<1>11. QED
  BY <1>8, <1>9, <1>10

LEMMA LedgerNetStep ==
  ASSUME TypeOK, DrainInv, EpochNamesJob, LedgerInv, PendingBounded,
         PendingBounded', NetNext
  PROVE  LedgerStep
<1> USE DEF NetGoto
<1>1. CASE ClearQueue /\ \/ NetLoop \/ NetDialFail \/ NetDialOk
                         \/ NetDrainNoJob \/ NetClose \/ NetFinal
  <2>1. /\ UNCHANGED <<batch, workerVars, found, submitDrops, submitted,
                       sendFails, discarded>>
        /\ issued' = issued \/ issued' = {}
    BY <1>1 DEF NetLoop, NetDialFail, NetDialOk, OpenSession, NetDrainNoJob,
       NetClose, NetFinal
  <2>2. QED
    BY <1>1, <2>1, LedgerClearQueue
<1>2. CASE NetSendStale \/ NetSendOk \/ NetSendFail
  BY <1>2, LedgerSend
<1>3. CASE NetDrain
  <2>1. /\ batch = <<>> /\ batch' = submitQueue /\ submitQueue' = <<>>
        /\ UNCHANGED <<workerVars, counters, discarded, issued>>
    BY <1>3 DEF NetDrain, TypeOK
  <2>2. Submitting' = Submitting /\ InHand' = InHand
    BY <2>1 DEF Submitting, InHand
  <2>3. OfSeq(<<>>) = {} /\ Len(<<>>) = 0
    BY EmptySeq DEF OfSeq
  <2>4. Pending' = Pending
    BY <2>1, <2>2, <2>3 DEF Pending
  <2>5. InFlight' = InFlight
    BY <2>1, <2>2, <2>3, LenProperties, SubmittingCount DEF InFlight, TypeOK
  <2>6. QED
    BY <2>1, <2>4, <2>5, SharesStay
<1>4. ASSUME NEW j \in Jobs, NetReadJob(j) PROVE LedgerStep
  <2>1. /\ UNCHANGED <<batch, submitQueue, workerVars, counters, discarded>>
        /\ issued' = issued \cup {j}
    BY <1>4 DEF NetReadJob
  <2>2. Pending' = Pending /\ InFlight' = InFlight
    BY <2>1 DEF Pending, InHand, Submitting, InFlight
  <2>3. LedgerInv'
    BY <2>1, <2>2 DEF LedgerInv
  <2>4. Delivery!Issue(j)
    BY <2>1, <2>2 DEF Delivery!Issue, Delivery!ledger
  <2>5. QED
    BY <2>3, <2>4 DEF LedgerStep, Delivery!Next
<1>5. CASE UNCHANGED <<batch, submitQueue, workerVars, counters, discarded,
                       issued>>
  <2>1. Pending' = Pending /\ InFlight' = InFlight
    BY <1>5 DEF Pending, InHand, Submitting, InFlight
  <2>2. QED
    BY <1>5, <2>1, SharesStay
<1>6. QED
  BY <1>1, <1>2, <1>3, <1>4, <1>5 DEF NetNext, NetInit, NetLoop, NetDialFail,
     NetDialOk, NetSession, NetReadNoJob, NetDrainNoJob, NetBatchDone,
     NetClose, NetBackoff, NetFinal, Cleanup

(* The threads of the miner implement ShareDelivery: every find is settled  *)
(* exactly once, and offered to the daemon only on a session that issued    *)
(* its job, whatever the interleaving.                                      *)
THEOREM MinerDelivers == Spec => ImplementsDelivery
<1> DEFINE Inv == DrainInv /\ RealJobs /\ LedgerInv
<1>1. Init => Inv /\ Delivery!Init
  <2> SUFFICES ASSUME Init PROVE Inv /\ Delivery!Init
    OBVIOUS
  <2>1. Submitting = {} /\ OfSeq(<<>>) = {} /\ Len(<<>>) = 0
    BY EmptySeq DEF Init, Submitting, OfSeq
  <2>2. Pending = {} /\ InFlight = 0 /\ Cardinality({}) = 0
    BY <2>1, FS_EmptySet DEF Init, Pending, InHand, InFlight
  <2>3. DrainInv /\ RealJobs /\ LedgerInv
    BY <2>2 DEF Init, DrainInv, RealJobs, LedgerInv
  <2>4. Delivery!Init
    BY <2>2 DEF Init, Delivery!Init
  <2>5. QED
    BY <2>3, <2>4
<1>2. /\ TypeOK /\ EpochNamesJob /\ PendingBounded /\ PendingBounded'
      /\ Inv /\ [Next]_vars
      => Inv' /\ [Delivery!Next]_(Delivery!vars)
  <2> SUFFICES ASSUME TypeOK, EpochNamesJob, PendingBounded, PendingBounded',
                      Inv, [Next]_vars
               PROVE  Inv' /\ [Delivery!Next]_(Delivery!vars)
    OBVIOUS
  <2>1. DrainInv' /\ RealJobs'
    BY DrainInvStep, RealJobsStep
  <2>2. LedgerStep
    <3>1. CASE \E w \in Workers : WorkerNext(w)
      BY <3>1, LedgerWorkerStep
    <3>2. CASE NetNext
      BY <3>2, LedgerNetStep
    <3>3. CASE Signal \/ ReporterExit \/ MainJoin \/ UNCHANGED vars
      <4>1. UNCHANGED <<batch, submitQueue, workerVars, counters, discarded,
                        issued>>
        BY <3>3 DEF Signal, ReporterExit, MainJoin, vars
      <4>2. Pending' = Pending /\ InFlight' = InFlight
        BY <4>1 DEF Pending, InHand, Submitting, InFlight
      <4>3. QED
        BY <4>1, <4>2, SharesStay
    <3>4. QED
      BY <3>1, <3>2, <3>3 DEF Next, Exited
  <2>3. QED
    BY <2>1, <2>2 DEF LedgerStep
<1> HIDE DEF Inv
<1>3. QED
  BY <1>1, <1>2, TypeCorrect, EpochNamesOneJob, PendingCount, PTL
     DEF Spec, ImplementsDelivery, Delivery!Spec
=============================================================================
