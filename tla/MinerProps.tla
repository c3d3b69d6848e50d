----------------------------- MODULE MinerProps -----------------------------
(* What must hold of the threads of Miner. *)
EXTENDS Miner

(* A worker between the find and the end of its submit_share(). *)
Submitting == {w \in Workers : workerPc[w] \in {"gate1", "gate2", "push"}}

(* Every share that has passed the gates and is not settled, oldest first. *)
InLine == batch \o submitQueue

-----------------------------------------------------------------------------
(* Types.  The queue never exceeds SUBMIT_QUEUE_MAX, submitMutex is held by *)
(* exactly the worker that is pushing, and there is a batch only while the  *)
(* drain is sending it.                                                     *)
TypeOK ==
  /\ quit \in BOOLEAN /\ connected \in BOOLEAN /\ sessionHasJob \in BOOLEAN
  /\ job \in Jobs \cup {NoJob} /\ jobEpoch \in Nat /\ curEpoch \in Nat
  /\ submitQueue \in Seq(PendingSubmit) /\ Len(submitQueue) <= QueueMax
  /\ batch \in Seq(PendingSubmit)
  /\ batch # <<>> => netPc = "send"
  /\ found \in Nat /\ enqueued \in Nat /\ submitted \in Nat
  /\ staleDrops \in Nat /\ submitDrops \in Nat /\ sendFails \in Nat
  /\ netPc \in NetPcs
  /\ workerPc \in [Workers -> WorkerPcs]
  /\ wJob \in [Workers -> Jobs \cup {NoJob}] /\ wEpoch \in [Workers -> Nat]
  /\ carried \in [Workers -> Nat]
  /\ submitMutex \in Workers \cup {NoOne}
  /\ \A w \in Workers : submitMutex = w <=> workerPc[w] = "push"
  /\ rptPc \in {"run", "done"} /\ mainPc \in MainPcs
  /\ issued \subseteq Jobs /\ settledSeq \in Nat /\ discarded \in Nat

(* The share funnel, as the code really keeps it: every find is in exactly  *)
(* one of the four counters, or still on its way (in a worker's hands, in   *)
(* the queue, in the batch), or went down uncounted with the tail of a      *)
(* batch whose connection died.  A share pushed after the last cleanup of   *)
(* the network thread (network.cpp:796) is in the queue for good.           *)
FunnelAccounting ==
  found = staleDrops + submitDrops + submitted + sendFails
            + Cardinality(Submitting) + Len(submitQueue) + Len(batch)
            + discarded

(* A job epoch names one job: whoever carries an epoch - the shared state,  *)
(* a worker's snapshot, a share in the queue or in the batch - carries the  *)
(* same job with it, and no epoch is ahead of the current one.  The stale   *)
(* gates compare epochs only, so they are worth nothing without this.       *)
Bindings ==
  {<<jobEpoch, job>>}
    \cup {<<wEpoch[w], wJob[w]>> : w \in Workers}
    \cup {<<submitQueue[i].epoch, submitQueue[i].job>> : i \in DOMAIN submitQueue}
    \cup {<<batch[i].epoch, batch[i].job>> : i \in DOMAIN batch}

EpochNamesJob ==
  /\ \A a, b \in Bindings : a[1] = b[1] => a[2] = b[2]
  /\ \A a \in Bindings : a[1] <= jobEpoch

(* First found, first sent, and sent at most once: what waits is in the     *)
(* order it was queued, nothing in it was settled before, and the queue is  *)
(* always the most recent finds, so an eviction only ever took the oldest.  *)
DeliveryOrder ==
  /\ \A i \in DOMAIN submitQueue :
       submitQueue[i].seq = enqueued - Len(submitQueue) + i
  /\ \A i, j \in DOMAIN InLine : i < j => InLine[i].seq < InLine[j].seq
  /\ \A i \in DOMAIN InLine : settledSeq < InLine[i].seq

(* A share is put on the wire only for the job now in force, on a session   *)
(* that has issued that very job: nothing found on a lost session is        *)
(* replayed to the daemon after a reconnect.                                *)
SentOnItsSession ==
  [][submitted' # submitted \/ sendFails' # sendFails
       => /\ Head(batch).job \in issued
          /\ Head(batch).job = job]_vars

-----------------------------------------------------------------------------
(* Scheduling.  Every thread that can take a step eventually takes one: a   *)
(* hash takes milliseconds, the reads and the dial carry timeouts and       *)
(* submitMutex is held for a push only.  Signals, jobs and finds come or    *)
(* do not.                                                                  *)
Fairness ==
  /\ WF_vars(NetNext)
  /\ \A w \in Workers : WF_vars(WorkerNext(w))
  /\ WF_vars(ReporterExit) /\ WF_vars(MainJoin)

FairSpec == Spec /\ Fairness

(* After the signal every thread leaves whatever it waits for and main      *)
(* joins them all.                                                          *)
QuitEndsAll == quit ~> mainPc = "done"

(* A queued share does not stay: it is sent, or dropped, or evicted, unless *)
(* the network thread itself has ended.                                     *)
Waiting(s) == \E i \in DOMAIN InLine : InLine[i].seq = s
QueuedShareLeaves ==
  \A s \in 1 .. MaxFound : Waiting(s) ~> (~Waiting(s) \/ netPc = "done")

(* A worker does not go on hashing work the daemon has replaced.            *)
Mining(w) == workerPc[w] \in {"poll", "hash", "gate1", "gate2", "push"}
ReplacedWorkAbandoned ==
  \A w \in Workers : \A e \in 1 .. MaxEpoch :
    (Mining(w) /\ wEpoch[w] < e /\ jobEpoch >= e)
      ~> (~Mining(w) \/ wEpoch[w] >= e)

-----------------------------------------------------------------------------
(* The finds not settled yet, each with its job: those in a worker's hands, *)
(* in the batch and in the queue.                                           *)
Share(find, forJob) == [find |-> find, job |-> forJob]
InHand == {Share(carried[w], wJob[w]) : w \in Submitting}
OfSeq(seq) == {Share(seq[i].find, seq[i].job) : i \in DOMAIN seq}

Pending == InHand \cup OfSeq(batch) \cup OfSeq(submitQueue)

Delivery == INSTANCE ShareDelivery WITH
  pending <- Pending,
  sent <- submitted,
  failed <- sendFails,
  dropped <- staleDrops + submitDrops + discarded

(* Every step of the miner is a step of ShareDelivery or leaves it alone.   *)
ImplementsDelivery == Delivery!Spec

-----------------------------------------------------------------------------
(* include/dluna.h:98 and main.cpp:628, of the totals main prints when no    *)
(* share is left in the queue: every find is in one of the four counters.   *)
FunnelIdentity ==
  mainPc = "done" /\ submitQueue = <<>> =>
    found = staleDrops + submitDrops + submitted + sendFails
=============================================================================
