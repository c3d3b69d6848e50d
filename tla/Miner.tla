------------------------------- MODULE Miner -------------------------------
(***************************************************************************)
(* The threads of the miner and the state they share (MinerState G):       *)
(* the network thread, the mining workers, the reporter and main.          *)
(*                                                                         *)
(* A share is found by a worker, passes two stale gates, is queued under   *)
(* submitMutex, and is drained to the wire by the network thread, whose    *)
(* session with the daemon may die at any point and be replaced.           *)
(*                                                                         *)
(* Grain of atomicity: one action per lock-protected region and per read   *)
(* or write of an atomic that another thread can observe.  jobEpoch is     *)
(* written without submitMutex, so a job change may fall between gate 2    *)
(* and the push that gate 2 protects.                                      *)
(***************************************************************************)
EXTENDS Integers, Sequences, FiniteSets

CONSTANTS
  Workers,        \* mining threads
  Jobs,           \* work the daemon may issue: blob, jobid, height, difficulty
  ZeroDiffJobs,   \* the jobs whose difficulty field reads as 0
  NoJob,          \* job state before the first job
  Net,            \* the network thread, as an owner of submitMutex
  NoOne,          \* submitMutex is free
  QueueMax,       \* SUBMIT_QUEUE_MAX
  MaxEpoch,       \* bound: job changes explored
  MaxFound        \* bound: shares found

ASSUME WorkersAssumption == /\ Workers # {} /\ IsFiniteSet(Workers)
                            /\ Net \notin Workers /\ NoOne \notin Workers
                            /\ Net # NoOne
ASSUME JobsAssumption == /\ Jobs # {} /\ NoJob \notin Jobs
                         /\ ZeroDiffJobs \subseteq Jobs
ASSUME BoundsAssumption == /\ QueueMax \in Nat \ {0}
                           /\ MaxEpoch \in Nat /\ MaxFound \in Nat

VARIABLES
  quit,           \* G.quit
  connected,      \* G.connected
  job,            \* G.blob, G.jobId, G.height, G.difficulty (under jobMutex)
  jobEpoch,       \* G.jobEpoch
  submitQueue,    \* G.submitQueue
  submitMutex,    \* owner of G.submitMutex, or NoOne
  found, enqueued, submitted, staleDrops, submitDrops, sendFails,
  netPc,          \* where the network thread is
  sessionHasJob,  \* g_session_has_job
  batch,          \* submit_share()'s local batch, what is left of it
  curEpoch,       \* submit_share()'s curEpoch
  workerPc,       \* where each worker is
  wJob, wEpoch,   \* a worker's snapshot of the job
  rptPc,          \* the reporter thread
  mainPc,         \* the thread main is joining
  \* history variables, read by no guard
  carried,        \* which find a worker is submitting, 0 if none
  issued,         \* jobs the daemon has issued on this session
  settledSeq,     \* sequence number of the last share the drain settled
  discarded       \* shares dropped with the tail of a batch

jobVars     == <<job, jobEpoch>>
counters    == <<found, enqueued, submitted, staleDrops, submitDrops, sendFails>>
queueVars   == <<submitQueue, submitMutex>>
sessionVars == <<connected, sessionHasJob, issued>>
drainVars   == <<batch, curEpoch, settledSeq, discarded>>
workerVars  == <<workerPc, wJob, wEpoch, carried>>
mainVars    == <<rptPc, mainPc>>
vars == <<quit, jobVars, counters, queueVars, sessionVars, drainVars,
          netPc, workerVars, mainVars>>

\* PendingSubmit.  find and seq are history: the values of `found` after the
\* find and of `enqueued` after the push.
PendingSubmit == [job : Jobs \cup {NoJob}, epoch : Nat, find : Nat, seq : Nat]

NetPcs    == {"init", "loop", "dial", "recv", "read", "drain", "send",
              "close", "backoff", "final", "done"}
WorkerPcs == {"start", "wait", "snap", "poll", "hash", "gate1", "gate2",
              "push", "done"}
MainPcs   == {"miners", "net", "rpt", "done"}

Init ==
  /\ quit = FALSE /\ connected = FALSE
  /\ job = NoJob /\ jobEpoch = 0
  /\ submitQueue = <<>> /\ submitMutex = NoOne
  /\ found = 0 /\ enqueued = 0 /\ submitted = 0
  /\ staleDrops = 0 /\ submitDrops = 0 /\ sendFails = 0
  /\ netPc = "init" /\ sessionHasJob = FALSE
  /\ batch = <<>> /\ curEpoch = 0
  /\ workerPc = [w \in Workers |-> "start"]
  /\ wJob = [w \in Workers |-> NoJob] /\ wEpoch = [w \in Workers |-> 0]
  /\ carried = [w \in Workers |-> 0]
  /\ rptPc = "run" /\ mainPc = "miners"
  /\ issued = {} /\ settledSeq = 0 /\ discarded = 0
-----------------------------------------------------------------------------
(* Signals: on_signal() sets quit and nothing else. *)
Signal ==
  /\ ~quit
  /\ quit' = TRUE
  /\ UNCHANGED <<jobVars, counters, queueVars, sessionVars, drainVars, netPc,
                 workerVars, mainVars>>
-----------------------------------------------------------------------------
(* Mining workers: mine_thread() and its submit_share(). *)

WorkerGoto(w, from, to) ==
  /\ workerPc[w] = from
  /\ workerPc' = [workerPc EXCEPT ![w] = to]

\* The worker's allocation succeeds, or fails and the thread returns.
WorkerStart(w) ==
  /\ \E to \in {"wait", "done"} : WorkerGoto(w, "start", to)
  /\ UNCHANGED <<quit, jobVars, counters, queueVars, sessionVars, drainVars,
                 netPc, wJob, wEpoch, carried, mainVars>>

\* The wait for the first valid job, which quit ends too.
WaitOverIgnoringQuit == connected /\ jobEpoch > 0 /\ job \notin ZeroDiffJobs
WaitOver == quit \/ (connected /\ jobEpoch > 0 /\ job \notin ZeroDiffJobs)

WorkerReady(w) ==
  /\ WaitOver
  /\ WorkerGoto(w, "wait", "snap")
  /\ UNCHANGED <<quit, jobVars, counters, queueVars, sessionVars, drainVars,
                 netPc, wJob, wEpoch, carried, mainVars>>

\* Head of the outer loop: quit, or snapshot the job under jobMutex.
WorkerSnapshot(w) ==
  /\ IF quit
     THEN /\ WorkerGoto(w, "snap", "done")
          /\ UNCHANGED <<wJob, wEpoch>>
     ELSE /\ WorkerGoto(w, "snap", "poll")
          /\ wJob' = [wJob EXCEPT ![w] = job]
          /\ wEpoch' = [wEpoch EXCEPT ![w] = jobEpoch]
  /\ UNCHANGED <<quit, jobVars, counters, queueVars, sessionVars, drainVars,
                 netPc, carried, mainVars>>

\* Head of the inner loop: quit, abandon replaced work, or hash.
NextAfterPollIgnoringEpoch(w) == IF quit THEN "done" ELSE "hash"
NextAfterPoll(w) == IF quit THEN "done"
                    ELSE IF jobEpoch # wEpoch[w] THEN "snap"
                    ELSE "hash"

WorkerPoll(w) ==
  /\ WorkerGoto(w, "poll", NextAfterPoll(w))
  /\ UNCHANGED <<quit, jobVars, counters, queueVars, sessionVars, drainVars,
                 netPc, wJob, wEpoch, carried, mainVars>>

\* The hash is above the target.
WorkerMiss(w) ==
  /\ WorkerGoto(w, "hash", "poll")
  /\ UNCHANGED <<quit, jobVars, counters, queueVars, sessionVars, drainVars,
                 netPc, wJob, wEpoch, carried, mainVars>>

\* check_hash() accepts: the find is counted before any gate.
WorkerHit(w) ==
  /\ found < MaxFound
  /\ WorkerGoto(w, "hash", "gate1")
  /\ found' = found + 1
  /\ carried' = [carried EXCEPT ![w] = found + 1]
  /\ UNCHANGED <<quit, jobVars, enqueued, submitted, staleDrops, submitDrops,
                 sendFails, queueVars, sessionVars, drainVars, netPc, wJob,
                 wEpoch, mainVars>>

\* Where a worker goes after a share: the other nonce of an x2 pair, or a
\* round whose job poll is masked by DLUNA_JOB_POLL, hashes without polling.
AfterShare == {"poll", "hash"}

\* Stale gate 1, before the blob is serialised.
WorkerGate1(w) ==
  /\ \/ /\ jobEpoch = wEpoch[w]
        /\ WorkerGoto(w, "gate1", "gate2")
        /\ UNCHANGED <<staleDrops, carried>>
     \/ /\ jobEpoch # wEpoch[w]
        /\ \E to \in AfterShare : WorkerGoto(w, "gate1", to)
        /\ staleDrops' = staleDrops + 1
        /\ carried' = [carried EXCEPT ![w] = 0]
  /\ UNCHANGED <<quit, jobVars, found, enqueued, submitted, submitDrops,
                 sendFails, queueVars, sessionVars, drainVars, netPc, wJob,
                 wEpoch, mainVars>>

\* submitMutex is taken and gate 2 reads the epoch again.
WorkerGate2(w) ==
  /\ submitMutex = NoOne
  /\ \/ /\ jobEpoch = wEpoch[w]
        /\ WorkerGoto(w, "gate2", "push")
        /\ submitMutex' = w
        /\ UNCHANGED <<staleDrops, carried>>
     \/ /\ jobEpoch # wEpoch[w]
        /\ \E to \in AfterShare : WorkerGoto(w, "gate2", to)
        /\ staleDrops' = staleDrops + 1
        /\ carried' = [carried EXCEPT ![w] = 0]
        /\ UNCHANGED submitMutex
  /\ UNCHANGED <<quit, jobVars, found, enqueued, submitted, submitDrops,
                 sendFails, submitQueue, sessionVars, drainVars, netPc, wJob,
                 wEpoch, mainVars>>

\* dluna_submit_enqueue(): a full queue loses its oldest entry.
FullOffByOne == Len(submitQueue) > QueueMax
Full == Len(submitQueue) >= QueueMax

EvictNewest == SubSeq(submitQueue, 1, Len(submitQueue) - 1)
Evict == Tail(submitQueue)

Enqueue(w) ==
  LET item == [job |-> wJob[w], epoch |-> wEpoch[w], find |-> carried[w],
               seq |-> enqueued + 1]
  IN /\ submitQueue' = Append(IF Full THEN Evict ELSE submitQueue, item)
     /\ submitDrops' = IF Full THEN submitDrops + 1 ELSE submitDrops
     /\ enqueued' = enqueued + 1

\* The push, still under submitMutex, which the return releases.
WorkerPush(w) ==
  /\ submitMutex = w
  /\ \E to \in AfterShare : WorkerGoto(w, "push", to)
  /\ Enqueue(w)
  /\ submitMutex' = NoOne
  /\ carried' = [carried EXCEPT ![w] = 0]
  /\ UNCHANGED <<quit, jobVars, found, submitted, staleDrops, sendFails,
                 sessionVars, drainVars, netPc, wJob, wEpoch, mainVars>>
-----------------------------------------------------------------------------
(* The network thread: network_thread(), ws_connect(), handle_job() and the *)
(* drain submit_share().                                                    *)

NetGoto(from, to) == netPc = from /\ netPc' = to

\* Every queued share is counted stale and dropped.
ClearQueueUncounted ==
  /\ submitMutex = NoOne
  /\ submitQueue' = <<>>
  /\ UNCHANGED <<submitMutex, staleDrops>>

ClearQueue ==
  /\ submitMutex = NoOne
  /\ staleDrops' = staleDrops + Len(submitQueue)
  /\ submitQueue' = <<>>
  /\ UNCHANGED submitMutex

\* cleanup(): the connection is closed and the queue cleared.
Cleanup ==
  /\ connected' = FALSE
  /\ ClearQueue

\* ssl_init() succeeds, or fails and the thread returns with no cleanup.
NetInit ==
  /\ \E to \in {"loop", "done"} : NetGoto("init", to)
  /\ UNCHANGED <<quit, jobVars, counters, queueVars, sessionVars, drainVars,
                 workerVars, mainVars>>

\* while (!quit): leave, or enter ws_connect(), whose first step is cleanup().
NetLoop ==
  /\ \/ /\ quit
        /\ NetGoto("loop", "final")
        /\ UNCHANGED <<staleDrops, queueVars, connected>>
     \/ /\ ~quit
        /\ NetGoto("loop", "dial")
        /\ Cleanup
  /\ UNCHANGED <<quit, jobVars, found, enqueued, submitted, submitDrops,
                 sendFails, sessionHasJob, issued, drainVars, workerVars,
                 mainVars>>

\* The dial fails: DNS and TCP failures return at once, TLS and upgrade
\* failures run cleanup() first.
NetDialFail ==
  /\ \/ UNCHANGED <<staleDrops, queueVars, connected>>
     \/ Cleanup
  /\ NetGoto("dial", "backoff")
  /\ UNCHANGED <<quit, jobVars, found, enqueued, submitted, submitDrops,
                 sendFails, sessionHasJob, issued, drainVars,
                 workerVars, mainVars>>

\* A session opens with no job of its own.
OpenSessionKeepingJob == connected' = TRUE /\ issued' = {} /\ UNCHANGED sessionHasJob
OpenSession == connected' = TRUE /\ issued' = {} /\ sessionHasJob' = FALSE

\* The upgrade is accepted: what was staged during the dial is dropped.
NetDialOk ==
  /\ NetGoto("dial", "recv")
  /\ ClearQueue
  /\ OpenSession
  /\ UNCHANGED <<quit, jobVars, found, enqueued, submitted, submitDrops,
                 sendFails, drainVars, workerVars, mainVars>>

\* Head of the session loop.
NetSession ==
  /\ NetGoto("recv", IF quit THEN "close" ELSE "read")
  /\ UNCHANGED <<quit, jobVars, counters, queueVars, sessionVars, drainVars,
                 workerVars, mainVars>>

\* The read fails, or it times out or brings a frame with no job in it.
NetReadNoJob ==
  /\ \E to \in {"close", "drain"} : NetGoto("read", to)
  /\ UNCHANGED <<quit, jobVars, counters, queueVars, sessionVars, drainVars,
                 workerVars, mainVars>>

\* handle_job(): the epoch moves only when the work differs.
WorkChangedFirstOnly(j) == job = NoJob
WorkChanged(j) == j # job

NetReadJob(j) ==
  /\ WorkChanged(j) => jobEpoch < MaxEpoch
  /\ NetGoto("read", "drain")
  /\ job' = j
  /\ jobEpoch' = IF WorkChanged(j) THEN jobEpoch + 1 ELSE jobEpoch
  /\ sessionHasJob' = TRUE
  /\ issued' = issued \cup {j}
  /\ UNCHANGED <<quit, counters, queueVars, connected, drainVars,
                 workerVars, mainVars>>

\* Drain on a session with no job yet: whatever is queued is stale.
NetDrainNoJobKeeping ==
  /\ ~sessionHasJob
  /\ NetGoto("drain", "recv")
  /\ UNCHANGED <<quit, jobVars, counters, queueVars, sessionVars, drainVars,
                 workerVars, mainVars>>

NetDrainNoJob ==
  /\ ~sessionHasJob
  /\ NetGoto("drain", "recv")
  /\ ClearQueue
  /\ UNCHANGED <<quit, jobVars, found, enqueued, submitted, submitDrops,
                 sendFails, sessionVars, drainVars, workerVars, mainVars>>

\* Drain: the queue is swapped out whole, then the epoch is read once.
NetDrain ==
  /\ sessionHasJob
  /\ submitMutex = NoOne
  /\ NetGoto("drain", IF submitQueue = <<>> THEN "recv" ELSE "send")
  /\ batch' = submitQueue
  /\ submitQueue' = <<>>
  /\ curEpoch' = IF submitQueue = <<>> THEN curEpoch ELSE jobEpoch
  /\ UNCHANGED <<quit, jobVars, counters, submitMutex, sessionVars, settledSeq,
                 discarded, workerVars, mainVars>>

\* One turn of the batch loop takes the oldest share off the batch.
TakeHead ==
  /\ netPc = "send"
  /\ batch # <<>>
  /\ settledSeq' = Head(batch).seq

NetSendStale ==
  /\ TakeHead
  /\ Head(batch).epoch # curEpoch
  /\ batch' = Tail(batch)
  /\ staleDrops' = staleDrops + 1
  /\ UNCHANGED <<quit, jobVars, found, enqueued, submitted, submitDrops,
                 sendFails, queueVars, sessionVars, curEpoch, discarded, netPc,
                 workerVars, mainVars>>

NetSendOk ==
  /\ TakeHead
  /\ Head(batch).epoch = curEpoch
  /\ batch' = Tail(batch)
  /\ submitted' = submitted + 1
  /\ UNCHANGED <<quit, jobVars, found, enqueued, staleDrops, submitDrops,
                 sendFails, queueVars, sessionVars, curEpoch, discarded, netPc,
                 workerVars, mainVars>>

\* The socket is dead: the rest of the batch goes with it, uncounted.
NetSendFail ==
  /\ TakeHead
  /\ Head(batch).epoch = curEpoch
  /\ netPc' = "close"
  /\ batch' = <<>>
  /\ sendFails' = sendFails + 1
  /\ discarded' = discarded + Len(Tail(batch))
  /\ UNCHANGED <<quit, jobVars, found, enqueued, submitted, staleDrops,
                 submitDrops, queueVars, sessionVars, curEpoch, workerVars,
                 mainVars>>

NetBatchDone ==
  /\ batch = <<>>
  /\ NetGoto("send", "recv")
  /\ UNCHANGED <<quit, jobVars, counters, queueVars, sessionVars, drainVars,
                 workerVars, mainVars>>

\* cleanup() after the session, then the backoff unless quit.
NetClose ==
  /\ NetGoto("close", "backoff")
  /\ Cleanup
  /\ UNCHANGED <<quit, jobVars, found, enqueued, submitted, submitDrops,
                 sendFails, sessionHasJob, issued, drainVars,
                 workerVars, mainVars>>

\* backoff_sleep() ends, on time or early because of quit.
NetBackoff ==
  /\ NetGoto("backoff", "loop")
  /\ UNCHANGED <<quit, jobVars, counters, queueVars, sessionVars, drainVars,
                 workerVars, mainVars>>

\* The last cleanup() of the thread; nothing drains the queue after it.
NetFinal ==
  /\ NetGoto("final", "done")
  /\ Cleanup
  /\ UNCHANGED <<quit, jobVars, found, enqueued, submitted, submitDrops,
                 sendFails, sessionHasJob, issued, drainVars,
                 workerVars, mainVars>>
-----------------------------------------------------------------------------
(* The reporter, and main, which joins the miners, then net, then rpt. *)

ReporterExit ==
  /\ quit /\ rptPc = "run"
  /\ rptPc' = "done"
  /\ UNCHANGED <<quit, jobVars, counters, queueVars, sessionVars, drainVars,
                 netPc, workerVars, mainPc>>

MainJoin ==
  /\ \/ mainPc = "miners" /\ (\A w \in Workers : workerPc[w] = "done")
                          /\ mainPc' = "net"
     \/ mainPc = "net" /\ netPc = "done" /\ mainPc' = "rpt"
     \/ mainPc = "rpt" /\ rptPc = "done" /\ mainPc' = "done"
  /\ UNCHANGED <<quit, jobVars, counters, queueVars, sessionVars, drainVars,
                 netPc, workerVars, rptPc>>
-----------------------------------------------------------------------------
WorkerNext(w) ==
  \/ WorkerStart(w) \/ WorkerReady(w) \/ WorkerSnapshot(w) \/ WorkerPoll(w)
  \/ WorkerMiss(w) \/ WorkerHit(w) \/ WorkerGate1(w) \/ WorkerGate2(w)
  \/ WorkerPush(w)

NetNext ==
  \/ NetInit \/ NetLoop \/ NetDialFail \/ NetDialOk
  \/ NetSession \/ NetReadNoJob \/ (\E j \in Jobs : NetReadJob(j))
  \/ NetDrainNoJob \/ NetDrain
  \/ NetSendStale \/ NetSendOk \/ NetSendFail \/ NetBatchDone
  \/ NetClose \/ NetBackoff \/ NetFinal

\* main has printed its summary and returned.
Exited == mainPc = "done" /\ UNCHANGED vars

Next ==
  \/ Signal
  \/ \E w \in Workers : WorkerNext(w)
  \/ NetNext
  \/ ReporterExit
  \/ MainJoin
  \/ Exited

Spec == Init /\ [][Next]_vars
=============================================================================
