----------------------------- MODULE MiningLoop -----------------------------
(***************************************************************************)
(* The hash loop of the workers (mine_thread), nonce by nonce: how the     *)
(* nonce space is divided, when a replaced job is noticed, and how hashes  *)
(* are counted.  Miner has the same threads with the loop abstracted; here *)
(* shares, queue and network are left out, and the network thread is one   *)
(* action that replaces the job.                                           *)
(***************************************************************************)
EXTENDS Integers

CONSTANTS
  Threads,      \* number of workers, tid \in 0 .. Threads - 1
  Span,         \* nonces between two workers' starting points (2^24)
  TidValues,    \* values of the blob's thread-id byte (256)
  LaneChoices,  \* nonces per round: 2 on the x2 SHA path, 1 otherwise
  PollPeriods,  \* values of job_poll_mask() + 1, powers of two
  FlushEvery,   \* hashes between two flushes of the local counters (64)
  MaxEpoch,     \* bound: jobs explored
  MaxRounds     \* bound: rounds on one snapshot

ASSUME ThreadsAssumption == Threads \in Nat \ {0}
ASSUME SpaceAssumption == Span \in Nat \ {0} /\ TidValues \in Nat \ {0}
ASSUME RoundAssumption ==
  /\ LaneChoices \subseteq {1, 2} /\ PollPeriods \subseteq Nat \ {0}
  /\ \A l \in LaneChoices, p \in PollPeriods : p % l = 0 \/ p = 1
  /\ \A l \in LaneChoices : Span % l = 0
  /\ \A p \in PollPeriods : (Span * TidValues) % p = 0
  /\ FlushEvery \in Nat \ {0} /\ \A l \in LaneChoices : FlushEvery % l = 0
ASSUME LoopBounds == MaxEpoch \in Nat /\ MaxRounds \in Nat

Tids == 0 .. Threads - 1
Pcs  == {"snap", "poll", "count", "hash", "done"}
NonceValues == Span * TidValues       \* 2^32: the nonce is a uint32_t

VARIABLES
  lanes, pollPeriod,        \* chosen once: CPU and DLUNA_JOB_POLL_MASK
  quit, jobEpoch,           \* G.quit, G.jobEpoch
  totalHashes, staleHashesObserved,
  pc,                       \* where each worker is
  epoch, nonce,             \* the snapshot's epoch, the last nonce used
  localHashCount, localStale,
  \* history
  rounds,                   \* rounds done on the snapshot
  hashed,                   \* hashes computed by the worker
  staleHashed,              \* of those, since the snapshot was replaced
  tried,                    \* <<epoch, nonce, thread byte>> already hashed
  repeated                  \* a combination was hashed twice

config == <<lanes, pollPeriod>>
shared == <<config, quit, jobEpoch>>
totals == <<totalHashes, staleHashesObserved>>
local  == <<localHashCount, localStale>>
history == <<rounds, hashed, staleHashed, tried, repeated>>
vars == <<shared, totals, pc, epoch, nonce, local, history>>

Init ==
  /\ lanes \in LaneChoices /\ pollPeriod \in PollPeriods
  /\ quit = FALSE /\ jobEpoch = 1     \* the wait for the first job is over
  /\ totalHashes = 0 /\ staleHashesObserved = 0
  /\ pc = [t \in Tids |-> "snap"]
  /\ epoch = [t \in Tids |-> 0] /\ nonce = [t \in Tids |-> 0]
  /\ localHashCount = [t \in Tids |-> 0] /\ localStale = [t \in Tids |-> 0]
  /\ rounds = [t \in Tids |-> 0] /\ hashed = [t \in Tids |-> 0]
  /\ staleHashed = [t \in Tids |-> 0]
  /\ tried = {} /\ repeated = FALSE
-----------------------------------------------------------------------------
\* (uint32_t)tid << 24
FirstNonce(t) == (t * Span) % NonceValues
\* (uint8_t)tid
ThreadByteShared(t) == 0
ThreadByte(t) == t % TidValues

\* Head of the outer loop: quit, or snapshot and restart the nonces.
Snapshot(t) ==
  /\ pc[t] = "snap"
  /\ ~quit
  /\ pc' = [pc EXCEPT ![t] = "poll"]
  /\ epoch' = [epoch EXCEPT ![t] = jobEpoch]
  /\ nonce' = [nonce EXCEPT ![t] = FirstNonce(t)]
  /\ rounds' = [rounds EXCEPT ![t] = 0]
  /\ staleHashed' = [staleHashed EXCEPT ![t] = 0]
  /\ UNCHANGED <<shared, totals, local, hashed, tried, repeated>>

\* The epoch is looked at only when the low bits of the nonce are zero.
PollNowRarely(t) == nonce[t] % (2 * pollPeriod) = 0
PollNow(t) == nonce[t] % pollPeriod = 0

\* Head of the inner loop, not quitting: leave a replaced job, or go on.
Poll(t) ==
  /\ pc[t] = "poll"
  /\ ~quit
  /\ pc' = [pc EXCEPT ![t] = IF PollNow(t) /\ jobEpoch # epoch[t]
                             THEN "snap" ELSE "count"]
  /\ UNCHANGED <<shared, totals, epoch, nonce, local, history>>

\* With DLUNA_COUNT_STALE, a round that starts on a replaced job is counted;
\* the epoch is read a second time for it.
CountStale(t) ==
  /\ pc[t] = "count"
  /\ pc' = [pc EXCEPT ![t] = "hash"]
  /\ localStale' = [localStale EXCEPT
                      ![t] = IF jobEpoch # epoch[t] THEN @ + lanes ELSE @]
  /\ UNCHANGED <<shared, totals, epoch, nonce, localHashCount, history>>

\* The nonces of one round: ++nonce for each lane.
RoundNonces(t) == {(nonce[t] + i) % NonceValues : i \in 1 .. lanes}

\* Every FlushEvery hashes the local counters go to the shared ones.
FlushDue(n) == n % FlushEvery = 0

\* One round: lanes hashes, their counters, and the flush when it is due.
HashRound(t) ==
  /\ pc[t] = "hash"
  /\ rounds[t] < MaxRounds
  /\ LET n == localHashCount[t] + lanes
         new == {<<epoch[t], v, ThreadByte(t)>> : v \in RoundNonces(t)}
     IN /\ IF FlushDue(n)
           THEN /\ totalHashes' = totalHashes + FlushEvery
                /\ localHashCount' = [localHashCount EXCEPT ![t] = 0]
                /\ staleHashesObserved' = staleHashesObserved + localStale[t]
                /\ localStale' = [localStale EXCEPT ![t] = 0]
           ELSE /\ localHashCount' = [localHashCount EXCEPT ![t] = n]
                /\ UNCHANGED <<totals, localStale>>
        /\ repeated' = (repeated \/ tried \cap new # {})
        /\ tried' = tried \cup new
  /\ nonce' = [nonce EXCEPT ![t] = (@ + lanes) % NonceValues]
  /\ rounds' = [rounds EXCEPT ![t] = @ + 1]
  /\ hashed' = [hashed EXCEPT ![t] = @ + lanes]
  /\ staleHashed' = [staleHashed EXCEPT ![t] =
                       IF jobEpoch # epoch[t] THEN @ + lanes ELSE 0]
  /\ pc' = [pc EXCEPT ![t] = "poll"]
  /\ UNCHANGED <<shared, epoch>>

\* done: the residue of the local counters is flushed.
ResidueKept(t) ==
  UNCHANGED <<totalHashes, localHashCount>>
Residue(t) ==
  /\ totalHashes' = totalHashes + localHashCount[t]
  /\ localHashCount' = [localHashCount EXCEPT ![t] = 0]

Finish(t) ==
  /\ pc[t] \in {"snap", "poll"}
  /\ quit
  /\ pc' = [pc EXCEPT ![t] = "done"]
  /\ Residue(t)
  /\ staleHashesObserved' = staleHashesObserved + localStale[t]
  /\ localStale' = [localStale EXCEPT ![t] = 0]
  /\ UNCHANGED <<shared, epoch, nonce, history>>

\* The network thread replaces the job.
NewJob ==
  /\ jobEpoch < MaxEpoch
  /\ jobEpoch' = jobEpoch + 1
  /\ UNCHANGED <<config, quit, totals, pc, epoch, nonce, local, history>>

Signal ==
  /\ quit' = TRUE
  /\ UNCHANGED <<config, jobEpoch, totals, pc, epoch, nonce, local, history>>

Next ==
  \/ \E t \in Tids : Snapshot(t) \/ Poll(t) \/ CountStale(t) \/ HashRound(t) \/ Finish(t)
  \/ NewJob
  \/ Signal

Spec == Init /\ [][Next]_vars
-----------------------------------------------------------------------------
\* The sum of f over the workers.
Sum(f) ==
  LET upTo[n \in 0 .. Threads] == IF n = 0 THEN 0 ELSE upTo[n - 1] + f[n - 1]
  IN upTo[Threads]
\* Hashes a living worker has counted and not flushed.
Held == [t \in Tids |-> IF pc[t] = "done" THEN 0 ELSE localHashCount[t]]

(* No hash is lost or counted twice: what is reported, with what the living *)
(* workers still hold, is what was computed; at the end nothing is held.    *)
HashesReported == totalHashes + Sum(Held) = Sum(hashed)

(* No two hashes of one job are of the same nonce and thread byte, though   *)
(* a worker that stays long enough on a job runs into the nonces of the     *)
(* next one.                                                                *)
NoWorkTwice == ~repeated

(* A replaced job costs a worker at most one poll period, or one round.     *)
StaleWorkBounded ==
  \A t \in Tids :
    staleHashed[t] <= IF pollPeriod > lanes THEN pollPeriod ELSE lanes
=============================================================================
