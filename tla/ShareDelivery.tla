--------------------------- MODULE ShareDelivery ---------------------------
(***************************************************************************)
(* What the miner promises about the shares it finds, whatever the number  *)
(* of threads, the queue or the order of their steps: a find is pending    *)
(* until it is settled exactly once, and it is offered to the daemon only  *)
(* while the session that would carry it has issued the share's own job.   *)
(***************************************************************************)
EXTENDS Integers, FiniteSets

CONSTANT Jobs

VARIABLES
  issued,    \* jobs the daemon has issued on the open session
  pending,   \* the finds not settled yet, each with the job it is for
  found,     \* finds, which are numbered from 1
  sent,      \* shares handed to the connection
  failed,    \* shares the connection refused
  dropped    \* shares given up: stale, evicted, or lost with the connection

ledger == <<pending, found, sent, failed, dropped>>
vars == <<issued, ledger>>

Init ==
  /\ issued = {} /\ pending = {}
  /\ found = 0 /\ sent = 0 /\ failed = 0 /\ dropped = 0

\* The shares `settled` leave, and perhaps others with them, which are given
\* up.
Settle(settled) ==
  \E lost \in SUBSET (pending \ settled) :
    /\ pending' = pending \ (settled \cup lost)
    /\ dropped' = dropped + Cardinality(lost)

\* A new session opens; the old session's jobs mean nothing to it.
Connect ==
  /\ issued' = {}
  /\ Settle({})
  /\ UNCHANGED <<found, sent, failed>>

Issue(j) ==
  /\ issued' = issued \cup {j}
  /\ UNCHANGED ledger

Find(j) ==
  /\ found' = found + 1
  /\ pending' = pending \cup {[find |-> found + 1, job |-> j]}
  /\ UNCHANGED <<issued, sent, failed, dropped>>

Send(s) ==
  /\ s.job \in issued
  /\ pending' = pending \ {s}
  /\ sent' = sent + 1
  /\ UNCHANGED <<issued, found, failed, dropped>>

\* A refused share may take others down with the connection.
SendFails(s) ==
  /\ s.job \in issued
  /\ Settle({s})
  /\ failed' = failed + 1
  /\ UNCHANGED <<issued, found, sent>>

Drop ==
  /\ Settle({})
  /\ UNCHANGED <<issued, found, sent, failed>>

Next ==
  \/ Connect
  \/ Drop
  \/ \E j \in Jobs : Issue(j) \/ Find(j)
  \/ \E s \in pending : Send(s) \/ SendFails(s)

Spec == Init /\ [][Next]_vars
=============================================================================
