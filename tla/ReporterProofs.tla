-------------------------- MODULE ReporterProofs ---------------------------
(***************************************************************************)
(* Proofs about Reconnect and Reporter for every delay, slice, uptime,     *)
(* console, width and tick.                                                *)
(***************************************************************************)
EXTENDS Reporter, Induction

USE DelayAssumption, UptimeAssumption, DialsAssumption
-----------------------------------------------------------------------------
(* The network thread by itself.                                             *)

(* What is left of a sleep, and the slice taken off it, are times.          *)
LEMMA SliceType ==
  ASSUME TypeOK
  PROVE  /\ SliceLength \in Nat /\ SliceLength <= Slice
         /\ left - SliceLength \in 0 .. Ceiling
<1>1. SliceLength \in Nat
  BY DEF TypeOK, SliceLength
<1>2. SliceLength <= Slice
  BY DEF TypeOK, SliceLength
<1>3. left - SliceLength \in 0 .. Ceiling
  BY DEF TypeOK, SliceLength
<1>4. QED
  BY <1>1, <1>2, <1>3

(* The delay between two dials is never below its floor nor above its       *)
(* ceiling, and no sleep is longer than that.                               *)
THEOREM DelayInBounds == Spec => []TypeOK
<1>1. Init => TypeOK
  <2> SUFFICES ASSUME Init PROVE TypeOK
    OBVIOUS
  <2>1. backoff \in Floor .. Ceiling /\ left \in 0 .. Ceiling
    BY DEF Init
  <2>2. uptime \in 0 .. MinUptime /\ dials \in Nat /\ slept \in Nat
    BY DEF Init
  <2>3. QED
    BY <2>1, <2>2 DEF Init, TypeOK, Pcs
<1>2. TypeOK /\ [Next]_vars => TypeOK'
  <2> SUFFICES ASSUME TypeOK, [Next]_vars PROVE TypeOK'
    OBVIOUS
  <2> USE DEF TypeOK, Pcs, Goto, session, history
  <2>1. CASE Loop
    BY <2>1 DEF Loop
  <2>2. CASE DialFail
    BY <2>2 DEF DialFail
  <2>3. CASE DialOk
    <3>1. uptime' \in 0 .. MinUptime
      BY <2>3 DEF DialOk
    <3>2. gotJob' \in BOOLEAN
      BY <2>3 DEF DialOk
    <3>3. QED
      BY <2>3, <3>1, <3>2 DEF DialOk
  <2>4. CASE Job
    BY <2>4 DEF Job
  <2>5. ASSUME NEW ms \in Elapses, Elapse(ms) PROVE TypeOK'
    BY <2>5 DEF Elapse
  <2>6. CASE SessionEnds
    BY <2>6 DEF SessionEnds
  <2>7. CASE Gate
    BY <2>7 DEF Gate
  <2>8. CASE SliceBegins
    BY <2>8 DEF SliceBegins
  <2>9. CASE SliceEnds
    BY <2>9, SliceType DEF SliceEnds
  <2>10. CASE SleepOver
    BY <2>10 DEF SleepOver, Doubled, Capped
  <2>11. CASE Signal \/ UNCHANGED vars
    BY <2>11 DEF Signal, vars
  <2>12. QED
    BY <2>1, <2>2, <2>3, <2>4, <2>5, <2>6, <2>7, <2>8, <2>9, <2>10, <2>11
       DEF Next, Retry
<1>3. QED
  BY <1>1, <1>2, PTL DEF Spec

(* Nothing has been slept after the signal while there is none, nor while   *)
(* the slice that the signal fell into is being slept.                      *)
FirstSlice ==
  /\ quitSlept <= Slice
  /\ ~quit \/ pc = "slice" => quitSlept = 0

(* The signal ends a sleep within a slice, whatever the delay has grown to. *)
THEOREM SignalEndsSleep == Spec => []QuitWithinASlice
<1>1. Init => FirstSlice
  BY DEF Init, FirstSlice
<1>2. TypeOK /\ FirstSlice /\ [Next]_vars => FirstSlice'
  <2> SUFFICES ASSUME TypeOK, FirstSlice, [Next]_vars PROVE FirstSlice'
    OBVIOUS
  <2> USE DEF FirstSlice, Goto, session, history
  <2>1. CASE SliceBegins
    BY <2>1 DEF SliceBegins
  <2>2. CASE SliceEnds
    BY <2>2, SliceType DEF SliceEnds
  <2>3. CASE Loop \/ DialFail \/ DialOk \/ SessionEnds \/ Gate \/ SleepOver
    BY <2>3 DEF Loop, DialFail, DialOk, SessionEnds, Gate, SleepOver
  <2>4. ASSUME NEW ms \in Elapses, Elapse(ms) PROVE FirstSlice'
    BY <2>4 DEF Elapse
  <2>5. CASE Job \/ Signal \/ UNCHANGED vars
    BY <2>5 DEF Job, Signal, vars
  <2>6. QED
    BY <2>1, <2>2, <2>3, <2>4, <2>5 DEF Next, Retry
<1>3. FirstSlice => QuitWithinASlice
  BY DEF FirstSlice, QuitWithinASlice
<1>4. QED
  BY <1>1, <1>2, <1>3, DelayInBounds, PTL DEF Spec

-----------------------------------------------------------------------------
(* The delays.  Both functions are recursive; Recursion gives the function   *)
(* that the CHOOSE in such a definition stands for.                          *)
LEMMA DelayValue ==
  /\ Delay \in [Nat -> Nat] /\ Delay[0] = Floor
  /\ \A n \in Nat : Delay[n + 1] = Capped(2 * Delay[n])
<1> DEFINE step == [p \in Nat \X Nat |-> Capped(2 * p[2])]
           Body(f) == [i \in Nat |-> IF i = 0 THEN Floor ELSE Capped(2 * f[i - 1])]
<1>1. ASSUME NEW x \in Nat PROVE Capped(2 * x) \in Nat
  BY DEF Capped
<1>2. step \in [Nat \X Nat -> Nat]
  BY <1>1
<1>3. ASSUME NEW n \in Nat, NEW x \in Nat PROVE step[<<n, x>>] = Capped(2 * x)
  OBVIOUS
<1>4. PICK f \in [Nat -> Nat] : Recursive(f, Floor, step)
  <2> HIDE DEF step
  <2>1. Floor \in Nat
    OBVIOUS
  <2>2. QED
    BY <1>2, <2>1, Recursion
<1>5. ASSUME NEW n \in Nat PROVE f[n + 1] = Capped(2 * f[n])
  BY <1>3, <1>4 DEF Recursive
<1>6. f = Body(f)
  <2>1. ASSUME NEW i \in Nat PROVE f[i] = Body(f)[i]
    <3>1. CASE i = 0
      BY <1>4, <3>1 DEF Recursive
    <3>2. CASE i # 0
      <4>1. i - 1 \in Nat /\ (i - 1) + 1 = i
        BY <3>2
      <4>2. QED
        BY <1>5, <3>2, <4>1
    <3>3. QED
      BY <3>1, <3>2
  <2>2. QED
    BY <1>4, <2>1
<1>7. Delay = Body(Delay)
  <2> HIDE DEF Body
  <2>1. \E g : g = Body(g)
    BY <1>6
  <2> USE DEF Body
  <2>2. QED
    BY <2>1, Zenon DEF Delay
<1>8. Delay[0] = Floor
  BY <1>7
<1>9. ASSUME NEW n \in Nat PROVE Delay[n + 1] = Capped(2 * Delay[n])
  <2>1. n + 1 \in Nat /\ n + 1 # 0 /\ (n + 1) - 1 = n
    OBVIOUS
  <2>2. QED
    BY <1>7, <2>1
<1>10. Nat \subseteq {n \in Nat : Delay[n] \in Nat}
  <2> DEFINE S == {n \in Nat : Delay[n] \in Nat}
  <2>1. 0 \in S /\ \A n \in Nat : n \in S => n + 1 \in S
    BY <1>1, <1>8, <1>9
  <2> HIDE DEF S
  <2>2. Nat \subseteq S
    BY <2>1, NatSetInduction
  <2>3. QED
    BY <2>2 DEF S
<1>11. Delay \in [Nat -> Nat]
  <2>1. DOMAIN Delay = Nat /\ Delay = [i \in DOMAIN Delay |-> Delay[i]]
    BY <1>7
  <2>2. QED
    BY <1>10, <2>1
<1>12. QED
  BY <1>8, <1>9, <1>11

LEMMA TotalValue ==
  /\ Total[0] = 0
  /\ \A n \in Nat : Total[n + 1] = Total[n] + Delay[n]
<1> DEFINE step == [p \in Nat \X Nat |-> p[2] + Delay[p[1]]]
           Body(f) == [n \in Nat |-> IF n = 0 THEN 0 ELSE f[n - 1] + Delay[n - 1]]
<1>1. step \in [Nat \X Nat -> Nat]
  BY DelayValue
<1>2. ASSUME NEW n \in Nat, NEW x \in Nat PROVE step[<<n, x>>] = x + Delay[n]
  OBVIOUS
<1>3. PICK f \in [Nat -> Nat] : Recursive(f, 0, step)
  <2> HIDE DEF step
  <2>1. 0 \in Nat
    OBVIOUS
  <2>2. QED
    BY <1>1, <2>1, Recursion
<1>4. f = Body(f)
  <2>1. ASSUME NEW i \in Nat PROVE f[i] = Body(f)[i]
    <3>1. CASE i = 0
      BY <1>3, <3>1 DEF Recursive
    <3>2. CASE i # 0
      <4>1. i - 1 \in Nat /\ (i - 1) + 1 = i
        BY <3>2
      <4>2. QED
        BY <1>2, <1>3, <3>2, <4>1 DEF Recursive
    <3>3. QED
      BY <3>1, <3>2
  <2>2. QED
    BY <1>3, <2>1
<1>5. Total = Body(Total)
  <2> HIDE DEF Body
  <2>1. \E g : g = Body(g)
    BY <1>4
  <2> USE DEF Body
  <2>2. QED
    BY <2>1, Zenon DEF Total
<1>6. ASSUME NEW n \in Nat PROVE Total[n + 1] = Total[n] + Delay[n]
  <2>1. n + 1 \in Nat /\ n + 1 # 0 /\ (n + 1) - 1 = n
    OBVIOUS
  <2>2. QED
    BY <1>5, <2>1
<1>7. QED
  BY <1>5, <1>6

(* How much of the delays since the last useful session is behind: all of    *)
(* them between two attempts, and while one is being slept all but what is   *)
(* left of it.  A signal may cut a sleep short, but then nothing is dialled. *)
Paced ==
  /\ pc \in {"dial", "session", "close"} =>
       dials # 0 /\ slept = Total[dials - 1] /\ backoff = Delay[dials - 1]
  /\ pc \in {"wait", "slice"} =>
       dials # 0 /\ slept + left = Total[dials] /\ backoff = Delay[dials - 1]
  /\ pc = "loop" /\ ~quit => slept = Total[dials] /\ backoff = Delay[dials]

(* Dials are spaced by delays that double up to the ceiling until a session  *)
(* is useful, whatever sessions, failures and signals come in between.       *)
THEOREM DialsArePaced == Spec => []RetriesPaced
<1>1. Init => Paced
  BY DelayValue, TotalValue DEF Init, Paced
<1>2. TypeOK /\ Paced /\ [Next]_vars => Paced'
  <2> SUFFICES ASSUME TypeOK, Paced, [Next]_vars PROVE Paced'
    OBVIOUS
  <2> USE DEF Goto, session, history
  <2>0. /\ dials \in Nat /\ slept \in Nat /\ left \in Nat /\ backoff \in Nat
        /\ quit \in BOOLEAN
    BY DEF TypeOK
  <2>1. CASE Loop
    <3>1. (dials + 1) - 1 = dials /\ dials + 1 # 0
      BY <2>0
    <3>2. QED
      BY <2>1, <3>1 DEF Loop, Paced
  <2>2. CASE DialFail
    <3>1. CASE pc' = "wait"
      <4>1. /\ dials # 0 /\ slept = Total[dials - 1] /\ backoff = Delay[dials - 1]
            /\ UNCHANGED <<quit, backoff, session, history>> /\ left' = backoff
        BY <2>2, <3>1 DEF DialFail, Paced
      <4>2. dials - 1 \in Nat /\ (dials - 1) + 1 = dials
        BY <2>0, <4>1
      <4>3. Total[dials] = Total[dials - 1] + Delay[dials - 1]
        BY <4>2, TotalValue
      <4>4. QED
        BY <3>1, <4>1, <4>3 DEF Paced
    <3>2. QED
      BY <2>2, <3>1 DEF DialFail, Paced
  <2>3. CASE DialOk \/ SessionEnds
    BY <2>3 DEF DialOk, SessionEnds, Paced
  <2>4. CASE Gate
    <3>1. CASE quit
      BY <2>4, <3>1 DEF Gate, Paced
    <3>2. CASE ~quit /\ Useful
      <4>1. /\ pc' = "wait" /\ backoff' = Floor /\ left' = Floor
            /\ dials' = 1 /\ slept' = 0
        BY <2>4, <3>2 DEF Gate, Useful
      <4>2. Total[1] = Floor /\ Delay[1 - 1] = Floor
        <5>1. Total[0 + 1] = Total[0] + Delay[0]
          BY TotalValue
        <5>2. QED
          BY <5>1, DelayValue, TotalValue
      <4>3. QED
        BY <4>1, <4>2 DEF Paced
    <3>3. CASE ~quit /\ ~Useful
      <4>1. /\ pc' = "wait" /\ backoff' = backoff /\ left' = backoff
            /\ dials' = dials /\ slept' = slept
        BY <2>4, <3>3 DEF Gate, Useful
      <4>2. dials # 0 /\ slept = Total[dials - 1] /\ backoff = Delay[dials - 1]
        BY <2>4, <3>3 DEF Gate, Paced
      <4>3. dials - 1 \in Nat /\ (dials - 1) + 1 = dials
        BY <2>0, <4>2
      <4>4. Total[dials] = Total[dials - 1] + Delay[dials - 1]
        BY <4>3, TotalValue
      <4>5. QED
        BY <4>1, <4>2, <4>4 DEF Paced
    <3>4. QED
      BY <3>1, <3>2, <3>3
  <2>5. CASE SliceBegins
    BY <2>5 DEF SliceBegins, Paced
  <2>6. CASE SliceEnds
    <3>1. SliceLength \in Nat
      BY SliceType
    <3>2. slept' + left' = slept + left
      BY <2>0, <2>6, <3>1 DEF SliceEnds
    <3>3. QED
      BY <2>6, <3>2 DEF SliceEnds, Paced
  <2>7. CASE SleepOver
    <3>1. CASE quit
      BY <2>7, <3>1 DEF SleepOver, Paced
    <3>2. CASE ~quit
      <4>1. /\ left = 0 /\ dials # 0 /\ slept + left = Total[dials]
            /\ backoff = Delay[dials - 1]
        BY <2>7, <3>2 DEF SleepOver, Paced
      <4>2. dials - 1 \in Nat /\ (dials - 1) + 1 = dials
        BY <2>0, <4>1
      <4>3. Delay[dials] = Capped(2 * backoff)
        BY <4>1, <4>2, DelayValue
      <4>4. slept = Total[dials]
        BY <2>0, <4>1
      <4>5. QED
        BY <2>7, <4>3, <4>4 DEF SleepOver, Doubled, Paced
    <3>3. QED
      BY <3>1, <3>2
  <2>8. ASSUME NEW ms \in Elapses, Elapse(ms) PROVE Paced'
    BY <2>8 DEF Elapse, Paced
  <2>9. CASE Job \/ UNCHANGED vars
    BY <2>9 DEF Job, vars, Paced
  <2>10. CASE Signal
    BY <2>10 DEF Signal, Paced
  <2>11. QED
    BY <2>1, <2>2, <2>3, <2>4, <2>5, <2>6, <2>7, <2>8, <2>9, <2>10 DEF Next, Retry
<1>3. Paced => RetriesPaced
  BY DEF Paced, RetriesPaced
<1>4. QED
  BY <1>1, <1>2, <1>3, DelayInBounds, PTL DEF Spec
-----------------------------------------------------------------------------
(* The two threads.                                                          *)

(* The console and the reporter change nothing of when the network thread    *)
(* dials: what is proved of Reconnect holds of it in Reporter.               *)
THEOREM ReporterOnlyWatches == RSpec => Spec
<1>1. RInit => Init
  BY DEF RInit
<1>2. [RNext]_rvars => [Next]_vars
  <2> SUFFICES ASSUME [RNext]_rvars PROVE [Next]_vars
    OBVIOUS
  <2> USE DEF NetStep
  <2>1. CASE NetRetry
    BY <2>1 DEF NetRetry, Connecting, Cleanup, Gated, Sleeps, Next, Retry
  <2>2. CASE DialFails \/ DialError \/ Upgraded \/ Connected
    BY <2>2 DEF DialFails, DialError, Upgraded, Connected, Next
  <2>3. CASE JobArrives \/ DaemonError \/ TimePasses \/ Lost \/ Signalled
    BY <2>3 DEF JobArrives, DaemonError, TimePasses, Lost, Signalled, Next
  <2>4. CASE FoundShare \/ Tick \/ Write \/ Shutdown
    BY <2>4 DEF FoundShare, Tick, Write, Shutdown
  <2>5. CASE UNCHANGED rvars
    BY <2>5 DEF rvars
  <2>6. QED
    BY <2>1, <2>2, <2>3, <2>4, <2>5 DEF RNext
<1>3. QED
  BY <1>1, <1>2, PTL DEF RSpec, Spec

(* The network thread has cleaned up and logged it, and is not yet connected *)
(* again.                                                                    *)
Quiet == pc \in {"wait", "slice"} \/ (pc = "dial" /\ ~connected)

(* The row is blank there because nobody is about to draw one: who entered   *)
(* this part held the console, so the reporter's last look at G.connected is *)
(* either written out and wiped, or came after the cleanup().                *)
WipedInv ==
  /\ pc \in {"wait", "slice"} => ~connected
  /\ rpt # "writing" => ~visible
  /\ Quiet => row = Blank /\ ~visible

(* Whatever the two threads and the workers do, the row of a lost session    *)
(* does not stay on the screen while the miner waits and dials.              *)
THEOREM RowsAreWiped == RSpec => []StaleRowWiped
<1>1. RInit => WipedInv
  BY DEF RInit, Init, WipedInv, Quiet
<1>2. WipedInv /\ [RNext]_rvars => WipedInv'
  <2> SUFFICES ASSUME WipedInv, [RNext]_rvars PROVE WipedInv'
    OBVIOUS
  <2> USE DEF WipedInv, Quiet, NetStep, Log, Free, Silent, Goto, reporter
  <2>1. CASE Connecting
    BY <2>1 DEF Connecting, Loop
  <2>2. CASE Cleanup
    BY <2>2 DEF Cleanup, vars
  <2>3. CASE Gated
    BY <2>3 DEF Gated, Gate
  <2>4. CASE Sleeps
    BY <2>4 DEF Sleeps, SliceBegins, SliceEnds, SleepOver
  <2>5. CASE DialFails
    BY <2>5 DEF DialFails, DialFail
  <2>6. CASE DialError
    BY <2>6 DEF DialError, vars
  <2>7. CASE Upgraded
    BY <2>7 DEF Upgraded, vars
  <2>8. CASE Connected
    BY <2>8 DEF Connected, DialOk
  <2>9. CASE JobArrives
    BY <2>9 DEF JobArrives, Job
  <2>10. CASE DaemonError
    BY <2>10 DEF DaemonError, vars
  <2>11. CASE TimePasses
    BY <2>11 DEF TimePasses, Elapse
  <2>12. CASE Lost
    BY <2>12 DEF Lost, SessionEnds
  <2>13. CASE Signalled
    BY <2>13 DEF Signalled, Signal
  <2>14. CASE FoundShare
    BY <2>14 DEF FoundShare, vars
  <2>15. CASE Tick
    BY <2>15 DEF Tick, RowVisible, vars
  <2>16. CASE Write
    BY <2>16 DEF Write, vars
  <2>17. CASE Shutdown
    BY <2>17 DEF Shutdown, vars
  <2>18. CASE UNCHANGED rvars
    BY <2>18 DEF rvars, vars, screen
  <2>19. QED
    BY <2>1, <2>2, <2>3, <2>4, <2>5, <2>6, <2>7, <2>8, <2>9, <2>10, <2>11,
       <2>12, <2>13, <2>14, <2>15, <2>16, <2>17, <2>18 DEF RNext, NetRetry
<1>3. WipedInv => StaleRowWiped
  BY DEF WipedInv, Quiet, StaleRowWiped
<1>4. QED
  BY <1>1, <1>2, <1>3, PTL DEF RSpec
-----------------------------------------------------------------------------
(* The tracker.  Its ring is read by how many samples ago a slot was written *)
(* and not by where it is: the slot about to be overwritten is Window ago.   *)
Parts == {"history", "start", "lastHashes", "next", "rate", "avg"}
Age(next, j) == IF j < next THEN next - j ELSE next - j + Window
Sample(seq, i) == seq[IF i >= 1 THEN i ELSE 1]

Sampling ==
  /\ samples # <<>> /\ samples \in Seq([time : Nat, hashes : Nat])
  /\ \A i \in 1 .. Len(samples) :
       /\ samples[i].time <= samples[Len(samples)].time
       /\ samples[i].hashes <= samples[Len(samples)].hashes

Ring ==
  /\ DOMAIN tracker = Parts /\ tracker.next \in 0 .. Window - 1
  /\ DOMAIN tracker.history = 0 .. Window - 1
  /\ tracker.start = samples[1]
  /\ tracker.lastHashes = samples[Len(samples)].hashes
  /\ \A j \in 0 .. Window - 1 :
       tracker.history[j] = Sample(samples, Len(samples) + 1 - Age(tracker.next, j))

LEMMA NextSlotValue ==
  ASSUME NEW i \in 0 .. Window - 1
  PROVE  NextSlot(i) = IF i = Window - 1 THEN 0 ELSE i + 1
<1>1. Window \in Nat \ {0}
  BY ReporterAssumption
<1>2. CASE i = Window - 1
  BY <1>1, <1>2 DEF NextSlot
<1>3. CASE i # Window - 1
  <2>1. i + 1 \in Nat /\ i + 1 < Window
    BY <1>1, <1>3
  <2>2. (i + 1) % Window = i + 1
    BY <1>1, <2>1
  <2>3. QED
    BY <1>3, <2>2 DEF NextSlot
<1>4. QED
  BY <1>2, <1>3

(* A slot that is not written grows older by one, the written one is new.    *)
LEMMA Aged ==
  ASSUME NEW i \in 0 .. Window - 1, NEW j \in 0 .. Window - 1
  PROVE  /\ Age(NextSlot(i), j) = IF j = i THEN 1 ELSE Age(i, j) + 1
         /\ Age(i, j) \in 1 .. Window /\ Age(i, i) = Window
  BY ReporterAssumption, NextSlotValue DEF Age

LEMMA Commutes ==
  ASSUME NEW a \in Int, NEW b \in Int
  PROVE  a * b = b * a
  OBVIOUS

(* A rate over two samples is their difference.                              *)
LEMMA RateIsSpeed ==
  ASSUME NEW from \in [time : Nat, hashes : Nat], NEW to \in [time : Nat, hashes : Nat],
         from.time < to.time
  PROVE  LET pair == Rate(from, to)
         IN pair[1] * (to.time - from.time) = pair[2] * (to.hashes - from.hashes)
<1>1. /\ Rate(from, to)[1] = to.hashes - from.hashes
      /\ Rate(from, to)[2] = to.time - from.time
  BY DEF Rate
<1>2. to.hashes - from.hashes \in Int /\ to.time - from.time \in Int
  OBVIOUS
<1>3. QED
  BY <1>1, <1>2, Commutes

LEMMA SeqElements ==
  ASSUME NEW S, NEW seq \in Seq(S), seq # <<>>
  PROVE  Len(seq) \in Nat \ {0} /\ \A i \in 1 .. Len(seq) : seq[i] \in S
  OBVIOUS

(* One tick.                                                                 *)
LEMMA TickKeepsRing ==
  ASSUME Sampling, Ring, Tick
  PROVE  Sampling' /\ Ring' /\ RateOverWindow'
<1> DEFINE n == Len(samples)
           Snapshots == [time : Nat, hashes : Nat]
<1>0. Window \in Nat \ {0} /\ Advances \subseteq (Nat \ {0}) \X Nat
  BY ReporterAssumption
<1>1. n \in Nat \ {0} /\ \A i \in 1 .. n : samples[i] \in Snapshots
  <2>1. samples # <<>> /\ samples \in Seq(Snapshots)
    BY DEF Sampling
  <2> HIDE DEF Snapshots
  <2>2. QED
    BY <2>1, SeqElements
<1>2. PICK now \in Snapshots :
         /\ samples[n].time < now.time /\ samples[n].hashes <= now.hashes
         /\ tracker' = Sampled(tracker, now) /\ samples' = Append(samples, now)
  <2>1. PICK a \in Advances :
           LET now == Snapshot(samples[n].time + a[1], samples[n].hashes + a[2])
           IN tracker' = Sampled(tracker, now) /\ samples' = Append(samples, now)
    BY DEF Tick
  <2> DEFINE now == Snapshot(samples[n].time + a[1], samples[n].hashes + a[2])
  <2>2. a[1] \in Nat \ {0} /\ a[2] \in Nat /\ samples[n] \in Snapshots
    BY <1>0, <1>1
  <2> HIDE DEF n
  <2>3. /\ now.time = samples[n].time + a[1] /\ now.hashes = samples[n].hashes + a[2]
        /\ now = [time |-> now.time, hashes |-> now.hashes]
    BY DEF Snapshot
  <2>4. /\ now.time \in Nat /\ samples[n].time < now.time
        /\ now.hashes \in Nat /\ samples[n].hashes <= now.hashes
    BY <2>2, <2>3
  <2> HIDE DEF now
  <2>5. now \in Snapshots
    BY <2>3, <2>4
  <2> USE DEF now
  <2>6. QED
    BY <2>1, <2>4, <2>5
<1> HIDE DEF n
<1>3. /\ Len(samples') = n + 1 /\ samples'[n + 1] = now
      /\ \A i \in 1 .. n : samples'[i] = samples[i]
      /\ samples' # <<>> /\ samples' \in Seq(Snapshots)
  BY <1>2 DEF Sampling, n
<1>4. \A i \in 1 .. n : samples[i].time < now.time /\ samples[i].hashes <= now.hashes
  <2>1. ASSUME NEW i \in 1 .. n
        PROVE  samples[i].time < now.time /\ samples[i].hashes <= now.hashes
    <3>1. /\ samples[i].time <= samples[n].time
          /\ samples[i].hashes <= samples[n].hashes
      BY DEF Sampling, n
    <3>2. samples[i] \in Snapshots /\ samples[n] \in Snapshots
      BY <1>1
    <3>3. QED
      BY <1>2, <3>1, <3>2
  <2>2. QED
    BY <2>1
<1>5. Sampling'
  <2>1. ASSUME NEW i \in 1 .. n + 1
        PROVE  samples'[i].time <= now.time /\ samples'[i].hashes <= now.hashes
    <3>1. CASE i = n + 1
      BY <1>2, <1>3, <3>1
    <3>2. CASE i # n + 1
      <4>1. i \in 1 .. n
        BY <1>1, <3>2
      <4>2. samples[i] \in Snapshots
        BY <1>1, <4>1
      <4>3. QED
        BY <1>2, <1>3, <1>4, <4>1, <4>2
    <3>3. QED
      BY <3>1, <3>2
  <2>2. QED
    BY <1>3, <2>1 DEF Sampling
<1> DEFINE next == tracker.next
<1>6. next \in 0 .. Window - 1 /\ next \in DOMAIN tracker.history
  BY DEF Ring
<1>7. tracker' = [tracker EXCEPT !.history[next] = now, !.lastHashes = now.hashes,
                    !.next = NextSlot(next), !.rate = Rate(tracker.history[next], now),
                    !.avg = Rate(tracker.start, now)]
  <2>1. ~(now.hashes < tracker.lastHashes)
    BY <1>1, <1>2 DEF Ring, n
  <2>2. QED
    BY <1>2, <2>1 DEF Sampled
<1>8. Parts \subseteq DOMAIN tracker
  BY DEF Ring
<1> HIDE DEF next
<1>9. /\ DOMAIN tracker' = Parts
      /\ tracker'.history = [tracker.history EXCEPT ![next] = now]
      /\ tracker'.start = tracker.start /\ tracker'.lastHashes = now.hashes
      /\ tracker'.next = NextSlot(next)
      /\ tracker'.rate = Rate(tracker.history[next], now)
      /\ tracker'.avg = Rate(tracker.start, now)
  BY <1>7, <1>8 DEF Parts, Ring
<1>10. Ring'
  <2>1. ASSUME NEW j \in 0 .. Window - 1
        PROVE  tracker'.history[j] = Sample(samples', (n + 1) + 1 - Age(NextSlot(next), j))
    <3>1. CASE j = next
      <4>1. tracker'.history[j] = now
        BY <1>6, <1>9, <3>1
      <4>2. Age(NextSlot(next), j) = 1
        BY <1>6, <3>1, Aged
      <4>3. (n + 1) + 1 - 1 = n + 1 /\ n + 1 >= 1
        BY <1>1
      <4>4. QED
        BY <1>3, <4>1, <4>2, <4>3 DEF Sample
    <3>2. CASE j # next
      <4>1. tracker'.history[j] = tracker.history[j]
        BY <1>6, <1>9, <3>2 DEF Ring
      <4>2. tracker.history[j] = Sample(samples, n + 1 - Age(next, j))
        BY DEF Ring, n, next
      <4>3. Age(NextSlot(next), j) = Age(next, j) + 1 /\ Age(next, j) \in 1 .. Window
        BY <1>6, <3>2, Aged
      <4>4. (n + 1) + 1 - Age(NextSlot(next), j) = n + 1 - Age(next, j)
        BY <1>1, <4>3
      <4> DEFINE i == n + 1 - Age(next, j)
      <4>5. i \in Int /\ i <= n
        BY <1>0, <1>1, <4>3
      <4> HIDE DEF i
      <4>6. Sample(samples', i) = Sample(samples, i)
        <5>1. \A k \in 1 .. n : samples'[k] = samples[k]
          BY <1>3
        <5>2. (IF i >= 1 THEN i ELSE 1) \in 1 .. n
          BY <1>1, <4>5
        <5>3. QED
          BY <5>1, <5>2 DEF Sample
      <4>7. QED
        BY <4>1, <4>2, <4>4, <4>6 DEF i
    <3>3. QED
      BY <3>1, <3>2
  <2>2. NextSlot(next) \in 0 .. Window - 1
    BY <1>0, <1>6, NextSlotValue
  <2>3. samples'[1] = samples[1]
    BY <1>1, <1>3
  <2>4. QED
    BY <1>3, <1>6, <1>9, <2>1, <2>2, <2>3 DEF Ring
<1>11. RateOverWindow'
  <2> DEFINE oldest == samples'[IF Len(samples') > Window THEN Len(samples') - Window ELSE 1]
  <2>1. tracker.history[next] = Sample(samples, n + 1 - Window)
    <3>1. tracker.history[next] = Sample(samples, n + 1 - Age(next, next))
      BY <1>6 DEF Ring, n, next
    <3>2. QED
      BY <1>6, <3>1, Aged
  <2> DEFINE i == IF n + 1 > Window THEN n + 1 - Window ELSE 1
  <2>2. i \in 1 .. n
    BY <1>0, <1>1
  <2>3. tracker.history[next] = samples[i]
    BY <1>0, <1>1, <2>1 DEF Sample
  <2>4. oldest = samples[i] /\ samples'[1] = samples[1]
    <3>1. i = IF Len(samples') > Window THEN Len(samples') - Window ELSE 1
      BY <1>0, <1>1, <1>3
    <3> HIDE DEF i
    <3>2. samples'[i] = samples[i] /\ samples'[1] = samples[1]
      BY <1>1, <1>3, <2>2
    <3>3. QED
      BY <3>1, <3>2
  <2> HIDE DEF i
  <2>5. /\ samples[i] \in Snapshots /\ samples[1] \in Snapshots
        /\ samples[i].time < now.time /\ samples[1].time < now.time
    BY <1>1, <1>4, <2>2
  <2>6. /\ tracker'.rate = Rate(samples[i], now) /\ tracker'.avg = Rate(samples[1], now)
    BY <1>9, <2>3 DEF Ring
  <2>7. /\ tracker'.rate[1] * (now.time - samples[i].time)
             = tracker'.rate[2] * (now.hashes - samples[i].hashes)
        /\ tracker'.avg[1] * (now.time - samples[1].time)
             = tracker'.avg[2] * (now.hashes - samples[1].hashes)
    BY <1>2, <2>5, <2>6, RateIsSpeed
  <2>8. QED
    BY <1>3, <2>4, <2>7 DEF RateOverWindow
<1>12. QED
  BY <1>5, <1>10, <1>11

(* The rate shown is that of the last Window samples and the average that of *)
(* the session, for every window and every spacing of the ticks.             *)
THEOREM RateIsOfTheWindow == RSpec => []RateOverWindow
<1>1. RInit => Sampling /\ Ring /\ RateOverWindow
  <2> SUFFICES ASSUME RInit PROVE Sampling /\ Ring /\ RateOverWindow
    OBVIOUS
  <2> DEFINE zero == Snapshot(0, 0)
  <2>1. samples = <<zero>> /\ zero \in [time : Nat, hashes : Nat]
    BY DEF RInit, Snapshot
  <2>2. /\ Len(samples) = 1 /\ samples[1] = zero /\ samples # <<>>
        /\ samples \in Seq([time : Nat, hashes : Nat])
    BY <2>1
  <2>3. Sampling
    BY <2>1, <2>2 DEF Sampling
  <2>4. RateOverWindow
    BY <2>2 DEF RateOverWindow
  <2>5. Ring
    <3>1. /\ tracker = [history |-> [i \in 0 .. Window - 1 |-> zero],
                        start |-> zero, lastHashes |-> 0, next |-> 0,
                        rate |-> <<0, 1>>, avg |-> <<0, 1>>]
          /\ zero.hashes = 0
      BY DEF RInit, Snapshot
    <3> HIDE DEF zero
    <3>2. /\ DOMAIN tracker = Parts /\ tracker.next = 0
          /\ DOMAIN tracker.history = 0 .. Window - 1
          /\ tracker.start = zero /\ tracker.lastHashes = 0
          /\ \A j \in 0 .. Window - 1 : tracker.history[j] = zero
      BY <3>1 DEF Parts
    <3>3. ASSUME NEW j \in 0 .. Window - 1
          PROVE  Sample(samples, 1 + 1 - Age(0, j)) = zero
      BY <2>2, ReporterAssumption DEF Sample, Age
    <3>4. 0 \in 0 .. Window - 1
      BY ReporterAssumption
    <3>5. QED
      BY <2>2, <3>1, <3>2, <3>3, <3>4 DEF Ring
  <2>6. QED
    BY <2>3, <2>4, <2>5
<1>2. Sampling /\ Ring /\ RateOverWindow /\ [RNext]_rvars
        => Sampling' /\ Ring' /\ RateOverWindow'
  <2> SUFFICES ASSUME Sampling, Ring, RateOverWindow, [RNext]_rvars
               PROVE  Sampling' /\ Ring' /\ RateOverWindow'
    OBVIOUS
  <2>1. CASE Tick
    BY <2>1, TickKeepsRing
  <2>2. CASE UNCHANGED <<tracker, samples>>
    BY <2>2 DEF Sampling, Ring, RateOverWindow
  <2>3. CASE RNext /\ ~Tick
    <3> USE DEF NetStep, reporter
    <3>1. UNCHANGED <<tracker, samples>>
      BY <2>3 DEF RNext, NetRetry, Connecting, Cleanup, Gated, Sleeps, DialFails,
         DialError, Upgraded, Connected, JobArrives, DaemonError, TimePasses, Lost,
         Signalled, FoundShare, Write, Shutdown
    <3>2. QED
      BY <2>2, <3>1
  <2>4. CASE UNCHANGED rvars
    BY <2>2, <2>4 DEF rvars, reporter
  <2>5. QED
    BY <2>1, <2>3, <2>4
<1>3. QED
  BY <1>1, <1>2, PTL DEF RSpec
-----------------------------------------------------------------------------
(* The row.  What is said of a layout is said of its pieces one by one.      *)
Pieces == [kind : {"esc", "txt"}, len : Nat]
Wide(p) == IF p.kind = "txt" THEN p.len ELSE 0

Counts(c, s) ==
  /\ c \in [0 .. Len(s) -> Nat] /\ c[0] = 0
  /\ \A n \in 0 .. Len(s) - 1 : c[n + 1] = c[n] + Wide(s[n + 1])

LEMMA WideIsNat == ASSUME NEW p \in Pieces PROVE Wide(p) \in Nat
  BY DEF Pieces, Wide

LEMMA ColumnsCount ==
  ASSUME NEW s \in Seq(Pieces)
  PROVE  Counts(Columns(s), s)
<1> DEFINE N == Len(s)
           step == [p \in Nat \X Nat |->
                      IF p[1] < N THEN p[2] + Wide(s[p[1] + 1]) ELSE p[2]]
           Body(h) == [n \in 0 .. N |->
                         IF n = 0 THEN 0
                         ELSE h[n - 1] + IF s[n].kind = "txt" THEN s[n].len ELSE 0]
<1>1. N \in Nat /\ \A n \in 1 .. N : s[n] \in Pieces /\ Wide(s[n]) \in Nat
  BY WideIsNat
<1>2. step \in [Nat \X Nat -> Nat]
  <2>1. ASSUME NEW p \in Nat \X Nat
        PROVE  (IF p[1] < N THEN p[2] + Wide(s[p[1] + 1]) ELSE p[2]) \in Nat
    <3>1. p[1] \in Nat /\ p[2] \in Nat /\ (p[1] < N => p[1] + 1 \in 1 .. N)
      BY <1>1
    <3> QED
      BY <1>1, <3>1
  <2> QED
    BY <2>1
<1>3. PICK h \in [Nat -> Nat] : Recursive(h, 0, step)
  <2> HIDE DEF step
  <2> QED
    BY <1>2, Recursion
<1>4. ASSUME NEW n \in 0 .. N - 1 PROVE h[n + 1] = h[n] + Wide(s[n + 1])
  <2>1. n \in Nat /\ h[n] \in Nat /\ n < N
    OBVIOUS
  <2>2. step[<<n, h[n]>>] = h[n] + Wide(s[n + 1])
    BY <2>1
  <2> QED
    BY <1>3, <2>1, <2>2 DEF Recursive
<1> DEFINE k == [n \in 0 .. N |-> h[n]]
<1>5. k = Body(k)
  <2>1. ASSUME NEW n \in 0 .. N PROVE k[n] = Body(k)[n]
    <3>1. CASE n = 0
      BY <1>3, <3>1 DEF Recursive
    <3>2. CASE n # 0
      <4>1. n - 1 \in 0 .. N - 1 /\ (n - 1) + 1 = n /\ n - 1 \in 0 .. N
        BY <1>1, <3>2
      <4>2. h[n] = h[n - 1] + Wide(s[n])
        BY <1>4, <4>1
      <4> QED
        BY <3>2, <4>1, <4>2 DEF Wide
    <3> QED
      BY <3>1, <3>2
  <2> QED
    BY <2>1
<1> DEFINE cols == CHOOSE f : f = Body(f)
<1>6. cols = Body(cols)
  <2>1. \E f : f = Body(f)
    BY <1>5
  <2> HIDE DEF Body
  <2> QED
    BY <2>1, Zenon
<1>7. Columns(s) = cols
  BY DEF Columns
<1> HIDE DEF cols
<1>8. /\ cols[0] = 0
      /\ \A n \in 0 .. N - 1 : cols[n + 1] = cols[n] + Wide(s[n + 1])
  <2>1. cols[0] = 0
    BY <1>1, <1>6
  <2>2. ASSUME NEW n \in 0 .. N - 1 PROVE cols[n + 1] = cols[n] + Wide(s[n + 1])
    <3>1. n + 1 \in 0 .. N /\ n + 1 # 0 /\ (n + 1) - 1 = n
      BY <1>1
    <3>2. cols[n + 1] = Body(cols)[n + 1]
      BY <1>6
    <3> QED
      BY <3>1, <3>2 DEF Wide
  <2> QED
    BY <2>1, <2>2
<1>9. \A n \in 0 .. N : cols[n] \in Nat
  <2> DEFINE S == {n \in Nat : n <= N => cols[n] \in Nat}
  <2>1. 0 \in S
    BY <1>8
  <2>2. ASSUME NEW n \in Nat, n \in S PROVE n + 1 \in S
    <3> SUFFICES ASSUME n + 1 <= N PROVE cols[n + 1] \in Nat
      OBVIOUS
    <3>1. n \in 0 .. N - 1 /\ n + 1 \in 1 .. N /\ cols[n] \in Nat
      BY <1>1, <2>2
    <3>2. cols[n + 1] = cols[n] + Wide(s[n + 1]) /\ Wide(s[n + 1]) \in Nat
      BY <1>1, <1>8, <3>1
    <3>3. \A a, b \in Nat : a + b \in Nat
      OBVIOUS
    <3> QED
      BY <3>1, <3>2, <3>3, Zenon
  <2>3. Nat \subseteq S
    <3> HIDE DEF S
    <3> QED
      BY <2>1, <2>2, NatSetInduction
  <2> QED
    BY <1>1, <2>3
<1>10. cols \in [0 .. N -> Nat]
  <2>1. cols = [n \in 0 .. N |-> cols[n]]
    BY <1>6
  <2> QED
    BY <1>9, <2>1
<1> QED
  BY <1>7, <1>8, <1>10 DEF Counts

(* A piece more is its columns more.                                         *)
LEMMA VisibleAdds ==
  ASSUME NEW s \in Seq(Pieces), NEW p \in Pieces
  PROVE  /\ Visible(s) \in Nat
         /\ Visible(Append(s, p)) = Visible(s) + Wide(p)
<1> DEFINE N == Len(s)
           t == Append(s, p)
           c == Columns(s)
           d == Columns(t)
<1>1. /\ N \in Nat /\ t \in Seq(Pieces) /\ Len(t) = N + 1 /\ t[N + 1] = p
      /\ \A n \in 1 .. N : t[n] = s[n]
  OBVIOUS
<1>2. Counts(c, s)
  BY ColumnsCount
<1>3. Counts(d, t)
  <2> HIDE DEF t
  <2> QED
    BY <1>1, ColumnsCount
<1> HIDE DEF t, c, d
<1>4. (N + 1) - 1 = N /\ N \in 0 .. N
  BY <1>1
<1>5. \A n \in 0 .. N : d[n] = c[n]
  <2> DEFINE S == {n \in Nat : n <= N => d[n] = c[n]}
  <2>1. 0 \in S
    BY <1>2, <1>3 DEF Counts
  <2>2. ASSUME NEW n \in Nat, n \in S PROVE n + 1 \in S
    <3> SUFFICES ASSUME n + 1 <= N PROVE d[n + 1] = c[n + 1]
      OBVIOUS
    <3>1. n \in 0 .. N - 1 /\ n \in 0 .. (N + 1) - 1 /\ n + 1 \in 1 .. N /\ d[n] = c[n]
      BY <1>1, <2>2
    <3>2. d[n + 1] = d[n] + Wide(t[n + 1])
      BY <1>1, <1>3, <3>1 DEF Counts
    <3>3. c[n + 1] = c[n] + Wide(s[n + 1])
      BY <1>2, <3>1 DEF Counts
    <3> QED
      BY <1>1, <3>1, <3>2, <3>3
  <2>3. Nat \subseteq S
    <3> HIDE DEF S
    <3> QED
      BY <2>1, <2>2, NatSetInduction
  <2> QED
    BY <1>1, <2>3
<1>6. d[N + 1] = d[N] + Wide(p)
  BY <1>1, <1>3, <1>4 DEF Counts
<1>7. c[N] \in Nat
  BY <1>2, <1>4 DEF Counts
<1> QED
  BY <1>1, <1>4, <1>5, <1>6, <1>7 DEF Visible, t, c, d

LEMMA NothingVisible == Visible(<<>>) = 0
<1>1. <<>> \in Seq(Pieces) /\ Len(<<>>) = 0
  OBVIOUS
<1>2. Counts(Columns(<<>>), <<>>)
  BY <1>1, ColumnsCount
<1> QED
  BY <1>1, <1>2 DEF Counts, Visible

(* The writer: as long as every piece had room the line is the first pieces  *)
(* of the layout, and its columns are counted.                               *)
LineSet == [pieces : Seq(Pieces), bytes : Nat, cols : Nat, overflow : BOOLEAN]
Follows(line, layout, n) ==
  ~line.overflow =>
    /\ Len(line.pieces) = n /\ \A i \in 1 .. n : line.pieces[i] = layout[i]
    /\ line.cols = Visible(line.pieces)
Written(h, layout) ==
  /\ h[0] = EmptyLine
  /\ \A n \in 0 .. Len(layout) - 1 : h[n + 1] = Append1(h[n], layout[n + 1])
  /\ \A n \in 0 .. Len(layout) : h[n] \in LineSet

LEMMA AppendedLine ==
  ASSUME NEW line \in LineSet, NEW p \in Pieces
  PROVE  /\ Append1(line, p) \in LineSet
         /\ ~Append1(line, p).overflow =>
              /\ ~line.overflow
              /\ Append1(line, p).pieces = Append(line.pieces, p)
              /\ Append1(line, p).cols = line.cols + Wide(p)
<1>1. /\ line.pieces \in Seq(Pieces) /\ line.bytes \in Nat /\ line.cols \in Nat
      /\ p.len \in Nat /\ Wide(p) \in Nat
      /\ line.bytes + p.len \in Nat /\ line.cols + Wide(p) \in Nat
  BY WideIsNat DEF LineSet, Pieces
<1>2. line.overflow \in BOOLEAN
  BY Zenon DEF LineSet
<1>3. CASE line.overflow \/ line.bytes + p.len >= LineCap
  <2>1. Append1(line, p) = [line EXCEPT !.overflow = TRUE]
    BY <1>3 DEF Append1
  <2>2. [line EXCEPT !.overflow = TRUE] \in LineSet
    BY DEF LineSet
  <2>3. [line EXCEPT !.overflow = TRUE].overflow
    BY DEF LineSet
  <2> QED
    BY <2>1, <2>2, <2>3, Zenon
<1>4. CASE ~(line.overflow \/ line.bytes + p.len >= LineCap)
  <2> DEFINE longer == [line EXCEPT !.pieces = Append(@, p), !.bytes = @ + p.len,
                                    !.cols = IF p.kind = "txt" THEN @ + p.len ELSE @]
  <2>1. Append1(line, p) = longer
    BY <1>4 DEF Append1
  <2>2. /\ longer.pieces = Append(line.pieces, p)
        /\ longer.cols = line.cols + Wide(p)
    BY <1>1 DEF LineSet, Wide
  <2>3. longer \in LineSet
    <3> DEFINE ps == Append(line.pieces, p)
               b == line.bytes + p.len
               c == line.cols + Wide(p)
    <3>1. ps \in Seq(Pieces) /\ b \in Nat /\ c \in Nat
      BY <1>1
    <3>2. longer = [line EXCEPT !.pieces = ps, !.bytes = b, !.cols = c]
      <4>1. c = IF p.kind = "txt" THEN line.cols + p.len ELSE line.cols
        BY <1>1 DEF Wide
      <4> HIDE DEF c
      <4> QED
        BY <4>1, Zenon
    <3> HIDE DEF longer, ps, b, c
    <3>3. [line EXCEPT !.pieces = ps, !.bytes = b, !.cols = c] \in LineSet
      BY <3>1 DEF LineSet
    <3> QED
      BY <3>2, <3>3
  <2>4. ~line.overflow
    BY <1>4
  <2> HIDE DEF longer
  <2> QED
    BY <2>1, <2>2, <2>3, <2>4, Zenon
<1> QED
  BY <1>3, <1>4, Zenon

LEMMA LinesWritten ==
  ASSUME NEW layout \in Seq(Pieces)
  PROVE  Written(Lines(layout), layout)
<1> DEFINE N == Len(layout)
           step == [p \in Nat \X LineSet |->
                      IF p[1] < N THEN Append1(p[2], layout[p[1] + 1]) ELSE p[2]]
           Body(h) == [n \in 0 .. N |->
                         IF n = 0 THEN EmptyLine ELSE Append1(h[n - 1], layout[n])]
<1>1. N \in Nat /\ \A n \in 1 .. N : layout[n] \in Pieces
  OBVIOUS
<1>2. step \in [Nat \X LineSet -> LineSet]
  <2>1. ASSUME NEW p \in Nat \X LineSet
        PROVE  (IF p[1] < N THEN Append1(p[2], layout[p[1] + 1]) ELSE p[2]) \in LineSet
    <3>1. p[1] \in Nat /\ p[2] \in LineSet /\ (p[1] < N => layout[p[1] + 1] \in Pieces)
      BY <1>1
    <3> QED
      BY <3>1, AppendedLine
  <2> QED
    BY <2>1
<1>3. EmptyLine \in LineSet
  BY DEF EmptyLine, LineSet
<1>4. PICK h \in [Nat -> LineSet] : Recursive(h, EmptyLine, step)
  <2> HIDE DEF step
  <2> QED
    BY <1>2, <1>3, Recursion
<1>5. ASSUME NEW n \in 0 .. N - 1 PROVE h[n + 1] = Append1(h[n], layout[n + 1])
  <2>1. n \in Nat /\ h[n] \in LineSet /\ n < N
    OBVIOUS
  <2>2. step[<<n, h[n]>>] = Append1(h[n], layout[n + 1])
    BY <2>1
  <2> QED
    BY <1>4, <2>1, <2>2 DEF Recursive
<1> DEFINE k == [n \in 0 .. N |-> h[n]]
<1>6. k = Body(k)
  <2>1. ASSUME NEW n \in 0 .. N PROVE k[n] = Body(k)[n]
    <3>1. CASE n = 0
      BY <1>4, <3>1 DEF Recursive
    <3>2. CASE n # 0
      <4>1. n - 1 \in 0 .. N - 1 /\ (n - 1) + 1 = n /\ n - 1 \in 0 .. N
        BY <1>1, <3>2
      <4>2. h[n] = Append1(h[n - 1], layout[n])
        BY <1>5, <4>1
      <4> QED
        BY <3>2, <4>1, <4>2
    <3> QED
      BY <3>1, <3>2
  <2> QED
    BY <2>1
<1> DEFINE line == CHOOSE f : f = Body(f)
<1>7. line = Body(line)
  <2>1. \E f : f = Body(f)
    BY <1>6
  <2> HIDE DEF Body
  <2> QED
    BY <2>1, Zenon
<1>8. Lines(layout) = line
  BY DEF Lines
<1> HIDE DEF line
<1>9. /\ line[0] = EmptyLine
      /\ \A n \in 0 .. N - 1 : line[n + 1] = Append1(line[n], layout[n + 1])
  <2>1. line[0] = EmptyLine
    BY <1>1, <1>7
  <2>2. ASSUME NEW n \in 0 .. N - 1 PROVE line[n + 1] = Append1(line[n], layout[n + 1])
    <3>1. n + 1 \in 0 .. N /\ n + 1 # 0 /\ (n + 1) - 1 = n
      BY <1>1
    <3>2. line[n + 1] = Body(line)[n + 1]
      BY <1>7
    <3> QED
      BY <3>1, <3>2
  <2> QED
    BY <2>1, <2>2
<1>10. \A n \in 0 .. N : line[n] \in LineSet
  <2> DEFINE S == {n \in Nat : n <= N => line[n] \in LineSet}
  <2>1. 0 \in S
    BY <1>3, <1>9
  <2>2. ASSUME NEW n \in Nat, n \in S PROVE n + 1 \in S
    <3> SUFFICES ASSUME n + 1 <= N PROVE line[n + 1] \in LineSet
      OBVIOUS
    <3>1. n \in 0 .. N - 1 /\ layout[n + 1] \in Pieces /\ line[n] \in LineSet
      BY <1>1, <2>2
    <3>2. line[n + 1] = Append1(line[n], layout[n + 1])
      BY <1>9, <3>1
    <3> QED
      BY <3>1, <3>2, AppendedLine
  <2>3. Nat \subseteq S
    <3> HIDE DEF S
    <3> QED
      BY <2>1, <2>2, NatSetInduction
  <2> QED
    BY <1>1, <2>3
<1> QED
  BY <1>8, <1>9, <1>10 DEF Written

LEMMA LineFollows ==
  ASSUME NEW layout \in Seq(Pieces), NEW h, Written(h, layout)
  PROVE  Follows(h[Len(layout)], layout, Len(layout))
<1> DEFINE N == Len(layout)
           S == {n \in Nat : n <= N => Follows(h[n], layout, n)}
<1>1. 0 \in S
  <2>1. h[0] = EmptyLine
    BY DEF Written
  <2> QED
    BY <2>1, NothingVisible DEF Follows, EmptyLine
<1>2. ASSUME NEW n \in Nat, n \in S PROVE n + 1 \in S
  <2> SUFFICES ASSUME n + 1 <= N, ~h[n + 1].overflow
               PROVE  Follows(h[n + 1], layout, n + 1)
    BY DEF Follows
  <2> DEFINE p == layout[n + 1]
             line == h[n]
  <2>1. n \in 0 .. N - 1 /\ n \in 0 .. N /\ p \in Pieces /\ Follows(line, layout, n)
    BY <1>2
  <2>2. line \in LineSet /\ h[n + 1] = Append1(line, p)
    BY <2>1 DEF Written
  <2> HIDE DEF p, line
  <2>3. /\ ~line.overflow /\ h[n + 1].pieces = Append(line.pieces, p)
        /\ h[n + 1].cols = line.cols + Wide(p)
    BY <2>1, <2>2, AppendedLine
  <2>4. line.pieces \in Seq(Pieces)
    BY <2>2 DEF LineSet
  <2>5. /\ Len(line.pieces) = n /\ \A i \in 1 .. n : line.pieces[i] = layout[i]
        /\ line.cols = Visible(line.pieces)
    BY <2>1, <2>3 DEF Follows
  <2>6. /\ Len(h[n + 1].pieces) = n + 1
        /\ \A i \in 1 .. n + 1 : h[n + 1].pieces[i] = layout[i]
    BY <2>1, <2>3, <2>4, <2>5 DEF p
  <2>7. h[n + 1].cols = Visible(h[n + 1].pieces)
    BY <2>1, <2>3, <2>4, <2>5, VisibleAdds
  <2> QED
    BY <2>6, <2>7 DEF Follows
<1>3. Nat \subseteq S
  <2> HIDE DEF S
  <2> QED
    BY <1>1, <1>2, NatSetInduction
<1> QED
  BY <1>3

(* The clamp: what is kept never takes more columns than the budget, and an  *)
(* escape is always kept.                                                    *)
Within(budget) == {s \in Seq(Pieces) : Visible(s) <= budget}
Closing(s) ==
  LET n == Len(s) IN n > 1 /\ s[n - 1] = Reset /\ s[n] = EraseLine
Kept(k, s, budget) ==
  /\ \A n \in 0 .. Len(s) - 1 : k[n + 1] = Clamp1(k[n], s[n + 1], budget)
  /\ \A n \in 0 .. Len(s) : k[n] \in Within(budget)

LEMMA ClampedPiece ==
  ASSUME NEW budget \in Nat, NEW kept \in Within(budget), NEW p \in Pieces
  PROVE  /\ Clamp1(kept, p, budget) \in Within(budget)
         /\ p.kind = "esc" => Clamp1(kept, p, budget) = Append(kept, p)
<1> DEFINE room == budget - Visible(kept)
<1>1. kept \in Seq(Pieces) /\ Visible(kept) <= budget
  BY DEF Within
<1>2. Visible(kept) \in Nat
  BY <1>1, VisibleAdds
<1>3. room \in Nat /\ Visible(kept) + room = budget
  BY <1>1, <1>2
<1>4. ASSUME NEW q \in Pieces, Wide(q) <= room PROVE Append(kept, q) \in Within(budget)
  <2>1. Append(kept, q) \in Seq(Pieces)
    BY <1>1
  <2>2. Visible(Append(kept, q)) = Visible(kept) + Wide(q)
    BY <1>1, VisibleAdds
  <2>3. Wide(q) \in Nat
    BY WideIsNat
  <2>4. Visible(Append(kept, q)) <= budget
    BY <1>2, <1>3, <1>4, <2>2, <2>3
  <2> QED
    BY <2>1, <2>4 DEF Within
<1>5. CASE p.kind = "esc"
  <2>1. Clamp1(kept, p, budget) = Append(kept, p)
    BY <1>5 DEF Clamp1
  <2>2. Wide(p) <= room
    BY <1>3, <1>5 DEF Wide
  <2> QED
    BY <1>4, <2>1, <2>2, Zenon
<1>6. CASE p.kind = "txt" /\ room <= 0
  <2>1. Clamp1(kept, p, budget) = kept /\ p.kind # "esc"
    BY <1>2, <1>3, <1>6 DEF Clamp1
  <2> QED
    BY <2>1, Zenon
<1>7. CASE p.kind = "txt" /\ room > 0
  <2> DEFINE q == Txt(IF p.len < room THEN p.len ELSE room)
  <2>1. Clamp1(kept, p, budget) = Append(kept, q)
    BY <1>7 DEF Clamp1
  <2>2. q \in Pieces /\ Wide(q) <= room
    BY <1>3 DEF Pieces, Wide, Txt
  <2> HIDE DEF q
  <2>3. Append(kept, q) \in Within(budget)
    BY <1>4, <2>2
  <2> QED
    BY <1>7, <2>1, <2>3
<1>8. p.kind \in {"esc", "txt"}
  BY DEF Pieces
<1> QED
  BY <1>3, <1>5, <1>6, <1>7, <1>8

LEMMA ClampsKeep ==
  ASSUME NEW s \in Seq(Pieces), NEW budget \in Nat
  PROVE  Kept(Clamps(s, budget), s, budget)
<1> DEFINE N == Len(s)
           step == [p \in Nat \X Within(budget) |->
                      IF p[1] < N THEN Clamp1(p[2], s[p[1] + 1], budget) ELSE p[2]]
           Body(h) == [n \in 0 .. N |->
                         IF n = 0 THEN <<>> ELSE Clamp1(h[n - 1], s[n], budget)]
<1>1. N \in Nat /\ \A n \in 1 .. N : s[n] \in Pieces
  OBVIOUS
<1>2. step \in [Nat \X Within(budget) -> Within(budget)]
  <2>1. ASSUME NEW p \in Nat \X Within(budget)
        PROVE  (IF p[1] < N THEN Clamp1(p[2], s[p[1] + 1], budget) ELSE p[2])
                  \in Within(budget)
    <3>1. p[1] \in Nat /\ p[2] \in Within(budget) /\ (p[1] < N => s[p[1] + 1] \in Pieces)
      BY <1>1
    <3> QED
      BY <3>1, ClampedPiece
  <2> QED
    BY <2>1
<1>3. <<>> \in Within(budget)
  BY NothingVisible DEF Within
<1>4. PICK h \in [Nat -> Within(budget)] : Recursive(h, <<>>, step)
  <2> HIDE DEF step
  <2> QED
    BY <1>2, <1>3, Recursion
<1>5. ASSUME NEW n \in 0 .. N - 1 PROVE h[n + 1] = Clamp1(h[n], s[n + 1], budget)
  <2>1. n \in Nat /\ h[n] \in Within(budget) /\ n < N
    OBVIOUS
  <2>2. step[<<n, h[n]>>] = Clamp1(h[n], s[n + 1], budget)
    BY <2>1
  <2> QED
    BY <1>4, <2>1, <2>2 DEF Recursive
<1> DEFINE k == [n \in 0 .. N |-> h[n]]
<1>6. k = Body(k)
  <2>1. ASSUME NEW n \in 0 .. N PROVE k[n] = Body(k)[n]
    <3>1. CASE n = 0
      BY <1>4, <3>1 DEF Recursive
    <3>2. CASE n # 0
      <4>1. n - 1 \in 0 .. N - 1 /\ (n - 1) + 1 = n /\ n - 1 \in 0 .. N
        BY <1>1, <3>2
      <4>2. h[n] = Clamp1(h[n - 1], s[n], budget)
        BY <1>5, <4>1
      <4> QED
        BY <3>2, <4>1, <4>2
    <3> QED
      BY <3>1, <3>2
  <2> QED
    BY <2>1
<1> DEFINE kept == CHOOSE f : f = Body(f)
<1>7. kept = Body(kept)
  <2>1. \E f : f = Body(f)
    BY <1>6
  <2> HIDE DEF Body
  <2> QED
    BY <2>1, Zenon
<1>8. Clamps(s, budget) = kept
  BY DEF Clamps
<1> HIDE DEF kept
<1>9. /\ kept[0] = <<>>
      /\ \A n \in 0 .. N - 1 : kept[n + 1] = Clamp1(kept[n], s[n + 1], budget)
  <2>1. kept[0] = <<>>
    BY <1>1, <1>7
  <2>2. ASSUME NEW n \in 0 .. N - 1 PROVE kept[n + 1] = Clamp1(kept[n], s[n + 1], budget)
    <3>1. n + 1 \in 0 .. N /\ n + 1 # 0 /\ (n + 1) - 1 = n
      BY <1>1
    <3>2. kept[n + 1] = Body(kept)[n + 1]
      BY <1>7
    <3> QED
      BY <3>1, <3>2
  <2> QED
    BY <2>1, <2>2
<1>10. \A n \in 0 .. N : kept[n] \in Within(budget)
  <2> DEFINE S == {n \in Nat : n <= N => kept[n] \in Within(budget)}
  <2>1. 0 \in S
    BY <1>3, <1>9
  <2>2. ASSUME NEW n \in Nat, n \in S PROVE n + 1 \in S
    <3> SUFFICES ASSUME n + 1 <= N PROVE kept[n + 1] \in Within(budget)
      OBVIOUS
    <3>1. n \in 0 .. N - 1 /\ s[n + 1] \in Pieces /\ kept[n] \in Within(budget)
      BY <1>1, <2>2
    <3>2. kept[n + 1] = Clamp1(kept[n], s[n + 1], budget)
      BY <1>9, <3>1
    <3> QED
      BY <3>1, <3>2, ClampedPiece
  <2>3. Nat \subseteq S
    <3> HIDE DEF S
    <3> QED
      BY <2>1, <2>2, NatSetInduction
  <2> QED
    BY <1>1, <2>3
<1> QED
  BY <1>8, <1>9, <1>10 DEF Kept

(* So a row that was closed still is, and fits.                              *)
LEMMA ClampedFits ==
  ASSUME NEW s \in Seq(Pieces), NEW budget \in Nat, Closing(s)
  PROVE  Clamped(s, budget) \in Within(budget) /\ Closing(Clamped(s, budget))
<1> DEFINE N == Len(s)
           k == Clamps(s, budget)
<1>1. N \in Nat /\ N > 1 /\ s[N - 1] = Reset /\ s[N] = EraseLine
  BY DEF Closing
<1>2. Kept(k, s, budget)
  BY ClampsKeep
<1> HIDE DEF k
<1>3. /\ N - 2 \in 0 .. N - 1 /\ N - 1 \in 0 .. N - 1
      /\ N - 2 \in 0 .. N /\ N - 1 \in 0 .. N /\ N \in 0 .. N
      /\ (N - 2) + 1 = N - 1 /\ (N - 1) + 1 = N
  BY <1>1
<1>4. /\ k[N - 1] = Clamp1(k[N - 2], Reset, budget)
      /\ k[N] = Clamp1(k[N - 1], EraseLine, budget)
      /\ k[N - 2] \in Within(budget) /\ k[N - 1] \in Within(budget)
      /\ k[N] \in Within(budget)
  BY <1>1, <1>2, <1>3 DEF Kept
<1>5. /\ Reset \in Pieces /\ Reset.kind = "esc"
      /\ EraseLine \in Pieces /\ EraseLine.kind = "esc"
  BY DEF Reset, EraseLine, Esc, Pieces
<1>6. k[N - 1] = Append(k[N - 2], Reset) /\ k[N] = Append(k[N - 1], EraseLine)
  BY <1>4, <1>5, ClampedPiece
<1>7. k[N - 2] \in Seq(Pieces)
  BY <1>4 DEF Within
<1>8. Closing(k[N])
  BY <1>5, <1>6, <1>7 DEF Closing
<1> QED
  BY <1>4, <1>8 DEF Clamped, k

(* The layouts.                                                              *)
LEMMA TextsAreNat ==
  ASSUME NEW f \in Fields, NEW i \in 1 .. Len(Tiers)
  PROVE  Texts(Tiers[i], f) \in Seq(Nat)
<1> DEFINE rate5 == f.rate + 5  avg9 == f.avg + 9  height7 == 7 + f.height
           acc11 == 11 + f.accepted  blocks7 == 7 + f.blocks  rej4 == 4 + f.rejected
           diff5 == 5 + f.diff  avg4 == f.avg + 4  height2 == 2 + f.height
           acc3 == 3 + f.accepted  blocks2 == 2 + f.blocks  rej2 == 2 + f.rejected
           diff2 == 2 + f.diff  time == f.time
<1>1. /\ f.rate \in Nat /\ f.avg \in Nat /\ f.height \in Nat /\ f.accepted \in Nat
      /\ f.blocks \in Nat /\ f.rejected \in Nat /\ f.diff \in Nat /\ f.time \in Nat
  BY FieldsAssumption
<1>2. Tiers[i] \in {"full", "medium", "narrow", "compact", "minimal"}
  BY DEF Tiers
<1>3. /\ rate5 \in Nat /\ avg9 \in Nat /\ height7 \in Nat /\ acc11 \in Nat
      /\ blocks7 \in Nat /\ rej4 \in Nat /\ diff5 \in Nat /\ avg4 \in Nat
      /\ height2 \in Nat /\ acc3 \in Nat /\ blocks2 \in Nat /\ rej2 \in Nat
      /\ diff2 \in Nat /\ time \in Nat
  <2>1. \A n \in Nat : \A k \in 2 .. 11 : n + k \in Nat /\ k + n \in Nat
    OBVIOUS
  <2>2. {2, 3, 4, 5, 7, 9, 11} \subseteq 2 .. 11
    OBVIOUS
  <2>3. \A k \in {2, 3, 4, 5, 7, 9, 11} : \A n \in Nat : n + k \in Nat /\ k + n \in Nat
    BY <2>1, <2>2
  <2> QED
    BY <1>1, <2>3, Zenon
<1>4. Full(f) =
  <<14, rate5, 2, avg9, 4, height7, 3, acc11, 3, blocks7, 3, rej4, 3, diff5, 3, time>>
  BY DEF Full
<1>5. Medium(f) =
  <<14, rate5, 2, avg4, 4, height2, 3, acc3, 3, blocks2, 3, rej2, 3, diff2, 3, time>>
  BY DEF Medium
<1>6. Narrow(f) =
  <<14, rate5, 3, height2, 3, acc3, 3, blocks2, 3, rej2, 3, diff2, 3, time>>
  BY DEF Narrow
<1>7. Compact(f) = <<5, rate5, 3, height2, 1, acc3, 1, blocks2, 1, rej2, 3, time>>
  BY DEF Compact
<1>8. Minimal(f) = <<5, rate5, 1, acc3, 1, blocks2>>
  BY DEF Minimal
<1> HIDE DEF rate5, avg9, height7, acc11, blocks7, rej4, diff5, avg4, height2, acc3,
         blocks2, rej2, diff2, time
<1>9. Full(f) \in Seq(Nat)
  BY <1>3, <1>4
<1>10. Medium(f) \in Seq(Nat)
  BY <1>3, <1>5
<1>11. Narrow(f) \in Seq(Nat)
  BY <1>3, <1>6
<1>12. Compact(f) \in Seq(Nat)
  BY <1>3, <1>7
<1>13. Minimal(f) \in Seq(Nat)
  BY <1>3, <1>8
<1> QED
  BY <1>2, <1>9, <1>10, <1>11, <1>12, <1>13 DEF Texts

LEMMA LayoutCloses ==
  ASSUME NEW f \in Fields, NEW i \in 1 .. Len(Tiers)
  PROVE  Layout(Tiers[i], f) \in Seq(Pieces) /\ Closing(Layout(Tiers[i], f))
<1> DEFINE texts == Texts(Tiers[i], f)
           mid == Coloured(texts)
<1>1. texts \in Seq(Nat)
  BY TextsAreNat
<1> HIDE DEF texts
<1>2. mid \in Seq(Pieces)
  <2>1. Len(texts) \in Nat /\ 2 * Len(texts) \in Nat
    BY <1>1
  <2>2. ASSUME NEW n \in 1 .. 2 * Len(texts)
        PROVE  (IF n % 2 = 1 THEN Esc(ColourLen) ELSE Txt(texts[n \div 2])) \in Pieces
    <3>1. CASE n % 2 = 1
      BY <3>1 DEF Esc, ColourLen, Pieces
    <3>2. CASE n % 2 # 1
      <4>1. n \div 2 \in 1 .. Len(texts)
        BY <2>1, <3>2
      <4>2. texts[n \div 2] \in Nat
        BY <1>1, <4>1
      <4> QED
        BY <3>2, <4>2 DEF Txt, Pieces
    <3> QED
      BY <3>1, <3>2
  <2> QED
    BY <2>1, <2>2 DEF Coloured
<1> HIDE DEF mid
<1>3. Return \in Pieces /\ Reset \in Pieces /\ EraseLine \in Pieces
  BY DEF Return, Reset, EraseLine, Esc, Pieces
<1> DEFINE layout == <<Return>> \o mid \o <<Reset, EraseLine>>
<1>4. layout \in Seq(Pieces) /\ Closing(layout)
  BY <1>2, <1>3 DEF Closing
<1> QED
  BY <1>4 DEF Layout, mid, texts

(* A line that had room for its layout is the layout, its columns counted.   *)
LEMMA RenderedWhole ==
  ASSUME NEW f \in Fields, NEW i \in 1 .. Len(Tiers),
         ~Rendered(Tiers[i], f).overflow
  PROVE  LET line == Rendered(Tiers[i], f)
         IN /\ line.pieces \in Seq(Pieces) /\ Closing(line.pieces)
            /\ line.cols = Visible(line.pieces)
<1> DEFINE layout == Layout(Tiers[i], f)
           line == Rendered(Tiers[i], f)
<1>1. layout \in Seq(Pieces) /\ Closing(layout)
  BY LayoutCloses
<1> HIDE DEF layout
<1>2. Written(Lines(layout), layout) /\ Len(layout) \in Nat
  BY <1>1, LinesWritten
<1>3. Follows(Lines(layout)[Len(layout)], layout, Len(layout))
  BY <1>1, <1>2, LineFollows
<1>4. line = Lines(layout)[Len(layout)]
  BY DEF Rendered, layout
<1>5. line \in LineSet
  BY <1>2, <1>4 DEF Written
<1> HIDE DEF line
<1>6. /\ Len(line.pieces) = Len(layout) /\ line.cols = Visible(line.pieces)
      /\ \A n \in 1 .. Len(layout) : line.pieces[n] = layout[n]
  <2>1. ~line.overflow
    BY DEF line
  <2> QED
    BY <1>3, <1>4, <2>1, Zenon DEF Follows
<1>7. line.pieces \in Seq(Pieces)
  BY <1>5 DEF LineSet
<1>8. Closing(line.pieces)
  BY <1>1, <1>2, <1>6 DEF Closing
<1> QED
  BY <1>6, <1>7, <1>8 DEF line

LEMMA StatusChosen ==
  ASSUME NEW f, NEW cols
  PROVE  \/ \E i \in 1 .. Len(Tiers) :
              /\ ~Rendered(Tiers[i], f).overflow
              /\ Rendered(Tiers[i], f).cols <= Budget(cols)
              /\ FormatStatus(f, cols) = Rendered(Tiers[i], f).pieces
         \/ FormatStatus(f, cols) = Clamped(Rendered("minimal", f).pieces, Budget(cols))
<1> DEFINE Fits(i) == /\ ~Rendered(Tiers[i], f).overflow
                      /\ Rendered(Tiers[i], f).cols <= Budget(cols)
           I == {i \in 1 .. Len(Tiers) : Fits(i)}
           i0 == IF I # {} THEN Min(I) ELSE 0
<1>1. FormatStatus(f, cols) =
        IF i0 # 0 THEN Rendered(Tiers[i0], f).pieces
        ELSE Clamped(Rendered("minimal", f).pieces, Budget(cols))
  BY DEF FormatStatus, SelectInSeq
<1>2. CASE I # {}
  <2>1. PICK x \in I : \A y \in I : x <= y
    <3> DEFINE J == I
    <3>1. J \subseteq Nat /\ J # {}
      BY <1>2
    <3> HIDE DEF J
    <3>2. \E x \in J : \A y \in J : x <= y
      BY <3>1, LeastElement
    <3> QED
      BY <3>2 DEF J
  <2>2. Min(I) \in I
    BY <2>1, Zenon DEF Min
  <2>3. i0 \in 1 .. Len(Tiers) /\ Fits(i0) /\ i0 # 0
    BY <1>2, <2>2
  <2> HIDE DEF i0
  <2> QED
    BY <1>1, <2>3
<1>3. CASE I = {}
  BY <1>1, <1>3, Zenon
<1> QED
  BY <1>2, <1>3

LEMMA StatusFits ==
  ASSUME NEW f \in Fields, NEW cols \in Nat \ {0}
  PROVE  FormatStatus(f, cols) \in Within(Budget(cols)) /\ Closing(FormatStatus(f, cols))
<1> DEFINE pieces == FormatStatus(f, cols)
           budget == Budget(cols)
<1>1. budget \in Nat
  BY DEF Budget
<1> HIDE DEF pieces, budget
<1>2. CASE \E i \in 1 .. Len(Tiers) :
             /\ ~Rendered(Tiers[i], f).overflow
             /\ Rendered(Tiers[i], f).cols <= budget
             /\ pieces = Rendered(Tiers[i], f).pieces
  <2>1. PICK i \in 1 .. Len(Tiers) :
               /\ ~Rendered(Tiers[i], f).overflow
               /\ Rendered(Tiers[i], f).cols <= budget
               /\ pieces = Rendered(Tiers[i], f).pieces
    BY <1>2
  <2>2. /\ pieces \in Seq(Pieces) /\ Closing(pieces)
        /\ Rendered(Tiers[i], f).cols = Visible(pieces)
    BY <2>1, RenderedWhole, Zenon
  <2> QED
    BY <2>1, <2>2 DEF Within, pieces, budget
<1>3. CASE pieces = Clamped(Rendered("minimal", f).pieces, budget)
  <2>1. 5 \in 1 .. Len(Tiers) /\ Tiers[5] = "minimal"
    BY DEF Tiers
  <2>2. ~Rendered(Tiers[5], f).overflow
    BY <2>1, FieldsAssumption
  <2> DEFINE line == Rendered(Tiers[5], f)
  <2>3. line.pieces \in Seq(Pieces) /\ Closing(line.pieces)
    BY <2>1, <2>2, RenderedWhole, Zenon
  <2>4. pieces = Clamped(line.pieces, budget)
    BY <1>3, <2>1
  <2> HIDE DEF line
  <2>5. Clamped(line.pieces, budget) \in Within(budget) /\ Closing(Clamped(line.pieces, budget))
    BY <1>1, <2>3, ClampedFits
  <2> QED
    BY <2>4, <2>5 DEF pieces, budget
<1>4. \/ \E i \in 1 .. Len(Tiers) :
              /\ ~Rendered(Tiers[i], f).overflow
              /\ Rendered(Tiers[i], f).cols <= budget
              /\ pieces = Rendered(Tiers[i], f).pieces
      \/ pieces = Clamped(Rendered("minimal", f).pieces, budget)
  BY StatusChosen DEF pieces, budget
<1> QED
  BY <1>2, <1>3, <1>4

Fitting(r) == r.shown => r.width < r.cols /\ r.closed

LEMMA LastTwo ==
  ASSUME NEW S, NEW s \in Seq(S), NEW m \in Nat, m > 0, Len(s) = m + 1,
         NEW a, NEW b, s[m] = a, s[m + 1] = b
  PROVE  SubSeq(s, m, m + 1) = <<a, b>>
<1> DEFINE t == SubSeq(s, m, m + 1)
           u == <<a, b>>
<1>1. t \in Seq(S) /\ Len(t) = 2 /\ t[1] = a /\ t[2] = b
  OBVIOUS
<1>2. u \in Seq(S) /\ Len(u) = 2 /\ u[1] = a /\ u[2] = b
  <2>1. a \in S /\ b \in S
    OBVIOUS
  <2> QED
    BY <2>1
<1> HIDE DEF t, u
<1>3. t = u
  BY <1>1, <1>2
<1> QED
  BY <1>3 DEF t, u

LEMMA RowForFits ==
  ASSUME NEW f \in Fields, NEW cols \in Nat \ {0}
  PROVE  Fitting(RowFor(f, cols))
<1> DEFINE pieces == FormatStatus(f, cols)
           n == Len(pieces)
<1>1. pieces \in Within(Budget(cols)) /\ Closing(pieces)
  BY StatusFits
<1> HIDE DEF pieces
<1>2. /\ pieces \in Seq(Pieces) /\ Visible(pieces) <= cols - 1
      /\ n \in Nat /\ n > 1 /\ pieces[n - 1] = Reset /\ pieces[n] = EraseLine
  BY <1>1 DEF Within, Closing, Budget
<1>3. Visible(pieces) < cols
  <2>1. Visible(pieces) \in Nat
    BY <1>2, VisibleAdds
  <2> QED
    BY <1>2, <2>1
<1>4. SubSeq(pieces, n - 1, n) = <<Reset, EraseLine>>
  <2> DEFINE m == n - 1
  <2>1. m \in Nat /\ m > 0 /\ n = m + 1 /\ Len(pieces) = m + 1
    BY <1>2
  <2>2. pieces[m] = Reset /\ pieces[m + 1] = EraseLine
    BY <1>2, <2>1
  <2> HIDE DEF m
  <2>3. SubSeq(pieces, m, m + 1) = <<Reset, EraseLine>>
    BY <1>2, <2>1, <2>2, LastTwo
  <2> QED
    BY <2>1, <2>3 DEF m
<1> DEFINE shut == n > 1 /\ SubSeq(pieces, n - 1, n) = <<Reset, EraseLine>>
           width == Visible(pieces)
           r == [shown |-> TRUE, cols |-> cols, width |-> width, closed |-> shut]
<1>5. RowFor(f, cols) = r
  BY DEF RowFor, pieces
<1>6. shut /\ width < cols
  BY <1>2, <1>3, <1>4
<1> HIDE DEF shut, width
<1>7. r.cols = cols /\ r.width = width
  BY DEF r
<1>8. r.closed = shut
  BY Zenon DEF r
<1> HIDE DEF r
<1>9. Fitting(r)
  <2>1. r.width < r.cols
    BY <1>6, <1>7
  <2>2. r.closed
    BY <1>6, <1>8, Zenon
  <2> QED
    BY <2>1, <2>2, Zenon DEF Fitting
<1> QED
  BY <1>5, <1>9, Zenon

(* Whatever the fields hold and however wide the terminal says it is, the    *)
(* row takes fewer columns than the terminal has, so it never wraps, and it  *)
(* ends with the colour reset and the rest of the row erased: in every state *)
(* of the console's two writers.                                             *)
THEOREM RowNeverWraps == RSpec => []RowFits
<1> DEFINE Inv == console \in Consoles /\ Fitting(row)
<1>1. RInit => Inv
  BY DEF RInit, Blank, Fitting
<1>2. Inv /\ [RNext]_rvars => Inv'
  <2> SUFFICES ASSUME Inv, [RNext]_rvars PROVE Inv'
    OBVIOUS
  <2>1. Fitting(Blank)
    BY DEF Blank, Fitting
  <2>2. ASSUME row' = Blank \/ row' = row, console' = console PROVE Inv'
    BY <2>1, <2>2 DEF Fitting
  <2>3. CASE NetRetry
    BY <2>2, <2>3 DEF NetRetry, Connecting, Cleanup, Gated, Sleeps, NetStep, Log, Silent
  <2>4. CASE DialFails \/ DialError \/ Upgraded \/ Connected
    BY <2>2, <2>4 DEF DialFails, DialError, Upgraded, Connected, NetStep, Log, Silent
  <2>5. CASE JobArrives \/ DaemonError \/ TimePasses \/ Lost
    BY <2>2, <2>5 DEF JobArrives, DaemonError, TimePasses, Lost, NetStep, Log, Silent
  <2>6. CASE Signalled \/ FoundShare \/ Tick \/ Shutdown
    BY <2>2, <2>6 DEF Signalled, FoundShare, Tick, Shutdown, NetStep, Log, Silent
  <2>7. CASE Write
    <3>1. CASE Drawn
      <4>1. PICK reported \in Reported : row' \in Rows[TermCols(console.override, reported)]
        BY <3>1 DEF Drawn
      <4> DEFINE cols == TermCols(console.override, reported)
      <4>2. cols \in Widths
        BY DEF Widths
      <4>3. cols \in Nat \ {0}
        BY ReporterAssumption, ConsoleAssumption DEF TermCols
      <4> HIDE DEF cols
      <4>4. row' \in {RowFor(f, cols) : f \in Fields}
        BY <4>1, <4>2 DEF Rows, cols
      <4>5. PICK f \in Fields : row' = RowFor(f, cols)
        BY <4>4
      <4>6. Fitting(RowFor(f, cols))
        BY <4>3, RowForFits
      <4>7. Fitting(row')
        BY <4>5, <4>6, Zenon
      <4> QED
        BY <2>7, <4>7 DEF Write, Fitting
    <3>2. CASE ~Drawn
      BY <2>2, <2>7, <3>2 DEF Write, Silent
    <3> QED
      BY <3>1, <3>2
  <2>8. CASE UNCHANGED rvars
    BY <2>2, <2>8 DEF rvars, screen
  <2> QED
    BY <2>3, <2>4, <2>5, <2>6, <2>7, <2>8 DEF RNext
<1>3. Inv => RowFits
  BY DEF Fitting, RowFits
<1> QED
  BY <1>1, <1>2, <1>3, PTL DEF RSpec
=============================================================================
