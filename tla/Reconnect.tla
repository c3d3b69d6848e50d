----------------------------- MODULE Reconnect -----------------------------
(***************************************************************************)
(* When the network thread dials again: network_thread()'s backoff_ms, the *)
(* gate that lets a useful session retry fast, and backoff_sleep(), which  *)
(* sleeps in slices so that a signal is not kept waiting.  Miner has the   *)
(* same loop with every delay abstracted; here the session's contents are. *)
(* Times are in milliseconds of any scale.                                 *)
(***************************************************************************)
EXTENDS Integers

CONSTANTS
  Floor,        \* backoff_ms at the start and after a useful session
  Ceiling,      \* max_backoff
  Slice,        \* SLICE_MS
  MinUptime,    \* MIN_UPTIME_MS
  Elapses,      \* the amounts by which a session's time may advance
  MaxDials      \* bound: dials since the last useful session

ASSUME DelayAssumption == /\ Floor \in Nat \ {0} /\ Ceiling \in Nat
                          /\ Floor <= Ceiling /\ Slice \in Nat \ {0}
ASSUME UptimeAssumption == MinUptime \in Nat /\ Elapses \subseteq Nat
ASSUME DialsAssumption == MaxDials \in Nat \ {0}

VARIABLES
  quit,         \* G.quit
  pc,           \* where the network thread is
  backoff,      \* backoff_ms
  left,         \* backoff_sleep()'s ms
  gotJob,       \* got_job
  uptime,       \* now - session_start; MinUptime stands for anything longer
  \* history
  dials,        \* dials since the last useful session, that session's one
  slept,        \* milliseconds slept since that session
  quitSlept     \* milliseconds slept after the signal

session == <<gotJob, uptime>>
history == <<dials, slept, quitSlept>>
vars == <<quit, pc, backoff, left, session, history>>

Pcs == {"loop", "dial", "session", "close", "wait", "slice", "done"}

Init ==
  /\ quit = FALSE /\ pc = "loop"
  /\ backoff = Floor /\ left = 0
  /\ gotJob = FALSE /\ uptime = 0
  /\ dials = 0 /\ slept = 0 /\ quitSlept = 0

Goto(from, to) == pc = from /\ pc' = to
Capped(ms) == IF ms > Ceiling THEN Ceiling ELSE ms

\* while (!quit), and ws_connect() begins.
Loop ==
  /\ \/ quit /\ Goto("loop", "done") /\ UNCHANGED dials
     \/ /\ ~quit /\ dials < MaxDials
        /\ Goto("loop", "dial")
        /\ dials' = dials + 1
  /\ UNCHANGED <<quit, backoff, left, session, slept, quitSlept>>

\* ws_connect() fails: leave on quit, or sleep for the present backoff.
DialFail ==
  /\ \/ quit /\ Goto("dial", "done") /\ UNCHANGED left
     \/ ~quit /\ Goto("dial", "wait") /\ left' = backoff
  /\ UNCHANGED <<quit, backoff, session, history>>

\* ws_connect() succeeds, which by itself earns nothing.
DialOk ==
  /\ Goto("dial", "session")
  /\ gotJob' = FALSE /\ uptime' = 0
  /\ UNCHANGED <<quit, backoff, left, history>>

\* A well-formed job arrives.
Job ==
  /\ pc = "session"
  /\ gotJob' = TRUE
  /\ UNCHANGED <<quit, pc, backoff, left, uptime, history>>

\* Time passes in the session, or in the cleanup() that ends it, which the
\* measured uptime includes.
Elapse(ms) ==
  /\ pc \in {"session", "close"}
  /\ uptime' = IF uptime + ms > MinUptime THEN MinUptime ELSE uptime + ms
  /\ UNCHANGED <<quit, pc, backoff, left, gotJob, history>>

\* The connection is lost, a send fails, or the signal ends the session.
SessionEnds ==
  /\ Goto("session", "close")
  /\ UNCHANGED <<quit, backoff, left, session, history>>

\* A session that brought a job or lasted has earned the short delay.
UsefulAlways == TRUE
Useful == gotJob \/ uptime >= MinUptime

\* After cleanup(): leave on quit, or set the backoff and start to sleep.
Gate ==
  /\ \/ /\ quit
        /\ Goto("close", "loop")
        /\ UNCHANGED <<backoff, left, dials, slept>>
     \/ /\ ~quit
        /\ Goto("close", "wait")
        /\ backoff' = IF Useful THEN Floor ELSE backoff
        /\ left' = backoff'
        /\ dials' = IF gotJob \/ uptime >= MinUptime THEN 1 ELSE dials
        /\ slept' = IF gotJob \/ uptime >= MinUptime THEN 0 ELSE slept
  /\ UNCHANGED <<quit, session, quitSlept>>

\* One slice of backoff_sleep(), begun only while there is no signal.
SliceLengthWhole == left
SliceLengthFullOnly == IF left < Slice THEN 0 ELSE Slice
SliceLength == IF left < Slice THEN left ELSE Slice

SliceBegins ==
  /\ left > 0 /\ ~quit
  /\ Goto("wait", "slice")
  /\ UNCHANGED <<quit, backoff, left, session, history>>

SliceEnds ==
  /\ Goto("slice", "wait")
  /\ left' = left - SliceLength
  /\ slept' = slept + SliceLength
  /\ quitSlept' = IF quit THEN quitSlept + SliceLength ELSE quitSlept
  /\ UNCHANGED <<quit, backoff, session, dials>>

\* backoff_sleep() returns and the backoff doubles, up to its ceiling.
DoubledUncapped == 2 * backoff
Doubled == Capped(2 * backoff)

SleepOver ==
  /\ left = 0 \/ quit
  /\ Goto("wait", "loop")
  /\ backoff' = Doubled
  /\ UNCHANGED <<quit, left, session, history>>

Signal ==
  /\ quit' = TRUE
  /\ UNCHANGED <<pc, backoff, left, session, history>>

Retry == Gate \/ SliceBegins \/ SliceEnds \/ SleepOver \/ Loop

Next ==
  \/ Retry
  \/ DialFail \/ DialOk \/ SessionEnds
  \/ Job
  \/ \E ms \in Elapses : Elapse(ms)
  \/ Signal

Spec == Init /\ [][Next]_vars
-----------------------------------------------------------------------------
(* Types; the delay never leaves its bounds.                                *)
TypeOK ==
  /\ quit \in BOOLEAN /\ pc \in Pcs
  /\ backoff \in Floor .. Ceiling /\ left \in 0 .. Ceiling
  /\ gotJob \in BOOLEAN /\ uptime \in 0 .. MinUptime
  /\ dials \in Nat /\ slept \in Nat /\ quitSlept \in Nat

(* Delay[i] is the delay after the i-th useless attempt in a row, Total[n]  *)
(* the time slept before the n-th retry.                                    *)
Delay[i \in Nat] == IF i = 0 THEN Floor ELSE Capped(2 * Delay[i - 1])
Total[n \in Nat] == IF n = 0 THEN 0 ELSE Total[n - 1] + Delay[n - 1]

(* A daemon that accepts and drops is not hammered: the attempts since the  *)
(* last useful session are spaced by delays that double up to the ceiling,  *)
(* and a connection that was merely accepted shortens nothing.  Conversely  *)
(* the first retry after a useful session waits no longer than the floor.   *)
RetriesPaced == pc = "dial" => slept = Total[dials - 1]

(* The signal is noticed within one slice, however long the delay.          *)
QuitWithinASlice == quitSlept <= Slice

(* Every failure is followed by another dial, unless the program ends.      *)
DialsAgain == pc \in {"close", "wait"} ~> (pc = "dial" \/ quit \/ dials = MaxDials)
=============================================================================
