------------------------------ MODULE Reporter ------------------------------
(***************************************************************************)
(* The console and the two threads that write to it: the reporter, which   *)
(* draws the status row once a tick, and the network thread of Reconnect,  *)
(* whose log lines wipe that row.  Both hold g_console_mtx while they      *)
(* write; what decides whether the row is drawn, G.connected, is changed   *)
(* without it.  The screen is the row the cursor is on.                    *)
(***************************************************************************)
EXTENDS Reconnect, Console

CONSTANTS
  Consoles,     \* the consoles the program may be started on
  Reported,     \* the widths a terminal may report; 0 when it reports none
  Fields,       \* the lengths the fields of a row may have
  Window,       \* WINDOW_SAMPLES
  Advances,     \* the seconds a tick may take, with the hashes counted in it
  MaxTicks      \* bound: ticks of the reporter

ASSUME ReporterAssumption == /\ Reported \subseteq Nat /\ Window \in Nat \ {0}
                             /\ \A c \in Consoles : c.override \in Nat
                             /\ Advances \subseteq (Nat \ {0}) \X Nat
\* Numbers have some twenty digits at most: the least layout has room for them.
ASSUME FieldsAssumption ==
  \A f \in Fields :
    /\ {f.rate, f.avg, f.height, f.accepted, f.blocks, f.rejected, f.diff, f.time}
         \subseteq Nat
    /\ ~Rendered("minimal", f).overflow

VARIABLES
  console,      \* dluna_is_tty(), g_verbose, DIRTYBIRD_C_COLS
  connected,    \* G.connected
  hasJob,       \* G.jobEpoch > 0
  rpt,          \* where the reporter is; it holds the console when "writing"
  visible,      \* what dluna_status_row_visible() said
  row,          \* the row the cursor is on
  tracker,      \* the HashrateTracker, and the rate and avg it returned
  samples       \* history: every total ever sampled, with its time

screen == <<row, visible>>
reporter == <<rpt, tracker, samples>>
rvars == <<vars, console, connected, hasJob, screen, reporter>>

Blank == [shown |-> FALSE]
Snapshot(time, hashes) == [time |-> time, hashes |-> hashes]

RInit ==
  /\ Init
  /\ console \in Consoles
  /\ connected = FALSE /\ hasJob = FALSE
  /\ rpt = "asleep" /\ visible = FALSE /\ row = Blank
  /\ samples = <<Snapshot(0, 0)>>
  /\ tracker = [history |-> [i \in 0 .. Window - 1 |-> Snapshot(0, 0)],
                start |-> Snapshot(0, 0), lastHashes |-> 0, next |-> 0,
                rate |-> <<0, 1>>, avg |-> <<0, 1>>]
-----------------------------------------------------------------------------
(* The network thread's side: what each step of Reconnect logs.             *)

\* g_console_mtx is free.
Free == rpt # "writing"

\* log_line(): on a terminal it returns to the row's start and erases it.
Log == Free /\ row' = Blank

\* The row and who may draw it are left alone.
Silent == UNCHANGED row

NetStep(step) == step /\ UNCHANGED <<console, visible, reporter>>

\* ws_connect() begins, or the thread ends: cleanup(), then "Connecting".
Connecting ==
  /\ NetStep(Loop)
  /\ connected' = FALSE
  /\ IF quit THEN Silent ELSE Log
  /\ UNCHANGED hasJob

\* The dial fails and cleans up; unless the signal came, "reconnect in".
DialFails ==
  /\ ~connected
  /\ NetStep(DialFail)
  /\ IF quit THEN Silent ELSE Log
  /\ UNCHANGED <<connected, hasJob>>

\* One of ws_connect()'s own errors, logged where the dial fails.
DialError ==
  /\ pc = "dial" /\ ~connected
  /\ Log
  /\ UNCHANGED <<vars, console, connected, hasJob, visible, reporter>>

\* The upgrade is accepted: the store, then "Connected".
Upgraded ==
  /\ pc = "dial" /\ ~connected
  /\ connected' = TRUE
  /\ Silent
  /\ UNCHANGED <<vars, console, hasJob, visible, reporter>>

Connected ==
  /\ connected
  /\ NetStep(DialOk)
  /\ Log
  /\ UNCHANGED <<connected, hasJob>>

\* A job, which may come with an error of the daemon's and, with -V, is logged.
JobArrives ==
  /\ NetStep(Job)
  /\ hasJob' = TRUE
  /\ Log \/ (~console.verbose /\ Silent)
  /\ UNCHANGED connected

\* A frame that is no job but has an error in it.
DaemonError ==
  /\ pc = "session"
  /\ Log
  /\ UNCHANGED <<vars, console, connected, hasJob, visible, reporter>>

TimePasses ==
  /\ \E ms \in Elapses : NetStep(Elapse(ms))
  /\ Silent
  /\ UNCHANGED <<connected, hasJob>>

\* "connection lost" or "share send failed", while still connected; a session
\* that the signal ends says nothing.
Lost ==
  /\ NetStep(SessionEnds)
  /\ Log \/ (quit /\ Silent)
  /\ UNCHANGED <<connected, hasJob>>

\* The cleanup() after the session.
Cleanup ==
  /\ pc = "close" /\ connected
  /\ connected' = FALSE
  /\ Silent
  /\ UNCHANGED <<vars, console, hasJob, visible, reporter>>

\* The gate after it, and "reconnect in" before the sleep.
Gated ==
  /\ ~connected
  /\ NetStep(Gate)
  /\ IF quit THEN Silent ELSE Log
  /\ UNCHANGED <<connected, hasJob>>

Sleeps ==
  /\ NetStep(SliceBegins \/ SliceEnds \/ SleepOver)
  /\ Silent
  /\ UNCHANGED <<connected, hasJob>>

Signalled ==
  /\ NetStep(Signal)
  /\ Silent
  /\ UNCHANGED <<connected, hasJob>>

NetRetry == Connecting \/ Cleanup \/ Gated \/ Sleeps

\* A worker logs the share it found, with -V only; workers never stop mining.
FoundShare ==
  /\ console.verbose /\ hasJob /\ ~quit
  /\ Log
  /\ UNCHANGED <<vars, console, connected, hasJob, visible, reporter>>
-----------------------------------------------------------------------------
(* The reporter's side.                                                     *)

\* HashrateTracker::sample(): the rate over the samples of the ring, oldest
\* first, and over all; a total that fell begins the history again.
Rate(from, to) ==
  IF to.time > from.time THEN <<to.hashes - from.hashes, to.time - from.time>>
  ELSE <<0, 1>>

NextSlotShort(i) == (i + 1) % (Window - 1)
NextSlot(i) == (i + 1) % Window

Sampled(t, now) ==
  IF now.hashes < t.lastHashes
  THEN [history |-> [i \in DOMAIN t.history |-> now], start |-> now,
        lastHashes |-> now.hashes, next |-> 0, rate |-> <<0, 1>>, avg |-> <<0, 1>>]
  ELSE [t EXCEPT !.history[t.next] = now, !.lastHashes = now.hashes,
                 !.next = NextSlot(t.next),
                 !.rate = Rate(t.history[t.next], now),
                 !.avg = Rate(t.start, now)]

\* dluna_status_row_visible(): nothing is hashed while disconnected, nor
\* before the first job.
RowVisibleOnceHashing == hasJob
RowVisible == connected /\ hasJob

\* The sleep is over: sample, take the console and see whether to draw.  The
\* sample needs no lock; nothing between it and the lock reads or changes it.
Tick ==
  /\ rpt = "asleep" /\ Len(samples) <= MaxTicks
  /\ \E a \in Advances :
       LET now == Snapshot(samples[Len(samples)].time + a[1],
                           samples[Len(samples)].hashes + a[2])
       IN tracker' = Sampled(tracker, now) /\ samples' = Append(samples, now)
  /\ rpt' = "writing"
  /\ visible' = (console.tty /\ RowVisible)
  /\ UNCHANGED <<vars, console, connected, hasJob, row>>

\* What the row is for each width and fields: a row is kept as its width, the
\* terminal's, and whether its end resets the colour and erases the rest.
RowFor(f, cols) ==
  LET pieces == FormatStatus(f, cols)
      n == Len(pieces)
  IN [shown |-> TRUE, cols |-> cols, width |-> Visible(pieces),
      closed |-> n > 1 /\ SubSeq(pieces, n - 1, n) = <<Reset, EraseLine>>]
Widths == {TermCols(c.override, reported) : c \in Consoles, reported \in Reported}
Rows == [cols \in Widths |-> {RowFor(f, cols) : f \in Fields}]

\* The row is drawn over the last one, for the terminal's width of now.
Drawn == \E reported \in Reported : row' \in Rows[TermCols(console.override, reported)]

\* The row, or where stdout is no terminal a line of its own, is written; the
\* lines -V adds begin and end with a line feed and leave the row behind.
Write ==
  /\ rpt = "writing"
  /\ IF console.verbose \/ ~console.tty THEN row' = Blank
     ELSE IF visible THEN Drawn ELSE Silent
  /\ visible' = FALSE
  /\ rpt' = IF quit THEN "done" ELSE "asleep"
  /\ UNCHANGED <<vars, console, connected, hasJob, tracker, samples>>

\* main() has joined both threads and writes its last lines below the row.
Shutdown ==
  /\ pc = "done" /\ rpt = "done"
  /\ rpt' = "joined" /\ row' = Blank
  /\ UNCHANGED <<vars, console, connected, hasJob, visible, tracker, samples>>

RNext ==
  \/ NetRetry
  \/ DialFails \/ DialError \/ Upgraded \/ Connected
  \/ JobArrives \/ DaemonError \/ TimePasses \/ Lost
  \/ Signalled
  \/ FoundShare
  \/ Tick \/ Write \/ Shutdown

RSpec == RInit /\ [][RNext]_rvars

\* The network thread goes on with its own steps, the console among them: the
\* reporter holds it only while it writes, once a second.
RFairSpec == RSpec /\ SF_rvars(NetRetry) /\ WF_rvars(Write)
-----------------------------------------------------------------------------
(* A row left by a session that ended would go on showing a rate nobody      *)
(* hashes at: while the thread waits to dial again, and dials, the row the   *)
(* cursor is on is blank, although the reporter may have looked at           *)
(* G.connected just before cleanup() and draw just after it.                 *)
StaleRowWiped ==
  pc \in {"wait", "slice"} \/ (pc = "dial" /\ ~connected) => row = Blank

(* The row fits one row of the terminal it was laid out for with a column to *)
(* spare, whatever the fields hold, so that the next \r rewinds to its own   *)
(* start; and it never leaves a colour on or the old row's tail behind.      *)
RowFits == row.shown => row.width < row.cols /\ row.closed

(* The rate is that of the last Window samples and the average that of the   *)
(* whole session, however irregular the ticks: a stalled program shows zero  *)
(* after Window ticks and not before.                                        *)
RateOverWindow ==
  LET n == Len(samples)
      oldest == samples[IF n > Window THEN n - Window ELSE 1]
      Speed(pair, from) ==
        pair[1] * (samples[n].time - from.time) = pair[2] * (samples[n].hashes - from.hashes)
  IN n > 1 => Speed(tracker.rate, oldest) /\ Speed(tracker.avg, samples[1])
=============================================================================
