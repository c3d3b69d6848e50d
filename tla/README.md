# Formal models of the Dirtybird C Miner

TLA+ models of the DERO AstroBWT v3 miner in `src/`, the TLC runs that check
them on small instances, and TLAPS proofs about them for every instance.
File names below are relative to the repository root (`src/network.cpp`,
`src/miner.cpp`, `src/main.cpp`, `include/dluna.h`).

## 1. The system

One process, one global `MinerState G` (`include/dluna.h:56`), and these
threads, all started by `main`:

| thread | code | what it does |
|---|---|---|
| main | `main.cpp:479` | configuration, self test, spawns the others, joins miners, then net, then reporter, prints totals |
| worker (N) | `miner.cpp:80` | waits for the first job, snapshots it, hashes nonces, queues shares that pass two stale gates |
| network | `network.cpp:723` | dial + TLS + upgrade, reads frames, installs jobs, drains the share queue, reconnects with backoff |
| reporter | `main.cpp:161` | once a second, hashrate and counters |
| signal handler | `main.cpp:46` | `G.quit = true` |

What they share: `jobEpoch`, `difficulty`, `connected`, `quit`, the job strings
under `jobMutex`, the queue `submitQueue` (at most `SUBMIT_QUEUE_MAX` = 32)
under `submitMutex`, the funnel counters, the file-static `g_session_has_job`, and the
console under `g_console_mtx`.  There are no callbacks and the miner persists
nothing.  Around the process: `config.json`, which it reads once, and on a phone
`scripts/termux-setup.sh`, which installs and updates the binary, writes
`config.json`, holds Android's wake lock and restarts the miner when it fails.

### Components, their state and what makes them correct

| component | state | operations | correct when |
|---|---|---|---|
| share path (worker side) | `found`, `staleDrops`, snapshot `epoch`/`jobId` | `submit_share` in `miner.cpp:22`, `dluna_submit_enqueue` | each find is counted once; a stale one does not reach the wire |
| drain and session (network side) | `submitQueue`, `batch`, `connected`, `g_session_has_job` | `submit_share` in `network.cpp:652`, `cleanup`, `ws_connect` | order kept, nothing replayed on a session that did not issue the job |
| job handling | `blob`, `jobId`, `height`, `difficulty`, `jobEpoch` | `handle_job` | an epoch names one job; replaced work is abandoned |
| hash loop | `nonce`, `localHashCount`, `localStale` | `mine_thread` | no work done twice, all hashes reported, bounded stale work |
| shutdown | `quit`, joins | `on_signal`, every wait | every thread ends |
| reconnect pacing | `backoff_ms`, `got_job`, uptime | `network_thread`, `backoff_sleep` | grows on useless sessions, resets on useful ones, bounded |
| WebSocket transport | byte stream, stall counter | `recv_all`, `ws_read_message`, `ws_send_message`, upgrade loop | frames stay in step, stalls are bounded |
| difficulty | - | `compute_target`, `check_hash` | target = 2^256 / difficulty |
| hash pipeline | scratch `workerData` | `dluna_hash`, `dluna_hash_x2` | each lane gets the digest of its own input |
| suffix arrays | `w.sa`, arenas, `libsais` context | descriptor path, libsais, two-byte sort, stamps, replay readers | the suffix array, whatever the buffers held before |
| SHA-256 | context, sink | one-shot, piecewise, two lanes in lockstep | the digest of the whole message |
| pinning, tuning, memory | - | `dluna_pin_order_from_cores`, ... | workers spread over the cores, fast ones first |
| reporter, console | rate window, the row on the screen | `HashrateTracker::sample`, `dluna_format_status`, `log_line` | rates of their window, the row fits, no row of a lost session |
| configuration | `G.host`, ... | `load_config`, `parse_args` | precedence |
| Termux script | install directory, `config.json`, wake lock | `termux-setup.sh` | a killed update never runs as the new release; the lock is given back |
| HiveOS scripts | - | `h-*.sh` | text plumbing |

What is hard to test: the order in which a job change, a worker's two gates, its
push, an eviction, the drain, a send failure and a reconnect interleave; shares
of a dead session that still carry the current epoch; the end of the process
while workers are in the middle of a hash; counters that must agree through
all of it; buffers reused from hash to hash without clearing, by sorters that
trust marks and lengths found in them; a status row drawn by one thread about a
connection closed by another; and a script Android may kill between any two of its
commands.  `PROJECT.json` lists these hazards one by one at their lines.

## 2. Modules

`Miner` is the threads; `MinerProps` what must hold of them; `ShareDelivery` the
promise they implement; `MCMiner` the TLC instance.
Four modules open what `Miner` abstracts: `MiningLoop` the inside of a worker,
`Target` its decision what a share is, `WsReader` a read of the network thread,
`Reconnect` its delays; `Reporter` composes `Reconnect` with the reporter and the
console (`Console`).  Five open what a hash is: `HashPipeline` the ways from an
input to its digest, which `Digests` composes with `Sha256`; `Descriptor` the one
stage it takes as given, the suffix array; `Replay` the same array written out and
read back; `Sorters` the other sorters, over `Libsais` and `InducedSorting`.
`Startup` and `Launch` are how a miner comes to run at all.  The theorems are in
`MinerProofs`, `MiningLoopProofs`, `TargetProofs`, `WsReaderProofs`, `ReporterProofs`
(with those about `Reconnect`), `HashPipelineProofs` and `LaunchProofs`; `Induction`
holds what several of them need about the natural numbers.

### Miner

One action per lock-protected region, or per read or write of an atomic that
another thread can see.  A mutex critical section that no other thread can
observe half done is one step; the one that can be (gate 2 to push, because
`jobEpoch` is written under `jobMutex` and not `submitMutex`) is two steps with
`submitMutex` held between them.  Reads that the network thread makes of
variables only it writes (`g_session_has_job`, `jobEpoch` at the drain) are
merged with the step they belong to.

| action | code |
|---|---|
| `WorkerStart` | the worker's allocations; a failure ends the thread |
| `WorkerReady` | the wait for the first valid job |
| `WorkerSnapshot` | outer loop head: quit, or copy the job under `jobMutex` |
| `WorkerPoll` | inner loop head: quit, replaced job, or hash |
| `WorkerMiss`, `WorkerHit` | a hash above or below the target; the find is counted first |
| `WorkerGate1`, `WorkerGate2`, `WorkerPush` | `submit_share`: both stale gates and the enqueue with eviction |
| `NetInit`, `NetLoop` | `ssl_init`, head of the outer loop with the `cleanup()` that opens `ws_connect` |
| `NetDialFail`, `NetDialOk` | the ways a dial ends: early return, return after `cleanup()`, or a session with the staged shares dropped |
| `NetSession`, `NetReadNoJob`, `NetReadJob` | session loop head; a read that fails, brings nothing or no job, or brings a job |
| `NetDrainNoJob`, `NetDrain` | the drain before and after the session's first job |
| `NetSendStale`, `NetSendOk`, `NetSendFail`, `NetBatchDone` | one turn of the batch loop, or its end |
| `NetClose`, `NetBackoff`, `NetFinal` | `cleanup()` after a session, the backoff, the thread's last `cleanup()` |
| `Signal`, `ReporterExit`, `MainJoin`, `Exited` | `on_signal`, the reporter's loop test, the joins, the end |

Abstractions.  A job (blob, job id, height, difficulty) is one model value;
`ZeroDiffJobs` are those whose difficulty field reads as 0, which only the
first-job wait looks at.  The hash is a free choice of hit or miss.  After a share
the worker either polls (the single-nonce path) or hashes again without polling
(the second nonce of a pair, or a round masked by `DLUNA_JOB_POLL`), whichever
path the build takes; a poll that finds nothing new leads to the same state as a
masked one.  Clocks are dropped: a dial, a read and a backoff end some time.  The
daemon's `accepted`, `blocks` and `rejected` are display only and left out.
`getaddrinfo` and `connect` are assumed to return.

History variables `issued`, `carried`, `settledSeq`, `discarded` and the fields `seq`
and `find` are read by no guard; they exist to state the properties.  `carried` is the
number of the find each worker has in hand, `find` that of a queued share.

### ShareDelivery

The abstract promise, without threads, queue, epochs or mutex: `pending` is a set of
finds, each with its number and its job; a pending find is settled once, as sent, failed
or dropped; and a find is sent or fails only for a job in `issued`, the jobs the open
session has handed out; `Connect` empties `issued`.  `MinerProps!ImplementsDelivery` maps
`pending` to the shares in workers' hands, in the queue and in the batch, and `dropped`
to stale, evicted and discarded shares together.

### MiningLoop

The hash loop with real nonces: `tid << 24` modulo the nonce space (`Span` for
2^24, `TidValues` for 256), the thread-id byte, one or two nonces a round, the
masked poll, the second read of the epoch for `DLUNA_COUNT_STALE`, the flush every
`FlushEvery` (64) hashes and the residue at exit.  `lanes` and `pollPeriod` are
what the build and the environment choose, once, in `Init`.  `tried` and
`staleHashed` are history; `Sum` adds up a number of each worker, and `Held` is
what it has counted and not flushed.  A pair of nonces and a poll
period are assumed to fit the space evenly, as 2, 64 and 2^32 do.

### Reconnect

`network_thread` around its sessions, with what decides the delays: `backoff_ms`,
`got_job`, the uptime and the signal.

| action | code |
|---|---|
| `Loop`, `DialFail`, `DialOk` | loop head and `ws_connect` with either result |
| `Job`, `Elapse`, `SessionEnds` | a well-formed job; time passing in the session or in its `cleanup()`, which the measured uptime includes; the end |
| `Gate` | the useful-session test, and the call of `backoff_sleep` |
| `SliceBegins`, `SliceEnds`, `SleepOver` | one slice, its end, and the doubling |

`uptime` saturates at `MinUptime`, which stands for anything longer.  `dials`,
`slept` and `quitSlept` are history.

### Console and Reporter

`Console` is the layouts of the row as pieces with their lengths, the choice of the
widest that fits (`FormatStatus`), the clamp of the last one, and the width of the
terminal; the writer, its columns and the clamp are recursive functions over the pieces
(`Lines`, `Columns`, `Clamps`).  `Reporter` extends `Reconnect`: every step of the network thread happens
with what it logs, and the reporter runs beside it.

| action | code |
|---|---|
| `Connecting`, `DialFails`, `DialError`, `Upgraded`, `Connected` | `ws_connect`, split where `G.connected` is stored apart from a log line |
| `JobArrives`, `DaemonError`, `TimePasses`, `Lost`, `Cleanup`, `Gated`, `Sleeps` | the session, its end, the `cleanup()` that clears `G.connected` without the console lock, the sleep |
| `Tick`, `Write` | a sample, the lock and the look at `G.connected`; the row written and the lock released |
| `FoundShare`, `Signalled`, `Shutdown` | a worker's log line, the signal, the last lines of `main` |

A field is its length, a text the columns it takes.  The lines that `-V` adds are line
feeds.  On a pipe nothing is drawn.  `samples` is history.  Fields have lengths for which the
least layout fits the line buffer, as the some twenty digits of a number do
(`FieldsAssumption`).  `Reconnect` itself, its
`Spec` and its proofs stand unchanged under the composition: each network action
of `Reporter` is one of `Reconnect` or leaves its variables alone.

### WsReader

The upgrade loop of `ws_connect` (`UpgradeRead`, `UpgradeFails`), `recv_all` and
`ws_read_message` (`ReadBytes`, `ReadTimeout`, `ReadError`, `Act`) and the session
loop (`Drain`, `NextTurn`).  The daemon (`Arrive`, `PeerCloses`), the signal and
the worker that queues a share are the surroundings.  A byte is its position in
the stream and a frame is what its header says, so what is kept is where the reader
thinks a frame begins and where one does.  A reader out of step decodes any header
(`HeadersAt`).  `ResponseAlone` says whether the daemon ends a TLS record with the
upgrade response; one `SSL_read` never returns bytes of two records.  A frame of the
miner's is two writes (`SendHeader`, `SendPayload`), either of which may fail half way
(`SendFails`); `torn` says that part of one is on the wire.  Header bits and masking
are abstracted; they keep the bytes they take.  History: `effects` is what each message
read came to, `silent` counts timeouts since the last byte independently of `stall`.
`FrameEnds` is where the frames of a stream end.

### Target

`compute_target` digit by digit and `check_hash` digit by digit, in base `Base`
(256), for numbers of `Width` (32) digits, with a remainder of `Word` (2^128)
values.  `Snapshot` starts a job, `DivideStep` and `CompareStep` are one turn of
each loop, `Hash` fills the hash with anything.  `dividend` and `quotient` are history.
`Value` is the number a buffer's digits stand for, by way of those of its `Prefixes`.

### Descriptor

The default suffix-array path (`stage_v114_sa_build_compact_fused_raw`) and the
variant that streams it into SHA-256 (`stage_v114_hash_compact_fused_raw`).

| action | code |
|---|---|
| `EmitGroupAlone`, `BeginRun`, `Column`, `EmitTail` | the walk over the runs of groups, right column to left, and the descriptors it appends |
| `RadixPass` | one pass of the stable sort of descriptors by key |
| `BeginWriting`, `WriteTogether`, `WriteAlone` | the check of the arena, and runs whose key occurs once |
| `WriteLiterals`, `WriteTwo`, `Gather`, `MergePass`, `WriteMerged` | runs that share a key: sorted in place, merged as written, or gathered and merged in pairs |
| `Finish` | the count, and the last of the sink |

The sizes are parameters: 256 columns (`GroupLen`), keys of 3 symbols, 8 compared
after the key, stores of 8 positions, 4 runs written together.  The end of the arena
is the fill: what a wide store copies from beyond it is `Junk`.  The run boundaries
are any set, since the templates only say where repetition is likely.  Texts end in
a symbol other than 0, since `wolfCompute` trims trailing zeros.  The mode
`"singletons"` streams with `DLUNA_STAGE5_COUNT1_SINGLETONS` set, without literal
descriptors.  Two groups, in the stream, have a walk of their own
(`StreamColumnOfTwo`), and two runs of one key a merge of their own into the array
(`WriteTwo`) and into the stream (`HashTwo`).

### Replay

The replay tools write the descriptor of a text as records and an arena
(`EncodeGroupAlone` to `EncodeTail`), a capture file holds them, and a reader turns them
into the suffix array: the checking one, which asks of each record that its positions
exist, are new, have its key and ascend, or the trusting one.  `Alter` is the file: one
record lost or changed, or one cell.  A record packs its count above an index of 17 bits
(`Packed`), which bounds what the encoders take (`TooLong`) but not what the readers do:
`CaptureLong` is a capture of a longer text.  `SortRecords` adds the zeros of the tail and
sorts by key; a zero beyond the indices is read back as a run (`aliased`, and `wild` where
that run leaves the arena); `WriteRecord` and `WriteRecords` copy, merge through a heap, or merge in pairs.
A behaviour is either a hash of `Descriptor` (`path = "live"`) or a replay, and both share
the walk over the groups.  The three compact encoders (two groups, a short run, a long
one) differ in unrolling only, except that two groups change places instead of being sorted.
The generation counter that clears "seen" is the set `seen`.

### InducedSorting, Libsais, Sorters

`InducedSorting` and `Libsais` are `libsais.c` as the miner calls it, function by function
as operators over the one array that holds suffixes, names, lengths and free cells: the
counts, the scans with their marks in the sign bit, the naming, the compaction that leaves
out unique names, the recursion with room for six, four, two or one counters a name, and
the merge back.  One thread (OpenMP is not built); loops unrolled for speed are one loop;
the counters are kept apart from the array's free cells.  Each `main_*` is a chain of its
stages: gathered (`Sorted*`), radix-sorted and partially sorted (`Partial*`), named and
sorted by recursion (`Order*`), placed and induced (`Final*`).  The BWT, inverse BWT, LCP,
generalised and integer entry points are never called.

`Sorters` hashes one text after another over an array that is never cleared, with libsais
(its context is allocated by a thread's first hash, and that may fail), the two-byte radix
sort (`sa_construct_2byte`), or the stamps of `spsa_local.cpp` (x86 builds with
`USE_ASTRO_SPSA`), which stream positions without an array.

### HashPipeline

`dluna_hash` (one lane, `"a"`) and `dluna_hash_x2` (both lanes, one after the other),
call after call in the same thread and with the same buffers.

| action | code |
|---|---|
| `Call` | an input a lane, and the start of `wolfCompute` for the first |
| `Chunk`, `Flush` | a chunk that is encrypted and ends a run, or is not, with the marker of each run; the last marker and the length |
| `BuildFlags`, `NoDescriptor` | the boundaries read back from the template, or none |
| `Stream` | the descriptors streamed into the digest |
| `Build`, `Verify`, `BuildDefault` | the descriptors' array in `w.sa` or beside it, its comparison with that of libsais, the fallback |
| `LaneDone`, `Digest`, `Return` | the other lane, SHA-256 of the arrays that wait, the end of the call |

The switches of the environment are chosen once, in `Init`; `plain` stands for the
three that turn the descriptors off.  What a buffer holds is named by the lane whose
input it is right for, and is `Junk` otherwise: a call begins with `Junk` in every
buffer, while the flags stay what the last hash left.  A build that fails, and any
build under verification, leaves what it likes.  `chunkCount` wraps at `2 * RunLimit`
(256) and the length of a marker at `RunLimit` (128), as the packing of `posData` has
it.  The model takes two things as given: that a build of the descriptors that
succeeds is right, which is what `Descriptor` shows, and that libsais and the two-byte
sort are right, which is what `Sorters` shows.  `tries` may reach 277, the entries of `astroTemplate`.

`encrypted` and `spilled` are history.

### Sha256 and Digests

`Sha256` is the OpenSSL-named functions of `sha256_ni.cpp` (contexts, the bit count in
two halves, buffering, padding, the choice of the SHA extension at run time) and
`dluna_sha256_x2`, two messages in lockstep, one of which ends first.  Every message of
the miner is whole 32-bit words, so words are the unit.  The 64 rounds are left
out: a state is the sequence of the blocks compressed into it.  `Digests` is
`HashPipeline` with each digest computed: at once, from the `FusedHashSink` in pieces, or in
lockstep.

### Startup and Launch

`Startup` is what `main` makes of `config.json`, the arguments and the environment
(`Settings`; `Options` is what is set after each argument), the order of the CPUs and the
CPU of each worker (`Pinned`; a worker whose CPU is in `refused` runs free).  Ports and
threads are cut to `Ports` and `Ints`, the values of a `uint16_t` and an `int`.  `Launch` is
`termux-setup.sh` and the desktop: a step is one command of the script.

| action | code |
|---|---|
| `Begin`, `Uninstall`, `Migrate`, `RenameLegacy` | the arguments, `--uninstall` (which may be killed half way), the directory of before the rebrand |
| `Check`, `Download`, `Clear`, `Sweep`, `Extract`, `Lift`, `CleanPackage`, `Mark`, `Version` | the update, one command each |
| `Ask`, `Write` | the questions, and `cat >` of `config.json`, which truncates first |
| `TakeLock`, `Trap`, `StartMiner`, `MinerFails`, `MinerStops`, `Slept` | wake lock, trap, the restart loop with its backoff |
| `Interrupt`, `Terminate`, `Killed` | Ctrl-C; `TERM` to the script alone; Android ending Termux, or a SIGKILL of the script alone, at or in the middle of a command |
| `Release`, `EditConfig`, `RunByHand`, `MinerEnds` | a new release; a desktop user, who starts the miner where it is unpacked or in another directory (`Elsewhere`) |

A binary is the number of its release, negative if the extraction was cut short.  JSON is
what `cfg_str` and `cfg_int` find of each key.  On a phone only the script starts the miner.
Package installation and the battery advisory change nothing the rest reads.  Files and
arguments are of the form the parsers make of them (`InputsAssumption`), a priority nobody
knows and an address without a host among them.  `Cut` is what `load_config` makes of each
first part of the file the script writes.  The wake lock is free or held; `stranded` is
history, why it is held for no script: the script ended before it had its trap, it was
killed alone, or the command of the lock ran into its `timeout`, which may leave the lock
either way.  A miner left running by a SIGKILL of the script is not followed.

## 3. What the runs check

| run | instance | shows |
|---|---|---|
| `miner_safety` | 2 workers, 2 jobs (one with difficulty 0), queue of 2, 2 job changes, 3 finds | `TypeOK`, `FunnelAccounting`, `DeliveryOrder`, `EpochNamesJob`, `ImplementsDelivery`, `SentOnItsSession` |
| `miner_live` | 2 workers, 2 jobs, queue of 1, 2 job changes, 1 find, fairness | `QuitEndsAll`, `QueuedShareLeaves`, `ReplacedWorkAbandoned` |
| `loop` | 2 workers, 1 or 2 nonces a round, a poll every 1 or 4 | `HashesReported`, `NoWorkTwice`, `StaleWorkBounded` |
| `reconnect` | delays 2, 4, 8, 10, 10 in slices of 4; a terminal of 12, 56 or unknown columns, one with `-V`, one overridden to 100, a pipe; 3 ticks over a window of 2; fairness | `TypeOK`, `RetriesPaced`, `QuitWithinASlice`, `DialsAgain` of the thread, `StaleRowWiped`, `RowFits`, `RateOverWindow` of the console |
| `ws_pass` | 6 daemons, streams cut anywhere, stalls of 3 polls, fairness | `InStep`, `FramesHandledOnce`, `NoSpuriousReconnect`, `ReadEnds` |
| `descriptor` | every binary text of 9 or 11 symbols, every set of run boundaries, three modes; every text of 6, 7 or 9 written and read back, with one change of the capture up to 7, and of 10, which is captured with indices for 9 | `TypeOK`, `WrittenIsSorted`, `ReplaySorted`, `NeverRefused` |
| `hash` | texts of 4 or 5 chunks, all 16 settings, one and two lanes, suffix arrays of 0, 2, 8 or 11 words in blocks of 4 | `TypeOK`, `RunsBeginAtEncryptions`, `DigestOfItsInput`, `DigestIsSha256` |
| `target` | base 3, 3 digits, difficulties 0 to 40, every hash | `TypeOK`, `DivisionExact`, `SharesMeetDifficulty` |
| `sorters` | two hashes in a row, the first over 16 bytes, the second over every binary text of up to 7 and words whose LMS substrings repeat; five sizes of the recursion's buffers; the stamps over every template `wolfCompute` may record | `SuffixArrayHashed`, `SpsaHashesText` |
| `launch` | a phone of 12 CPUs and 9 desktops, 2 of them with CPUs that refuse a thread; 3 releases; files with every address, port and wallet, or every priority and number of threads; two files elsewhere; up to 2 arguments | `InstalledHonest`, `MinesAsConfigured`, `WorkersSpread`, `LockReleased` |
| `miner_funnel` | violated | `FunnelIdentity`, with the queue empty: the tail of a failed batch |
| `ws_upgrade` | violated | `InStep`, with a daemon that sends its first frame in the record of the response |

The largest runs have 1.6 million (`launch`), 1.3 million (`descriptor`), 1.1 million
(`miner_safety`) and 0.5 million (`reconnect`) states and take one to two minutes each.

Bounds.

- `miner_safety`: three finds over a queue of two give eviction, a batch of two
  whose first send fails, and a share queued behind a batch; two changes over two jobs
  give the return to an earlier job under a new epoch, within a session and across a
  reconnect.  Reconnects and signals are not bounded.  Nothing in the code depends on
  the queue limit being 32.
- Two workers are enough for every pairwise interleaving, and are symmetric in the
  safety runs.  `miner_live` has no symmetry, and one find among two workers is a
  find by either.
- `loop`: eight nonces in the space and three rounds of two bring a worker into its
  neighbour's range, where only the thread-id byte keeps their work apart.
- `reconnect`: the delays are shorter than a slice, whole slices, and slices with a
  rest; two attempts at the ceiling.  The three widths choose the fullest, a middle and
  the clamped layout; a tick is on time or late with nothing hashed, and three ticks
  overwrite the ring.
- `ws_pass`: the streams hold a job, pings with and without payload, an empty
  message, a masked job with an extended length, pongs, which stand for the reserved opcodes too,
  with and without payload, a ping of the longer form, a close with something behind it,
  and each frame the reader refuses between two jobs.  Every cut into pieces, every
  timeout, a close of the peer and a signal at every point are explored.
- `descriptor`: three groups give the two-group and the general walk; a key of two in
  groups of three gives keys inside a group and across its end; nine or eleven
  positions over a sink of four fill it and leave a rest.  Altered captures stop at two
  groups and one symbol (`AlterLength`), where every check of the reader can fail.  A text
  of ten over an `IndexCount` of nine has its zero at a position no index holds.
- `hash`: with lengths below three and a counter below six, five chunks give runs that
  outgrow their length, a last run of zero chunks, and a template filled to its last
  entry.  Calls are not bounded.
- `target`: three digits give equal and unequal leading digits; 27 and 28 are the
  quotients 1 and 0.

- `sorters`: the sizes below which libsais changes its ways (2000 and 8192 names) are 100,
  20, 10 and 0, and 2, so that each way of counting is taken; the array has 40 cells.  Room for
  twelve modified bytes is full in some templates and not in others.
- `launch`: masks of six CPUs, ports of four bits and an `int` of five give a CPU no mask
  names and a port and threads that do not fit; 12 threads may be cut to 1 in the file; three
  releases give an update during an update.

Deadlock is checked in the runs of `Miner`, `Target`, `Digests` and `Launch`: the only
state of `Miner` with nothing to do is the end of `main`, and it loops there; of `Launch`,
none, for a program can always be started again.  The others stop: `MiningLoop` at its bound
or the end of its workers, `Reporter` and `WsReader` when the threads are done or the
connection dead, `Replay` at the end of the hash or of the replay, `Sorters` after its hashes.

### Fairness

`FairSpec` gives weak fairness to the network thread, to each worker, to the
reporter and to main, as wholes.  Every step of theirs is bounded in the code: a
hash takes about a millisecond, reads carry `SO_RCVTIMEO` and the stall limit,
sends `SO_SNDTIMEO`, the upgrade a deadline, the backoff looks at `quit` every
250 ms, and `submitMutex` is held only for a push or a swap, so it is granted.
What is not bounded by the code and still assumed is the return of `getaddrinfo`
and `connect`.  No fairness is given to signals, to the daemon sending a job, to a
hash being a hit, or to a choice inside a thread, so the liveness properties hold
however the daemon behaves.  `QuitEndsAll` needs every wait to look at `quit`;
`QueuedShareLeaves` excepts a network thread that has ended.

`Reporter` has fairness for the network thread's own steps (`NetRetry`) and none for the end of
a dial or of a session, which may last for ever.  It is strong, because such a step needs
the console, which the reporter takes again and again; the reporter holds it only while it
writes, once a second, and `Write` is weakly fair: a terminal that blocks for ever would
hold up the network thread too.  `WsReader` has fairness for the
reader and none for the peer, the signal or a share: `ReadEnds` is what the stall
limit gives against a peer that owes nothing.

### Findings

1. `FunnelIdentity`: `include/dluna.h:98` and `main.cpp:628` state
   `found == staleDrops + submitDrops + submitted + sendFails`.  A failed send
   counts one failure and discards the rest of the batch uncounted
   (`network.cpp:697-702`), which is what the run shows: the identity is asked for only
   when no share is left in the queue.  `FunnelAccounting` is the identity as the code
   keeps it, in every state.
2. `InStep` under `ws_upgrade`: `ws_connect` reads the response into a buffer of its
   own and drops what comes behind the terminator, so a first frame in the same
   TLS record is lost and the next read starts inside it (`network.cpp:436-440`).
   With a record of its own for the response (`ws_pass`) the reader stays in step.

Seen in the code while modelling, without a run of their own:

- for difficulty 1, 2^256 does not fit 32 bytes, the leading digit is dropped and the
  target is 0 (`difficulty.cpp:31`, against `difficulty.cpp:4`): `DivisionExact` starts at 2;
- a share queued after the network thread's last drain is cleared by its last
  `cleanup()` or, later still, neither sent nor counted (`network.cpp:796`), so that the
  identity fails there as well: `FunnelAccounting` has such a share in the queue for good,
  `FunnelIdentity` leaves it out;
- a ping of up to 125 bytes whose length is encoded in the form for longer ones is
  answered, although `network.cpp:556-558` says such a control frame is rejected, and the
  payload of a pong is handed to `handle_job` like a job (`network.cpp:575-588`);
  `FramesHandledOnce` says what the code does;
- the checking reader of a capture does not bound the length of its text: a zero of the
  tail at position 0x20000 or later, which it supplies as a literal (`v114_stubs.cpp:2360`),
  reads as a run of cells that nobody checked.  `ReplaySorted` says "unless `aliased`";
- workers go on hashing the last job through an outage; `main.cpp:203` says nothing is
  hashed while disconnected;
- `README.md:53` says replaced work is abandoned within one hash; the two-nonce
  path polls once a pair (`StaleWorkBounded` has the exact bound);
- `network.cpp:165` bounds the delay of a queued share by one read timeout, but a frame
  that stalls half way holds the reader for up to `MAX_STALL_POLLS` of them
  (`network.cpp:264-274`);
- the first run of a template is counted one group too long and a run length can
  outgrow its seven bits (`astrobwt.cpp:348`); harmless to the descriptors, because
  `WrittenIsSorted` holds for every set of boundaries.  `RunsBeginAtEncryptions` says where
  the boundaries are;
- if libsais cannot allocate its context, what `w.sa` held before is hashed
  (`astrobwt.cpp:732`); `SuffixArrayHashed` leaves that case out;
- the stamps sort a bucket of fewer than 32 entries by eight bytes and position only
  (`spsa_local.cpp:88`), not by suffix as `spsa_local.cpp:64-68` has it, and drop modified
  bytes beyond 16384 without a word; and unless chunk 1 is encrypted the overlap of the
  first run makes them hash what is behind the last whole chunk twice
  (`astrobwt.cpp:348`, `spsa_local.cpp:229-245`).  A digest of that path may differ from
  the network's, although `spsa.cpp:22-26` calls it correct and proven: `SpsaHashesText`
  allows for all three;
- a kill while the script writes `config.json` leaves it empty or in part; the next run
  finds a file, asks nothing and mines the built-in pool and wallet, or with the first digit
  of its threads.  `MinesAsConfigured` allows for a first part of the file (`Cut`) and no other;
- `config.json` is read from the current directory (`main.cpp:484`), although `README.md:22-24`
  and `main.cpp:283` have it next to the executable: started by its path from elsewhere, the miner
  mines by another file or by the built-in wallet.  `MinesAsConfigured` speaks of the file read;
- a number of threads in `config.json` is cut to an `int` (`main.cpp:441`) and may end up
  negative, which is taken for none;
- `TERM` to the script while the miner runs or it sleeps gives the wake lock back and goes on
  without it; a lock stays held for good after an end of the script between taking it and the
  trap (`termux-setup.sh:411-439`), a SIGKILL of the script alone, or a `timeout` that fires after
  it was taken or before it is given back.  `LockReleased` names these three and no other;
- `termux-setup.sh` accepts a port above 65535, which the miner cuts to 16 bits; `-d` with a
  host and no port keeps the port of `config.json`; the script's backoff is never reset;
- a sibling in a class between the fastest and the slowest gets a worker before the slower
  cores do (`cpu_topology.cpp:65-73`), against what one may read into "siblings last";
  `WorkersSpread` asks it of the fastest cores only;
- Linux pins worker to CPU modulo 64, so that CPUs from 64 up have none; above 256 threads the thread byte repeats;
- the reporter writes under `g_console_mtx`, so a blocked terminal stalls the network
  thread at its next log line; timestamps are taken before the lock and may run backwards;
- `console.cpp` speaks of four layouts and of padding with spaces; there are five and none.

## 4. What is proved

Every theorem holds for every value of the constants that the `ASSUME`s of its module
allow; where it needs more, its statement says so and it is named below.  Throughout, a
property is proved from an invariant that is inductive, or is inductive relative to one
already proved.

`MinerProofs`, for every non-empty finite set of workers, every set of jobs and every
queue that holds an entry:

- `TypeCorrect` (`TypeOK`), inductive as it stands; two conjuncts carry weight, that a batch
  exists only in the send loop and that `submitMutex` is held by `w` exactly when `w` is
  pushing.
- `EpochNamesOneJob` (`EpochNamesJob`).  The invariant is a statement about one set,
  `Bindings`, of all (epoch, job) pairs any thread carries; `BindingsGrow` concludes that a
  step adds at most the pair of a new epoch, larger than all others.
- `NoReplayAcrossSessions` (`SentOnItsSession`).  `DrainInv`: while the drain sends, the
  session has a job, `curEpoch` is the current epoch, and the current job is one the session
  issued.  With `EpochNamesJob`, a share whose epoch equals `curEpoch` is of that job.
- `FunnelIsExact` (`FunnelAccounting`).  The lemmas count: who enters or leaves
  `submit_share`, what a clear moves to `staleDrops`, a push at a full queue.
- `SharesLeaveInOrder` (`DeliveryOrder`).  `OrderInv`: the queue is numbered without a gap
  up to the last number given, the batch ascends between the last one settled and
  `LineEnd`, where the queue begins; an eviction moves `LineEnd` by one.
- `MinerDelivers` (`ImplementsDelivery`): the initial state maps to one of `ShareDelivery` and
  each action to one of its steps or a stutter.  `LedgerInv`: the finds in hand, queued and
  batched are all different and among those counted, so that what leaves the three places
  together leaves `pending` as often as the counters say; `RealJobs`: every one is for a job.

`MiningLoopProofs`, for every number of workers and every nonce space that rounds and poll
periods divide, as 2, 64 and 2^32 do:

- `EveryHashReported` (`HashesReported`).  A worker holds less than a flush and whole rounds
  (`Unflushed`), so the flush is never stepped over; `SumChange` is what one worker's change
  does to a sum over all.
- `StaleWorkEnds` (`StaleWorkBounded`).  `StaleInv`: what a worker has hashed of a replaced job
  is at most what lies between its last poll and its nonce, and nothing if its
  snapshot is current.
- `WorkIsNeverRepeated` (`NoWorkTwice`), under two hypotheses the code does not enforce: no
  more workers than the thread byte tells apart (256), and no worker goes round the
  nonce space (2^32) on one job.  `WorkInv`: of its snapshot a worker has tried exactly the
  nonces that follow its first, and of any other only older ones.

`TargetProofs`, for every base, width and difficulty that fit the word:

- `LoopsInBounds` (`TypeOK`): the remainder stays a natural, both indices in the buffers.
- `QuotientIsExact` (`DivisionExact`), the invariant of long division.  With `rem < difficulty`
  a digit is below the base, so that the cast to a byte loses nothing
  (`OneDigit`), and the digit dropped at index 0 is 0 for every difficulty above 1.
- `ShareIffEasyEnough` (`SharesMeetDifficulty`).  `TargetInv`: the digits stored are those of
  the quotient; `CompareInv`: the digits compared so far are equal, and at the first
  difference the rest cannot make it up (`FirstDifference`).

`WsReaderProofs`, for every set of streams and every limit:

- `ReaderStaysInStep` (`InStep`) and `EveryFrameOnce` (`FramesHandledOnce`), under the
  hypothesis `ResponseAlone`, without which `ws_upgrade` refutes the first.  `ReadInv`: the
  position is the end of the last frame read plus what the parts before this one and the bytes
  of this one take, the header in hand is that of this frame, and `effects` are those of the
  frames behind.
- `NoHastyReconnect` (`NoSpuriousReconnect`), without that hypothesis.  `StallInv`: the
  counter of a part never runs ahead of the silence on the wire.

`ReporterProofs`, for every floor, ceiling and slice with `Floor <= Ceiling`, and every
console, width, window and tick:

- `DelayInBounds` (`TypeOK` of `Reconnect`), whose content is `backoff \in Floor .. Ceiling`.
- `SignalEndsSleep` (`QuitWithinASlice`).  `FirstSlice`: nothing has been slept against the
  signal while there is none or the slice it fell into lasts; no slice begins after it.
- `DialsArePaced` (`RetriesPaced`).  `Paced`: between two attempts all of the delays are behind,
  during a sleep all but what is left.
- `ReporterOnlyWatches` (`RSpec => Spec`): the three theorems above hold of the composition.
- `RowsAreWiped` (`StaleRowWiped`).  `WipedInv`: where a row must be gone, the reporter, if it
  holds the console, has not been told to draw one.
- `RateIsOfTheWindow` (`RateOverWindow`).  `Ring`: a slot of the history is the sample as many
  ticks ago as its distance from `next`, whatever slot it is.
- `RowNeverWraps` (`RowFits`).  A line that had room for all pieces is its layout and its
  count of columns is right (`RenderedWhole`); a clamp keeps within the budget and keeps every
  escape, the closing ones included (`ClampsKeep`, `ClampedFits`).

`HashPipelineProofs`, for every number of chunks and every template with an entry a chunk:

- `TemplateInBounds` (`TypeOK`).  `FewerMarkers`: there are fewer markers than chunks as soon as
  there is a chunk, which is what the missing increment for chunk 1 gives and what leaves
  room for the marker behind the loop.
- `HashIsRight` (`DigestOfItsInput`), for every setting of the switches.  `Waiting` is what each
  stage hands to the next: an array that waits for its SHA-256 is right and stays so while
  the other lane is prepared; only a call of one lane streams.
- `RunsFollowEncryption` (`RunsBeginAtEncryptions`).  `RunsInv`: as long as no run has outgrown its
  length, the ends that the markers written so far add up to are the places where a run began.
- `DigestsAreSha256` (`DigestIsSha256`), of `DigestSpec`, for every block size, width of the
  count and size of the sink.  A context is a function of the message so far (`Context`), and
  `SHA256_Update` keeps it one wherever the pieces are cut (`ContextGrows`, which needs the
  carry of the split count, `CarryIs`); the blocks of a message stay when words are appended
  (`BlocksAppended`); the padding fills its last block (`PaddingFills`), so that
  `SHA256_Final` and `build_tail` end in the same blocks as `Padded` (`Finished`, `TailIs`);
  a lane of the lockstep has taken as many of its own blocks as there were rounds, or all
  (`Lockstep`), and the sink has hashed a prefix (`Streamed`).  Assumed of the texts: their
  bits are fewer than two words count (`TextAssumption`).

`LaunchProofs`, for every set of machines, files, answers and command lines of the form the
parsers make of them:

- `NoPartOfABinary` (`InstalledHonest`).  `InstallInv` is what each command of the update finds
  of the ones before: an empty directory for the extraction, one package to lift, the binary
  of the release whose marker it writes.
- `LockDiesWithScript` (`LockReleased`).  `LockInv` adds to it that a script that
  has ended keeps nothing in its variables.
- `ArgumentsBeatFile` (`MinesAsConfigured`).  `ConfigInv`: the file is what was last wanted or, if
  torn, one of its cuts, and each of those still reads as settings (`CutIsConfig`); `MinerInv`: a
  miner that runs is what its arguments and the file it read make of it.
  `OptionsApplied` says of the settings after each argument which argument they come from.
- `PinnedEvenly` (`WorkersSpread`).  Each loop over the cores appends one part of the CPUs, the
  first or the second ones of a class, and no two parts have a CPU in common: the placement
  lists every CPU once and the siblings of the fastest cores last (`PlacementLists`), and the
  mask of CPUs seen never keeps one out.  Worker `t` takes entry `t` modulo the length, so that
  an earlier entry has as many workers as a later one, or one more (`TurnsEven`); a CPU that
  refuses loses its workers and changes no other's (`Refusing`).  Assumed of
  the machine (`IsTopology`): the operating system names no CPU in two cores.

`Induction` replaces what the provers cannot instantiate, the library's induction over
operators: `NatSetInduction` is induction for a set, from the least element of a well-founded
relation, and `Recursion` says that a first value and a step define a function.  A
recursively defined function of a model is unfolded by showing that one like it
exists; so the models that have proofs use such functions and no `RECURSIVE`.

Only model-checked: the liveness properties and whatever needs fairness or ENABLED, which
are beyond the prover (`QuitEndsAll`, `QueuedShareLeaves`, `ReplacedWorkAbandoned`,
`DialsAgain`, `ReadEnds`), and the properties that compare with a sorted permutation or
with what folds and recursive operators make of a text (`SuffixArrayHashed`,
`SpsaHashesText`, `WrittenIsSorted`, `ReplaySorted`, `NeverRefused`, `TypeOK` of `Descriptor`).

## 5. Not modelled

- Salsa20, RC4, FNV, xxHash, SipHash, the branch transforms of a chunk and the 64 rounds of
  SHA-256: byte arithmetic without control; a wrong bit in them is a matter of test vectors.
- `spsa_tritonn.cpp` and its helpers: a port of another project's vectorised sorter that only
  the comparison harness of `astrobwt.cpp:834` calls, which prints and changes nothing.
- libsais beyond `libsais_ctx`: never called.  `write_fused_runs_to_sa` and the profile
  counters of `v114_stubs.cpp`: the former is called by nothing.
- The parsing of JSON text (`json_str`, `json_int`, `cfg_str`): a frame carries a job or
  does not, a file has a key or does not.
- Priorities, working sets and huge pages: what the operating system makes of them.
- The HiveOS scripts, which pass text between the rig's agent and the miner's log; the
  benchmarks and the reports of the replay harness; the build.

Weak memory is not modelled: the counters are relaxed atomics
whose order is not used, the epoch and the session gate are acquire/release or
sequentially consistent, and `jobMutex`, `submitMutex` and `g_console_mtx` guard the rest.

## 6. What is left

All modules planned are written.  Of the proofs, what is left is `TypeOK` of `Descriptor`, that
the stores of eight stay in the arena whatever the text, and behind it `WrittenIsSorted` and
`ReplaySorted`; all need the sorts and merges as recursive functions, and of each
that it permutes its input and sorts it.

Of the model: the capture file's framing and the harness around `Replay`; the batch of
`Miner` and the frames of `WsReader` in one composition.
