------------------------------ MODULE Launch --------------------------------
(***************************************************************************)
(* How the miner gets onto a phone and is kept running there               *)
(* (scripts/termux-setup.sh), and with what settings and on which CPUs a   *)
(* miner mines (Startup), however it was started.  A step is one command   *)
(* of the script.  Android may kill Termux between any two of them and in  *)
(* the middle of the ones that write; the user may press Ctrl-C or end the *)
(* script alone.                                                           *)
(*                                                                         *)
(* A binary is the number of its release, 0 if there is none and negative  *)
(* if the extraction was cut short.  A release comes nested in a directory *)
(* of its own, its package.                                                *)
(***************************************************************************)
EXTENDS Startup

CONSTANTS
  Machines,      \* the machines it may be started on
  Files,         \* what a user may write into config.json
  Elsewhere,     \* what it is in another directory the miner may be started in
  CommandLines,  \* arguments a user may give the miner
  Answers,       \* what the script's questions may end with
  MaxTag,        \* releases; the latest is at first 2
  FirstBackoff, MaxBackoff   \* 5 and 30 seconds

\* What stands where a number is wanted is read as one; atoi() is not asked for
\* more than an int, nor strtoll() for more than a long long.
IsInt(n) == n \in Int /\ AsInt(n) = n
IsConfig(file) ==
  file.kind = "whole" =>
    /\ DOMAIN file = {"kind", "address", "port", "wallet", "threads", "priority", "pin"}
    /\ file.address.port \in Nat \cup {-1}
    /\ file.port \in Int /\ file.threads \in Int
IsCommandLine(args) ==
  \A i \in DOMAIN args : /\ args[i].flag = "-d" => args[i].value.port \in Nat \cup {-1}
                         /\ args[i].flag = "-t" => IsInt(args[i].value)
\* What GetLogicalProcessorInformationEx() reports: no CPU is in two cores.
IsTopology(cores) ==
  /\ cores \in Seq([class : Nat, primary : Nat, sibling : Nat \cup {-1}])
  /\ \A i, j \in DOMAIN cores : \A k, l \in {"primary", "sibling"} :
       cores[i][k] = cores[j][l] /\ cores[i][k] # -1 => i = j /\ k = l
ASSUME InputsAssumption ==
  /\ \A m \in Machines : m.hardware \in Nat /\ IsTopology(m.cores)
  /\ \A file \in Files \cup Elsewhere \cup Answers : IsConfig(file)
  /\ \A answer \in Answers : answer.kind = "whole"
  /\ \A args \in CommandLines :
       Len(args) \in Nat /\ DOMAIN args = 1 .. Len(args) /\ IsCommandLine(args)

VARIABLES
  machine,    \* its platform ("android", "windows" or "linux"), its cores, its
              \* CPUs, those it lets no thread be pinned to, and the environment
  released,   \* the latest release
  here,       \* $INSTALL_DIR, or the directory the user unpacked
  there,      \* $LEGACY_INSTALL_DIR
  script,     \* the command termux-setup.sh is at, and its variables as long as
              \* they are read again
  lock,       \* Termux's wake lock, "free" or "held"
  stranded,   \* why the lock is held for no script: the script ended "untrapped",
              \* it was "killed", or the command that took the lock or gave it back
              \* ran into its "timeout"; else "no"
  miner,      \* what the running miner mines with and was given, or NoMiner
  wanted,     \* the configuration last written to config.json
  torn        \* the write of it was cut short

vars == <<machine, released, here, there, script, lock, stranded,
          miner, wanted, torn>>
disk == <<here, there>>
awake == <<lock, stranded>>
platform == machine.platform
config == <<wanted, torn>>

NoMiner == [running |-> FALSE]
Torn == -1     \* the marker of a script killed in echo > "$VERSION_FILE"
NoDirectory == [exists |-> FALSE, bin |-> 0, old |-> 0, packages |-> {}, marker |-> 0,
                file |-> NoFile]
Off == [pc |-> "off", update |-> FALSE, reconfigure |-> FALSE, latest |-> 0,
        ARCHIVE |-> 0, answer |-> NoFile, WAKE_LOCK |-> FALSE, pending |-> FALSE,
        handled |-> FALSE, BACKOFF |-> FirstBackoff]

Empty == [NoDirectory EXCEPT !.exists = TRUE]
ByAnOlderScript(bin, old, marker, packages) ==
  [Empty EXCEPT !.bin = bin, !.old = old, !.marker = marker, !.packages = packages]

\* A phone has nothing, an installation, one whose update stranded the new
\* binary in its package directory, or one from before the rebrand.
Init ==
  /\ machine \in Machines
  /\ released = 2
  /\ IF platform = "android"
     THEN /\ here \in {NoDirectory, ByAnOlderScript(1, 0, 1, {}),
                      ByAnOlderScript(1, 0, 2, {2})}
          /\ there \in {NoDirectory, ByAnOlderScript(0, 1, 1, {})}
     ELSE here = Empty /\ there = NoDirectory
  /\ script = Off /\ lock = "free" /\ stranded = "no" /\ miner = NoMiner
  /\ wanted = NoFile /\ torn = FALSE
-----------------------------------------------------------------------------
At(pc) == script.pc = pc
Goto(pc) == script' = [script EXCEPT !.pc = pc]

\* A lock the script took, or is just taking, stays behind.
Strand(reason) ==
  stranded' = IF lock' = "free" THEN "no"
              ELSE IF script.WAKE_LOCK \/ lock = "free" THEN reason ELSE stranded

\* exit, set -e or a signal before there is a trap: nothing gives the lock back,
\* and a termux-wake-lock under way may have taken it.
Exit ==
  /\ script' = Off
  /\ lock' = lock \/ (At("lock") /\ lock' = "held")
  /\ Strand("untrapped")

\* release_lock(), whose command may run into its timeout.
release_lock == IF script.WAKE_LOCK THEN lock' \in {"free", lock} ELSE UNCHANGED lock
\* What the script would do with a trap for INT and TERM only.
ExitWithoutRelease == script' = Off /\ UNCHANGED awake
ExitTrapped == script' = Off /\ release_lock /\ Strand("timeout")

Begin(update, reconfigure) ==
  /\ platform = "android" /\ At("off")
  /\ script' = [Off EXCEPT !.pc = "migrate", !.update = update,
                           !.reconfigure = reconfigure]
  /\ UNCHANGED <<machine, released, disk, awake, miner, config>>

\* --uninstall; a kill leaves anything of the directories.
Left(d) ==
  {[exists |-> TRUE, bin |-> b, old |-> o, packages |-> p, marker |-> m, file |-> f] :
     b \in {0, d.bin}, o \in {0, d.old}, p \in {{}, d.packages}, m \in {0, d.marker},
     f \in {NoFile, d.file}} \cup {NoDirectory}
Uninstall ==
  /\ platform = "android" /\ At("off")
  /\ here.exists \/ there.exists
  /\ \/ here' = NoDirectory /\ there' = NoDirectory
     \/ here' \in Left(here) /\ UNCHANGED there
     \/ here' = NoDirectory /\ there' \in Left(there)
  /\ wanted' = IF here'.file = NoFile THEN NoFile ELSE wanted
  /\ torn' = (torn /\ here'.file # NoFile)
  /\ UNCHANGED <<machine, released, script, awake, miner>>

Migrate ==
  /\ At("migrate")
  /\ IF ~here.exists /\ there.exists
     THEN /\ here' = there /\ there' = NoDirectory
          /\ wanted' = there.file /\ torn' = FALSE
          /\ Goto(IF there.bin = 0 /\ there.old # 0 THEN "rename" ELSE "check")
     ELSE /\ here' = [here EXCEPT !.exists = TRUE]
          /\ Goto("check")
          /\ UNCHANGED <<there, config>>
  /\ UNCHANGED <<machine, released, awake, miner>>

RenameLegacy ==
  /\ At("rename")
  /\ here' = [here EXCEPT !.bin = @ + here.old, !.old = 0]
  /\ Goto("check")
  /\ UNCHANGED <<machine, released, there, awake, miner, config>>

\* latest_release_tag() comes back empty if anything fails.
Check ==
  /\ At("check")
  /\ \E tag \in {0, released} :
       LET stays == ~script.update /\ here.marker # 0 /\ here.bin # 0
       IN \/ /\ stays \/ tag # 0
             /\ script' = [script EXCEPT !.latest = tag, !.update = FALSE,
                                         !.pc = IF stays THEN "version" ELSE "download"]
             /\ UNCHANGED awake
          \/ ~stays /\ tag = 0 /\ Exit
  /\ UNCHANGED <<machine, released, disk, miner, config>>

\* The asset under the new name or, if it cannot be had, under the old one;
\* nothing of a failed download stays.
Download ==
  /\ At("download")
  /\ \/ script' = [script EXCEPT !.ARCHIVE = script.latest, !.pc = "clear"]
        /\ UNCHANGED awake
     \/ Exit
  /\ UNCHANGED <<machine, released, disk, miner, config>>

\* What the script did before: extract over the installation.
ClearNothing ==
  /\ At("clear")
  /\ Goto("sweep")
  /\ UNCHANGED <<machine, released, disk, awake, miner, config>>
Clear ==
  /\ At("clear")
  /\ here' = [here EXCEPT !.bin = 0, !.old = 0]
  /\ Goto("sweep")
  /\ UNCHANGED <<machine, released, there, awake, miner, config>>

Sweep ==
  /\ At("sweep")
  /\ here' = [here EXCEPT !.packages = {}]
  /\ Goto("extract")
  /\ UNCHANGED <<machine, released, there, awake, miner, config>>

\* tar, which ends the script if it fails half way
Extract ==
  /\ At("extract")
  /\ \/ /\ here' = [here EXCEPT !.packages = @ \cup {script.ARCHIVE}]
        /\ Goto("lift") /\ UNCHANGED awake
     \/ here' = [here EXCEPT !.packages = @ \cup {-script.ARCHIVE}] /\ Exit
  /\ UNCHANGED <<machine, released, there, miner, config>>

Lift ==
  /\ At("lift")
  /\ IF here.bin # 0 THEN Goto("mark") /\ UNCHANGED here
     ELSE /\ \E nested \in here.packages : here' = [here EXCEPT !.bin = nested]
          /\ Goto("clean")
  /\ UNCHANGED <<machine, released, there, awake, miner, config>>

CleanPackage ==
  /\ At("clean")
  /\ here' = [here EXCEPT !.packages = @ \ {here.bin}]
  /\ Goto("mark")
  /\ UNCHANGED <<machine, released, there, awake, miner, config>>

Mark ==
  /\ At("mark")
  /\ here' = [here EXCEPT !.marker = script.latest]
  /\ Goto("version")
  /\ UNCHANGED <<machine, released, there, awake, miner, config>>

\* Only a whole binary reports its version.
Version ==
  /\ At("version")
  /\ IF here.bin > 0
     THEN /\ script' = [script EXCEPT
                          !.latest = 0, !.reconfigure = FALSE,
                          !.pc = IF script.reconfigure \/ here.file = NoFile
                                 THEN "ask" ELSE "lock"]
          /\ UNCHANGED awake
     ELSE Exit
  /\ UNCHANGED <<machine, released, disk, miner, config>>
-----------------------------------------------------------------------------
(* Rejected pools and thread counts are asked again; a rejected wallet, or no *)
(* terminal when it is asked, ends the script.                               *)
Ask ==
  /\ At("ask")
  /\ \/ /\ \E answer \in Answers :
             /\ answer.threads <= machine.hardware
             /\ script' = [script EXCEPT !.answer = answer, !.pc = "write"]
        /\ UNCHANGED awake
     \/ Exit
  /\ UNCHANGED <<machine, released, disk, miner, config>>

\* What load_config() makes of a file whose cat was stopped: the first keys, of the
\* threads perhaps only the first digits.  A phone has fewer than 1000 CPUs.
Decades == {1, 10, 100, 1000}
Cut(answer) ==
  {EmptyFile, answer,
   [answer EXCEPT !.address = NoAddress, !.wallet = NotGiven, !.threads = 0,
                  !.priority = NotGiven],
   [answer EXCEPT !.wallet = NotGiven, !.threads = 0, !.priority = NotGiven]}
  \cup {[answer EXCEPT !.threads = @ \div d, !.priority = NotGiven] : d \in Decades}
WriteCut ==
  /\ \E file \in Cut(script.answer) : here' = [here EXCEPT !.file = file]
  /\ wanted' = script.answer /\ torn' = TRUE
Write ==
  /\ At("write")
  /\ \/ /\ here' = [here EXCEPT !.file = script.answer]
        /\ wanted' = script.answer /\ torn' = FALSE
        /\ script' = [script EXCEPT !.answer = NoFile, !.pc = "lock"]
        /\ UNCHANGED awake
     \/ WriteCut /\ Exit
  /\ UNCHANGED <<machine, released, there, miner>>

\* Without the package there is no lock; without the app timeout gives up, and
\* the app may still take the lock.
TakeLock ==
  /\ At("lock")
  /\ \/ /\ lock' = "held" /\ stranded' = "no"
        /\ script' = [script EXCEPT !.WAKE_LOCK = TRUE, !.pc = "trap"]
     \/ lock' \in {lock, "held"} /\ Strand("timeout") /\ Goto("trap")
  /\ UNCHANGED <<machine, released, disk, miner, config>>

Trap ==
  /\ At("trap") /\ Goto("start")
  /\ UNCHANGED <<machine, released, disk, awake, miner, config>>

\* main() up to the worker threads, with the config.json of the current directory.
Started(elsewhere, file, args) ==
  LET g == Settings(machine.environment, file, args, machine.hardware)
  IN IF g.usage THEN NoMiner
     ELSE [running |-> TRUE, g |-> g, level |-> Level(g.priority),
           cpus |-> Pinned(platform, machine, g),
           elsewhere |-> elsewhere, file |-> file, args |-> args]

\* The script starts it in $INSTALL_DIR.
StartMiner ==
  /\ At("start")
  /\ miner' = Started(FALSE, here.file, <<>>)
  /\ Goto("wait")
  /\ UNCHANGED <<machine, released, disk, awake, config>>

\* bash runs the trap of a signal when the command it waits for has ended.
Handle == (IF script.pending THEN release_lock ELSE UNCHANGED lock) /\ UNCHANGED stranded

MinerFails ==
  /\ At("wait")
  /\ miner' = NoMiner
  /\ Handle
  /\ script' = [script EXCEPT !.pc = "sleep", !.pending = FALSE,
                              !.handled = @ \/ script.pending]
  /\ UNCHANGED <<machine, released, disk, config>>

\* The user ends the miner, by Ctrl-C or by a signal: it exits with 0.
MinerStops ==
  /\ At("wait")
  /\ miner' = NoMiner
  /\ ExitTrapped
  /\ UNCHANGED <<machine, released, disk, config>>

Slept ==
  /\ At("sleep")
  /\ Handle
  /\ LET twice == 2 * script.BACKOFF
     IN script' = [script EXCEPT !.pc = "start", !.pending = FALSE,
                                 !.handled = @ \/ script.pending,
                                 !.BACKOFF = IF twice > MaxBackoff THEN MaxBackoff
                                                                   ELSE twice]
  /\ UNCHANGED <<machine, released, disk, miner, config>>
-----------------------------------------------------------------------------
\* Ctrl-C, other than while a miner runs: the command dies, and the script with it.
Interrupt ==
  /\ ~At("off") /\ ~At("wait")
  /\ IF script.pc \in {"start", "sleep"} THEN ExitTrapped ELSE Exit
  /\ UNCHANGED <<machine, released, disk, miner, config>>

\* kill of the script alone while it waits: the trap does not leave the loop.
Terminate ==
  /\ script.pc \in {"wait", "sleep"} /\ ~script.pending
  /\ script' = [script EXCEPT !.pending = TRUE]
  /\ UNCHANGED <<machine, released, disk, awake, miner, config>>

\* Android ends Termux, and the wake lock goes with it, or only the script: then
\* the lock stays as it is, and a miner is nobody's any more and not followed.
Killed ==
  /\ ~At("off")
  /\ script' = Off /\ miner' = NoMiner
  /\ lock' \in {"free", lock} \/ (At("lock") /\ lock' = "held")
  /\ Strand("killed")
  /\ \/ /\ here' \in {here}
             \cup (IF At("extract")
                   THEN {[here EXCEPT !.packages = @ \cup {-script.ARCHIVE}]} ELSE {})
             \cup (IF At("mark") THEN {[here EXCEPT !.marker = Torn]} ELSE {})
        /\ UNCHANGED config
     \/ At("write") /\ WriteCut
  /\ UNCHANGED <<machine, released, there>>

Release ==
  /\ released < MaxTag
  /\ released' = released + 1
  /\ UNCHANGED <<machine, disk, script, awake, miner, config>>

\* On a desktop the user unpacks the release, writes config.json and starts the
\* miner; on a phone the script does.
EditConfig(file) ==
  /\ platform # "android" /\ miner = NoMiner
  /\ here' = [here EXCEPT !.file = file]
  /\ wanted' = file /\ torn' = FALSE
  /\ UNCHANGED <<machine, released, there, script, awake, miner>>

\* Where it is unpacked, or by its path from another directory.
RunByHand(args) ==
  /\ platform # "android" /\ miner = NoMiner
  /\ \/ miner' = Started(FALSE, here.file, args)
     \/ \E file \in Elsewhere : miner' = Started(TRUE, file, args)
  /\ UNCHANGED <<machine, released, disk, script, awake, config>>

MinerEnds ==
  /\ platform # "android" /\ miner # NoMiner
  /\ miner' = NoMiner
  /\ UNCHANGED <<machine, released, disk, script, awake, config>>

Install == Migrate \/ RenameLegacy \/ Check \/ Download \/ Clear \/ Sweep \/ Extract
             \/ Lift \/ CleanPackage \/ Mark \/ Version
Supervise == Ask \/ Write \/ TakeLock \/ Trap \/ StartMiner \/ MinerFails \/ MinerStops
               \/ Slept
Next ==
  \/ \E update, reconfigure \in BOOLEAN : Begin(update, reconfigure)
  \/ Uninstall \/ Install \/ Supervise
  \/ Interrupt \/ Terminate \/ Killed \/ Release
  \/ \E file \in Files : EditConfig(file)
  \/ \E args \in CommandLines : RunByHand(args)
  \/ MinerEnds

Spec == Init /\ [][Next]_vars
-----------------------------------------------------------------------------
(* Properties.                                                               *)

\* Whatever was cut short before, $INSTALL_DIR never holds part of a binary, and
\* a run that fetched a release starts that release (the update that "looked
\* like it worked and never did", termux-setup.sh:248-253).
InstalledHonest ==
  /\ here.bin >= 0
  /\ script.ARCHIVE # 0 /\ script.pc \in {"version", "ask", "write", "lock", "trap",
                                         "start", "wait", "sleep"}
       => here.bin = script.ARCHIVE /\ here.marker = script.ARCHIVE

\* A miner mines where and as its user wanted: an argument before config.json,
\* config.json before the environment and the built-in values.  That is the file
\* of the current directory (main.cpp:484), which is the one next to the executable
\* that README.md:22-24 and main.cpp:283 speak of only if the miner is started
\* there.  If the script was stopped while it wrote the file, the miner mines with
\* what stands in some first part of it: with the built-in wallet, with the
\* hardware's threads, with 1 thread of 12.  A port or a number of threads counts
\* only if it fits its type, a priority only in small letters, except from the
\* environment, and nothing mines without a host or a wallet.
Priorities == {"normal", "max"}
LastOf(args, flag) == SelectLastInSeq(args, LAMBDA a : a.flag = flag)
Wanted(flag, configured) ==
  IF LastOf(miner.args, flag) # 0 THEN miner.args[LastOf(miner.args, flag)].value
                                  ELSE configured
AddressIn(file) ==
  IF file.kind = "whole" /\ file.address # NoAddress THEN file.address
  ELSE [host |-> Builtin, port |-> BuiltinPort]
WalletIn(file) ==
  IF file.kind = "whole" /\ file.wallet # NotGiven THEN file.wallet ELSE Builtin
ThreadsIn(file) == IF file.kind = "whole" THEN file.threads ELSE 0
PriorityIn(file) ==
  IF file.kind = "whole" /\ file.priority \in Priorities THEN file.priority
  ELSE machine.environment.priority
MinesBy(file) ==
  LET dialled == Wanted("-d", AddressIn(file))
      threads == Wanted("-t", ThreadsIn(file))
  IN /\ miner.g.host = dialled.host /\ miner.g.host # ""
     /\ dialled.port \in 1 .. Ports - 1
          /\ (file.kind = "whole" /\ LastOf(miner.args, "-d") = 0 => file.port <= 0)
          => miner.g.port = dialled.port
     /\ miner.g.wallet = Wanted("-w", WalletIn(file)) /\ miner.g.wallet # ""
     /\ threads > 0 /\ IsInt(threads) => miner.g.nthreads = threads
     /\ miner.g.nthreads > 0
     /\ (miner.level = "max") = (Wanted("-p", PriorityIn(file)) \in MaxInAnyCase)

ConfigsRead ==
  IF miner.elsewhere THEN {miner.file} ELSE IF torn THEN Cut(wanted) ELSE {wanted}
MinesAsConfigured == miner # NoMiner => \E file \in ConfigsRead : MinesBy(file)

\* Workers are spread over the CPUs a mask can name, those below MaxCpus, that do
\* not refuse them: a second one on a CPU only when every such CPU has one; and
\* while a CPU that is not the sibling of one of the fastest cores is free, no
\* sibling of those has a worker (a sibling of the cores between the fastest and
\* the slowest may have one while a slower core has none).  A worker runs free
\* only if some CPU refuses.  CPUs from MaxCpus up have none.
CpusOf(core) == {core.primary, core.sibling} \ {-1}
WorkersSpread ==
  miner # NoMiner /\ miner.cpus # <<>> =>
    LET cores == IF platform = "windows" THEN Range(machine.cores) ELSE {}
        named == UNION {CpusOf(core) : core \in cores}
        usable == cores # {} /\ named \subseteq 0 .. MaxCpus - 1
        cpus == IF usable THEN named
                ELSE {cpu \in 0 .. MaxCpus - 1 : cpu < machine.hardware}
        open == cpus \ machine.refused
        workers(cpu) == Cardinality({t \in DOMAIN miner.cpus : miner.cpus[t] = cpu})
        fastest == {core \in cores : \A other \in cores : other.class <= core.class}
        late == {core.sibling : core \in fastest}
    IN /\ Range(miner.cpus) \subseteq open \cup (IF open = cpus THEN {} ELSE {Free})
       /\ \A c, d \in open : workers(c) <= workers(d) + 1
       /\ usable => \A c \in late \cap open, d \in open \ late :
                      workers(c) <= workers(d)

\* A wake lock that is held has a living script that took it, or its script ended
\* in one of three ways: before it had its trap (termux-setup.sh:411-439), by a
\* SIGKILL of its own, or at a termux-wake-* command that ran into its timeout.  A
\* script that sets its trap gives the lock back however else it ends; and until it
\* ends or first runs its trap, a script that took the lock has it.
LockReleased ==
  /\ lock = "held" => script.WAKE_LOCK \/ stranded \in {"untrapped", "killed", "timeout"}
  /\ script.WAKE_LOCK /\ ~script.handled => lock = "held"
=============================================================================
