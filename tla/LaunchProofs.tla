--------------------------- MODULE LaunchProofs ---------------------------
(***************************************************************************)
(* Proofs about Launch for every machine, configuration file, answer and   *)
(* number of releases.                                                     *)
(***************************************************************************)
EXTENDS Launch, Induction, FiniteSetTheorems

(* The entries of a directory and the variables of the script, as far as the *)
(* binary depends on them.                                                   *)
Entries == {"exists", "bin", "old", "packages", "marker", "file"}
Variables == {"pc", "update", "reconfigure", "latest", "ARCHIVE", "answer",
              "WAKE_LOCK", "pending", "handled", "BACKOFF"}

LaunchTypes ==
  /\ DOMAIN here = Entries /\ here.bin \in Nat /\ here.old \in Nat
  /\ DOMAIN there = Entries /\ there.bin \in Nat /\ there.old \in Nat
  /\ DOMAIN script = Variables /\ script.latest \in Nat
  /\ released \in Nat \ {0}

Installed == {"version", "ask", "write", "lock", "trap", "start", "wait", "sleep"}

(* What makes InstalledHonest inductive: from the download to the marker the *)
(* release being installed is the one looked up, the old binary is gone      *)
(* before tar writes, and the only package tar can leave is that release.    *)
InstallInv ==
  /\ script.pc \in {"migrate", "rename", "check", "download"} => script.ARCHIVE = 0
  /\ script.pc \in {"download", "clear", "sweep", "extract", "lift", "clean", "mark"}
       => script.latest # 0
  /\ script.pc \in {"clear", "sweep", "extract", "lift", "clean", "mark"}
       => script.ARCHIVE = script.latest
  /\ script.pc \in {"sweep", "extract", "lift"} => here.bin = 0
  /\ script.pc = "extract" => here.packages = {}
  /\ script.pc = "lift" => here.packages = {script.ARCHIVE}
  /\ script.pc \in {"clean", "mark"} => here.bin = script.ARCHIVE
  /\ script.pc \in Installed /\ script.ARCHIVE # 0
       => here.bin = script.ARCHIVE /\ here.marker = script.ARCHIVE

(* No script, no lock of one; and what LockReleased says.                    *)
LockInv ==
  /\ lock \in {"free", "held"}
  /\ script.pc = "off" => ~script.WAKE_LOCK
  /\ LockReleased
-----------------------------------------------------------------------------
LEMMA OffType ==
  /\ DOMAIN Off = Variables /\ Off.latest = 0
  /\ Off.pc = "off" /\ Off.WAKE_LOCK = FALSE
  BY DEF Off, Variables

LEMMA NoDirectoryType ==
  DOMAIN NoDirectory = Entries /\ NoDirectory.bin = 0 /\ NoDirectory.old = 0
  BY DEF NoDirectory, Entries

LEMMA LeftType ==
  ASSUME NEW d, d.bin \in Nat, d.old \in Nat, NEW e \in Left(d)
  PROVE  DOMAIN e = Entries /\ e.bin \in Nat /\ e.old \in Nat
  BY NoDirectoryType DEF Left, Entries

LaunchInv == LaunchTypes /\ InstallInv

(* The script has ended, whatever it left.                                   *)
LEMMA Ended ==
  ASSUME LaunchInv, script' = Off, UNCHANGED <<there, released>>,
         DOMAIN here' = Entries, here'.bin \in Nat, here'.old \in Nat
  PROVE  LaunchInv'
  BY OffType DEF LaunchInv, LaunchTypes, InstallInv, Installed

(* Once there is an installation the binary and its marker are left alone,   *)
(* and the script remembers what it installed.                               *)
LEMMA LeftInstalled ==
  ASSUME LaunchInv, UNCHANGED <<there, released>>,
         DOMAIN here' = Entries, here'.bin = here.bin, here'.old = here.old,
         here'.marker = here.marker,
         script.pc \in Installed, script'.pc \in Installed,
         DOMAIN script' = Variables, script'.latest \in Nat,
         script'.ARCHIVE = script.ARCHIVE
  PROVE  LaunchInv'
  BY DEF LaunchInv, LaunchTypes, InstallInv, Installed

(* An installation, from the migration to the version line.                  *)
LEMMA InstallStep ==
  ASSUME LaunchInv, Install
  PROVE  LaunchInv'
<1> USE DEF disk, config, At, Goto
<1>0. /\ DOMAIN here = Entries /\ here.bin \in Nat /\ here.old \in Nat
      /\ DOMAIN there = Entries /\ there.bin \in Nat /\ there.old \in Nat
      /\ {"exists", "bin", "old", "packages", "marker", "file"} \subseteq DOMAIN here
      /\ DOMAIN script = Variables /\ script.latest \in Nat
      /\ {"pc", "update", "latest", "ARCHIVE"} \subseteq DOMAIN script
      /\ released \in Nat \ {0}
  BY DEF LaunchInv, LaunchTypes, Entries, Variables
<1>1. ASSUME script' = Off, UNCHANGED <<here, there, released>> PROVE LaunchInv'
  BY <1>0, <1>1, Ended
<1>2. CASE Migrate
  <2>1. /\ DOMAIN here' = Entries /\ here'.bin \in Nat /\ here'.old \in Nat
        /\ DOMAIN there' = Entries /\ there'.bin \in Nat /\ there'.old \in Nat
        /\ released' = released
    BY <1>0, <1>2, NoDirectoryType DEF Migrate
  <2>2. \E to \in {"rename", "check"} : script' = [script EXCEPT !.pc = to]
    BY <1>2 DEF Migrate
  <2>3. /\ script'.pc \in {"rename", "check"} /\ DOMAIN script' = Variables
        /\ script'.latest = script.latest /\ script'.ARCHIVE = script.ARCHIVE
    BY <1>0, <2>2
  <2>4. script.ARCHIVE = 0
    BY <1>2 DEF Migrate, LaunchInv, InstallInv
  <2>5. QED
    BY <1>0, <2>1, <2>3, <2>4 DEF LaunchInv, LaunchTypes, InstallInv, Installed
<1>3. CASE RenameLegacy
  <2>1. /\ DOMAIN here' = Entries /\ here'.bin \in Nat /\ here'.old \in Nat
        /\ UNCHANGED <<there, released>>
    BY <1>0, <1>3 DEF RenameLegacy
  <2>2. /\ script'.pc = "check" /\ DOMAIN script' = Variables
        /\ script'.latest = script.latest /\ script'.ARCHIVE = script.ARCHIVE
    BY <1>0, <1>3 DEF RenameLegacy
  <2>3. script.ARCHIVE = 0
    BY <1>3 DEF RenameLegacy, LaunchInv, InstallInv
  <2>4. QED
    BY <1>0, <2>1, <2>2, <2>3 DEF LaunchInv, LaunchTypes, InstallInv, Installed
<1>4. CASE Check
  <2>1. UNCHANGED <<here, there, released>> /\ script.ARCHIVE = 0
    BY <1>4 DEF Check, LaunchInv, InstallInv
  <2>2. CASE script' = Off
    BY <1>1, <2>1, <2>2
  <2>3. CASE script' # Off
    <3>1. PICK tag \in {0, released}, to \in {"version", "download"} :
             /\ to = "download" => tag # 0
             /\ script' = [script EXCEPT !.latest = tag, !.update = FALSE,
                                         !.pc = to]
      BY <1>4, <2>3 DEF Check, Exit
    <3>2. /\ script'.pc = to /\ DOMAIN script' = Variables
          /\ script'.latest = tag /\ script'.ARCHIVE = script.ARCHIVE
      BY <1>0, <3>1
    <3>3. QED
      BY <1>0, <2>1, <3>1, <3>2 DEF LaunchInv, LaunchTypes, InstallInv, Installed
  <2>4. QED
    BY <2>2, <2>3
<1>5. CASE Download
  <2>1. UNCHANGED <<here, there, released>> /\ script.latest # 0
    BY <1>5 DEF Download, LaunchInv, InstallInv
  <2>2. CASE script' = Off
    BY <1>1, <2>1, <2>2
  <2>3. CASE script' # Off
    <3>1. script' = [script EXCEPT !.ARCHIVE = script.latest, !.pc = "clear"]
      BY <1>5, <2>3 DEF Download, Exit
    <3>2. /\ script'.pc = "clear" /\ DOMAIN script' = Variables
          /\ script'.latest = script.latest /\ script'.ARCHIVE = script.latest
      BY <1>0, <3>1
    <3>3. QED
      BY <1>0, <2>1, <3>2 DEF LaunchInv, LaunchTypes, InstallInv, Installed
  <2>4. QED
    BY <2>2, <2>3
<1>6. CASE Clear
  <2>1. /\ DOMAIN here' = Entries /\ here'.bin = 0 /\ here'.old = 0
        /\ UNCHANGED <<there, released>>
    BY <1>0, <1>6 DEF Clear
  <2>2. /\ script'.pc = "sweep" /\ DOMAIN script' = Variables
        /\ script'.latest = script.latest /\ script'.ARCHIVE = script.ARCHIVE
    BY <1>0, <1>6 DEF Clear
  <2>3. script.latest # 0 /\ script.ARCHIVE = script.latest
    BY <1>6 DEF Clear, LaunchInv, InstallInv
  <2>4. QED
    BY <1>0, <2>1, <2>2, <2>3 DEF LaunchInv, LaunchTypes, InstallInv, Installed
<1>7. CASE Sweep
  <2>1. /\ DOMAIN here' = Entries /\ here'.bin = here.bin /\ here'.old = here.old
        /\ here'.packages = {} /\ UNCHANGED <<there, released>>
    BY <1>0, <1>7 DEF Sweep
  <2>2. /\ script'.pc = "extract" /\ DOMAIN script' = Variables
        /\ script'.latest = script.latest /\ script'.ARCHIVE = script.ARCHIVE
    BY <1>0, <1>7 DEF Sweep
  <2>3. script.latest # 0 /\ script.ARCHIVE = script.latest /\ here.bin = 0
    BY <1>7 DEF Sweep, LaunchInv, InstallInv
  <2>4. QED
    BY <1>0, <2>1, <2>2, <2>3 DEF LaunchInv, LaunchTypes, InstallInv, Installed
<1>8. CASE Extract
  <2>1. PICK package \in {script.ARCHIVE, -script.ARCHIVE} :
           /\ here' = [here EXCEPT !.packages = here.packages \cup {package}]
           /\ \/ /\ package = script.ARCHIVE
                 /\ script' = [script EXCEPT !.pc = "lift"]
              \/ script' = Off
    BY <1>8 DEF Extract, Exit
  <2>2. /\ DOMAIN here' = Entries /\ here'.bin = here.bin /\ here'.old = here.old
        /\ here'.packages = here.packages \cup {package}
        /\ UNCHANGED <<there, released>>
    BY <1>0, <1>8, <2>1 DEF Extract
  <2>3. CASE script' = Off
    BY <1>0, <2>2, <2>3, Ended
  <2>4. CASE script' # Off
    <3>1. /\ script'.pc = "lift" /\ DOMAIN script' = Variables
          /\ script'.latest = script.latest /\ script'.ARCHIVE = script.ARCHIVE
          /\ package = script.ARCHIVE
      BY <1>0, <2>1, <2>4
    <3>2. /\ script.latest # 0 /\ script.ARCHIVE = script.latest
          /\ here.bin = 0 /\ here.packages = {}
      BY <1>8 DEF Extract, LaunchInv, InstallInv
    <3>3. QED
      BY <1>0, <2>2, <3>1, <3>2 DEF LaunchInv, LaunchTypes, InstallInv, Installed
  <2>5. QED
    BY <2>3, <2>4
<1>9. CASE Lift
  <2>1. /\ script.latest # 0 /\ script.ARCHIVE = script.latest
        /\ here.bin = 0 /\ here.packages = {script.ARCHIVE}
    BY <1>9 DEF Lift, LaunchInv, InstallInv
  <2>2. /\ here' = [here EXCEPT !.bin = script.ARCHIVE]
        /\ script' = [script EXCEPT !.pc = "clean"]
        /\ UNCHANGED <<there, released>>
    BY <1>9, <2>1 DEF Lift
  <2>3. /\ DOMAIN here' = Entries /\ here'.bin = script.ARCHIVE
        /\ here'.old = here.old
    BY <1>0, <2>2
  <2>4. /\ script'.pc = "clean" /\ DOMAIN script' = Variables
        /\ script'.latest = script.latest /\ script'.ARCHIVE = script.ARCHIVE
    BY <1>0, <2>2
  <2>5. QED
    BY <1>0, <2>1, <2>2, <2>3, <2>4
       DEF LaunchInv, LaunchTypes, InstallInv, Installed
<1>10. CASE CleanPackage
  <2>1. /\ DOMAIN here' = Entries /\ here'.bin = here.bin /\ here'.old = here.old
        /\ UNCHANGED <<there, released>>
    BY <1>0, <1>10 DEF CleanPackage
  <2>2. /\ script'.pc = "mark" /\ DOMAIN script' = Variables
        /\ script'.latest = script.latest /\ script'.ARCHIVE = script.ARCHIVE
    BY <1>0, <1>10 DEF CleanPackage
  <2>3. /\ script.latest # 0 /\ script.ARCHIVE = script.latest
        /\ here.bin = script.ARCHIVE
    BY <1>10 DEF CleanPackage, LaunchInv, InstallInv
  <2>4. QED
    BY <1>0, <2>1, <2>2, <2>3 DEF LaunchInv, LaunchTypes, InstallInv, Installed
<1>11. CASE Mark
  <2>1. /\ DOMAIN here' = Entries /\ here'.bin = here.bin /\ here'.old = here.old
        /\ here'.marker = script.latest /\ UNCHANGED <<there, released>>
    BY <1>0, <1>11 DEF Mark
  <2>2. /\ script'.pc = "version" /\ DOMAIN script' = Variables
        /\ script'.latest = script.latest /\ script'.ARCHIVE = script.ARCHIVE
    BY <1>0, <1>11 DEF Mark
  <2>3. script.ARCHIVE = script.latest /\ here.bin = script.ARCHIVE
    BY <1>11 DEF Mark, LaunchInv, InstallInv
  <2>4. QED
    BY <1>0, <2>1, <2>2, <2>3 DEF LaunchInv, LaunchTypes, InstallInv, Installed
<1>12. CASE Version
  <2>1. UNCHANGED <<here, there, released>> /\ script.pc \in Installed
    BY <1>12 DEF Version, Installed
  <2>2. CASE script' = Off
    BY <1>1, <2>1, <2>2
  <2>3. CASE script' # Off
    <3>1. PICK to \in {"ask", "lock"} :
             script' = [script EXCEPT !.latest = 0, !.reconfigure = FALSE, !.pc = to]
      BY <1>12, <2>3 DEF Version, Exit
    <3>2. /\ script'.pc = to /\ DOMAIN script' = Variables
          /\ script'.latest = 0 /\ script'.ARCHIVE = script.ARCHIVE
      BY <1>0, <3>1
    <3>3. script'.pc \in Installed
      BY <3>2 DEF Installed
    <3>4. QED
      BY <1>0, <2>1, <3>2, <3>3, LeftInstalled
  <2>4. QED
    BY <2>2, <2>3
<1>13. QED
  BY <1>2, <1>3, <1>4, <1>5, <1>6, <1>7, <1>8, <1>9, <1>10, <1>11, <1>12
     DEF Install

(* The configuration and the supervision of the miner.                       *)
LEMMA SuperviseStep ==
  ASSUME LaunchInv, Supervise
  PROVE  LaunchInv'
<1> USE DEF disk, config, At, Goto
<1>0. /\ DOMAIN here = Entries /\ here.bin \in Nat /\ here.old \in Nat
      /\ {"bin", "old", "packages", "marker", "file"} \subseteq DOMAIN here
      /\ DOMAIN script = Variables /\ script.latest \in Nat
      /\ {"pc", "latest", "ARCHIVE", "answer", "WAKE_LOCK", "pending", "handled",
          "BACKOFF"} \subseteq DOMAIN script
  BY DEF LaunchInv, LaunchTypes, Entries, Variables
<1>1. UNCHANGED <<there, released>> /\ script.pc \in Installed
  BY DEF Supervise, Ask, Write, TakeLock, Trap, StartMiner, MinerFails,
     MinerStops, Slept, Installed
<1>2. here' = here \/ \E f : here' = [here EXCEPT !.file = f]
  BY DEF Supervise, Ask, Write, WriteCut, TakeLock, Trap, StartMiner, MinerFails,
     MinerStops, Slept
<1>3. /\ DOMAIN here' = Entries /\ here'.bin = here.bin
      /\ here'.old = here.old /\ here'.marker = here.marker
  BY <1>0, <1>2
<1>4. CASE script' = Off
  BY <1>0, <1>1, <1>3, <1>4, Ended
<1>5. CASE script' # Off
  <2>1. /\ script'.pc \in {"write", "lock", "trap", "start", "wait", "sleep"}
        /\ DOMAIN script' = Variables /\ script'.latest = script.latest
        /\ script'.ARCHIVE = script.ARCHIVE
    <3>1. CASE Ask
      <4>1. \E a : script' = [script EXCEPT !.answer = a, !.pc = "write"]
        BY <1>5, <3>1 DEF Ask, Exit
      <4>2. QED
        BY <1>0, <4>1
    <3>2. CASE Write
      <4>1. script' = [script EXCEPT !.answer = NoFile, !.pc = "lock"]
        BY <1>5, <3>2 DEF Write, Exit
      <4>2. QED
        BY <1>0, <4>1
    <3>3. CASE TakeLock
      <4>1. \/ script' = [script EXCEPT !.WAKE_LOCK = TRUE, !.pc = "trap"]
            \/ script' = [script EXCEPT !.pc = "trap"]
        BY <3>3 DEF TakeLock
      <4>2. QED
        BY <1>0, <4>1
    <3>4. CASE Trap \/ StartMiner
      <4>1. \E to \in {"start", "wait"} : script' = [script EXCEPT !.pc = to]
        BY <3>4 DEF Trap, StartMiner
      <4>2. QED
        BY <1>0, <4>1
    <3>5. CASE MinerFails
      <4>1. \E h : script' = [script EXCEPT !.pc = "sleep", !.pending = FALSE,
                                            !.handled = h]
        BY <3>5 DEF MinerFails
      <4>2. QED
        BY <1>0, <4>1
    <3>6. CASE MinerStops
      BY <1>5, <3>6 DEF MinerStops, ExitTrapped
    <3>7. CASE Slept
      <4>1. \E h, delay : script' = [script EXCEPT !.pc = "start", !.pending = FALSE,
                                                   !.handled = h, !.BACKOFF = delay]
        BY <3>7 DEF Slept
      <4>2. QED
        BY <1>0, <4>1
    <3>8. QED
      BY <3>1, <3>2, <3>3, <3>4, <3>5, <3>6, <3>7 DEF Supervise
  <2>2. script'.pc \in Installed
    BY <2>1 DEF Installed
  <2>3. QED
    BY <1>0, <1>1, <1>3, <2>1, <2>2, LeftInstalled
<1>6. QED
  BY <1>4, <1>5

(* What befalls the script or its directories from outside.                  *)
LEMMA OutsideStep ==
  ASSUME LaunchInv, [Next]_vars, ~Install, ~Supervise
  PROVE  LaunchInv'
<1> USE DEF disk, config, At, Goto
<1>0. /\ DOMAIN here = Entries /\ here.bin \in Nat /\ here.old \in Nat
      /\ DOMAIN there = Entries /\ there.bin \in Nat /\ there.old \in Nat
      /\ {"bin", "old", "packages", "marker", "file"} \subseteq DOMAIN here
      /\ DOMAIN script = Variables /\ script.latest \in Nat
      /\ {"pc", "update", "reconfigure", "ARCHIVE", "pending"} \subseteq DOMAIN script
      /\ {"pc", "update", "reconfigure", "ARCHIVE", "pending"} \subseteq DOMAIN Off
      /\ released \in Nat \ {0}
  BY DEF LaunchInv, LaunchTypes, Entries, Variables, Off
<1>1. ASSUME NEW update \in BOOLEAN, NEW reconfigure \in BOOLEAN,
             Begin(update, reconfigure)
      PROVE  LaunchInv'
  <2>1. /\ script'.pc = "migrate" /\ DOMAIN script' = Variables
        /\ script'.latest = 0 /\ script'.ARCHIVE = 0
        /\ UNCHANGED <<here, there, released>>
    <3>1. Off.ARCHIVE = 0
      BY DEF Off
    <3>2. script' = [Off EXCEPT !.pc = "migrate", !.update = update,
                                !.reconfigure = reconfigure]
      BY <1>1 DEF Begin
    <3>3. QED
      BY <1>0, <1>1, <3>1, <3>2, OffType DEF Begin
  <2>2. QED
    BY <1>0, <2>1 DEF LaunchInv, LaunchTypes, InstallInv, Installed
<1>2. CASE Uninstall
  <2>1. /\ DOMAIN here' = Entries /\ here'.bin \in Nat /\ here'.old \in Nat
        /\ DOMAIN there' = Entries /\ there'.bin \in Nat /\ there'.old \in Nat
        /\ UNCHANGED <<script, released>> /\ script.pc = "off"
    BY <1>0, <1>2, LeftType, NoDirectoryType DEF Uninstall
  <2>2. QED
    BY <1>0, <2>1 DEF LaunchInv, LaunchTypes, InstallInv, Installed
<1>3. CASE Interrupt
  <2>1. script' = Off /\ UNCHANGED <<here, there, released>>
    BY <1>3 DEF Interrupt, ExitTrapped, Exit
  <2>2. QED
    BY <1>0, <2>1, Ended
<1>4. CASE Terminate
  <2>1. /\ UNCHANGED <<here, there, released>>
        /\ script.pc \in {"wait", "sleep"}
        /\ script' = [script EXCEPT !.pending = TRUE]
    BY <1>4 DEF Terminate
  <2>2. /\ script'.pc = script.pc /\ DOMAIN script' = Variables
        /\ script'.latest = script.latest /\ script'.ARCHIVE = script.ARCHIVE
        /\ script.pc \in Installed
    BY <1>0, <2>1 DEF Installed
  <2>3. QED
    BY <1>0, <2>1, <2>2, LeftInstalled
<1>5. CASE Killed
  <2>1. script' = Off /\ UNCHANGED <<there, released>>
    BY <1>5 DEF Killed
  <2>2. \/ here' = here
        \/ \E p : here' = [here EXCEPT !.packages = p]
        \/ \E m : here' = [here EXCEPT !.marker = m]
        \/ \E f : here' = [here EXCEPT !.file = f]
    BY <1>5 DEF Killed, WriteCut
  <2>3. DOMAIN here' = Entries /\ here'.bin = here.bin /\ here'.old = here.old
    BY <1>0, <2>2
  <2>4. QED
    BY <1>0, <2>1, <2>3, Ended
<1>6. CASE Release
  BY <1>0, <1>6 DEF Release, LaunchInv, LaunchTypes, InstallInv
<1>7. ASSUME NEW file \in Files, EditConfig(file) PROVE LaunchInv'
  <2>1. /\ DOMAIN here' = Entries /\ here'.bin = here.bin /\ here'.old = here.old
        /\ here'.packages = here.packages /\ here'.marker = here.marker
        /\ UNCHANGED <<there, script, released>>
    BY <1>0, <1>7 DEF EditConfig
  <2>2. QED
    BY <2>1 DEF LaunchInv, LaunchTypes, InstallInv
<1>8. CASE \/ \E args \in CommandLines : RunByHand(args)
           \/ MinerEnds \/ UNCHANGED vars
  <2>1. UNCHANGED <<here, there, script, released>>
    BY <1>8 DEF RunByHand, MinerEnds, vars
  <2>2. QED
    BY <2>1 DEF LaunchInv, LaunchTypes, InstallInv
<1>9. QED
  BY <1>1, <1>2, <1>3, <1>4, <1>5, <1>6, <1>7, <1>8 DEF Next

LEMMA LaunchInit ==
  Init => LaunchInv
<1> SUFFICES ASSUME Init PROVE LaunchInv
  OBVIOUS
<1>1. DOMAIN Empty = Entries
  BY NoDirectoryType DEF Empty
<1>2. ASSUME NEW b \in Nat, NEW o \in Nat, NEW m, NEW p
      PROVE  /\ DOMAIN ByAnOlderScript(b, o, m, p) = Entries
             /\ ByAnOlderScript(b, o, m, p).bin = b
             /\ ByAnOlderScript(b, o, m, p).old = o
  BY <1>1 DEF ByAnOlderScript, Entries
<1>3. Empty.bin = 0 /\ Empty.old = 0
  BY NoDirectoryType DEF Empty, Entries
<1>4. /\ DOMAIN here = Entries /\ here.bin \in Nat /\ here.old \in Nat
      /\ DOMAIN there = Entries /\ there.bin \in Nat /\ there.old \in Nat
  BY <1>1, <1>2, <1>3, NoDirectoryType DEF Init
<1>5. script = Off /\ released = 2
  BY DEF Init
<1>6. QED
  BY <1>4, <1>5, OffType DEF LaunchInv, LaunchTypes, InstallInv, Installed

(* Whatever was cut short before, by a kill, a Ctrl-C or a failed download,  *)
(* $INSTALL_DIR never holds part of a binary, and a script that fetched a    *)
(* release starts that release.                                              *)
THEOREM NoPartOfABinary == Spec => []InstalledHonest
<1>1. Init => LaunchInv
  BY LaunchInit
<1>2. LaunchInv /\ [Next]_vars => LaunchInv'
  BY InstallStep, SuperviseStep, OutsideStep
<1>3. LaunchInv => InstalledHonest
  BY DEF LaunchInv, LaunchTypes, InstallInv, Installed, InstalledHonest
<1>4. QED
  BY <1>1, <1>2, <1>3, PTL DEF Spec
-----------------------------------------------------------------------------
(* The lock.  A step ends the script, and the lock is free or stranded, or   *)
(* lets it go in a signal's trap, or leaves lock and script alone, or makes  *)
(* them agree.                                                               *)
LEMMA LockStep ==
  ASSUME LaunchInv, LockInv, [Next]_vars
  PROVE  LockInv'
<1> USE DEF At, Goto, awake
<1>0. {"pc", "update", "latest", "ARCHIVE", "answer", "WAKE_LOCK", "pending", "handled",
       "BACKOFF"} \subseteq DOMAIN script
  BY DEF LaunchInv, LaunchTypes, Variables
<1>1. ASSUME script'.pc # "off", script'.WAKE_LOCK = script.WAKE_LOCK,
             script'.handled = script.handled, UNCHANGED awake
      PROVE  LockInv'
  BY <1>1 DEF LockInv, LockReleased
<1>2. ASSUME NEW reason \in {"untrapped", "killed", "timeout"}, script' = Off,
             lock' \in {"free", "held"}, Strand(reason)
      PROVE  LockInv'
  <2>1. lock' = "held" => stranded' \in {"untrapped", "killed", "timeout"}
    BY <1>2 DEF Strand, LockInv, LockReleased
  <2> QED
    BY <1>2, <2>1, OffType DEF LockInv, LockReleased
<1>3. lock \in {"free", "held"} /\ (script.pc = "off" => ~script.WAKE_LOCK)
  BY DEF LockInv
<1>4. ASSUME Exit PROVE LockInv'
  BY <1>2, <1>3, <1>4 DEF Exit
<1>5. ASSUME ExitTrapped PROVE LockInv'
  BY <1>2, <1>3, <1>5 DEF ExitTrapped, release_lock
<1>6. ASSUME Handle, script'.pc # "off", script'.WAKE_LOCK = script.WAKE_LOCK,
             script'.handled = (script.handled \/ script.pending)
      PROVE  LockInv'
  <2>1. CASE script.pending
    <3>1. /\ lock' \in {"free", lock} /\ stranded' = stranded
          /\ script'.handled
      BY <1>6, <2>1 DEF Handle, release_lock
    <3> QED
      BY <1>3, <1>6, <3>1 DEF LockInv, LockReleased
  <2>2. CASE ~script.pending
    <3>1. /\ lock' = lock /\ stranded' = stranded
          /\ ~script'.handled => ~script.handled
      BY <1>6, <2>2 DEF Handle
    <3> QED
      BY <1>6, <3>1 DEF LockInv, LockReleased
  <2> QED
    BY <2>1, <2>2
<1>7. CASE \E update, reconfigure \in BOOLEAN : Begin(update, reconfigure)
  <2>1. script' = [Off EXCEPT !.pc = "migrate", !.update = script'.update,
                              !.reconfigure = script'.reconfigure]
    BY <1>7 DEF Begin, Off
  <2>2. /\ script'.pc = "migrate" /\ script'.WAKE_LOCK = FALSE
        /\ UNCHANGED awake /\ script.pc = "off"
    BY <1>7, <2>1 DEF Begin, Off
  <2>3. QED
    BY <1>3, <2>2 DEF LockInv, LockReleased
<1>8. CASE Install
  <2>1. \/ Exit
        \/ UNCHANGED awake /\ \E to : to # "off" /\ script' = [script EXCEPT !.pc = to]
        \/ UNCHANGED awake /\ \E tag, to :
             /\ to # "off"
             /\ script' = [script EXCEPT !.latest = tag, !.update = FALSE, !.pc = to]
        \/ UNCHANGED awake /\ script' = [script EXCEPT !.ARCHIVE = script.latest,
                                                   !.pc = "clear"]
        \/ UNCHANGED awake /\ \E to :
             /\ to # "off"
             /\ script' = [script EXCEPT !.latest = 0, !.reconfigure = FALSE, !.pc = to]
    <3>1. CASE Check
      BY <3>1 DEF Check
    <3>2. CASE Version
      BY <3>2 DEF Version
    <3>3. CASE Download
      BY <3>3 DEF Download
    <3>4. CASE Migrate
      BY <3>4 DEF Migrate
    <3>5. CASE RenameLegacy \/ Clear \/ Sweep \/ Extract \/ Lift \/ CleanPackage \/ Mark
      BY <3>5 DEF RenameLegacy, Clear, Sweep, Extract, Lift, CleanPackage, Mark
    <3>6. QED
      BY <1>8, <3>1, <3>2, <3>3, <3>4, <3>5 DEF Install
  <2>2. CASE Exit
    BY <1>4, <2>2
  <2>3. CASE ~Exit
    <3>1. /\ script'.pc # "off" /\ script'.WAKE_LOCK = script.WAKE_LOCK
          /\ script'.handled = script.handled /\ UNCHANGED awake
      BY <1>0, <2>1, <2>3
    <3>2. QED
      BY <1>1, <3>1
  <2>4. QED
    BY <2>2, <2>3
<1>9. CASE Supervise
  <2>1. CASE TakeLock
    <3>1. CASE /\ lock' = "held"
               /\ script' = [script EXCEPT !.WAKE_LOCK = TRUE, !.pc = "trap"]
      <4>1. script'.pc = "trap" /\ script'.WAKE_LOCK = TRUE
        BY <1>0, <3>1
      <4>2. QED
        BY <3>1, <4>1 DEF LockInv, LockReleased
    <3>2. CASE /\ lock' \in {lock, "held"} /\ Strand("timeout")
               /\ script' = [script EXCEPT !.pc = "trap"]
      <4>1. /\ script'.pc = "trap" /\ script'.WAKE_LOCK = script.WAKE_LOCK
            /\ script'.handled = script.handled
        BY <1>0, <3>2
      <4>2. CASE lock' = "free"
        BY <3>2, <4>1, <4>2 DEF LockInv, LockReleased
      <4>3. CASE lock' = "held"
        <5>1. script'.WAKE_LOCK \/ stranded' \in {"untrapped", "killed", "timeout"}
          BY <1>3, <3>2, <4>1, <4>3 DEF Strand, LockInv, LockReleased
        <5> QED
          BY <4>1, <4>3, <5>1 DEF LockInv, LockReleased
      <4> QED
        BY <1>3, <3>2, <4>2, <4>3
    <3>3. QED
      BY <2>1, <3>1, <3>2 DEF TakeLock
  <2>2. CASE MinerFails
    <3>1. /\ Handle
          /\ script' = [script EXCEPT !.pc = "sleep", !.pending = FALSE,
                                      !.handled = script.handled \/ script.pending]
      BY <2>2 DEF MinerFails
    <3>2. /\ script'.pc = "sleep" /\ script'.WAKE_LOCK = script.WAKE_LOCK
          /\ script'.handled = (script.handled \/ script.pending)
      BY <1>0, <3>1
    <3> QED
      BY <1>6, <3>1, <3>2
  <2>3. CASE Slept
    <3>1. PICK delay : /\ Handle
                       /\ script' = [script EXCEPT !.pc = "start", !.pending = FALSE,
                                        !.handled = script.handled \/ script.pending,
                                        !.BACKOFF = delay]
      BY <2>3 DEF Slept
    <3>2. /\ script'.pc = "start" /\ script'.WAKE_LOCK = script.WAKE_LOCK
          /\ script'.handled = (script.handled \/ script.pending)
      BY <1>0, <3>1
    <3> QED
      BY <1>6, <3>1, <3>2
  <2>4. CASE (Ask \/ Write \/ Trap \/ StartMiner) /\ ~Exit
    <3>1. /\ UNCHANGED awake
          /\ \/ \E a : script' = [script EXCEPT !.answer = a, !.pc = "write"]
             \/ script' = [script EXCEPT !.answer = NoFile, !.pc = "lock"]
             \/ \E to \in {"start", "wait"} : script' = [script EXCEPT !.pc = to]
      BY <2>4 DEF Ask, Write, Trap, StartMiner
    <3>2. /\ script'.pc # "off" /\ script'.WAKE_LOCK = script.WAKE_LOCK
          /\ script'.handled = script.handled
      BY <1>0, <3>1
    <3>3. QED
      BY <1>1, <3>1, <3>2
  <2>5. CASE MinerStops
    BY <1>5, <2>5 DEF MinerStops
  <2> QED
    BY <1>4, <1>9, <2>1, <2>2, <2>3, <2>4, <2>5 DEF Supervise
<1>10. CASE Interrupt
  BY <1>4, <1>5, <1>10 DEF Interrupt
<1>11. CASE Terminate
  <2>1. /\ script'.pc = script.pc /\ script'.WAKE_LOCK = script.WAKE_LOCK
        /\ script'.handled = script.handled /\ UNCHANGED awake /\ script.pc # "off"
    BY <1>0, <1>11 DEF Terminate
  <2>2. QED
    BY <1>1, <2>1
<1>12. CASE Killed
  BY <1>2, <1>3, <1>12 DEF Killed
<1>13. CASE UNCHANGED <<script, awake>>
  BY <1>13 DEF LockInv, LockReleased
<1>14. CASE \/ Uninstall \/ Release \/ MinerEnds \/ UNCHANGED vars
            \/ \E file \in Files : EditConfig(file)
            \/ \E args \in CommandLines : RunByHand(args)
  BY <1>13, <1>14 DEF Uninstall, Release, MinerEnds, EditConfig, RunByHand, vars
<1>15. QED
  BY <1>7, <1>8, <1>9, <1>10, <1>11, <1>12, <1>14 DEF Next

(* A wake lock that is held has a living script that took it, or is left     *)
(* from one that ended before it had its trap, was killed alone, or got no   *)
(* answer from Termux: over any number of scripts, no other end leaves it.   *)
(* And a script that took the lock has it until its trap first runs.         *)
THEOREM LockDiesWithScript == Spec => []LockReleased
<1>1. Init => LaunchInv /\ LockInv
  BY LaunchInit, OffType DEF Init, LockInv, LockReleased
<1>2. LaunchInv /\ LockInv /\ [Next]_vars => LaunchInv' /\ LockInv'
  BY InstallStep, SuperviseStep, OutsideStep, LockStep
<1>3. LockInv => LockReleased
  BY DEF LockInv
<1>4. QED
  BY <1>1, <1>2, <1>3, PTL DEF Spec
-----------------------------------------------------------------------------
(* The command line.  Of several arguments with the same flag the last one   *)
(* counts: Last(args, flag, n, j) if it is the j-th of the first n.          *)
Keys == {"host", "port", "wallet", "nthreads", "priority", "nopin", "usage"}
Unset(args, flag, n) == \A j \in 1 .. n : args[j].flag # flag
LastIs(args, flag, n, j) ==
  /\ j \in 1 .. n /\ args[j].flag = flag
  /\ \A k \in 1 .. n : k > j => args[k].flag # flag

LEMMA OneMore ==
  ASSUME NEW args, NEW flag, NEW n \in Nat
  PROVE  /\ Unset(args, flag, n + 1) <=>
              Unset(args, flag, n) /\ args[n + 1].flag # flag
         /\ \A j : LastIs(args, flag, n + 1, j) <=>
              \/ j = n + 1 /\ args[n + 1].flag = flag
              \/ LastIs(args, flag, n, j) /\ args[n + 1].flag # flag
<1>1. 1 .. n + 1 = 1 .. n \cup {n + 1} /\ \A k \in 1 .. n : ~(k > n + 1) /\ n + 1 > k
  OBVIOUS
<1>2. Unset(args, flag, n + 1) <=> Unset(args, flag, n) /\ args[n + 1].flag # flag
  BY <1>1 DEF Unset
<1>3. ASSUME NEW j
      PROVE  LastIs(args, flag, n + 1, j) <=>
               \/ j = n + 1 /\ args[n + 1].flag = flag
               \/ LastIs(args, flag, n, j) /\ args[n + 1].flag # flag
  <2>1. CASE j = n + 1
    BY <1>1, <2>1 DEF LastIs
  <2>2. CASE j # n + 1
    BY <1>1, <2>2 DEF LastIs
  <2> QED
    BY <2>1, <2>2
<1> QED
  BY <1>2, <1>3

LEMMA LastOfMeans ==
  ASSUME NEW args, Len(args) \in Nat, NEW flag
  PROVE  /\ LastOf(args, flag) = 0 => Unset(args, flag, Len(args))
         /\ LastOf(args, flag) # 0 => LastIs(args, flag, Len(args), LastOf(args, flag))
<1> DEFINE n == Len(args)
           I == {i \in 1 .. n : args[i].flag = flag}
<1>1. LastOf(args, flag) = IF I # {} THEN Max(I) ELSE 0
  BY DEF LastOf, SelectLastInSeq
<1>2. ASSUME I # {}
      PROVE  Max(I) \in I /\ \A i \in I : Max(I) >= i
  <2> DEFINE T == {n - i : i \in I}
  <2>1. T \subseteq Nat /\ T # {}
    BY <1>2
  <2> HIDE DEF T
  <2>2. PICK t \in T : \A y \in T : t <= y
    BY <2>1, LeastElement
  <2>3. PICK x \in I : t = n - x
    BY DEF T
  <2>4. \A i \in I : x >= i
    <3>1. \A i \in I : n - x <= n - i
      BY <2>2, <2>3 DEF T
    <3> QED
      BY <3>1
  <2> HIDE DEF I
  <2>5. \E m \in I : \A i \in I : m >= i
    BY <2>4
  <2> QED
    BY <2>5, Zenon DEF Max
<1>3. CASE I = {}
  BY <1>1, <1>3 DEF Unset
<1>4. CASE I # {}
  <2>1. Max(I) \in 1 .. n /\ args[Max(I)].flag = flag
    BY <1>2, <1>4
  <2>2. \A k \in 1 .. n : k > Max(I) => args[k].flag # flag
    BY <1>2, <1>4
  <2> HIDE DEF I
  <2>3. LastOf(args, flag) = Max(I) /\ Max(I) # 0
    BY <1>1, <1>4, <2>1
  <2> QED
    BY <2>1, <2>2, <2>3 DEF LastIs
<1> QED
  BY <1>3, <1>4

(* What the first n arguments make of the settings g.                        *)
Obeyed(g, args, n, s) ==
  ~s.usage =>
    /\ Unset(args, "-d", n) => s.host = g.host /\ s.port = g.port
    /\ Unset(args, "-w", n) => s.wallet = g.wallet
    /\ Unset(args, "-t", n) => s.nthreads = g.nthreads
    /\ Unset(args, "-p", n) => s.priority = g.priority
    /\ \A j : LastIs(args, "-d", n, j) =>
                /\ s.host = args[j].value.host
                /\ args[j].value.port >= 0 => s.port = AsPort(args[j].value.port)
    /\ \A j : LastIs(args, "-w", n, j) => s.wallet = args[j].value
    /\ \A j : LastIs(args, "-t", n, j) => s.nthreads = args[j].value
    /\ \A j : LastIs(args, "-p", n, j) => s.priority = args[j].value

(* One argument more changes the settings of its flag and no other.          *)
LEMMA OptionObeyed ==
  ASSUME NEW g, NEW args, NEW n \in Nat, NEW s, DOMAIN s = Keys,
         Obeyed(g, args, n, s)
  PROVE  Obeyed(g, args, n + 1, Option(s, args[n + 1]))
<1> DEFINE a == args[n + 1]
           t == Option(s, a)
<1>1. Keys \subseteq DOMAIN s
  OBVIOUS
<1>2. CASE a.flag = "-d"
  <2>1. t = Dial(s, a.value)
    BY <1>2 DEF Option
  <2>2. /\ t.host = a.value.host /\ t.wallet = s.wallet /\ t.nthreads = s.nthreads
        /\ t.priority = s.priority /\ t.usage = s.usage
        /\ a.value.port >= 0 => t.port = AsPort(a.value.port)
    BY <1>1, <2>1 DEF Dial, Keys
  <2> HIDE DEF t
  <2> QED
    BY <1>2, <2>2, OneMore DEF Obeyed, t
<1>3. CASE a.flag = "-w"
  <2>1. t = [s EXCEPT !.wallet = a.value]
    BY <1>3 DEF Option
  <2>2. /\ t.host = s.host /\ t.port = s.port /\ t.wallet = a.value
        /\ t.nthreads = s.nthreads /\ t.priority = s.priority /\ t.usage = s.usage
    BY <1>1, <2>1 DEF Keys
  <2> HIDE DEF t
  <2> QED
    BY <1>3, <2>2, OneMore DEF Obeyed, t
<1>4. CASE a.flag = "-t"
  <2>1. t = [s EXCEPT !.nthreads = a.value]
    BY <1>4 DEF Option
  <2>2. /\ t.host = s.host /\ t.port = s.port /\ t.wallet = s.wallet
        /\ t.nthreads = a.value /\ t.priority = s.priority /\ t.usage = s.usage
    BY <1>1, <2>1 DEF Keys
  <2> HIDE DEF t
  <2> QED
    BY <1>4, <2>2, OneMore DEF Obeyed, t
<1>5. CASE a.flag = "-p" /\ a.value \in {"normal", "max"}
  <2>1. t = [s EXCEPT !.priority = a.value]
    BY <1>5 DEF Option
  <2>2. /\ t.host = s.host /\ t.port = s.port /\ t.wallet = s.wallet
        /\ t.nthreads = s.nthreads /\ t.priority = a.value /\ t.usage = s.usage
    BY <1>1, <2>1 DEF Keys
  <2> HIDE DEF t
  <2> QED
    BY <1>5, <2>2, OneMore DEF Obeyed, t
<1>6. CASE a.flag = "--no-pin"
  <2>1. t = [s EXCEPT !.nopin = TRUE]
    BY <1>6 DEF Option
  <2>2. /\ t.host = s.host /\ t.port = s.port /\ t.wallet = s.wallet
        /\ t.nthreads = s.nthreads /\ t.priority = s.priority /\ t.usage = s.usage
    BY <1>1, <2>1 DEF Keys
  <2> HIDE DEF t
  <2> QED
    BY <1>6, <2>2, OneMore DEF Obeyed, t
<1>7. CASE /\ a.flag \notin {"-d", "-w", "-t", "--no-pin"}
           /\ ~(a.flag = "-p" /\ a.value \in {"normal", "max"})
  <2>1. t = [s EXCEPT !.usage = TRUE]
    BY <1>7 DEF Option
  <2>2. t.usage = TRUE
    BY <1>1, <2>1 DEF Keys
  <2> HIDE DEF t
  <2> QED
    BY <2>2 DEF Obeyed, t
<1> QED
  BY <1>2, <1>3, <1>4, <1>5, <1>6, <1>7

LEMMA OptionType ==
  ASSUME NEW D, Int \subseteq D, TRUE \in D, NEW s \in [Keys -> D], NEW a,
         a.value \in D, a.value.host \in D, a.flag = "-d" => a.value.port \in Int
  PROVE  Option(s, a) \in [Keys -> D]
<1>1. ASSUME NEW k \in Keys, NEW d \in D
      PROVE  [s EXCEPT ![k] = d] \in [Keys -> D]
  OBVIOUS
<1>2. CASE a.flag = "-d"
  <2>1. AsPort(a.value.port) \in D
    BY <1>2, PortsAssumption DEF AsPort
  <2> DEFINE h == [s EXCEPT !.host = a.value.host]
  <2>2. h \in [Keys -> D] /\ h.port = s.port /\ s.port \in D
    BY <1>1 DEF Keys
  <2>3. [s EXCEPT !.host = a.value.host,
                  !.port = IF a.value.port >= 0 THEN AsPort(a.value.port) ELSE @]
          = [h EXCEPT !.port = IF a.value.port >= 0 THEN AsPort(a.value.port)
                                                    ELSE s.port]
    BY <2>2 DEF Keys
  <2>4. "port" \in Keys
    BY DEF Keys
  <2> HIDE DEF h
  <2>5. [h EXCEPT !.port = IF a.value.port >= 0 THEN AsPort(a.value.port) ELSE s.port]
          \in [Keys -> D]
    BY <2>1, <2>2, <2>4
  <2> QED
    BY <1>2, <2>3, <2>5 DEF Option, Dial
<1>3. CASE a.flag # "-d"
  <2>1. {"wallet", "nthreads", "priority", "nopin", "usage"} \subseteq Keys
    BY DEF Keys
  <2> QED
    BY <1>1, <1>3, <2>1 DEF Option
<1> QED
  BY <1>2, <1>3

Applied(h, g, args) ==
  /\ h[0] = g
  /\ \A n \in 0 .. Len(args) - 1 : h[n + 1] = Option(h[n], args[n + 1])
  /\ \A n \in 0 .. Len(args) : DOMAIN h[n] = Keys

LEMMA OptionsApplied ==
  ASSUME NEW D, Int \subseteq D, TRUE \in D, NEW g \in [Keys -> D],
         NEW args, Len(args) \in Nat,
         \A i \in 1 .. Len(args) :
           /\ args[i].value \in D /\ args[i].value.host \in D
           /\ args[i].flag = "-d" => args[i].value.port \in Int
  PROVE  Applied(Options(g, args), g, args)
<1> DEFINE V == [Keys -> D]
           N == Len(args)
           step == [p \in Nat \X V |->
                      IF p[1] < N THEN Option(p[2], args[p[1] + 1]) ELSE p[2]]
           Body(h) == [n \in 0 .. N |-> IF n = 0 THEN g ELSE Option(h[n - 1], args[n])]
<1>1. ASSUME NEW n \in Nat, n < N, NEW s \in V
      PROVE  Option(s, args[n + 1]) \in V
  <2>1. n + 1 \in 1 .. N
    BY <1>1
  <2> DEFINE a == args[n + 1]
  <2>2. a.value \in D /\ a.value.host \in D /\ (a.flag = "-d" => a.value.port \in Int)
    BY <2>1
  <2> HIDE DEF a
  <2>3. Option(s, a) \in V
    BY <2>2, OptionType
  <2> QED
    BY <2>3 DEF a
<1> HIDE DEF V
<1>2. step \in [Nat \X V -> V]
  <2>1. ASSUME NEW p \in Nat \X V
        PROVE  (IF p[1] < N THEN Option(p[2], args[p[1] + 1]) ELSE p[2]) \in V
    BY <1>1
  <2> QED
    BY <2>1
<1>3. g \in V
  BY DEF V
<1>4. PICK h \in [Nat -> V] : Recursive(h, g, step)
  <2> HIDE DEF step
  <2> QED
    BY <1>2, <1>3, Recursion
<1>5. ASSUME NEW n \in 0 .. N - 1 PROVE h[n + 1] = Option(h[n], args[n + 1])
  <2>1. n \in Nat /\ h[n] \in V /\ n < N
    OBVIOUS
  <2>2. step[<<n, h[n]>>] = Option(h[n], args[n + 1])
    BY <2>1
  <2> QED
    BY <1>4, <2>1, <2>2 DEF Recursive
<1> DEFINE k == [n \in 0 .. N |-> h[n]]
<1>6. k = Body(k)
  <2>1. ASSUME NEW n \in 0 .. N PROVE k[n] = Body(k)[n]
    <3>1. CASE n = 0
      BY <1>4, <3>1 DEF Recursive
    <3>2. CASE n # 0
      <4>1. n - 1 \in 0 .. N - 1 /\ (n - 1) + 1 = n /\ n - 1 \in 0 .. N
        BY <3>2
      <4>2. h[n] = Option(h[n - 1], args[n])
        BY <1>5, <4>1
      <4> QED
        BY <3>2, <4>1, <4>2
    <3> QED
      BY <3>1, <3>2
  <2> QED
    BY <2>1
<1> DEFINE after == CHOOSE f : f = Body(f)
<1>7. after = Body(after)
  <2>1. \E f : f = Body(f)
    BY <1>6
  <2> HIDE DEF Body
  <2> QED
    BY <2>1, Zenon
<1>8. Options(g, args) = after
  BY DEF Options
<1> HIDE DEF after
<1>9. /\ after[0] = g
      /\ \A n \in 0 .. N - 1 : after[n + 1] = Option(after[n], args[n + 1])
  <2>1. 0 \in 0 .. N /\ \A n \in 0 .. N - 1 : n + 1 \in 0 .. N /\ n + 1 # 0 /\ (n + 1) - 1 = n
    OBVIOUS
  <2>2. after[0] = g
    BY <1>7, <2>1
  <2>3. ASSUME NEW n \in 0 .. N - 1 PROVE after[n + 1] = Option(after[n], args[n + 1])
    <3>1. n + 1 \in 0 .. N /\ n + 1 # 0 /\ (n + 1) - 1 = n
      BY <2>1
    <3>2. after[n + 1] = Body(after)[n + 1]
      BY <1>7
    <3> QED
      BY <3>1, <3>2
  <2> QED
    BY <2>2, <2>3
<1>10. \A n \in 0 .. N : after[n] \in V
  <2> DEFINE S == {n \in Nat : n <= N => after[n] \in V}
  <2>1. 0 \in S
    BY <1>3, <1>9
  <2>2. ASSUME NEW n \in Nat, n \in S PROVE n + 1 \in S
    <3> SUFFICES ASSUME n + 1 <= N PROVE after[n + 1] \in V
      OBVIOUS
    <3>1. n < N /\ n \in 0 .. N - 1 /\ after[n] \in V
      BY <2>2
    <3> QED
      BY <1>1, <1>9, <3>1
  <2>3. Nat \subseteq S
    <3> HIDE DEF S
    <3> QED
      BY <2>1, <2>2, NatSetInduction
  <2> QED
    BY <2>3
<1>11. \A n \in 0 .. N : DOMAIN after[n] = Keys
  BY <1>10 DEF V
<1> QED
  BY <1>8, <1>9, <1>11 DEF Applied

(* What all the arguments make of them.                                      *)
LEMMA ArgumentsObeyed ==
  ASSUME NEW g, NEW args, Len(args) \in Nat, NEW h, Applied(h, g, args)
  PROVE  Obeyed(g, args, Len(args), h[Len(args)])
<1> DEFINE S == {n \in Nat : n <= Len(args) => Obeyed(g, args, n, h[n])}
<1>1. 0 \in S
  <2>1. \A flag : Unset(args, flag, 0) /\ \A j : ~LastIs(args, flag, 0, j)
    BY DEF Unset, LastIs
  <2> QED
    BY <2>1 DEF Obeyed, Applied
<1>2. ASSUME NEW n \in Nat, n \in S PROVE n + 1 \in S
  <2> SUFFICES ASSUME n + 1 <= Len(args) PROVE Obeyed(g, args, n + 1, h[n + 1])
    OBVIOUS
  <2>1. /\ n \in 0 .. Len(args) - 1 /\ n \in 0 .. Len(args)
        /\ Obeyed(g, args, n, h[n])
    BY <1>2
  <2>2. DOMAIN h[n] = Keys /\ h[n + 1] = Option(h[n], args[n + 1])
    BY <2>1 DEF Applied
  <2>3. Obeyed(g, args, n + 1, Option(h[n], args[n + 1]))
    BY <2>1, <2>2, OptionObeyed
  <2> QED
    BY <2>2, <2>3
<1>3. Nat \subseteq S
  <2> HIDE DEF S
  <2> QED
    BY <1>1, <1>2, NatSetInduction
<1> QED
  BY <1>3

(* What config.json makes of the defaults.                                   *)
LEMMA DefaultsAre ==
  ASSUME NEW env
  PROVE  /\ Defaults(env) = [k \in Keys |-> Defaults(env)[k]]
         /\ Defaults(env).host = Builtin /\ Defaults(env).port = BuiltinPort
         /\ Defaults(env).wallet = Builtin /\ Defaults(env).nthreads = 0
         /\ Defaults(env).priority = env.priority /\ Defaults(env).usage = FALSE
  BY DEF Defaults, Keys

Read(env, file, g) ==
  /\ g = [k \in Keys |-> g[k]]
  /\ file.address = NoAddress => g.host = Builtin
  /\ file.address # NoAddress => g.host = file.address.host
  /\ file.port <= 0 /\ file.address = NoAddress => g.port = BuiltinPort
  /\ file.port <= 0 /\ file.address # NoAddress /\ file.address.port >= 0
       => g.port = AsPort(file.address.port)
  /\ file.wallet = NotGiven => g.wallet = Builtin
  /\ file.wallet # NotGiven => g.wallet = file.wallet
  /\ file.threads > 0 => g.nthreads = AsInt(file.threads)
  /\ ~(file.threads > 0) => g.nthreads = 0
  /\ file.priority \in Priorities => g.priority = file.priority
  /\ file.priority \notin Priorities => g.priority = env.priority
  /\ g.usage = FALSE

LEMMA FileIsRead ==
  ASSUME NEW env, NEW file, IsConfig(file), file.kind = "whole"
  PROVE  Read(env, file, load_config(Defaults(env), file))
<1> DEFINE g == load_config(Defaults(env), file)
           d == Defaults(env)
           dialled == IF file.address = NoAddress THEN d ELSE Dial(d, file.address)
<1>1. /\ d = [k \in Keys |-> d[k]] /\ d.host = Builtin /\ d.port = BuiltinPort
      /\ d.wallet = Builtin /\ d.nthreads = 0 /\ d.priority = env.priority
      /\ d.usage = FALSE
  BY DefaultsAre
<1>2. g = [dialled EXCEPT
             !.port = IF file.port > 0 THEN AsPort(file.port) ELSE @,
             !.wallet = IF file.wallet # NotGiven THEN file.wallet ELSE @,
             !.nthreads = IF file.threads > 0 THEN AsInt(file.threads) ELSE @,
             !.priority = IF file.priority \in {"normal", "max"} THEN file.priority
                                                                 ELSE @,
             !.nopin = @ \/ ~file.pin]
  BY DEF load_config
<1> HIDE DEF d, g
<1>3. /\ dialled = [k \in Keys |-> dialled[k]]
      /\ dialled.wallet = Builtin /\ dialled.nthreads = 0
      /\ dialled.priority = env.priority /\ dialled.usage = FALSE
      /\ file.address = NoAddress =>
           dialled.host = Builtin /\ dialled.port = BuiltinPort
      /\ file.address # NoAddress =>
           /\ dialled.host = file.address.host
           /\ file.address.port >= 0 => dialled.port = AsPort(file.address.port)
  BY <1>1 DEF Dial, Keys
<1> HIDE DEF dialled
<1>4. /\ g = [k \in Keys |-> g[k]]
      /\ g.host = dialled.host
      /\ ~(file.port > 0) => g.port = dialled.port
      /\ g.wallet = IF file.wallet # NotGiven THEN file.wallet ELSE dialled.wallet
      /\ g.nthreads = IF file.threads > 0 THEN AsInt(file.threads) ELSE dialled.nthreads
      /\ g.priority = IF file.priority \in {"normal", "max"} THEN file.priority
                                                             ELSE dialled.priority
      /\ g.usage = dialled.usage
  BY <1>2, <1>3 DEF Keys
<1>5. file.port <= 0 => ~(file.port > 0)
  BY DEF IsConfig
<1>6. Read(env, file, g)
  BY <1>3, <1>4, <1>5 DEF Priorities, Read
<1> QED
  BY <1>6 DEF g

(* The settings the miner mines with are those of the file, as the arguments *)
(* changed them, and a number of threads.                                    *)
Threads(given, hardware) ==
  CASE given.nthreads > 0 -> given.nthreads
    [] given.nthreads <= 0 /\ hardware > 0 -> hardware
    [] OTHER -> 4

Parsed(given, hardware) ==
  [given EXCEPT !.nthreads = Threads(given, hardware),
                !.usage = @ \/ given.host = NotGiven \/ given.wallet = NotGiven]

LEMMA ParsedIs ==
  ASSUME NEW given, DOMAIN given = Keys, NEW hardware
  PROVE  /\ Parsed(given, hardware).nthreads = Threads(given, hardware)
         /\ Parsed(given, hardware).host = given.host
         /\ Parsed(given, hardware).port = given.port
         /\ Parsed(given, hardware).wallet = given.wallet
         /\ Parsed(given, hardware).priority = given.priority
         /\ ~Parsed(given, hardware).usage
              => ~given.usage /\ given.host # "" /\ given.wallet # ""
<1>1. /\ Parsed(given, hardware).nthreads = Threads(given, hardware)
      /\ Parsed(given, hardware).host = given.host
      /\ Parsed(given, hardware).port = given.port
      /\ Parsed(given, hardware).wallet = given.wallet
      /\ Parsed(given, hardware).priority = given.priority
  BY DEF Parsed, Keys
<1>2. Parsed(given, hardware).usage
        = (given.usage \/ given.host = NotGiven \/ given.wallet = NotGiven)
  BY DEF Parsed, Keys
<1> QED
  BY <1>1, <1>2 DEF NotGiven

IsArguments(args) ==
  Len(args) \in Nat /\ DOMAIN args = 1 .. Len(args) /\ IsCommandLine(args)

LEMMA SettingsMean ==
  ASSUME NEW env, NEW file, IsConfig(file), NEW args, IsArguments(args),
         NEW hardware, NEW base, base = load_config(Defaults(env), file),
         NEW g, g = Settings(env, file, args, hardware)
  PROVE  \E given : /\ DOMAIN given = Keys
                    /\ Obeyed(base, args, Len(args), given)
                    /\ g = Parsed(given, hardware)
<1> DEFINE D == Int \cup BOOLEAN \cup {base[k] : k \in Keys}
                  \cup {args[i].value : i \in 1 .. Len(args)}
                  \cup {args[i].value.host : i \in 1 .. Len(args)}
           h == Options(base, args)
<1>1. base = [k \in Keys |-> base[k]]
  <2>1. CASE file.kind = "whole"
    <3>1. Read(env, file, load_config(Defaults(env), file))
      BY <2>1, FileIsRead, Zenon
    <3> QED
      BY <3>1 DEF Read
  <2>2. CASE file.kind # "whole"
    BY <2>2, DefaultsAre DEF load_config
  <2> QED
    BY <2>1, <2>2
<1>2. /\ Int \subseteq D /\ TRUE \in D
      /\ \A i \in 1 .. Len(args) : args[i].value \in D /\ args[i].value.host \in D
      /\ \A k \in Keys : base[k] \in D
  OBVIOUS
<1> HIDE DEF D
<1>3. base \in [Keys -> D]
  BY <1>1, <1>2
<1>4. \A i \in 1 .. Len(args) :
        /\ args[i].value \in D /\ args[i].value.host \in D
        /\ args[i].flag = "-d" => args[i].value.port \in Int
  BY <1>2 DEF IsArguments, IsCommandLine
<1>5. Len(args) \in Nat
  BY DEF IsArguments
<1>6. Applied(h, base, args)
  BY <1>2, <1>3, <1>4, <1>5, OptionsApplied
<1>7. g = Parsed(h[Len(args)], hardware)
  BY DEF Settings, parse_args, Threads, Parsed
<1> HIDE DEF h
<1>8. Obeyed(base, args, Len(args), h[Len(args)])
  BY <1>5, <1>6, ArgumentsObeyed
<1>9. DOMAIN h[Len(args)] = Keys
  BY <1>5, <1>6 DEF Applied
<1> QED
  BY <1>7, <1>8, <1>9

LEMMA PortsKept ==
  ASSUME NEW n \in 1 .. Ports - 1
  PROVE  AsPort(n) = n
  BY PortsAssumption DEF AsPort

LEMMA AsIntType ==
  ASSUME NEW n \in Int
  PROVE  AsInt(n) \in Int
  BY IntsAssumption DEF AsInt

(* A miner mines by the file and the arguments it was started with.          *)
LEMMA StartedAsConfigured ==
  ASSUME NEW elsewhere, NEW file, NEW args, IsArguments(args), IsConfig(file),
         machine.hardware \in Nat, miner = Started(elsewhere, file, args),
         miner # NoMiner
  PROVE  MinesBy(file) /\ miner.elsewhere = elsewhere /\ miner.file = file
<1> DEFINE env == machine.environment
           base == load_config(Defaults(env), file)
           n == Len(args)
           d == LastOf(args, "-d")
           w == LastOf(args, "-w")
           t == LastOf(args, "-t")
           p == LastOf(args, "-p")
<1>1. PICK given : /\ DOMAIN given = Keys
                   /\ Obeyed(base, args, n, given)
                   /\ Settings(env, file, args, machine.hardware)
                        = Parsed(given, machine.hardware)
  <2> DEFINE settings == Settings(env, file, args, machine.hardware)
  <2>1. base = load_config(Defaults(env), file)
    OBVIOUS
  <2>2. settings = Settings(env, file, args, machine.hardware)
    OBVIOUS
  <2> HIDE DEF env, base, settings
  <2>3. \E given : /\ DOMAIN given = Keys
                   /\ Obeyed(base, args, Len(args), given)
                   /\ settings = Parsed(given, machine.hardware)
    BY <2>1, <2>2, SettingsMean, SMTT(30)
  <2> QED
    BY <2>3, Zenon DEF settings
<1> DEFINE g == Parsed(given, machine.hardware)
<1>2. /\ g.host = given.host /\ g.port = given.port /\ g.wallet = given.wallet
      /\ g.priority = given.priority
      /\ ~g.usage => ~given.usage /\ given.host # "" /\ given.wallet # ""
      /\ g.nthreads = Threads(given, machine.hardware)
  BY <1>1, ParsedIs
<1>3. /\ ~g.usage /\ miner.g = g /\ miner.args = args /\ miner.level = Level(g.priority)
      /\ miner.elsewhere = elsewhere /\ miner.file = file
  BY <1>1 DEF Started
<1> HIDE DEF g
<1>4. /\ d = 0 => given.host = base.host /\ given.port = base.port
      /\ d # 0 => /\ given.host = args[d].value.host
                  /\ args[d].value.port >= 0 => given.port = AsPort(args[d].value.port)
      /\ w = 0 => given.wallet = base.wallet
      /\ w # 0 => given.wallet = args[w].value
      /\ t = 0 => given.nthreads = base.nthreads
      /\ t # 0 => given.nthreads = args[t].value /\ IsInt(args[t].value)
      /\ p = 0 => given.priority = base.priority
      /\ p # 0 => given.priority = args[p].value
  <2>0. n \in Nat
    BY DEF IsArguments
  <2>1. \A flag : /\ LastOf(args, flag) = 0 => Unset(args, flag, n)
                  /\ LastOf(args, flag) # 0 => LastIs(args, flag, n, LastOf(args, flag))
    BY <2>0, LastOfMeans
  <2>2. t # 0 => IsInt(args[t].value)
    BY <2>1 DEF LastIs, IsArguments, IsCommandLine
  <2>3. Obeyed(base, args, n, given) /\ ~given.usage
    BY <1>1, <1>2, <1>3
  <2> HIDE DEF base, n
  <2> QED
    BY <2>1, <2>2, <2>3 DEF Obeyed
<1> DEFINE address == AddressIn(file)
           dialled == Wanted("-d", address)
           threads == Wanted("-t", ThreadsIn(file))
           configured == PriorityIn(file)
<1>5. /\ base.host = address.host
      /\ address.port \in 1 .. Ports - 1 /\ (file.kind = "whole" => file.port <= 0)
           => base.port = address.port
      /\ base.wallet = WalletIn(file)
      /\ base.nthreads \in Int
      /\ ThreadsIn(file) > 0 /\ IsInt(ThreadsIn(file)) => base.nthreads = ThreadsIn(file)
      /\ base.priority = configured
  <2>1. CASE file.kind # "whole"
    <3>1. base = Defaults(env)
      BY <2>1 DEF load_config
    <3>2. ThreadsIn(file) = 0 /\ WalletIn(file) = Builtin
      BY <2>1 DEF ThreadsIn, WalletIn
    <3>3. /\ base.host = Builtin /\ base.port = BuiltinPort /\ base.wallet = Builtin
          /\ base.nthreads = 0 /\ base.priority = env.priority
      BY <3>1, DefaultsAre
    <3> HIDE DEF base
    <3>4. /\ address.host = Builtin /\ address.port = BuiltinPort
          /\ configured = env.priority
      BY <2>1 DEF AddressIn, PriorityIn
    <3> HIDE DEF address, configured
    <3> QED
      BY <3>2, <3>3, <3>4
  <2>2. CASE file.kind = "whole"
    <3>0. Read(env, file, base)
      BY <2>2, FileIsRead, Zenon
    <3>1. /\ file.address = NoAddress => base.host = Builtin
          /\ file.address # NoAddress => base.host = file.address.host
          /\ file.port <= 0 /\ file.address = NoAddress => base.port = BuiltinPort
          /\ file.port <= 0 /\ file.address # NoAddress /\ file.address.port >= 0
               => base.port = AsPort(file.address.port)
          /\ file.wallet = NotGiven => base.wallet = Builtin
          /\ file.wallet # NotGiven => base.wallet = file.wallet
          /\ file.threads > 0 => base.nthreads = AsInt(file.threads)
          /\ ~(file.threads > 0) => base.nthreads = 0
          /\ file.priority \in Priorities => base.priority = file.priority
          /\ file.priority \notin Priorities => base.priority = env.priority
      BY <3>0 DEF Read
    <3>2. file.threads \in Int
      BY <2>2 DEF IsConfig
    <3> HIDE DEF base
    <3>3. base.nthreads \in Int
      BY <3>1, <3>2, AsIntType
    <3>4. ThreadsIn(file) > 0 /\ IsInt(ThreadsIn(file)) => base.nthreads = ThreadsIn(file)
      BY <2>2, <3>1, <3>2 DEF ThreadsIn, IsInt
    <3>5. base.wallet = WalletIn(file)
      BY <2>2, <3>1 DEF WalletIn
    <3>6. base.host = address.host /\ base.priority = configured
      BY <2>2, <3>1 DEF AddressIn, PriorityIn
    <3>7. ASSUME address.port \in 1 .. Ports - 1, file.port <= 0
          PROVE  base.port = address.port
      <4>1. address.port >= 0 /\ AsPort(address.port) = address.port
        BY <3>7, PortsKept, PortsAssumption
      <4>2. CASE file.address = NoAddress
        BY <2>2, <3>1, <3>7, <4>2 DEF AddressIn
      <4>3. CASE file.address # NoAddress
        BY <2>2, <3>1, <3>7, <4>1, <4>3 DEF AddressIn
      <4> QED
        BY <4>2, <4>3
    <3> QED
      BY <2>2, <3>3, <3>4, <3>5, <3>6, <3>7
  <2> QED
    BY <2>1, <2>2
<1> HIDE DEF base, env
<1>6. /\ dialled = IF d # 0 THEN args[d].value ELSE address
      /\ threads = IF t # 0 THEN args[t].value ELSE ThreadsIn(file)
      /\ Wanted("-w", WalletIn(file))
           = IF w # 0 THEN args[w].value ELSE WalletIn(file)
      /\ Wanted("-p", configured) = IF p # 0 THEN args[p].value ELSE configured
  BY <1>3 DEF Wanted
<1> HIDE DEF d, w, t, p
<1> HIDE DEF address, dialled, threads, configured
<1>7. miner.g.host = dialled.host /\ miner.g.host # ""
  BY <1>2, <1>3, <1>4, <1>5, <1>6
<1>8. dialled.port \in 1 .. Ports - 1
        /\ (file.kind = "whole" /\ LastOf(miner.args, "-d") = 0 => file.port <= 0)
        => miner.g.port = dialled.port
  <2>1. CASE d # 0
    <3>1. ASSUME dialled.port \in 1 .. Ports - 1 PROVE miner.g.port = dialled.port
      <4>1. dialled.port >= 0 /\ AsPort(dialled.port) = dialled.port
        BY <3>1, PortsKept, PortsAssumption
      <4> QED
        BY <1>2, <1>3, <1>4, <1>6, <2>1, <4>1
    <3> QED
      BY <3>1
  <2>2. CASE d = 0
    BY <1>2, <1>3, <1>4, <1>5, <1>6, <2>2 DEF d
  <2> QED
    BY <2>1, <2>2
<1>9. miner.g.wallet = Wanted("-w", WalletIn(file)) /\ miner.g.wallet # ""
  BY <1>2, <1>3, <1>4, <1>5, <1>6
<1>10. given.nthreads \in Int
  BY <1>4, <1>5 DEF IsInt
<1>11. miner.g.nthreads > 0 /\ (threads > 0 /\ IsInt(threads) => miner.g.nthreads = threads)
  <2>0. g.nthreads = Threads(given, machine.hardware)
    BY <1>2
  <2>1. given.nthreads > 0 => g.nthreads = given.nthreads
    BY <1>10, <2>0 DEF Threads
  <2>2. g.nthreads > 0
    BY <1>10, <2>0 DEF Threads
  <2>3. threads > 0 /\ IsInt(threads) => given.nthreads = threads
    BY <1>4, <1>5, <1>6
  <2> QED
    BY <1>3, <2>1, <2>2, <2>3
<1>12. (miner.level = "max") = (Wanted("-p", configured) \in MaxInAnyCase)
  <2>1. given.priority = Wanted("-p", configured)
    BY <1>4, <1>5, <1>6
  <2>2. miner.level = Level(Wanted("-p", configured))
    BY <1>2, <1>3, <2>1
  <2> QED
    BY <2>2 DEF Level
<1>13. MinesBy(file)
  BY <1>7, <1>8, <1>9, <1>11, <1>12, Zenon
     DEF MinesBy, dialled, address, threads, configured
<1> QED
  BY <1>3, <1>13

(* A miner runs on the configuration there is: it is started from the file,  *)
(* which is the one wanted or, if it is torn, a cut of it, and while it runs *)
(* nothing writes the file.  The old directory never had one.                *)
ConfigInv ==
  /\ machine \in Machines
  /\ there.file = NoFile
  /\ IsConfig(wanted) /\ IsConfig(here.file)
  /\ torn => here.file \in Cut(wanted)
  /\ ~torn => here.file = wanted
  /\ script.pc = "write" => script.answer \in Answers
  /\ platform # "android" => script.pc = "off"
MinerInv ==
  /\ platform = "android" /\ miner # NoMiner => script.pc = "wait"
  /\ miner # NoMiner =>
       \E elsewhere, file, args :
         /\ IsConfig(file) /\ (~elsewhere => file = here.file)
         /\ IsArguments(args) /\ miner = Started(elsewhere, file, args)

LEMMA FileLeft ==
  ASSUME ConfigInv, UNCHANGED <<machine, wanted, torn>>,
         there'.file = there.file, here'.file = here.file, script'.pc # "write",
         platform = "android" \/ script'.pc = "off"
  PROVE  ConfigInv'
  BY DEF ConfigInv, platform

LEMMA LeftFile ==
  ASSUME NEW d, NEW e \in Left(d)
  PROVE  e.file \in {NoFile, d.file}
  BY DEF Left, NoDirectory

LEMMA NoFileIsConfig == IsConfig(NoFile)
  BY DEF IsConfig, NoFile

(* Whatever is left of a file that was being written is still one main()     *)
(* reads as settings.                                                        *)
LEMMA CutIsConfig ==
  ASSUME NEW answer \in Answers, NEW file \in Cut(answer)
  PROVE  IsConfig(file) /\ IsConfig(answer)
<1> DEFINE K == {"kind", "address", "port", "wallet", "threads", "priority", "pin"}
<1>1. IsConfig(answer) /\ answer.kind = "whole"
  BY InputsAssumption
<1>2. CASE file \in {EmptyFile, answer}
  BY <1>1, <1>2 DEF IsConfig, EmptyFile
<1>3. CASE file \notin {EmptyFile, answer}
  <2>1. /\ DOMAIN answer = K /\ answer.port \in Int /\ answer.threads \in Int
        /\ answer.address.port \in Nat \cup {-1}
    BY <1>1 DEF IsConfig
  <2> DEFINE Kept(address, wallet, threads) ==
               [answer EXCEPT !.address = address, !.wallet = wallet,
                              !.threads = threads, !.priority = NotGiven]
             T == {0} \cup {answer.threads \div n : n \in Decades}
  <2>2. \E address \in {NoAddress, answer.address}, threads \in T :
          \E wallet : file = Kept(address, wallet, threads)
    <3>1. CASE file = Kept(NoAddress, NotGiven, 0)
      BY <3>1
    <3>2. CASE file = [answer EXCEPT !.wallet = NotGiven, !.threads = 0,
                                     !.priority = NotGiven]
      <4>1. file = Kept(answer.address, NotGiven, 0)
        BY <2>1, <3>2
      <4> QED
        BY <4>1
    <3>3. ASSUME NEW n \in Decades,
                 file = [answer EXCEPT !.threads = answer.threads \div n,
                                       !.priority = NotGiven]
          PROVE  \E threads \in T : file = Kept(answer.address, answer.wallet, threads)
      <4>1. file = Kept(answer.address, answer.wallet, answer.threads \div n)
        BY <2>1, <3>3
      <4> QED
        BY <4>1
    <3> HIDE DEF Kept, T
    <3>4. \/ file = [answer EXCEPT !.address = NoAddress, !.wallet = NotGiven,
                                   !.threads = 0, !.priority = NotGiven]
          \/ file = [answer EXCEPT !.wallet = NotGiven, !.threads = 0,
                                   !.priority = NotGiven]
          \/ \E n \in Decades : file = [answer EXCEPT !.threads = answer.threads \div n,
                                                     !.priority = NotGiven]
      BY <1>3 DEF Cut
    <3> QED
      BY <3>1, <3>2, <3>3, <3>4 DEF Kept
  <2>3. \A n \in Decades : answer.threads \div n \in Int
    BY <2>1 DEF Decades
  <2>4. NoAddress.port = -1
    BY DEF NoAddress
  <2>5. PICK address \in {NoAddress, answer.address}, threads \in T :
           \E wallet : file = Kept(address, wallet, threads)
    BY <2>2
  <2>6. address.port \in Nat \cup {-1} /\ threads \in Int
    BY <2>1, <2>3, <2>4
  <2>7. /\ DOMAIN file = K /\ file.port = answer.port /\ file.threads = threads
        /\ file.address = address
    BY <2>1, <2>5
  <2> QED
    BY <2>1, <2>6, <2>7, Zenon DEF IsConfig
<1> QED
  BY <1>1, <1>2, <1>3

LEMMA ConfigStep ==
  ASSUME LaunchInv, ConfigInv, [Next]_vars
  PROVE  ConfigInv'
<1> USE DEF disk, config, At, Goto
<1>0. /\ {"bin", "old", "packages", "marker", "file", "exists"} \subseteq DOMAIN here
      /\ {"pc", "update", "reconfigure", "latest", "ARCHIVE", "answer", "WAKE_LOCK",
          "pending", "handled", "BACKOFF"} \subseteq DOMAIN script
      /\ {"pc", "update", "reconfigure"} \subseteq DOMAIN Off
      /\ Off.pc = "off"
  BY OffType DEF LaunchInv, LaunchTypes, Entries, Variables
<1>1. script.pc # "off" => platform = "android"
  BY DEF ConfigInv
<1>2. CASE \E update, reconfigure \in BOOLEAN : Begin(update, reconfigure)
  <2>1. script'.pc = "migrate" /\ UNCHANGED <<machine, here, there, wanted, torn>>
        /\ platform = "android"
    BY <1>0, <1>2 DEF Begin
  <2> QED
    BY <2>1, FileLeft
<1>3. CASE Uninstall
  <2>1. /\ platform = "android" /\ UNCHANGED <<machine, script>>
        /\ wanted' = IF here'.file = NoFile THEN NoFile ELSE wanted
        /\ torn' = (torn /\ here'.file # NoFile)
    BY <1>3 DEF Uninstall
  <2>2. NoDirectory.file = NoFile
    BY DEF NoDirectory
  <2>3. here'.file \in {NoFile, here.file} /\ there'.file = NoFile
    BY <1>3, <2>2, LeftFile DEF Uninstall, ConfigInv
  <2>4. IsConfig(wanted') /\ IsConfig(here'.file)
    BY <2>1, <2>3, NoFileIsConfig DEF ConfigInv
  <2>5. torn' => here'.file \in Cut(wanted')
    BY <2>1, <2>3 DEF ConfigInv
  <2>6. ~torn' => here'.file = wanted'
    BY <2>1, <2>3 DEF ConfigInv
  <2>7. Cut(wanted)' = Cut(wanted')
    BY DEF Cut
  <2> QED
    BY <2>1, <2>3, <2>4, <2>5, <2>6, <2>7 DEF ConfigInv, platform
<1>4. CASE Migrate
  <2>1. /\ UNCHANGED machine /\ platform = "android"
        /\ \E to \in {"rename", "check"} : script' = [script EXCEPT !.pc = to]
    BY <1>1, <1>4 DEF Migrate
  <2>2. script'.pc \in {"rename", "check"}
    BY <1>0, <2>1
  <2>3. CASE ~here.exists /\ there.exists
    <3>1. here'.file = NoFile /\ there'.file = NoFile /\ wanted' = NoFile /\ torn' = FALSE
      BY <1>4, <2>3 DEF Migrate, ConfigInv, NoDirectory
    <3> QED
      BY <2>1, <2>2, <3>1, NoFileIsConfig DEF ConfigInv, platform
  <2>4. CASE ~(~here.exists /\ there.exists)
    <3>1. here'.file = here.file /\ UNCHANGED <<there, wanted, torn>>
      BY <1>0, <1>4, <2>4 DEF Migrate
    <3> QED
      BY <2>1, <2>2, <3>1, FileLeft
  <2> QED
    BY <2>3, <2>4
<1>5. CASE Install /\ ~Migrate
  <2>1. UNCHANGED <<machine, there, wanted, torn>> /\ platform = "android"
    BY <1>1, <1>5 DEF Install, RenameLegacy, Check, Download, Clear, Sweep, Extract, Lift,
       CleanPackage, Mark, Version
  <2>2. \/ here' = here
        \/ \E b, o : here' = [here EXCEPT !.bin = b, !.old = o]
        \/ \E b : here' = [here EXCEPT !.bin = b]
        \/ \E p : here' = [here EXCEPT !.packages = p]
        \/ \E m : here' = [here EXCEPT !.marker = m]
    BY <1>5 DEF Install, RenameLegacy, Check, Download, Clear, Sweep, Extract, Lift,
       CleanPackage, Mark, Version
  <2>3. here'.file = here.file
    BY <1>0, <2>2
  <2>4. \/ script' = Off
        \/ \E to : to # "write" /\ script' = [script EXCEPT !.pc = to]
        \/ \E tag, to : /\ to # "write"
                        /\ script' = [script EXCEPT !.latest = tag, !.update = FALSE,
                                                    !.pc = to]
        \/ script' = [script EXCEPT !.ARCHIVE = script.latest, !.pc = "clear"]
        \/ \E to : /\ to # "write"
                   /\ script' = [script EXCEPT !.latest = 0, !.reconfigure = FALSE,
                                               !.pc = to]
    <3>1. CASE Check
      BY <3>1 DEF Check, Exit
    <3>2. CASE Version
      BY <3>2 DEF Version, Exit
    <3>3. CASE Download
      BY <3>3 DEF Download, Exit
    <3>4. CASE RenameLegacy \/ Clear \/ Sweep \/ Extract \/ Lift \/ CleanPackage \/ Mark
      BY <3>4 DEF RenameLegacy, Clear, Sweep, Extract, Lift, CleanPackage, Mark, Exit
    <3> QED
      BY <1>5, <3>1, <3>2, <3>3, <3>4 DEF Install
  <2>5. script'.pc # "write"
    BY <1>0, <2>4
  <2> QED
    BY <2>1, <2>3, <2>5, FileLeft
<1>6. CASE Ask
  <2>1. UNCHANGED <<machine, here, there, wanted, torn>> /\ platform = "android"
    BY <1>1, <1>6 DEF Ask
  <2>2. CASE script' = Off
    BY <1>0, <2>1, <2>2, FileLeft
  <2>3. CASE script' # Off
    <3>1. PICK answer \in Answers : script' = [script EXCEPT !.answer = answer, !.pc = "write"]
      BY <1>6, <2>3 DEF Ask, Exit
    <3>2. script'.answer \in Answers
      BY <1>0, <3>1
    <3> QED
      BY <2>1, <3>2 DEF ConfigInv, platform
  <2> QED
    BY <2>2, <2>3
<1>7. ASSUME script.pc = "write", WriteCut, script' = Off, UNCHANGED <<machine, there>>
      PROVE  ConfigInv'
  <2>1. PICK file \in Cut(script.answer) : here' = [here EXCEPT !.file = file]
    BY <1>7 DEF WriteCut
  <2>2. script.answer \in Answers /\ wanted' = script.answer /\ torn' = TRUE
    BY <1>7 DEF WriteCut, ConfigInv
  <2>3. here'.file = file /\ IsConfig(file) /\ IsConfig(wanted')
    BY <1>0, <2>1, <2>2, CutIsConfig
  <2>4. here'.file \in Cut(wanted')
    BY <2>1, <2>2, <2>3
  <2> QED
    BY <1>0, <1>7, <2>2, <2>3, <2>4 DEF ConfigInv, platform
<1>14. CASE Write
  <2>1. UNCHANGED <<machine, there>> /\ platform = "android" /\ script.answer \in Answers
    BY <1>1, <1>14 DEF Write, ConfigInv
  <2>2. CASE WriteCut /\ script' = Off
    BY <1>7, <1>14, <2>1, <2>2 DEF Write
  <2>3. CASE ~(WriteCut /\ script' = Off)
    <3>1. /\ here' = [here EXCEPT !.file = script.answer]
          /\ wanted' = script.answer /\ torn' = FALSE
          /\ script' = [script EXCEPT !.answer = NoFile, !.pc = "lock"]
      BY <1>14, <2>3 DEF Write, Exit
    <3>2. here'.file = wanted' /\ script'.pc = "lock"
      BY <1>0, <3>1
    <3>3. IsConfig(script.answer)
      BY <2>1, InputsAssumption
    <3>4. IsConfig(wanted') /\ IsConfig(here'.file)
      BY <3>1, <3>2, <3>3
    <3> QED
      BY <2>1, <3>1, <3>2, <3>4 DEF ConfigInv, platform
  <2> QED
    BY <2>2, <2>3
<1>8. CASE Supervise /\ ~Ask /\ ~Write
  <2>1. UNCHANGED <<machine, here, there, wanted, torn>> /\ platform = "android"
    BY <1>1, <1>8 DEF Supervise, TakeLock, Trap, StartMiner, MinerFails, MinerStops, Slept
  <2>2. \/ script' = Off
        \/ script' = [script EXCEPT !.WAKE_LOCK = TRUE, !.pc = "trap"]
        \/ \E to \in {"trap", "start", "wait"} : script' = [script EXCEPT !.pc = to]
        \/ \E h : script' = [script EXCEPT !.pc = "sleep", !.pending = FALSE,
                                            !.handled = h]
        \/ \E h, delay : script' = [script EXCEPT !.pc = "start", !.pending = FALSE,
                                                   !.handled = h, !.BACKOFF = delay]
    BY <1>8 DEF Supervise, TakeLock, Trap, StartMiner, MinerFails, MinerStops, Slept,
       ExitTrapped
  <2>3. script'.pc # "write"
    BY <1>0, <2>2
  <2> QED
    BY <2>1, <2>3, FileLeft
<1>9. CASE Interrupt
  <2>1. script' = Off /\ UNCHANGED <<machine, here, there, wanted, torn>>
    BY <1>9 DEF Interrupt, ExitTrapped, Exit
  <2> QED
    BY <1>0, <2>1, FileLeft
<1>10. CASE Terminate
  <2>1. /\ UNCHANGED <<machine, here, there, wanted, torn>> /\ platform = "android"
        /\ script' = [script EXCEPT !.pending = TRUE] /\ script.pc \in {"wait", "sleep"}
    BY <1>1, <1>10 DEF Terminate
  <2>2. script'.pc = script.pc
    BY <1>0, <2>1
  <2> QED
    BY <2>1, <2>2, FileLeft
<1>11. CASE Killed
  <2>1. script' = Off /\ UNCHANGED <<machine, there>> /\ platform = "android"
    BY <1>1, <1>11 DEF Killed
  <2>2. CASE script.pc = "write" /\ WriteCut
    BY <1>7, <2>1, <2>2
  <2>3. CASE ~(script.pc = "write" /\ WriteCut)
    <3>1. /\ UNCHANGED <<wanted, torn>>
          /\ \/ here' = here
             \/ \E p : here' = [here EXCEPT !.packages = p]
             \/ \E m : here' = [here EXCEPT !.marker = m]
      BY <1>11, <2>3 DEF Killed
    <3>2. here'.file = here.file
      BY <1>0, <3>1
    <3> QED
      BY <1>0, <2>1, <3>1, <3>2, FileLeft
  <2> QED
    BY <2>2, <2>3
<1>12. ASSUME NEW file \in Files, EditConfig(file) PROVE ConfigInv'
  <2>1. /\ UNCHANGED <<machine, there, script>> /\ platform # "android"
        /\ here'.file = file /\ wanted' = file /\ torn' = FALSE
    BY <1>0, <1>12 DEF EditConfig
  <2>2. IsConfig(wanted') /\ IsConfig(here'.file)
    BY <2>1, InputsAssumption
  <2> QED
    BY <2>1, <2>2 DEF ConfigInv, platform
<1>13. CASE Release \/ MinerEnds \/ UNCHANGED vars
            \/ \E args \in CommandLines : RunByHand(args)
  <2>1. UNCHANGED <<machine, here, there, script, wanted, torn>>
    BY <1>13 DEF Release, MinerEnds, RunByHand, vars
  <2> QED
    BY <2>1 DEF ConfigInv, platform
<1> QED
  BY <1>2, <1>3, <1>4, <1>5, <1>6, <1>8, <1>9, <1>10, <1>11, <1>12, <1>13, <1>14
     DEF Next

LEMMA ConfigInit ==
  ASSUME Init
  PROVE  here.file = NoFile /\ ConfigInv /\ MinerInv
<1>1. /\ here.file = NoFile /\ there.file = NoFile
  <2>1. DOMAIN NoDirectory = Entries /\ NoDirectory.file = NoFile
    BY NoDirectoryType DEF NoDirectory
  <2>2. DOMAIN Empty = Entries /\ Empty.file = NoFile
    BY <2>1 DEF Empty, Entries
  <2>3. \A b, o, m, p : ByAnOlderScript(b, o, m, p).file = NoFile
    BY <2>2 DEF ByAnOlderScript, Entries
  <2> QED
    BY <2>1, <2>2, <2>3 DEF Init
<1> QED
  BY <1>1, NoFileIsConfig, OffType DEF Init, ConfigInv, MinerInv

LEMMA StillMining ==
  ASSUME MinerInv, UNCHANGED <<machine, miner>>, here'.file = here.file,
         script'.pc = script.pc \/ platform # "android"
  PROVE  MinerInv'
<1>1. \A elsewhere, file, args :
        Started(elsewhere, file, args)' = Started(elsewhere, file, args)
  BY DEF Started, platform
<1> QED
  BY <1>1 DEF MinerInv, platform

LEMMA MinerStep ==
  ASSUME LaunchInv, ConfigInv, MinerInv, [Next]_vars
  PROVE  MinerInv'
<1> USE DEF disk, config, At, Goto
<1>0. {"file", "marker", "packages"} \subseteq DOMAIN here
      /\ {"pc", "pending"} \subseteq DOMAIN script
  BY DEF LaunchInv, LaunchTypes, Entries, Variables
<1>1. script.pc \notin {"off", "wait"} \/ (platform = "android" /\ script.pc # "wait")
        => miner = NoMiner
  BY DEF ConfigInv, MinerInv
<1>2. ASSUME miner' = NoMiner PROVE MinerInv'
  BY <1>2 DEF MinerInv
<1>3. CASE (\E update, reconfigure \in BOOLEAN : Begin(update, reconfigure))
           \/ Uninstall \/ Install
  <2>1. /\ miner' = miner
        /\ \/ platform = "android" /\ script.pc # "wait"
           \/ script.pc \notin {"off", "wait"}
    BY <1>3 DEF Begin, Uninstall, Install, Migrate, RenameLegacy, Check, Download, Clear,
       Sweep, Extract, Lift, CleanPackage, Mark, Version
  <2> QED
    BY <1>1, <1>2, <2>1
<1>4. CASE Ask \/ Write \/ TakeLock \/ Trap \/ Slept \/ Interrupt
  <2>1. miner' = miner /\ script.pc \notin {"off", "wait"}
    BY <1>4 DEF Ask, Write, TakeLock, Trap, Slept, Interrupt
  <2> QED
    BY <1>1, <1>2, <2>1
<1>5. CASE MinerFails \/ MinerStops \/ Killed \/ MinerEnds
  BY <1>2, <1>5 DEF MinerFails, MinerStops, Killed, MinerEnds
<1>6. ASSUME NEW elsewhere, NEW file, NEW args, IsArguments(args), IsConfig(file),
             ~elsewhere => file = here.file,
             miner' = Started(elsewhere, file, args), UNCHANGED <<machine, here>>,
             platform = "android" => script'.pc = "wait"
      PROVE  MinerInv'
  <2>1. Started(elsewhere, file, args)' = Started(elsewhere, file, args)
    BY <1>6 DEF Started, platform
  <2> QED
    BY <1>6, <2>1 DEF MinerInv, platform
<1>7. CASE StartMiner
  <2>1. IsArguments(<<>>)
    BY DEF IsArguments, IsCommandLine
  <2>2. /\ miner' = Started(FALSE, here.file, <<>>) /\ UNCHANGED <<machine, here>>
        /\ script'.pc = "wait"
    BY <1>0, <1>7 DEF StartMiner
  <2>3. IsConfig(here.file)
    BY DEF ConfigInv
  <2> QED
    BY <1>6, <2>1, <2>2, <2>3
<1>8. ASSUME NEW args \in CommandLines, RunByHand(args) PROVE MinerInv'
  <2>1. IsArguments(args)
    BY InputsAssumption DEF IsArguments
  <2>2. UNCHANGED <<machine, here>> /\ platform # "android"
    BY <1>8 DEF RunByHand
  <2>3. CASE miner' = Started(FALSE, here.file, args)
    <3>1. IsConfig(here.file)
      BY DEF ConfigInv
    <3> QED
      BY <1>6, <2>1, <2>2, <2>3, <3>1
  <2>4. ASSUME NEW file \in Elsewhere, miner' = Started(TRUE, file, args)
        PROVE  MinerInv'
    <3>1. IsConfig(file)
      BY InputsAssumption
    <3> QED
      BY <1>6, <2>1, <2>2, <2>4, <3>1
  <2> QED
    BY <1>8, <2>3, <2>4 DEF RunByHand
<1>9. ASSUME NEW file \in Files, EditConfig(file) PROVE MinerInv'
  BY <1>2, <1>9 DEF EditConfig
<1>10. CASE Terminate
  <2>1. script'.pc = script.pc /\ UNCHANGED <<machine, here, miner>>
    BY <1>0, <1>10 DEF Terminate
  <2> QED
    BY <2>1, StillMining
<1>11. CASE Release \/ UNCHANGED vars
  <2>1. UNCHANGED <<machine, here, script, miner>>
    BY <1>11 DEF Release, vars
  <2> QED
    BY <2>1, StillMining
<1> QED
  BY <1>3, <1>4, <1>5, <1>7, <1>8, <1>9, <1>10, <1>11 DEF Next, Supervise

(* Whatever machine the miner is started on, by hand or by the script, after *)
(* whatever edits, cuts and kills: it mines with the last argument of each   *)
(* flag, with the value in the current directory's config.json where there   *)
(* is none, and with the built-in one where there is neither; where the      *)
(* script was stopped while it wrote that file, with what some first part of *)
(* the answer says.                                                          *)
THEOREM ArgumentsBeatFile == Spec => []MinesAsConfigured
<1>1. Init => LaunchInv /\ ConfigInv /\ MinerInv
  BY LaunchInit, ConfigInit
<1>2. LaunchInv /\ ConfigInv /\ MinerInv /\ [Next]_vars
        => (LaunchInv /\ ConfigInv /\ MinerInv)'
  BY InstallStep, SuperviseStep, OutsideStep, ConfigStep, MinerStep
<1>3. ConfigInv /\ MinerInv => MinesAsConfigured
  <2> SUFFICES ASSUME ConfigInv, MinerInv, miner # NoMiner
               PROVE  \E file \in ConfigsRead : MinesBy(file)
    BY DEF MinesAsConfigured
  <2>1. PICK elsewhere, file, args :
           /\ IsConfig(file) /\ (~elsewhere => file = here.file)
           /\ IsArguments(args) /\ miner = Started(elsewhere, file, args)
    BY DEF MinerInv
  <2>2. machine.hardware \in Nat
    BY InputsAssumption DEF ConfigInv
  <2>3. MinesBy(file) /\ miner.elsewhere = elsewhere /\ miner.file = file
    BY <2>1, <2>2, StartedAsConfigured
  <2>4. file \in ConfigsRead
    BY <2>1, <2>3 DEF ConfigsRead, ConfigInv
  <2> QED
    BY <2>3, <2>4
<1> QED
  BY <1>1, <1>2, <1>3, PTL DEF Spec
-----------------------------------------------------------------------------
(* The placement.  order lists the CPUs of S, each once.                     *)
CPUs == 0 .. MaxCpus - 1
Listing(order, S) ==
  /\ order \in Seq(CPUs) /\ S \subseteq CPUs
  /\ \A i \in 1 .. Len(order) : order[i] \in S
  /\ \A cpu \in S : \E i \in 1 .. Len(order) : order[i] = cpu
  /\ \A i, j \in 1 .. Len(order) : order[i] = order[j] => i = j
Begins(order, longer) ==
  Len(order) <= Len(longer) /\ \A i \in 1 .. Len(order) : longer[i] = order[i]

(* A mask has room for a CPU that is not in it yet.                          *)
LEMMA RoomForOneMore ==
  ASSUME NEW S, NEW order, Listing(order, S), NEW cpu \in CPUs \ S
  PROVE  Push(order, cpu) = Append(order, cpu)
<1> DEFINE L == Len(order)
           f == [i \in 1 .. L + 1 |-> IF i = L + 1 THEN cpu ELSE order[i]]
<1>1. L \in Nat /\ 1 .. L + 1 = 1 .. L \cup {L + 1} /\ L + 1 \notin 1 .. L
  BY DEF Listing
<1>2. \A i \in 1 .. L : order[i] \in CPUs /\ order[i] # cpu
  BY DEF Listing
<1>3. f \in Injection(1 .. L + 1, CPUs)
  <2>1. f \in [1 .. L + 1 -> CPUs]
    BY <1>1, <1>2
  <2>2. ASSUME NEW i \in 1 .. L + 1, NEW j \in 1 .. L + 1, f[i] = f[j] PROVE i = j
    <3>1. CASE i = L + 1 \/ j = L + 1
      BY <1>1, <1>2, <2>2, <3>1
    <3>2. CASE i # L + 1 /\ j # L + 1
      BY <1>1, <2>2, <3>2 DEF Listing
    <3> QED
      BY <3>1, <3>2
  <2> HIDE DEF f
  <2> QED
    BY <2>1, <2>2 DEF Injection, IsInjective
<1>4. IsFiniteSet(CPUs) /\ Cardinality(CPUs) = MaxCpus
  BY FS_Interval, CpusAssumption DEF CPUs
<1>5. Cardinality(1 .. L + 1) = L + 1
  BY <1>1, FS_Interval
<1>6. L + 1 <= MaxCpus
  <2> HIDE DEF f
  <2>1. Cardinality(1 .. L + 1) <= Cardinality(CPUs)
    BY <1>3, <1>4, FS_Injection
  <2> QED
    BY <1>4, <1>5, <2>1
<1>7. L < MaxCpus /\ cpu >= 0
  BY <1>1, <1>6, CpusAssumption DEF CPUs
<1> QED
  BY <1>7 DEF Push

LEMMA PushLists ==
  ASSUME NEW S, NEW order, Listing(order, S), NEW cpu \in CPUs \ S
  PROVE  Listing(Push(order, cpu), S \cup {cpu}) /\ Begins(order, Push(order, cpu))
<1> DEFINE next == Append(order, cpu)
           L == Len(order)
<1>1. Push(order, cpu) = next
  BY RoomForOneMore
<1>2. order \in Seq(CPUs) /\ S \subseteq CPUs
  BY DEF Listing
<1>3. L \in Nat /\ 1 .. L + 1 = 1 .. L \cup {L + 1} /\ L + 1 \notin 1 .. L
  BY <1>2
<1>4. next \in Seq(CPUs) /\ Len(next) = L + 1
  BY <1>2
<1>5. next[L + 1] = cpu /\ \A i \in 1 .. L : next[i] = order[i]
  BY <1>2, <1>3
<1> HIDE DEF next
<1>6. \A i \in 1 .. L + 1 : next[i] \in S \cup {cpu}
  BY <1>3, <1>5 DEF Listing
<1>7. \A c \in S \cup {cpu} : \E i \in 1 .. L + 1 : next[i] = c
  BY <1>3, <1>5 DEF Listing
<1>8. \A i \in 1 .. L : next[i] \in S
  BY <1>5 DEF Listing
<1>9. \A i, j \in 1 .. L + 1 : next[i] = next[j] => i = j
  BY <1>3, <1>5, <1>8 DEF Listing
<1>10. Listing(next, S \cup {cpu})
  BY <1>2, <1>4, <1>6, <1>7, <1>9 DEF Listing
<1>11. Begins(order, next)
  BY <1>3, <1>4, <1>5 DEF Begins
<1> QED
  BY <1>1, <1>10, <1>11

LEMMA BeginsTransitive ==
  ASSUME NEW a \in Seq(CPUs), NEW b \in Seq(CPUs), NEW c \in Seq(CPUs),
         Begins(a, b), Begins(b, c)
  PROVE  Begins(a, c)
<1>1. Len(a) \in Nat /\ Len(b) \in Nat /\ Len(c) \in Nat
  OBVIOUS
<1> QED
  BY <1>1 DEF Begins

(* The CPUs one loop finds, and those of the first n cores.                  *)
Slots == {"primary", "sibling"}
PartOf(cores, class, key, n) ==
  {cores[i][key] : i \in {j \in 1 .. n : cores[j].class = class}} \ {-1}

LEMMA OneMoreCore ==
  ASSUME NEW cores, NEW class, NEW key, NEW n \in Nat
  PROVE  /\ cores[n + 1].class # class \/ cores[n + 1][key] = -1
              => PartOf(cores, class, key, n + 1) = PartOf(cores, class, key, n)
         /\ cores[n + 1].class = class /\ cores[n + 1][key] # -1
              => PartOf(cores, class, key, n + 1)
                   = PartOf(cores, class, key, n) \cup {cores[n + 1][key]}
<1>1. 1 .. n + 1 = 1 .. n \cup {n + 1}
  OBVIOUS
<1> QED
  BY <1>1 DEF PartOf

(* What no mask can name is not placed.                                      *)
IsUsable(cores) ==
  /\ cores # <<>> /\ IsTopology(cores)
  /\ \A i \in 1 .. Len(cores) :
       cores[i].primary \in CPUs /\ cores[i].sibling \in CPUs \cup {-1}

LEMMA CoresAre ==
  ASSUME NEW cores, IsUsable(cores)
  PROVE  /\ Len(cores) \in Nat \ {0} /\ DOMAIN cores = 1 .. Len(cores)
         /\ \A i \in 1 .. Len(cores) :
              cores[i].class \in Nat /\ \A k \in Slots : cores[i][k] \in CPUs \cup {-1}
         /\ \A i, j \in 1 .. Len(cores) : \A k, l \in Slots :
              cores[i][k] = cores[j][l] /\ cores[i][k] # -1 => i = j /\ k = l
<1> DEFINE R == [class : Nat, primary : Nat, sibling : Nat \cup {-1}]
<1>1. cores \in Seq(R) /\ cores # <<>>
  BY DEF IsUsable, IsTopology
<1>2. \A core \in R : core.class \in Nat
  OBVIOUS
<1> HIDE DEF R
<1>3. Len(cores) \in Nat \ {0} /\ DOMAIN cores = 1 .. Len(cores)
  BY <1>1
<1>4. \A i \in 1 .. Len(cores) : cores[i].class \in Nat
  BY <1>1, <1>2
<1>5. \A i \in 1 .. Len(cores) : \A k \in Slots : cores[i][k] \in CPUs \cup {-1}
  BY DEF IsUsable, Slots
<1>6. \A i, j \in DOMAIN cores : \A k, l \in Slots :
         cores[i][k] = cores[j][l] /\ cores[i][k] # -1 => i = j /\ k = l
  BY DEF IsUsable, IsTopology, Slots
<1> QED
  BY <1>3, <1>4, <1>5, <1>6

LEMMA PushType ==
  ASSUME NEW order \in Seq(CPUs), NEW cpu \in CPUs \cup {-1}
  PROVE  Push(order, cpu) \in Seq(CPUs)
<1>1. cpu >= 0 => cpu \in CPUs
  BY CpusAssumption DEF CPUs
<1> QED
  BY <1>1 DEF Push
(* One loop over the cores adds the CPUs it finds, behind those there are.   *)
TierIs(h, order, cores, class, key) ==
  /\ h[0] = order /\ Tier(order, cores, class, key) = h[Len(cores)]
  /\ \A n \in 0 .. Len(cores) - 1 :
       h[n + 1] = IF cores[n + 1].class = class
                  THEN Push(h[n], cores[n + 1][key]) ELSE h[n]

LEMMA TierSteps ==
  ASSUME NEW order \in Seq(CPUs), NEW cores, IsUsable(cores), NEW class, NEW key \in Slots
  PROVE  \E h : TierIs(h, order, cores, class, key)
<1> DEFINE V == Seq(CPUs)
           N == Len(cores)
           Next1(n, s) == IF cores[n].class = class THEN Push(s, cores[n][key]) ELSE s
           step == [p \in Nat \X V |-> IF p[1] < N THEN Next1(p[1] + 1, p[2]) ELSE p[2]]
           Body(h) == [n \in 0 .. N |->
                         CASE n = 0 -> order
                           [] n > 0 /\ cores[n].class = class -> Push(h[n - 1], cores[n][key])
                           [] OTHER -> h[n - 1]]
<1>0. N \in Nat
  BY CoresAre
<1>1. ASSUME NEW n \in 1 .. N, NEW s \in V PROVE Next1(n, s) \in V
  <2>1. cores[n][key] \in CPUs \cup {-1}
    BY CoresAre
  <2> QED
    BY <2>1, PushType
<1> HIDE DEF V
<1>2. step \in [Nat \X V -> V]
  <2> HIDE DEF Next1
  <2>1. ASSUME NEW p \in Nat \X V
        PROVE  (IF p[1] < N THEN Next1(p[1] + 1, p[2]) ELSE p[2]) \in V
    <3>1. p[1] \in Nat /\ p[2] \in V
      OBVIOUS
    <3>2. p[1] < N => p[1] + 1 \in 1 .. N
      BY <1>0, <3>1
    <3> QED
      BY <1>1, <3>1, <3>2
  <2> QED
    BY <2>1
<1>3. order \in V
  BY DEF V
<1>4. PICK h \in [Nat -> V] : Recursive(h, order, step)
  <2> HIDE DEF step
  <2> QED
    BY <1>2, <1>3, Recursion
<1>5. ASSUME NEW n \in 0 .. N - 1 PROVE h[n + 1] = Next1(n + 1, h[n])
  <2>1. n \in Nat /\ h[n] \in V /\ n < N
    BY <1>0
  <2> HIDE DEF Next1
  <2>2. step[<<n, h[n]>>] = Next1(n + 1, h[n])
    BY <2>1
  <2> QED
    BY <1>4, <2>1, <2>2 DEF Recursive
<1> DEFINE k == [n \in 0 .. N |-> h[n]]
<1>6. k = Body(k)
  <2>1. ASSUME NEW n \in 0 .. N PROVE k[n] = Body(k)[n]
    <3>1. CASE n = 0
      BY <1>4, <3>1 DEF Recursive
    <3>2. CASE n # 0
      <4>1. n - 1 \in 0 .. N - 1 /\ (n - 1) + 1 = n /\ n - 1 \in 0 .. N /\ n > 0
        BY <1>0, <3>2
      <4>2. h[n] = Next1(n, h[n - 1])
        BY <1>5, <4>1
      <4> QED
        BY <3>2, <4>1, <4>2
    <3> QED
      BY <3>1, <3>2
  <2> QED
    BY <2>1
<1> DEFINE after == CHOOSE f : f = Body(f)
<1>7. after = Body(after)
  <2>1. \E f : f = Body(f)
    BY <1>6
  <2> HIDE DEF Body
  <2> QED
    BY <2>1, Zenon
<1>8. Tier(order, cores, class, key) = after[N]
  BY DEF Tier
<1> HIDE DEF after
<1>9. after[0] = order
  <2>1. 0 \in 0 .. N
    BY <1>0
  <2> QED
    BY <1>7, <2>1
<1>10. ASSUME NEW n \in 0 .. N - 1 PROVE after[n + 1] = Next1(n + 1, after[n])
  <2>1. n + 1 \in 0 .. N /\ n + 1 # 0 /\ n + 1 > 0 /\ (n + 1) - 1 = n
    BY <1>0
  <2>2. after[n + 1] = Body(after)[n + 1]
    BY <1>7
  <2> QED
    BY <2>1, <2>2
<1> QED
  BY <1>8, <1>9, <1>10 DEF TierIs

LEMMA TierLists ==
  ASSUME NEW S, NEW order, Listing(order, S), NEW cores, IsUsable(cores),
         NEW class, NEW key \in Slots, PartOf(cores, class, key, Len(cores)) \cap S = {}
  PROVE  /\ Listing(Tier(order, cores, class, key),
                    S \cup PartOf(cores, class, key, Len(cores)))
         /\ Begins(order, Tier(order, cores, class, key))
<1> DEFINE N == Len(cores)
           Part(n) == PartOf(cores, class, key, n)
<1>0. N \in Nat /\ order \in Seq(CPUs)
  BY CoresAre DEF Listing
<1>h. PICK h : TierIs(h, order, cores, class, key)
  BY <1>0, TierSteps
<1>1. /\ h[0] = order /\ Tier(order, cores, class, key) = h[N]
      /\ \A n \in 0 .. N - 1 :
           h[n + 1] = IF cores[n + 1].class = class
                      THEN Push(h[n], cores[n + 1][key]) ELSE h[n]
  BY <1>h DEF TierIs
<1> DEFINE Good(n) == Listing(h[n], S \cup Part(n)) /\ Begins(order, h[n])
           T == {n \in Nat : n <= N => Good(n)}
<1>2. 0 \in T
  <2>1. Part(0) = {}
    BY DEF PartOf
  <2>2. Begins(order, order)
    BY <1>0 DEF Begins
  <2>3. S \cup Part(0) = S
    BY <2>1
  <2>4. Good(0)
    BY <1>1, <2>2, <2>3
  <2> QED
    BY <2>4
<1>3. ASSUME NEW n \in Nat, n \in T PROVE n + 1 \in T
  <2> SUFFICES ASSUME n + 1 <= N PROVE Good(n + 1)
    OBVIOUS
  <2>1. n \in 0 .. N - 1 /\ n + 1 \in 1 .. N /\ Good(n)
    BY <1>0, <1>3
  <2> DEFINE cpu == cores[n + 1][key]
  <2>2. CASE cores[n + 1].class # class
    <3>1. Part(n + 1) = Part(n) /\ h[n + 1] = h[n]
      BY <1>1, <2>1, <2>2, OneMoreCore
    <3> QED
      BY <2>1, <3>1
  <2>3. CASE cores[n + 1].class = class /\ cpu = -1
    <3>1. Part(n + 1) = Part(n) /\ h[n + 1] = Push(h[n], -1)
      BY <1>1, <2>1, <2>3, OneMoreCore
    <3>2. h[n + 1] = h[n]
      BY <3>1 DEF Push
    <3> QED
      BY <2>1, <3>1, <3>2
  <2>4. CASE cores[n + 1].class = class /\ cpu # -1
    <3>1. Part(n + 1) = Part(n) \cup {cpu} /\ h[n + 1] = Push(h[n], cpu)
      BY <1>1, <2>1, <2>4, OneMoreCore
    <3>2. cpu \in CPUs
      BY <2>1, <2>4, CoresAre
    <3>3. cpu \notin S
      <4>1. cpu \in PartOf(cores, class, key, N)
        BY <2>1, <2>4 DEF PartOf
      <4> QED
        BY <4>1
    <3>4. cpu \notin Part(n)
      <4> SUFFICES ASSUME NEW i \in 1 .. n, cores[i].class = class, cores[i][key] = cpu
                   PROVE  FALSE
        BY DEF PartOf
      <4>1. i \in 1 .. N /\ i # n + 1
        BY <1>0, <2>1
      <4>2. i = n + 1
        <5>1. \A a, b \in 1 .. N : cores[a][key] = cores[b][key] /\ cores[a][key] # -1
                                     => a = b
          BY CoresAre
        <5> QED
          BY <2>1, <2>4, <4>1, <5>1
      <4> QED
        BY <4>1, <4>2
    <3> DEFINE s == h[n]
               U == S \cup Part(n)
    <3>5. Listing(s, U) /\ cpu \in CPUs \ U
      BY <2>1, <3>2, <3>3, <3>4
    <3> HIDE DEF s, U, cpu
    <3>6. Listing(Push(s, cpu), U \cup {cpu}) /\ Begins(s, Push(s, cpu))
      BY <3>5, PushLists
    <3>7. S \cup Part(n + 1) = U \cup {cpu} /\ h[n + 1] = Push(s, cpu)
      BY <3>1 DEF s, U
    <3>8. Begins(order, s) /\ s \in Seq(CPUs) /\ Push(s, cpu) \in Seq(CPUs)
      BY <2>1, <3>5, <3>6 DEF s, Listing
    <3>9. Begins(order, Push(s, cpu))
      BY <1>0, <3>6, <3>8, BeginsTransitive
    <3>10. Listing(h[n + 1], S \cup Part(n + 1))
      BY <3>6, <3>7
    <3> QED
      BY <3>7, <3>9, <3>10
  <2> QED
    BY <2>2, <2>3, <2>4
<1>4. Nat \subseteq T
  <2> HIDE DEF T
  <2> QED
    BY <1>2, <1>3, NatSetInduction
<1>5. Good(N)
  <2> HIDE DEF Good
  <2> QED
    BY <1>0, <1>4
<1> QED
  BY <1>1, <1>5
LEMMA TierType ==
  ASSUME NEW order \in Seq(CPUs), NEW cores, IsUsable(cores), NEW class, NEW key \in Slots
  PROVE  Tier(order, cores, class, key) \in Seq(CPUs)
<1> DEFINE N == Len(cores)
<1>1. N \in Nat
  BY CoresAre
<1>2. PICK h : TierIs(h, order, cores, class, key)
  BY TierSteps
<1> DEFINE T == {n \in Nat : n <= N => h[n] \in Seq(CPUs)}
<1>3. 0 \in T
  BY <1>2 DEF TierIs
<1>4. ASSUME NEW n \in Nat, n \in T PROVE n + 1 \in T
  <2> SUFFICES ASSUME n + 1 <= N PROVE h[n + 1] \in Seq(CPUs)
    OBVIOUS
  <2>1. n \in 0 .. N - 1 /\ n + 1 \in 1 .. N /\ h[n] \in Seq(CPUs)
    BY <1>1, <1>4
  <2>2. cores[n + 1][key] \in CPUs \cup {-1}
    BY <2>1, CoresAre
  <2>3. Push(h[n], cores[n + 1][key]) \in Seq(CPUs)
    BY <2>1, <2>2, PushType
  <2> QED
    BY <1>2, <2>1, <2>3 DEF TierIs
<1>5. Nat \subseteq T
  <2> HIDE DEF T
  <2> QED
    BY <1>3, <1>4, NatSetInduction
<1>6. h[N] \in Seq(CPUs)
  BY <1>1, <1>5
<1> QED
  BY <1>2, <1>6 DEF TierIs

(* All CPUs of the cores of a class, and those of the n classes below best.  *)
Part(cores, class, key) == PartOf(cores, class, key, Len(cores))
Of(cores, class) == Part(cores, class, "primary") \cup Part(cores, class, "sibling")
Below(cores, best, n) == UNION {Of(cores, best - i) : i \in 1 .. n}

LEMMA PartMeans ==
  ASSUME NEW cores, NEW class, NEW key, NEW cpu
  PROVE  cpu \in Part(cores, class, key) <=>
           /\ cpu # -1
           /\ \E i \in 1 .. Len(cores) : cores[i].class = class /\ cores[i][key] = cpu
  BY DEF Part, PartOf

LEMMA PartsApart ==
  ASSUME NEW cores, IsUsable(cores), NEW c, NEW d, NEW k \in Slots, NEW l \in Slots,
         c # d \/ k # l
  PROVE  Part(cores, c, k) \cap Part(cores, d, l) = {}
<1> SUFFICES ASSUME NEW cpu \in Part(cores, c, k), cpu \in Part(cores, d, l) PROVE FALSE
  OBVIOUS
<1>1. PICK i \in 1 .. Len(cores) : cores[i].class = c /\ cores[i][k] = cpu
  BY PartMeans
<1>2. PICK j \in 1 .. Len(cores) : cores[j].class = d /\ cores[j][l] = cpu
  BY PartMeans
<1>3. cpu # -1
  BY PartMeans
<1>4. i = j /\ k = l
  BY <1>1, <1>2, <1>3, CoresAre
<1> QED
  BY <1>1, <1>2, <1>4

SlowerIs(h, order, cores, best) ==
  /\ h[0] = order /\ Slower(order, cores, best) = h[best]
  /\ \A n \in 0 .. best - 1 :
       h[n + 1] = Siblings(Primaries(h[n], cores, best - (n + 1)), cores, best - (n + 1))

LEMMA SlowerSteps ==
  ASSUME NEW order \in Seq(CPUs), NEW cores, IsUsable(cores), NEW best \in Nat
  PROVE  \E h : SlowerIs(h, order, cores, best)
<1> DEFINE V == Seq(CPUs)
           Both(s, c) == Siblings(Primaries(s, cores, c), cores, c)
           step == [p \in Nat \X V |-> Both(p[2], best - (p[1] + 1))]
           Body(h) == [n \in 0 .. best |->
                         IF n = 0 THEN order
                         ELSE Siblings(Primaries(h[n - 1], cores, best - n), cores, best - n)]
<1>1. ASSUME NEW s \in V, NEW c PROVE Both(s, c) \in V
  BY TierType DEF Primaries, Siblings, Slots
<1> HIDE DEF V
<1>2. step \in [Nat \X V -> V]
  <2> HIDE DEF Both
  <2> QED
    BY <1>1
<1>3. order \in V
  BY DEF V
<1>4. PICK h \in [Nat -> V] : Recursive(h, order, step)
  <2> HIDE DEF step
  <2> QED
    BY <1>2, <1>3, Recursion
<1>5. ASSUME NEW n \in 0 .. best - 1 PROVE h[n + 1] = Both(h[n], best - (n + 1))
  <2>1. n \in Nat /\ h[n] \in V
    OBVIOUS
  <2> HIDE DEF Both
  <2>2. step[<<n, h[n]>>] = Both(h[n], best - (n + 1))
    BY <2>1
  <2> QED
    BY <1>4, <2>1, <2>2 DEF Recursive
<1> DEFINE k == [n \in 0 .. best |-> h[n]]
<1>6. k = Body(k)
  <2>1. ASSUME NEW n \in 0 .. best PROVE k[n] = Body(k)[n]
    <3>1. CASE n = 0
      BY <1>4, <3>1 DEF Recursive
    <3>2. CASE n # 0
      <4>1. n - 1 \in 0 .. best - 1 /\ (n - 1) + 1 = n /\ n - 1 \in 0 .. best
        BY <3>2
      <4>2. h[n] = Both(h[n - 1], best - n)
        BY <1>5, <4>1
      <4> QED
        BY <3>2, <4>1, <4>2
    <3> QED
      BY <3>1, <3>2
  <2> QED
    BY <2>1
<1> DEFINE after == CHOOSE f : f = Body(f)
<1>7. after = Body(after)
  <2>1. \E f : f = Body(f)
    BY <1>6
  <2> HIDE DEF Body
  <2> QED
    BY <2>1, Zenon
<1>8. Slower(order, cores, best) = after[best]
  BY DEF Slower
<1> HIDE DEF after
<1>9. after[0] = order
  BY <1>7
<1>10. ASSUME NEW n \in 0 .. best - 1
       PROVE  after[n + 1]
                = Siblings(Primaries(after[n], cores, best - (n + 1)), cores, best - (n + 1))
  <2>1. n + 1 \in 0 .. best /\ n + 1 # 0 /\ (n + 1) - 1 = n
    OBVIOUS
  <2>2. after[n + 1] = Body(after)[n + 1]
    BY <1>7
  <2> QED
    BY <2>1, <2>2
<1> QED
  BY <1>8, <1>9, <1>10 DEF SlowerIs

LEMMA SlowerLists ==
  ASSUME NEW S, NEW order, Listing(order, S), NEW cores, IsUsable(cores), NEW best \in Nat,
         \A i \in 1 .. best : Of(cores, best - i) \cap S = {}
  PROVE  /\ Listing(Slower(order, cores, best), S \cup Below(cores, best, best))
         /\ Begins(order, Slower(order, cores, best))
<1>0. order \in Seq(CPUs)
  BY DEF Listing
<1>1. PICK h : SlowerIs(h, order, cores, best)
  BY <1>0, SlowerSteps
<1>2. /\ h[0] = order /\ Slower(order, cores, best) = h[best]
      /\ \A n \in 0 .. best - 1 :
           h[n + 1] = Siblings(Primaries(h[n], cores, best - (n + 1)),
                               cores, best - (n + 1))
  BY <1>1 DEF SlowerIs
<1> DEFINE Good(n) == /\ Listing(h[n], S \cup Below(cores, best, n))
                      /\ Begins(order, h[n])
           T == {n \in Nat : n <= best => Good(n)}
<1>3. 0 \in T
  <2>1. Below(cores, best, 0) = {}
    BY DEF Below
  <2>2. S \cup Below(cores, best, 0) = S
    BY <2>1
  <2>3. Begins(order, order)
    BY <1>0 DEF Begins
  <2> QED
    BY <1>2, <2>2, <2>3
<1>4. ASSUME NEW n \in Nat, n \in T PROVE n + 1 \in T
  <2> SUFFICES ASSUME n + 1 <= best PROVE Good(n + 1)
    OBVIOUS
  <2> DEFINE c == best - (n + 1)
             s == h[n]
             U == S \cup Below(cores, best, n)
             P == Part(cores, c, "primary")
             Q == Part(cores, c, "sibling")
             s1 == Primaries(s, cores, c)
             s2 == Siblings(s1, cores, c)
  <2>1. n \in 0 .. best - 1 /\ n + 1 \in 1 .. best /\ Good(n)
    BY <1>4
  <2>2. Below(cores, best, n + 1) = Below(cores, best, n) \cup (P \cup Q)
    <3>1. 1 .. n + 1 = 1 .. n \cup {n + 1}
      OBVIOUS
    <3> QED
      BY <3>1 DEF Below, Of
  <2>3. P \cap U = {} /\ Q \cap U = {}
    <3>1. (P \cup Q) \cap S = {}
      BY <2>1 DEF Of
    <3>2. ASSUME NEW i \in 1 .. n PROVE (P \cup Q) \cap Of(cores, best - i) = {}
      <4>1. c # best - i
        OBVIOUS
      <4>2. \A k, l \in Slots : Part(cores, c, k) \cap Part(cores, best - i, l) = {}
        BY <4>1, PartsApart
      <4> QED
        BY <4>2 DEF Of, Slots
    <3>3. (P \cup Q) \cap Below(cores, best, n) = {}
      BY <3>2 DEF Below
    <3> QED
      BY <3>1, <3>3
  <2>4. P \cap Q = {}
    BY PartsApart DEF Slots
  <2>5. Listing(s, U) /\ Begins(order, s)
    BY <2>1
  <2>6. h[n + 1] = s2
    BY <1>2, <2>1
  <2> HIDE DEF U, s
  <2>7. Listing(s1, U \cup P) /\ Begins(s, s1)
    <3>1. PartOf(cores, c, "primary", Len(cores)) \cap U = {}
      BY <2>3 DEF Part
    <3>2. "primary" \in Slots
      BY DEF Slots
    <3> QED
      BY <2>5, <3>1, <3>2, TierLists DEF Primaries, Part
  <2> HIDE DEF s1
  <2>8. Listing(s2, (U \cup P) \cup Q) /\ Begins(s1, s2)
    <3>1. PartOf(cores, c, "sibling", Len(cores)) \cap (U \cup P) = {}
      BY <2>3, <2>4 DEF Part
    <3>2. "sibling" \in Slots
      BY DEF Slots
    <3> QED
      BY <2>7, <3>1, <3>2, TierLists DEF Siblings, Part
  <2> HIDE DEF s2
  <2>9. Begins(order, s2)
    <3>1. s \in Seq(CPUs) /\ s1 \in Seq(CPUs) /\ s2 \in Seq(CPUs)
      BY <2>5, <2>7, <2>8 DEF Listing
    <3>2. Begins(order, s1)
      BY <1>0, <2>5, <2>7, <3>1, BeginsTransitive
    <3> QED
      BY <1>0, <2>8, <3>1, <3>2, BeginsTransitive
  <2>10. (U \cup P) \cup Q = S \cup Below(cores, best, n + 1)
    <3> HIDE DEF P, Q
    <3> QED
      BY <2>2 DEF U
  <2> QED
    BY <2>6, <2>8, <2>9, <2>10
<1>5. Nat \subseteq T
  <2> HIDE DEF T
  <2> QED
    BY <1>3, <1>4, NatSetInduction
<1>6. Good(best)
  <2> HIDE DEF Good
  <2> QED
    BY <1>5
<1> QED
  BY <1>2, <1>6
(* The CPUs of the cores, and those that are to come last.                   *)
Named(cores) == UNION {CpusOf(core) : core \in Range(cores)}
Late(cores) ==
  {core.sibling : core \in {c \in Range(cores) :
                              \A other \in Range(cores) : other.class <= c.class}}
IsPlacement(order, S, late) ==
  /\ Listing(order, S)
  /\ \A i, j \in 1 .. Len(order) : i <= j /\ order[i] \in late => order[j] \in late

LEMMA FastestIs ==
  ASSUME NEW cores, IsUsable(cores)
  PROVE  /\ Fastest(cores) \in Nat
         /\ \E i \in 1 .. Len(cores) : cores[i].class = Fastest(cores)
         /\ \A i \in 1 .. Len(cores) : cores[i].class <= Fastest(cores)
<1> DEFINE C == {core.class : core \in Range(cores)}
           N == Len(cores)
           Best(n) == \E i \in 1 .. n : \A j \in 1 .. n : cores[j].class <= cores[i].class
           T == {n \in Nat : n < N => Best(n + 1)}
<1>1. N \in Nat /\ DOMAIN cores = 1 .. N /\ N # 0
  BY CoresAre
<1>2. \A i \in 1 .. N : cores[i].class \in Nat
  BY CoresAre
<1>3. 0 \in T
  <2>1. 0 < N => cores[1].class <= cores[1].class
    BY <1>1, <1>2
  <2> QED
    BY <2>1
<1>4. ASSUME NEW n \in Nat, n \in T PROVE n + 1 \in T
  <2> SUFFICES ASSUME n + 1 < N PROVE Best((n + 1) + 1)
    <3> HIDE DEF Best
    <3> QED
      OBVIOUS
  <2>1. PICK i \in 1 .. n + 1 : \A j \in 1 .. n + 1 : cores[j].class <= cores[i].class
    BY <1>1, <1>4
  <2>2. 1 .. n + 2 = 1 .. n + 1 \cup {n + 2} /\ n + 2 \in 1 .. N /\ i \in 1 .. N
    BY <1>1
  <2>3. \A j \in 1 .. n + 1 : j \in 1 .. N
    BY <1>1
  <2>4. CASE cores[n + 2].class <= cores[i].class
    <3>1. \A j \in 1 .. n + 2 : cores[j].class <= cores[i].class
      BY <2>1, <2>2, <2>4
    <3> QED
      BY <2>2, <3>1
  <2>5. CASE ~(cores[n + 2].class <= cores[i].class)
    <3>1. \A j \in 1 .. n + 2 : cores[j].class <= cores[n + 2].class
      BY <1>2, <2>1, <2>2, <2>3, <2>5
    <3> QED
      BY <2>2, <3>1
  <2> QED
    BY <2>4, <2>5
<1>5. Nat \subseteq T
  <2> HIDE DEF T
  <2> QED
    BY <1>3, <1>4, NatSetInduction
<1>6. Best(N)
  <2>1. N - 1 \in Nat /\ N - 1 < N /\ (N - 1) + 1 = N
    BY <1>1
  <2> HIDE DEF Best
  <2>2. Best((N - 1) + 1)
    BY <1>5, <2>1
  <2> QED
    BY <2>1, <2>2
<1>7. Range(cores) = {cores[i] : i \in 1 .. N}
  BY <1>1 DEF Range
<1>8. \E c \in C : \A core \in Range(cores) : core.class <= c
  BY <1>6, <1>7
<1>9. Fastest(cores) \in C /\ \A core \in Range(cores) : core.class <= Fastest(cores)
  <2> HIDE DEF C
  <2> QED
    BY <1>8, Zenon DEF Fastest, C
<1> QED
  BY <1>2, <1>7, <1>9

LEMMA PlacementLists ==
  ASSUME NEW cores, IsUsable(cores)
  PROVE  IsPlacement(Placement(cores), Named(cores), Late(cores))
<1> DEFINE best == Fastest(cores)
           N == Len(cores)
           P == Part(cores, best, "primary")
           B == Below(cores, best, best)
           Q == Part(cores, best, "sibling")
           o1 == Primaries(<<>>, cores, best)
           o2 == Slower(o1, cores, best)
           o3 == Siblings(o2, cores, best)
<1>1. /\ best \in Nat /\ \E i \in 1 .. N : cores[i].class = best
      /\ \A i \in 1 .. N : cores[i].class <= best
  BY FastestIs
<1>2. "primary" \in Slots /\ "sibling" \in Slots
  BY DEF Slots
<1>3. Placement(cores) = o3
  BY DEF Placement
<1> HIDE DEF best
<1>4. Listing(<<>>, {})
  BY DEF Listing
<1>5. Listing(o1, P)
  <2>1. PartOf(cores, best, "primary", N) \cap {} = {}
    OBVIOUS
  <2>2. Listing(o1, {} \cup PartOf(cores, best, "primary", N))
    BY <1>2, <1>4, <2>1, TierLists DEF Primaries
  <2> QED
    BY <2>2 DEF Part
<1> HIDE DEF o1
<1>6. ASSUME NEW i \in 1 .. best, NEW k \in Slots
      PROVE  Of(cores, best - i) \cap Part(cores, best, k) = {}
  <2>1. best - i # best
    BY <1>1
  <2>2. \A l \in Slots : Part(cores, best - i, l) \cap Part(cores, best, k) = {}
    BY <2>1, PartsApart
  <2> QED
    BY <1>2, <2>2 DEF Of
<1>7. Listing(o2, P \cup B)
  <2>1. \A i \in 1 .. best : Of(cores, best - i) \cap P = {}
    BY <1>2, <1>6
  <2> HIDE DEF P
  <2> QED
    BY <1>1, <1>5, <2>1, SlowerLists
<1> HIDE DEF o2
<1>8. Q \cap (P \cup B) = {}
  <2>1. Q \cap P = {}
    BY <1>2, PartsApart
  <2>2. Q \cap B = {}
    BY <1>2, <1>6 DEF Below
  <2> QED
    BY <2>1, <2>2
<1>9. Listing(o3, (P \cup B) \cup Q) /\ Begins(o2, o3)
  <2>1. PartOf(cores, best, "sibling", N) \cap (P \cup B) = {}
    BY <1>8 DEF Part
  <2> HIDE DEF P, B
  <2> QED
    BY <1>2, <1>7, <2>1, TierLists DEF Siblings, Part
<1> HIDE DEF o3
<1>10. Range(cores) = {cores[i] : i \in 1 .. N} /\ N \in Nat
  BY CoresAre DEF Range
<1>11. \A cpu : cpu \in Named(cores) <=>
          cpu # -1 /\ \E i \in 1 .. N : \E k \in Slots : cores[i][k] = cpu
  BY <1>10 DEF Named, CpusOf, Slots
<1>12. (P \cup B) \cup Q = Named(cores)
  <2>1. ASSUME NEW cpu \in (P \cup B) \cup Q PROVE cpu \in Named(cores)
    <3>1. \E c : \E k \in Slots : cpu \in Part(cores, c, k)
      BY <1>2, <2>1 DEF Below, Of
    <3> QED
      BY <1>11, <3>1, PartMeans
  <2>2. ASSUME NEW cpu \in Named(cores) PROVE cpu \in (P \cup B) \cup Q
    <3>1. PICK i \in 1 .. N, k \in Slots : cores[i][k] = cpu /\ cpu # -1
      BY <1>11, <2>2
    <3> DEFINE c == cores[i].class
    <3>2. cpu \in Part(cores, c, k)
      BY <3>1, PartMeans
    <3>3. c \in Nat /\ c <= best
      BY <1>1, CoresAre
    <3>4. CASE c = best
      BY <3>2, <3>4 DEF Slots
    <3>5. CASE c # best
      <4>1. best - c \in 1 .. best /\ best - (best - c) = c
        BY <1>1, <3>3, <3>5
      <4>2. cpu \in Of(cores, c)
        BY <3>2 DEF Of, Slots
      <4> DEFINE m == best - c
      <4>3. cpu \in Of(cores, best - m) /\ m \in 1 .. best
        BY <4>1, <4>2
      <4> HIDE DEF m
      <4> QED
        BY <4>3 DEF Below
    <3> QED
      BY <3>4, <3>5
  <2> QED
    BY <2>1, <2>2
<1>13. Late(cores) \ {-1} = Q
  <2>1. \A i \in 1 .. N : (\A j \in 1 .. N : cores[j].class <= cores[i].class)
                           <=> cores[i].class = best
    <3>1. \A i \in 1 .. N : cores[i].class \in Nat
      BY CoresAre
    <3> QED
      BY <1>1, <3>1
  <2>2. Late(cores) = {cores[i].sibling : i \in {j \in 1 .. N : cores[j].class = best}}
    BY <1>10, <2>1 DEF Late
  <2> QED
    BY <2>2 DEF Part, PartOf
<1>14. ASSUME NEW i \in 1 .. Len(o3), NEW j \in 1 .. Len(o3), i <= j,
              o3[i] \in Late(cores)
       PROVE  o3[j] \in Late(cores)
  <2>1. /\ o2 \in Seq(CPUs) /\ o3 \in Seq(CPUs)
        /\ \A n \in 1 .. Len(o2) : o2[n] \in P \cup B
        /\ \A cpu \in P \cup B : \E n \in 1 .. Len(o2) : o2[n] = cpu
        /\ \A a, b \in 1 .. Len(o3) : o3[a] = o3[b] => a = b
        /\ o3[j] \in (P \cup B) \cup Q
    BY <1>7, <1>9 DEF Listing
  <2>2. Len(o2) \in Nat /\ Len(o3) \in Nat /\ Len(o2) <= Len(o3)
    BY <1>9, <2>1 DEF Begins
  <2>3. \A n \in 1 .. Len(o2) : o3[n] = o2[n] /\ n \in 1 .. Len(o3)
    BY <1>9, <2>2 DEF Begins
  <2>4. o3[i] # -1
    <3>1. o3[i] \in CPUs
      BY <2>1
    <3> QED
      BY <3>1, CpusAssumption DEF CPUs
  <2>5. o3[i] \in Q
    BY <1>13, <1>14, <2>4
  <2>6. i > Len(o2)
    <3> SUFFICES ASSUME i \in 1 .. Len(o2) PROVE FALSE
      BY <2>2
    <3> QED
      BY <1>8, <2>1, <2>3, <2>5
  <2>7. o3[j] \notin P \cup B
    <3> SUFFICES ASSUME o3[j] \in P \cup B PROVE FALSE
      OBVIOUS
    <3>1. PICK n \in 1 .. Len(o2) : o2[n] = o3[j]
      BY <2>1
    <3>2. n = j
      BY <2>1, <2>3, <3>1
    <3> QED
      BY <1>14, <2>2, <2>6, <3>2
  <2> QED
    BY <1>13, <2>1, <2>7
<1> QED
  BY <1>3, <1>9, <1>12, <1>14 DEF IsPlacement
(* The workers whose turn it is at place p of an order of L CPUs.            *)
Turns(N, L, p) == {t \in 1 .. N : ((t - 1) % L) + 1 = p}

LEMMA TurnIs ==
  ASSUME NEW N \in Int, NEW L \in Nat \ {0}, NEW p \in 1 .. L, NEW t \in Turns(N, L, p)
  PROVE  t \in 1 .. N /\ \E q \in Nat : t = q * L + p
<1>1. t \in 1 .. N /\ ((t - 1) % L) + 1 = p
  BY DEF Turns
<1> DEFINE a == t - 1
           q == a \div L
           r == a % L
<1>2. a \in Nat
  BY <1>1
<1> HIDE DEF a
<1>3. q \in Nat /\ r \in 0 .. L - 1 /\ a = q * L + r
  BY <1>2, Division
<1> HIDE DEF q, r
<1>4. r + 1 = p /\ t = a + 1
  BY <1>1 DEF a, r
<1>5. q * L \in Nat
  BY <1>3
<1>6. t = q * L + p
  BY <1>3, <1>4, <1>5
<1> QED
  BY <1>1, <1>3, <1>6

LEMMA IsTurn ==
  ASSUME NEW N \in Int, NEW L \in Nat \ {0}, NEW p \in 1 .. L, NEW q \in Nat,
         q * L + p <= N
  PROVE  q * L + p \in Turns(N, L, p)
<1>1. (q * L + (p - 1)) % L = p - 1
  BY RemainderOf
<1>2. q * L \in Nat
  OBVIOUS
<1> DEFINE m == q * L
<1> HIDE DEF m
<1>3. m \in Nat /\ m + p <= N /\ (m + (p - 1)) % L = p - 1
  BY <1>1, <1>2 DEF m
<1>4. (m + p) - 1 = m + (p - 1) /\ m + p \in 1 .. N
  BY <1>3
<1>5. (((m + p) - 1) % L) + 1 = p
  BY <1>3, <1>4
<1> QED
  BY <1>4, <1>5 DEF Turns, m

(* Of two places the later one has as many turns, or one less.               *)
LEMMA TurnsEven ==
  ASSUME NEW N \in Int, NEW L \in Nat \ {0}, NEW i \in 1 .. L, NEW j \in 1 .. L, i <= j
  PROVE  /\ Cardinality(Turns(N, L, i)) \in Nat /\ Cardinality(Turns(N, L, j)) \in Nat
         /\ Cardinality(Turns(N, L, j)) <= Cardinality(Turns(N, L, i))
         /\ Cardinality(Turns(N, L, i)) <= Cardinality(Turns(N, L, j)) + 1
<1> DEFINE I == Turns(N, L, i)
           J == Turns(N, L, j)
           I1 == I \ {i}
           f == [t \in J |-> t - (j - i)]
           g == [t \in I1 |-> (t - L) + (j - i)]
<1>1. I \subseteq 1 .. N /\ J \subseteq 1 .. N
  BY DEF Turns
<1>2. IsFiniteSet(1 .. N)
  BY FS_Interval
<1>3. IsFiniteSet(I) /\ IsFiniteSet(J)
  BY <1>1, <1>2, FS_Subset
<1>4. Cardinality(I) \in Nat /\ Cardinality(J) \in Nat
  BY <1>3, FS_CardinalityType
<1>5. f \in Injection(J, I)
  <2>1. ASSUME NEW t \in J PROVE t - (j - i) \in I
    <3>1. PICK q \in Nat : t = q * L + j
      <4>1. t \in Turns(N, L, j)
        OBVIOUS
      <4> HIDE DEF I, J, I1, f, g
      <4>2. \E q \in Nat : t = q * L + j
        BY <4>1, TurnIs
      <4> QED
        BY <4>2, Zenon
    <3>2. t \in 1 .. N /\ q * L \in Nat
      BY <1>1
    <3>3. t - (j - i) = q * L + i /\ q * L + i <= N
      BY <3>1, <3>2
    <3>4. q * L + i \in I
      BY <3>3, IsTurn
    <3> QED
      BY <3>3, <3>4
  <2>2. \A s, t \in J : s - (j - i) = t - (j - i) => s = t
    BY <1>1
  <2> HIDE DEF I, J
  <2> QED
    BY <2>1, <2>2 DEF Injection, IsInjective
<1>6. g \in Injection(I1, J)
  <2>1. ASSUME NEW t \in I1 PROVE (t - L) + (j - i) \in J
    <3>1. PICK q \in Nat : t = q * L + i
      <4>1. t \in Turns(N, L, i)
        OBVIOUS
      <4> HIDE DEF I, J, I1, f, g
      <4>2. \E q \in Nat : t = q * L + i
        BY <4>1, TurnIs
      <4> QED
        BY <4>2, Zenon
    <3>2. t \in 1 .. N /\ q # 0
      BY <1>1, <3>1
    <3>3. q - 1 \in Nat /\ (q - 1) * L = q * L - L /\ q * L \in Nat
      BY <3>2
    <3> DEFINE m == (q - 1) * L
    <3>4. m \in Int /\ m = q * L - L
      BY <3>3
    <3> HIDE DEF m
    <3>5. (t - L) + (j - i) = m + j /\ m + j <= N
      BY <3>1, <3>2, <3>3, <3>4
    <3>6. m + j \in J
      BY <3>3, <3>5, IsTurn DEF m
    <3> QED
      BY <3>5, <3>6
  <2>2. \A s, t \in I1 : (s - L) + (j - i) = (t - L) + (j - i) => s = t
    BY <1>1
  <2> HIDE DEF I1, J
  <2> QED
    BY <2>1, <2>2 DEF Injection, IsInjective
<1> HIDE DEF f, g, I, J
<1>7. Cardinality(J) <= Cardinality(I)
  BY <1>3, <1>5, FS_Injection
<1>8. Cardinality(I1) <= Cardinality(J)
  BY <1>3, <1>6, FS_Injection
<1>9. Cardinality(I1) \in {Cardinality(I) - 1, Cardinality(I)}
  BY <1>3, FS_RemoveElement
<1>10. Cardinality(I) <= Cardinality(J) + 1
  BY <1>4, <1>8, <1>9
<1> QED
  BY <1>4, <1>7, <1>10 DEF I, J

(* Workers that take the CPUs of a placement in turn.                        *)
WorkersOn(cpus, cpu) == Cardinality({t \in DOMAIN cpus : cpus[t] = cpu})
Spread(cpus, S, late) ==
  /\ Range(cpus) \subseteq S
  /\ \A c, d \in S : WorkersOn(cpus, c) <= WorkersOn(cpus, d) + 1
  /\ \A c \in late \cap S, d \in S \ late : WorkersOn(cpus, c) <= WorkersOn(cpus, d)

LEMMA InTurn ==
  ASSUME NEW order, NEW S, NEW late, IsPlacement(order, S, late), Len(order) # 0,
         NEW N \in Int
  PROVE  Spread([t \in 1 .. N |-> order[((t - 1) % Len(order)) + 1]], S, late)
<1> DEFINE L == Len(order)
           cpus == [t \in 1 .. N |-> order[((t - 1) % L) + 1]]
<1>1. L \in Nat \ {0} /\ \A i \in 1 .. L : order[i] \in S
  BY DEF IsPlacement, Listing
<1>2. ASSUME NEW t \in 1 .. N PROVE ((t - 1) % L) + 1 \in 1 .. L
  <2> DEFINE a == t - 1
             r == a % L
  <2>1. a \in Nat
    OBVIOUS
  <2> HIDE DEF a
  <2>2. r \in 0 .. L - 1
    BY <1>1, <2>1, Division
  <2> HIDE DEF r
  <2>3. r + 1 \in 1 .. L
    BY <1>1, <2>2
  <2> QED
    BY <2>3 DEF a, r
<1>3. ASSUME NEW i \in 1 .. L
      PROVE  WorkersOn(cpus, order[i]) = Cardinality(Turns(N, L, i))
  <2>1. \A t \in 1 .. N : order[((t - 1) % L) + 1] = order[i] <=> ((t - 1) % L) + 1 = i
    BY <1>2 DEF IsPlacement, Listing
  <2>2. {t \in DOMAIN cpus : cpus[t] = order[i]} = Turns(N, L, i)
    BY <2>1 DEF Turns
  <2> QED
    BY <2>2 DEF WorkersOn
<1>4. ASSUME NEW i \in 1 .. L, NEW j \in 1 .. L, i <= j
      PROVE  /\ WorkersOn(cpus, order[i]) \in Nat /\ WorkersOn(cpus, order[j]) \in Nat
             /\ WorkersOn(cpus, order[j]) <= WorkersOn(cpus, order[i])
             /\ WorkersOn(cpus, order[i]) <= WorkersOn(cpus, order[j]) + 1
  <2> HIDE DEF cpus, L
  <2>1. /\ Cardinality(Turns(N, L, i)) \in Nat /\ Cardinality(Turns(N, L, j)) \in Nat
        /\ Cardinality(Turns(N, L, j)) <= Cardinality(Turns(N, L, i))
        /\ Cardinality(Turns(N, L, i)) <= Cardinality(Turns(N, L, j)) + 1
    BY <1>1, <1>4, TurnsEven
  <2> QED
    BY <1>3, <2>1
<1>5. Range(cpus) \subseteq S
  BY <1>1, <1>2 DEF Range
<1> HIDE DEF cpus
<1>6. \A c \in S : \E i \in 1 .. L : order[i] = c
  BY DEF IsPlacement, Listing
<1>7. ASSUME NEW c \in S, NEW d \in S
      PROVE  WorkersOn(cpus, c) <= WorkersOn(cpus, d) + 1
  <2>1. PICK i \in 1 .. L : order[i] = c
    BY <1>6
  <2>2. PICK j \in 1 .. L : order[j] = d
    BY <1>6
  <2>3. CASE i <= j
    BY <1>4, <2>1, <2>2, <2>3
  <2>4. CASE j <= i
    <3>1. /\ WorkersOn(cpus, c) \in Nat /\ WorkersOn(cpus, d) \in Nat
          /\ WorkersOn(cpus, c) <= WorkersOn(cpus, d)
      BY <1>4, <2>1, <2>2, <2>4
    <3> QED
      BY <3>1
  <2> QED
    BY <1>1, <2>3, <2>4
<1>8. ASSUME NEW c \in late \cap S, NEW d \in S \ late
      PROVE  WorkersOn(cpus, c) <= WorkersOn(cpus, d)
  <2>1. PICK i \in 1 .. L : order[i] = c
    BY <1>6
  <2>2. PICK j \in 1 .. L : order[j] = d
    BY <1>6
  <2>3. ~(i <= j)
    BY <2>1, <2>2 DEF IsPlacement
  <2>4. j <= i
    BY <1>1, <2>3
  <2> QED
    BY <1>4, <2>1, <2>2, <2>4
<1> QED
  BY <1>5, <1>7, <1>8 DEF Spread, cpus
(* The order of a machine whose cores are not known or cannot all be named.  *)
LEMMA IdentityLists ==
  ASSUME NEW n \in Nat
  PROVE  IsPlacement(Identity(n).order, {cpu \in CPUs : cpu < n}, {})
<1> DEFINE L == IF n > MaxCpus THEN MaxCpus ELSE n
           order == [i \in 1 .. L |-> i - 1]
           S == {cpu \in CPUs : cpu < n}
<1>1. L \in Nat /\ S = 0 .. L - 1 /\ S \subseteq CPUs
  BY CpusAssumption DEF CPUs
<1>2. Identity(n).order = order
  BY DEF Identity
<1> HIDE DEF L, S
<1>3. \A i \in 1 .. L : i - 1 \in S /\ i - 1 \in CPUs
  BY <1>1
<1>4. order \in Seq(CPUs) /\ Len(order) = L
  <2>1. order \in [1 .. L -> CPUs]
    BY <1>3
  <2> HIDE DEF order
  <2>2. order \in Seq(CPUs)
    BY <1>1, <2>1
  <2> QED
    BY <1>1, <2>1, <2>2
<1>5. \A cpu \in S : cpu + 1 \in 1 .. L /\ order[cpu + 1] = cpu
  BY <1>1
<1>6. \A i, j \in 1 .. L : order[i] = order[j] => i = j
  OBVIOUS
<1>7. \A i \in 1 .. L : order[i] \in S
  BY <1>3
<1> HIDE DEF order
<1>8. Listing(order, S)
  BY <1>1, <1>4, <1>5, <1>6, <1>7 DEF Listing
<1> QED
  BY <1>2, <1>8 DEF IsPlacement, S

(* Which CPUs the workers of a machine may have, and which come last.        *)
CoresOf(m) == IF m.platform = "windows" THEN Range(m.cores) ELSE {}
NamedOn(m) == UNION {CpusOf(core) : core \in CoresOf(m)}
UsableOn(m) == CoresOf(m) # {} /\ NamedOn(m) \subseteq 0 .. MaxCpus - 1
CpusOn(m) ==
  IF UsableOn(m) THEN NamedOn(m)
  ELSE {cpu \in 0 .. MaxCpus - 1 : cpu < m.hardware}
LateOn(m) ==
  {core.sibling : core \in {c \in CoresOf(m) :
                              \A other \in CoresOf(m) : other.class <= c.class}}

LEMMA OrderOfMachine ==
  ASSUME NEW m, m.hardware \in Nat, IsTopology(m.cores)
  PROVE  \E late : /\ IsPlacement(CpuOrder(m.platform, m).order, CpusOn(m), late)
                   /\ UsableOn(m) => late = LateOn(m)
<1> DEFINE cores == IF m.platform = "windows" THEN m.cores ELSE <<>>
           order == CpuOrder(m.platform, m).order
           Bad == \/ cores = <<>>
                  \/ \E core \in Range(cores) : \/ core.primary \notin 0 .. MaxCpus - 1
                                                \/ core.sibling >= MaxCpus
<1>1. order = IF Bad THEN Identity(m.hardware).order ELSE Placement(cores)
  BY DEF CpuOrder, dluna_pin_order_from_cores
<1>2. CoresOf(m) = Range(cores)
  <2>1. Range(<<>>) = {}
    BY DEF Range
  <2> QED
    BY <2>1 DEF CoresOf
<1> DEFINE R == [class : Nat, primary : Nat, sibling : Nat \cup {-1}]
<1>3. IsTopology(cores) /\ cores \in Seq(R)
  <2>1. m.cores \in Seq(R)
    BY DEF IsTopology
  <2>2. <<>> \in Seq(R) /\ DOMAIN <<>> = {}
    OBVIOUS
  <2>3. IsTopology(<<>>)
    BY <2>2 DEF IsTopology
  <2> QED
    BY <2>1, <2>2, <2>3
<1> HIDE DEF cores
<1>4. /\ Len(cores) \in Nat /\ DOMAIN cores = 1 .. Len(cores)
      /\ \A i \in 1 .. Len(cores) : cores[i] \in R
  <2> HIDE DEF R
  <2> QED
    BY <1>3
<1>5. \A core \in Range(cores) : core.primary \in Nat /\ core.sibling \in Nat \cup {-1}
  BY <1>4 DEF Range
<1>6. CASE Bad
  <2>1. ~UsableOn(m)
    <3>1. CASE cores = <<>>
      BY <1>2, <3>1 DEF UsableOn, Range
    <3>2. CASE cores # <<>>
      <4>1. PICK core \in Range(cores) : \/ core.primary \notin 0 .. MaxCpus - 1
                                         \/ core.sibling >= MaxCpus
        BY <1>6, <3>2
      <4>2. core.primary # -1 /\ (core.sibling >= MaxCpus => core.sibling # -1)
        BY <1>5, CpusAssumption
      <4>3. \E cpu \in CpusOf(core) : cpu \notin 0 .. MaxCpus - 1
        BY <1>5, <4>1, <4>2, CpusAssumption DEF CpusOf
      <4> QED
        BY <1>2, <4>3 DEF UsableOn, NamedOn
    <3> QED
      BY <3>1, <3>2
  <2>2. IsPlacement(order, CpusOn(m), {})
    BY <1>1, <1>6, <2>1, IdentityLists DEF CpusOn, CPUs
  <2> QED
    BY <2>1, <2>2
<1>7. CASE ~Bad
  <2>1. \A core \in Range(cores) :
          /\ core.primary \in CPUs /\ core.sibling \in CPUs \cup {-1}
          /\ CpusOf(core) \subseteq CPUs
    BY <1>5, <1>7, CpusAssumption DEF CPUs, CpusOf
  <2>2. IsUsable(cores)
    <3>1. \A i \in 1 .. Len(cores) : cores[i] \in Range(cores)
      BY <1>4 DEF Range
    <3> QED
      BY <1>3, <1>7, <2>1, <3>1 DEF IsUsable
  <2>3. CoresOf(m) # {}
    <3>1. Len(cores) # 0
      BY <2>2, CoresAre
    <3>2. 1 \in DOMAIN cores
      BY <1>4, <3>1
    <3> QED
      BY <1>2, <3>2 DEF Range
  <2>4. NamedOn(m) = Named(cores) /\ LateOn(m) = Late(cores)
    BY <1>2 DEF NamedOn, Named, LateOn, Late
  <2>5. UsableOn(m)
    BY <1>2, <2>1, <2>3 DEF UsableOn, NamedOn, CPUs
  <2>6. IsPlacement(order, CpusOn(m), LateOn(m))
    BY <1>1, <1>7, <2>2, <2>4, <2>5, PlacementLists DEF CpusOn
  <2> QED
    BY <2>6
<1> QED
  BY <1>6, <1>7

(* CPUs that refuse take their workers out of the count and no others.       *)
Refuse(cpus, turns, N, R) ==
  /\ DOMAIN cpus = 1 .. N /\ DOMAIN turns = 1 .. N
  /\ \A t \in 1 .. N : cpus[t] = IF turns[t] \in R THEN Free ELSE turns[t]
CountedOn(cpus, turns, S, R) ==
  /\ Range(cpus) \subseteq (S \ R) \cup (IF S \ R = S THEN {} ELSE {Free})
  /\ \A c \in S \ R : WorkersOn(cpus, c) = WorkersOn(turns, c)

LEMMA Refusing ==
  ASSUME NEW S, S \subseteq CPUs, NEW R, NEW N, NEW turns, Range(turns) \subseteq S,
         NEW cpus, Refuse(cpus, turns, N, R)
  PROVE  CountedOn(cpus, turns, S, R)
<1> USE DEF Refuse
<1>1. \A t \in 1 .. N : turns[t] \in S
  BY DEF Range
<1>2. Free \notin S
  BY DEF CPUs, Free
<1>3. ASSUME NEW t \in 1 .. N
      PROVE  cpus[t] \in (S \ R) \cup (IF S \ R = S THEN {} ELSE {Free})
  <2>1. cpus[t] = IF turns[t] \in R THEN Free ELSE turns[t]
    OBVIOUS
  <2>2. CASE turns[t] \in R
    <3>1. S \ R # S /\ cpus[t] = Free
      BY <1>1, <2>1, <2>2
    <3> QED
      BY <3>1
  <2>3. CASE turns[t] \notin R
    BY <1>1, <2>1, <2>3
  <2> QED
    BY <2>2, <2>3
<1>4. Range(cpus) \subseteq (S \ R) \cup (IF S \ R = S THEN {} ELSE {Free})
  BY <1>3 DEF Range
<1>5. ASSUME NEW c \in S \ R PROVE WorkersOn(cpus, c) = WorkersOn(turns, c)
  <2>1. \A t \in 1 .. N : cpus[t] = c <=> turns[t] = c
    BY <1>2
  <2>2. {t \in DOMAIN cpus : cpus[t] = c} = {t \in DOMAIN turns : turns[t] = c}
    BY <2>1
  <2> QED
    BY <2>2 DEF WorkersOn
<1> QED
  BY <1>4, <1>5 DEF CountedOn

LEMMA PinnedSpread ==
  ASSUME miner # NoMiner, machine.hardware \in Nat, IsTopology(machine.cores),
         miner.g.nthreads \in Int, miner.cpus = Pinned(platform, machine, miner.g)
  PROVE  WorkersSpread
<1> DEFINE cpus == miner.cpus
           order == CpuOrder(platform, machine).order
           S == CpusOn(machine)
           R == machine.refused
           n == miner.g.nthreads
           turns == [t \in 1 .. n |-> order[((t - 1) % Len(order)) + 1]]
<1> SUFFICES ASSUME cpus # <<>> PROVE WorkersSpread
  BY DEF WorkersSpread
<1>1. PICK late : /\ IsPlacement(order, S, late)
                  /\ UsableOn(machine) => late = LateOn(machine)
  BY OrderOfMachine DEF platform
<1>2. /\ order # <<>>
      /\ cpus = [t \in 1 .. n |-> IF turns[t] \in R THEN Free ELSE turns[t]]
  BY DEF Pinned, Turn
<1>3. Len(order) # 0
  <2>1. order \in Seq(CPUs)
    BY <1>1 DEF IsPlacement, Listing
  <2> HIDE DEF order
  <2> QED
    BY <1>2, <2>1
<1>4. n \in Int /\ DOMAIN turns = 1 .. n
  OBVIOUS
<1> HIDE DEF order, S, cpus, n, R
<1>5. Spread(turns, S, late)
  BY <1>1, <1>3, <1>4, InTurn
<1>6. S \subseteq CPUs
  BY <1>1 DEF IsPlacement, Listing
<1> HIDE DEF turns
<1>7. /\ Range(cpus) \subseteq (S \ R) \cup (IF S \ R = S THEN {} ELSE {Free})
      /\ \A c \in S \ R : WorkersOn(cpus, c) = WorkersOn(turns, c)
  <2>1. Range(turns) \subseteq S
    BY <1>5 DEF Spread
  <2>2. Refuse(cpus, turns, n, R)
    BY <1>2, <1>4 DEF Refuse
  <2>3. CountedOn(cpus, turns, S, R)
    BY <1>6, <2>1, <2>2, Refusing
  <2> QED
    BY <2>3 DEF CountedOn
<1>8. \A c, d \in S \ R : WorkersOn(cpus, c) <= WorkersOn(cpus, d) + 1
  BY <1>5, <1>7 DEF Spread
<1>9. UsableOn(machine) =>
        \A c \in LateOn(machine) \cap (S \ R), d \in (S \ R) \ LateOn(machine) :
          WorkersOn(cpus, c) <= WorkersOn(cpus, d)
  BY <1>1, <1>5, <1>7 DEF Spread
<1>10. Range(cpus) \subseteq (S \ R) \cup (IF S \ R = S THEN {} ELSE {Free})
  BY <1>7
<1> QED
  BY <1>8, <1>9, <1>10, Zenon DEF WorkersSpread, WorkersOn, S, R, cpus, CpusOn, UsableOn,
     LateOn, NamedOn, CoresOf, platform
LEMMA StartedThreads ==
  ASSUME NEW elsewhere, NEW file, NEW args, IsArguments(args), IsConfig(file),
         machine.hardware \in Nat, miner = Started(elsewhere, file, args),
         miner # NoMiner
  PROVE  miner.g.nthreads \in Int /\ miner.cpus = Pinned(platform, machine, miner.g)
<1> DEFINE env == machine.environment
           base == load_config(Defaults(env), file)
           n == Len(args)
           settings == Settings(env, file, args, machine.hardware)
<1>1. PICK given : /\ DOMAIN given = Keys
                   /\ Obeyed(base, args, n, given)
                   /\ settings = Parsed(given, machine.hardware)
  <2>1. base = load_config(Defaults(env), file)
    OBVIOUS
  <2>2. settings = Settings(env, file, args, machine.hardware)
    OBVIOUS
  <2> HIDE DEF env, base, settings
  <2> QED
    BY <2>1, <2>2, SettingsMean, SMTT(30)
<1>2. base.nthreads \in Int
  <2>1. CASE file.kind = "whole"
    <3>1. Read(env, file, base)
      BY <2>1, FileIsRead, Zenon
    <3>2. file.threads \in Int
      BY <2>1 DEF IsConfig
    <3> HIDE DEF base
    <3> QED
      BY <3>1, <3>2, AsIntType DEF Read
  <2>2. CASE file.kind # "whole"
    <3>1. base = Defaults(env)
      BY <2>2 DEF load_config
    <3>2. Defaults(env).nthreads = 0
      BY DefaultsAre
    <3>3. base.nthreads = 0
      BY <3>1, <3>2, Zenon
    <3> QED
      BY <3>3
  <2> QED
    BY <2>1, <2>2
<1>3. ~settings.usage /\ miner.g = settings /\ miner.cpus = Pinned(platform, machine, settings)
  BY DEF Started
<1> HIDE DEF base, settings
<1>4. /\ ~settings.usage => ~given.usage
      /\ settings.nthreads = Threads(given, machine.hardware)
  BY <1>1, ParsedIs
<1>5. given.nthreads \in Int
  <2>1. n \in Nat
    BY DEF IsArguments
  <2>2. \A i \in 1 .. n : args[i].flag = "-t" => args[i].value \in Int
    BY DEF IsArguments, IsCommandLine, IsInt
  <2>3. \/ Unset(args, "-t", n)
        \/ LastIs(args, "-t", n, LastOf(args, "-t"))
    BY <2>1, LastOfMeans
  <2>4. Obeyed(base, args, n, given) /\ ~given.usage
    BY <1>1, <1>3, <1>4
  <2>5. CASE Unset(args, "-t", n)
    BY <1>2, <2>4, <2>5 DEF Obeyed
  <2>6. CASE LastIs(args, "-t", n, LastOf(args, "-t"))
    BY <2>2, <2>4, <2>6 DEF Obeyed, LastIs
  <2> QED
    BY <2>3, <2>5, <2>6
<1>6. Threads(given, machine.hardware) \in Int
  BY <1>5 DEF Threads
<1> QED
  BY <1>3, <1>4, <1>6

(* On every machine, with every number of workers, however its cores are     *)
(* classed and its CPUs numbered, whichever of them refuse: of the CPUs      *)
(* below MaxCpus that do not refuse, none has more than one pinned worker    *)
(* more than another, and a sibling of one of the fastest cores never has    *)
(* more of them than a CPU that is not; the CPUs from MaxCpus up have none.  *)
THEOREM PinnedEvenly == Spec => []WorkersSpread
<1>1. Init => LaunchInv /\ ConfigInv /\ MinerInv
  BY LaunchInit, ConfigInit
<1>2. LaunchInv /\ ConfigInv /\ MinerInv /\ [Next]_vars
        => (LaunchInv /\ ConfigInv /\ MinerInv)'
  BY InstallStep, SuperviseStep, OutsideStep, ConfigStep, MinerStep
<1>3. ConfigInv /\ MinerInv => WorkersSpread
  <2> SUFFICES ASSUME ConfigInv, MinerInv, miner # NoMiner PROVE WorkersSpread
    BY DEF WorkersSpread
  <2>1. PICK elsewhere, file, args :
           /\ IsConfig(file) /\ IsArguments(args)
           /\ miner = Started(elsewhere, file, args)
    BY DEF MinerInv
  <2>2. machine.hardware \in Nat /\ IsTopology(machine.cores)
    BY InputsAssumption DEF ConfigInv
  <2>3. miner.g.nthreads \in Int /\ miner.cpus = Pinned(platform, machine, miner.g)
    BY <2>1, <2>2, StartedThreads
  <2> QED
    BY <2>2, <2>3, PinnedSpread
<1> QED
  BY <1>1, <1>2, <1>3, PTL DEF Spec
=============================================================================
