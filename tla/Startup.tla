------------------------------ MODULE Startup -------------------------------
(***************************************************************************)
(* What main() makes of config.json, the command line and the environment, *)
(* and where cpu_topology.cpp puts the worker threads.  A name is empty    *)
(* where it is not given, as cfg_str() has it; the port of an address is   *)
(* -1 where there is no colon, and so are a port and threads config.json   *)
(* does not give.                                                          *)
(***************************************************************************)
EXTENDS Integers, FiniteSets, SequencesExt

CONSTANTS
  Builtin,       \* the host and the wallet of MinerState
  BuiltinPort,   \* 10300
  Ports,         \* values of the port, 2^16
  Ints,          \* values of an int, 2^32
  MaxCpus        \* CPUs of an affinity mask and of DlunaCpuOrder, 64

ASSUME PortsAssumption == Ports \in Nat \ {0} /\ BuiltinPort \in 0 .. Ports - 1
ASSUME IntsAssumption == Ints \in Nat \ {0}
ASSUME CpusAssumption == MaxCpus \in Nat \ {0}

NotGiven == ""
NoFile == [kind |-> "absent"]
EmptyFile == [kind |-> "empty"]
NoAddress == [host |-> NotGiven, port |-> -1]

\* MinerState, and the variables of the environment main() writes.
Defaults(env) ==
  [host |-> Builtin, port |-> BuiltinPort, wallet |-> Builtin, nthreads |-> 0,
   priority |-> env.priority, nopin |-> env.nopin, usage |-> FALSE]

\* (uint16_t) and (int)
AsPort(n) == n % Ports
AsInt(n) ==
  IF n % Ints >= Ints \div 2 THEN (n % Ints) - Ints ELSE n % Ints

\* An address without a colon leaves the port as it is.
Dial(g, address) ==
  [g EXCEPT !.host = address.host,
            !.port = IF address.port >= 0 THEN AsPort(address.port) ELSE @]

load_config(g, file) ==
  IF file.kind # "whole" THEN g
  ELSE LET dialled == IF file.address = NoAddress THEN g ELSE Dial(g, file.address)
       IN [dialled EXCEPT
             !.port = IF file.port > 0 THEN AsPort(file.port) ELSE @,
             !.wallet = IF file.wallet # NotGiven THEN file.wallet ELSE @,
             !.nthreads = IF file.threads > 0 THEN AsInt(file.threads) ELSE @,
             !.priority = IF file.priority \in {"normal", "max"} THEN file.priority
                                                                 ELSE @,
             !.nopin = @ \/ ~file.pin]

\* One flag of the command line; usage() ends the process.
Option(g, option) ==
  CASE option.flag = "-d" -> Dial(g, option.value)
    [] option.flag = "-w" -> [g EXCEPT !.wallet = option.value]
    [] option.flag = "-t" -> [g EXCEPT !.nthreads = option.value]
    [] option.flag = "-p" /\ option.value \in {"normal", "max"} ->
         [g EXCEPT !.priority = option.value]
    [] option.flag = "--no-pin" -> [g EXCEPT !.nopin = TRUE]
    [] OTHER -> [g EXCEPT !.usage = TRUE]

\* The settings after each argument.
Options(g, args) ==
  LET after[n \in 0 .. Len(args)] ==
        IF n = 0 THEN g ELSE Option(after[n - 1], args[n])
  IN after

\* hardware is what hardware_concurrency() knows, 0 if nothing.  usage() also ends
\* a process that has no host or no wallet.
parse_args(g, args, hardware) ==
  LET given == Options(g, args)[Len(args)]
      threads == CASE given.nthreads > 0 -> given.nthreads
                   [] given.nthreads <= 0 /\ hardware > 0 -> hardware
                   [] OTHER -> 4
  IN [given EXCEPT !.nthreads = threads,
                   !.usage = @ \/ given.host = NotGiven \/ given.wallet = NotGiven]

SettingsArgsFirst(env, file, args, hardware) ==
  load_config(parse_args(Defaults(env), args, hardware), file)
Settings(env, file, args, hardware) ==
  parse_args(load_config(Defaults(env), file), args, hardware)

\* dluna_priority_level_from_string(): "max" in any case, all else is normal.
MaxInAnyCase == {"max", "maX", "mAx", "mAX", "Max", "MaX", "MAx", "MAX"}
Level(priority) == IF priority \in MaxInAnyCase THEN "max" ELSE "normal"
-----------------------------------------------------------------------------
(* Pinning.  A core has an efficiency class, a primary CPU and, unless it is *)
(* -1, a sibling CPU.                                                        *)
Identity(nlogical) ==
  [order    |-> [i \in 1 .. IF nlogical > MaxCpus THEN MaxCpus ELSE nlogical |-> i - 1],
   detected |-> FALSE]

\* push(): nothing where there is no CPU, and no more CPUs than a mask has.
Push(order, cpu) ==
  IF cpu >= 0 /\ Len(order) < MaxCpus THEN Append(order, cpu) ELSE order

\* A loop over the cores of one class, for one CPU of each.
Tier(order, cores, class, key) ==
  LET after[n \in 0 .. Len(cores)] ==
        CASE n = 0 -> order
          [] n > 0 /\ cores[n].class = class -> Push(after[n - 1], cores[n][key])
          [] OTHER -> after[n - 1]
  IN after[Len(cores)]
Primaries(order, cores, class) == Tier(order, cores, class, "primary")
Siblings(order, cores, class) == Tier(order, cores, class, "sibling")
Fastest(cores) ==
  CHOOSE c \in {core.class : core \in Range(cores)} :
    \A core \in Range(cores) : core.class <= c

\* All CPUs of the slower cores, best class first.
Slower(order, cores, best) ==
  LET after[n \in 0 .. best] ==
        IF n = 0 THEN order
        ELSE Siblings(Primaries(after[n - 1], cores, best - n), cores, best - n)
  IN after[best]

\* The fastest cores, then the slower ones, then the siblings of the fastest.
PlacementSiblingsEarly(cores) ==
  LET best == Fastest(cores)
  IN Slower(Siblings(Primaries(<<>>, cores, best), cores, best), cores, best)
Placement(cores) ==
  LET best == Fastest(cores)
  IN Siblings(Slower(Primaries(<<>>, cores, best), cores, best), cores, best)

dluna_pin_order_from_cores(cores, nlogical) ==
  IF \/ cores = <<>>
     \/ \E core \in Range(cores) :
          core.primary \notin 0 .. MaxCpus - 1 \/ core.sibling >= MaxCpus
  THEN Identity(nlogical)
  ELSE [order |-> Placement(cores), detected |-> TRUE]

\* dluna_cpu_order(): only Windows tells about its cores.
CpuOrder(platform, machine) ==
  dluna_pin_order_from_cores(IF platform = "windows" THEN machine.cores ELSE <<>>,
                             machine.hardware)

\* dluna_pin_mining_thread(): the CPUs of the workers, none if they are free, Free
\* for one whose CPU the system refuses.
Free == -1
Turn(order, t) == order[((t - 1) % Len(order)) + 1]
Pinned(platform, machine, g) ==
  LET order == CpuOrder(platform, machine).order
  IN IF platform = "android" \/ g.nopin \/ order = <<>> THEN <<>>
     ELSE [t \in 1 .. g.nthreads |->
             IF Turn(order, t) \in machine.refused THEN Free ELSE Turn(order, t)]
=============================================================================
