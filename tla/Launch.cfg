\* Nine desktops and a phone of twelve CPUs; masks of six CPUs, ports of four bits, an
\* int of five, three releases.
CONSTANTS
  Builtin = "builtin"
  BuiltinPort = 10
  Ports = 16
  Ints = 32
  MaxCpus = 6
  Machines <- MCMachines
  Files <- MCFiles
  Elsewhere <- MCElsewhere
  CommandLines <- MCCommandLines
  Answers <- MCAnswers
  MaxTag = 3
  FirstBackoff = 5
  MaxBackoff = 30
SPECIFICATION Spec
INVARIANTS InstalledHonest MinesAsConfigured WorkersSpread LockReleased
