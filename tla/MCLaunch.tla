------------------------------ MODULE MCLaunch ------------------------------
(***************************************************************************)
(* Machines, files, command lines and answers for TLC.                     *)
(***************************************************************************)
EXTENDS Launch

Core(class, primary, sibling) ==
  [class |-> class, primary |-> primary, sibling |-> sibling]

\* Two fast cores with siblings and two slow ones; three classes; equal cores;
\* a core no mask can name; a slow core with siblings; nothing known; more CPUs
\* than a mask can name; two machines with CPUs that refuse.
Desktops ==
  {[platform |-> "windows", hardware |-> 6, refused |-> {},
    cores |-> <<Core(0, 4, -1), Core(1, 0, 1), Core(1, 2, 3), Core(0, 5, -1)>>],
   [platform |-> "windows", hardware |-> 4, refused |-> {},
    cores |-> <<Core(2, 2, 3), Core(0, 0, -1), Core(1, 1, -1)>>],
   [platform |-> "windows", hardware |-> 3, refused |-> {},
    cores |-> <<Core(0, 0, 1), Core(0, 2, -1)>>],
   [platform |-> "windows", hardware |-> 7, refused |-> {},
    cores |-> <<Core(1, 0, 1), Core(0, 6, -1)>>],
   [platform |-> "windows", hardware |-> 4, refused |-> {},
    cores |-> <<Core(1, 0, -1), Core(0, 2, 3), Core(1, 1, -1)>>],
   [platform |-> "windows", hardware |-> 0, refused |-> {}, cores |-> <<>>],
   [platform |-> "linux", hardware |-> 7, refused |-> {}, cores |-> <<>>],
   [platform |-> "windows", hardware |-> 4, refused |-> {0, 2},
    cores |-> <<Core(1, 0, 1), Core(0, 2, 3)>>],
   [platform |-> "linux", hardware |-> 3, refused |-> {1}, cores |-> <<>>]}
In(m, priority, nopin) ==
  [platform |-> m.platform, hardware |-> m.hardware, cores |-> m.cores,
   refused |-> m.refused, environment |-> [priority |-> priority, nopin |-> nopin]]
MCMachines ==
  {In(m, "", FALSE) : m \in Desktops}
    \cup {In(m, p, n) : m \in {d \in Desktops : d.hardware \in {0, 6}},
                       p \in {"max", "MAX"}, n \in BOOLEAN}
    \cup {In([platform |-> "android", hardware |-> 12, refused |-> {}, cores |-> <<>>],
             "", FALSE)}

\* 24 and 33 do not fit an int of five bits: they are read as -8 and as 1.
Addresses ==
  {NoAddress, [host |-> "pool", port |-> -1], [host |-> "pool", port |-> 3],
   [host |-> "node", port |-> 19], [host |-> "", port |-> 3]}
\* Where to mine and for whom; and how, with every value of those keys.
MCFiles ==
  {NoFile, EmptyFile} \cup
  [kind : {"whole"}, address : Addresses, port : {-1, 5}, wallet : {NotGiven, "mine"},
   threads : {3}, priority : {NotGiven}, pin : {TRUE}] \cup
  [kind : {"whole"}, address : {[host |-> "pool", port |-> 3]}, port : {-1},
   wallet : {"mine"}, threads : {-1, 3, 24, 33}, priority : {NotGiven, "max", "MAX"},
   pin : BOOLEAN]
MCElsewhere ==
  {NoFile, [kind |-> "whole", address |-> [host |-> "other", port |-> 7], port |-> -1,
            wallet |-> "theirs", threads |-> 2, priority |-> NotGiven, pin |-> TRUE]}

Flags ==
  {[flag |-> "-d", value |-> [host |-> "node", port |-> -1]],
   [flag |-> "-d", value |-> [host |-> "node", port |-> 4]],
   [flag |-> "-d", value |-> [host |-> "", port |-> 4]],
   [flag |-> "-w", value |-> "other"], [flag |-> "-w", value |-> ""],
   [flag |-> "-t", value |-> 0], [flag |-> "-t", value |-> 7],
   [flag |-> "-p", value |-> "normal"], [flag |-> "-p", value |-> "MAX"],
   [flag |-> "--no-pin", value |-> TRUE]}
MCCommandLines == {<<>>} \cup {<<a>> : a \in Flags} \cup {<<a, b>> : a, b \in Flags}

Answer(address, wallet, threads) ==
  [kind |-> "whole", address |-> address, port |-> -1, wallet |-> wallet,
   threads |-> threads, priority |-> "normal", pin |-> TRUE]
MCAnswers ==
  {Answer([host |-> "pool", port |-> 3], "mine", 1),
   Answer([host |-> "node", port |-> 19], "other", 12)}
=============================================================================
