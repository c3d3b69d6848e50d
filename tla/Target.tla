------------------------------- MODULE Target -------------------------------
(***************************************************************************)
(* Which hashes are shares: the long division of compute_target(), run     *)
(* into the same buffer for every job a worker snapshots, and the          *)
(* comparison of check_hash(), run for every hash of that job.             *)
(* Numbers are digits of base Base: 32 bytes in the code, Width here.      *)
(***************************************************************************)
EXTENDS Integers

CONSTANTS
  Base,          \* 256, the values of a byte
  Width,         \* 32, the bytes of a target and of a hash
  Word,          \* 2^128, the values of the remainder's type
  Difficulties   \* what a job's difficulty field may hold, read as signed

ASSUME BaseAssumption == Base \in Nat /\ Base > 1
ASSUME WidthAssumption == Width \in Nat \ {0}
ASSUME WordAssumption == /\ Word \in Nat /\ Difficulties \subseteq Int
                         /\ \A d \in Difficulties : d * Base <= Word

VARIABLES
  pc,            \* where the worker is
  difficulty,    \* diff, from its snapshot
  i,             \* the loop index of either loop
  rem,           \* rem
  target,        \* target[0 .. Width-1], most significant digit first
  hash,          \* hash[0 .. Width-1], least significant digit first
  accepted,      \* check_hash()'s answer
  \* history
  dividend,      \* the number whose digits the division has read
  quotient       \* the number whose digits it has stored

history == <<dividend, quotient>>
vars == <<pc, difficulty, i, rem, target, hash, accepted, history>>

Digits == 0 .. Base - 1
Buffers == [0 .. Width - 1 -> Digits]
All(digit) == [k \in 0 .. Width - 1 |-> digit]

Init ==
  /\ pc = "work" /\ difficulty \in Difficulties
  /\ i = 0 /\ rem = 0 /\ target = All(0) /\ hash = All(0) /\ accepted = FALSE
  /\ dividend = 0 /\ quotient = 0

\* A new snapshot: no positive difficulty accepts everything, any other is
\* divided by, from a cleared target.
Snapshot(d) ==
  /\ pc = "work"
  /\ difficulty' = d
  /\ \/ d <= 0 /\ pc' = "hash" /\ target' = All(Base - 1)
     \/ d > 0 /\ pc' = "divide" /\ target' = All(0)
  /\ i' = 0 /\ rem' = 0
  /\ dividend' = 0 /\ quotient' = 0
  /\ UNCHANGED <<hash, accepted>>

\* dividend[], 2^256 as Width + 1 digits.
DividendDigit(k) == IF k = 0 THEN 1 ELSE 0

Accumulated == (rem * Base + DividendDigit(i)) % Word

QuotientDigitAfterReduction(n) == ((n % difficulty) \div difficulty) % Base
QuotientDigit(n) == (n \div difficulty) % Base

DivisionLastLate == Width + 1
DivisionLast == Width

DivideStep ==
  /\ pc = "divide"
  /\ LET digit == QuotientDigit(Accumulated)
     IN IF i > 0
        THEN /\ target' = [target EXCEPT ![i - 1] = digit]
             /\ quotient' = quotient * Base + digit
        ELSE UNCHANGED <<target, quotient>>
  /\ rem' = Accumulated % difficulty
  /\ dividend' = dividend * Base + DividendDigit(i)
  /\ i' = i + 1
  /\ pc' = IF i = DivisionLast THEN "hash" ELSE "divide"
  /\ UNCHANGED <<difficulty, hash, accepted>>

\* dluna_hash() fills the hash; any value may come out.
Hash(h) ==
  /\ pc = "hash"
  /\ hash' = h /\ i' = 0
  /\ pc' = "compare"
  /\ UNCHANGED <<difficulty, rem, target, accepted, history>>

HashDigitInOrder(k) == hash[k]
HashDigit(k) == hash[Width - 1 - k]

CompareStep ==
  /\ pc = "compare"
  /\ IF i < Width /\ HashDigit(i) = target[i]
     THEN i' = i + 1 /\ UNCHANGED <<pc, accepted>>
     ELSE /\ accepted' = (i = Width \/ HashDigit(i) < target[i])
          /\ pc' = "answer"
          /\ UNCHANGED i
  /\ UNCHANGED <<difficulty, rem, target, hash, history>>

\* The next hash of this job, or the next job.
Continue ==
  /\ pc = "answer"
  /\ pc' \in {"hash", "work"}
  /\ UNCHANGED <<difficulty, i, rem, target, hash, accepted, history>>

Next ==
  \/ \E d \in Difficulties : Snapshot(d)
  \/ DivideStep
  \/ \E h \in Buffers : Hash(h)
  \/ CompareStep
  \/ Continue

Spec == Init /\ [][Next]_vars
-----------------------------------------------------------------------------
(* Types; the loops stay within their buffers.                              *)
TypeOK ==
  /\ pc \in {"work", "divide", "hash", "compare", "answer"}
  /\ difficulty \in Difficulties
  /\ i \in 0 .. Width + 1 /\ (pc = "divide" => i <= Width)
  /\ rem \in Nat
  /\ target \in Buffers /\ hash \in Buffers /\ accepted \in BOOLEAN
  /\ dividend \in Nat /\ quotient \in Nat

(* Neither the cast of a quotient digit to a byte nor the width of the      *)
(* remainder loses anything: what has been stored is the quotient of what   *)
(* has been read.  Difficulty 1 is left out, its quotient has a digit more  *)
(* than the target.                                                         *)
DivisionExact ==
  difficulty > 1 =>
    /\ dividend = quotient * difficulty + rem
    /\ rem < difficulty

\* The numbers that the first n digits of f read, most significant first.
Prefixes(f) ==
  LET prefix[n \in 0 .. Width] == IF n = 0 THEN 0 ELSE prefix[n - 1] * Base + f[n - 1]
  IN prefix
Value(f) == Prefixes(f)[Width]

\* Base to the power n.
Powers ==
  LET power[n \in 0 .. Width] == IF n = 0 THEN 1 ELSE power[n - 1] * Base
  IN power

HashDigits == [k \in 0 .. Width - 1 |-> hash[Width - 1 - k]]
EasyEnough == difficulty <= 0 \/ Value(HashDigits) * difficulty <= Powers[Width]

(* A hash is a share exactly if it is at most 2^256 / difficulty, on every  *)
(* job a worker takes up in turn.                                           *)
SharesMeetDifficulty ==
  pc = "answer" /\ difficulty # 1 => (accepted <=> EasyEnough)
=============================================================================
