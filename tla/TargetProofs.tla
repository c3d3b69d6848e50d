---------------------------- MODULE TargetProofs ----------------------------
(* Proofs about Target for every base, width and set of difficulties.       *)
EXTENDS Target, Induction

USE BaseAssumption, WidthAssumption, WordAssumption

(* Long division, one digit: the quotient digit of a remainder with the     *)
(* next digit of a zero behind it is a digit, and takes nothing away.       *)
LEMMA OneDigit ==
  ASSUME NEW d \in Nat, d > 1, NEW r \in Nat, r < d
  PROVE  /\ (r * Base) \div d \in Digits
         /\ (r * Base) % d \in Nat /\ (r * Base) % d < d
         /\ r * Base = ((r * Base) \div d) * d + ((r * Base) % d)
<1> DEFINE n == r * Base
           q == n \div d
           m == n % d
<1>1. n \in Nat
  OBVIOUS
<1>2. q \in Int /\ m \in Int /\ 0 <= m /\ m < d /\ n = q * d + m
  BY <1>1
<1>3. n < Base * d
  OBVIOUS
<1>4. q >= 0
  BY <1>1, <1>2
<1>5. q < Base
  BY <1>2, <1>3
<1>6. QED
  BY <1>2, <1>4, <1>5 DEF Digits

(* A division is under way only for a positive difficulty.                  *)
Divisible == pc = "divide" => difficulty > 0

(* The loops never leave their buffers.                                     *)
THEOREM LoopsInBounds == Spec => [](TypeOK /\ Divisible)
<1>1. Init => TypeOK /\ Divisible
  <2>1. All(0) \in Buffers
    BY DEF All, Buffers, Digits
  <2>2. Init => i \in 0 .. Width + 1
    BY DEF Init
  <2>3. Init => pc # "divide" /\ accepted \in BOOLEAN
    BY DEF Init
  <2>4. QED
    BY <2>1, <2>2, <2>3 DEF Init, TypeOK, Divisible
<1>2. TypeOK /\ Divisible /\ [Next]_vars => TypeOK' /\ Divisible'
  <2> SUFFICES ASSUME TypeOK, Divisible, [Next]_vars PROVE TypeOK' /\ Divisible'
    OBVIOUS
  <2> USE DEF TypeOK, Divisible, history
  <2>1. ASSUME NEW d \in Difficulties, Snapshot(d) PROVE TypeOK' /\ Divisible'
    <3>1. All(0) \in Buffers /\ All(Base - 1) \in Buffers
      BY DEF All, Buffers, Digits
    <3>2. QED
      BY <2>1, <3>1 DEF Snapshot
  <2>2. CASE DivideStep
    <3>1. difficulty \in Nat \ {0} /\ i \in 0 .. Width
      BY <2>2 DEF DivideStep
    <3>2. Accumulated \in Nat
      <4>1. Word \in Nat \ {0}
        BY <3>1
      <4>2. rem * Base + DividendDigit(i) \in Nat
        BY DEF DividendDigit
      <4>3. QED
        BY <4>1, <4>2 DEF Accumulated
    <3>3. rem' \in Nat
      BY <2>2, <3>1, <3>2 DEF DivideStep
    <3>4. QuotientDigit(Accumulated) \in Digits
      <4>1. Accumulated \div difficulty \in Int
        BY <3>1, <3>2
      <4>2. QED
        BY <4>1 DEF QuotientDigit, Digits
    <3>5. target' \in Buffers /\ quotient' \in Nat
      <4>1. target' \in Buffers
        BY <2>2, <3>4 DEF DivideStep, Buffers
      <4>2. quotient' \in Nat
        BY <2>2, <3>4 DEF DivideStep, Digits
      <4>3. QED
        BY <4>1, <4>2
    <3>6. dividend' \in Nat
      BY <2>2 DEF DivideStep, DividendDigit
    <3>7. i' \in 0 .. Width + 1 /\ (pc' = "divide" => i' <= Width)
      BY <2>2, <3>1 DEF DivideStep, DivisionLast
    <3>8. QED
      BY <2>2, <3>1, <3>3, <3>5, <3>6, <3>7 DEF DivideStep
  <2>3. ASSUME NEW h \in Buffers, Hash(h) PROVE TypeOK' /\ Divisible'
    BY <2>3 DEF Hash
  <2>4. CASE CompareStep
    <3>1. accepted' \in BOOLEAN
      BY <2>4, Zenon DEF CompareStep
    <3>2. i' \in 0 .. Width + 1
      BY <2>4 DEF CompareStep
    <3>3. QED
      BY <2>4, <3>1, <3>2 DEF CompareStep
  <2>5. CASE Continue
    BY <2>5 DEF Continue
  <2>6. CASE UNCHANGED vars
    BY <2>6 DEF vars
  <2>7. QED
    BY <2>1, <2>2, <2>3, <2>4, <2>5, <2>6 DEF Next
<1>3. QED
  BY <1>1, <1>2, PTL DEF Spec

(* The first digit of the dividend, the only one that is not zero, leaves   *)
(* no quotient digit behind; until then nothing has been read.              *)
FirstDigit == pc = "divide" /\ i = 0 => dividend = 0 /\ quotient = 0 /\ rem = 0

LEMMA ExactFromTheFirst == Spec => [](DivisionExact /\ FirstDigit)
<1>1. Init => DivisionExact /\ FirstDigit
  BY DEF Init, DivisionExact, FirstDigit
<1>2. /\ TypeOK /\ Divisible /\ DivisionExact /\ FirstDigit /\ [Next]_vars
      => DivisionExact' /\ FirstDigit'
  <2> SUFFICES ASSUME TypeOK, Divisible, DivisionExact, FirstDigit, [Next]_vars
               PROVE  DivisionExact' /\ FirstDigit'
    OBVIOUS
  <2> USE DEF TypeOK, DivisionExact, FirstDigit, history
  <2>1. ASSUME NEW d \in Difficulties, Snapshot(d) PROVE DivisionExact' /\ FirstDigit'
    BY <2>1 DEF Snapshot
  <2>2. CASE DivideStep
    <3>1. FirstDigit'
      BY <2>2 DEF DivideStep
    <3>2. ASSUME difficulty > 1 PROVE DivisionExact'
      <4>1. difficulty \in Nat /\ difficulty * Base <= Word /\ difficulty' = difficulty
        BY <2>2, <3>2 DEF DivideStep
      <4>2. CASE i = 0
        <5>1. Accumulated = 1 % Word
          BY <2>2, <4>2 DEF DivideStep, Accumulated, DividendDigit
        <5>2. 1 < Word
          BY <3>2, <4>1
        <5>3. Accumulated = 1
          BY <5>1, <5>2
        <5>4. rem' = 1 /\ dividend' = 1 /\ quotient' = 0
          BY <2>2, <3>2, <4>1, <4>2, <5>3 DEF DivideStep, DividendDigit
        <5>5. QED
          BY <3>2, <4>1, <5>4
      <4>3. CASE i > 0
        <5>1. rem < difficulty /\ dividend = quotient * difficulty + rem
          BY <3>2
        <5> DEFINE n == rem * Base
        <5>2. n \in Nat /\ n < Word
          BY <4>1, <5>1
        <5>3. Accumulated = n
          <6>1. Accumulated = n % Word
            BY <4>3, <5>2 DEF Accumulated, DividendDigit
          <6>2. QED
            BY <5>2, <6>1
        <5>4. /\ n \div difficulty \in Digits
              /\ n % difficulty \in Nat /\ n % difficulty < difficulty
              /\ n = (n \div difficulty) * difficulty + (n % difficulty)
          BY <3>2, <4>1, <5>1, OneDigit
        <5>5. QuotientDigit(n) = n \div difficulty
          BY <5>4 DEF QuotientDigit, Digits
        <5>6. /\ rem' = n % difficulty
              /\ quotient' = quotient * Base + (n \div difficulty)
              /\ dividend' = dividend * Base
          BY <2>2, <4>3, <5>3, <5>5 DEF DivideStep, DividendDigit
        <5>7. dividend' = quotient * Base * difficulty + n
          BY <4>1, <5>1, <5>6
        <5>8. QED
          <6> DEFINE q == n \div difficulty
                     m == n % difficulty
          <6>1. q \in Nat /\ m \in Nat /\ n = q * difficulty + m
            BY <5>4 DEF Digits
          <6>2. dividend' = (quotient * Base + q) * difficulty + m
            <7> HIDE DEF q, m, n
            <7>1. (quotient * Base + q) * difficulty = quotient * Base * difficulty + q * difficulty
              BY <4>1, <6>1
            <7>2. QED
              BY <4>1, <5>2, <5>7, <6>1, <7>1
          <6>3. QED
            BY <4>1, <5>4, <5>6, <6>2
      <4>4. QED
        BY <4>2, <4>3
    <3>3. CASE ~(difficulty > 1)
      BY <2>2, <3>3 DEF DivideStep
    <3>4. QED
      BY <3>1, <3>2, <3>3
  <2>3. ASSUME NEW h \in Buffers, Hash(h) PROVE DivisionExact' /\ FirstDigit'
    BY <2>3 DEF Hash
  <2>4. CASE CompareStep
    BY <2>4 DEF CompareStep
  <2>5. CASE Continue
    BY <2>5 DEF Continue
  <2>6. CASE UNCHANGED vars
    BY <2>6 DEF vars
  <2>7. QED
    BY <2>1, <2>2, <2>3, <2>4, <2>5, <2>6 DEF Next
<1>3. QED
  BY <1>1, <1>2, LoopsInBounds, PTL DEF Spec

(* The target is the exact quotient, digit by digit, for every difficulty   *)
(* above 1.                                                                 *)
THEOREM QuotientIsExact == Spec => []DivisionExact
  BY ExactFromTheFirst, PTL
-----------------------------------------------------------------------------
(* Numbers and their digits. *)
ReadsTo(g, f) ==
  /\ g \in [0 .. Width -> Nat] /\ g[0] = 0
  /\ \A n \in 0 .. Width - 1 : g[n + 1] = g[n] * Base + f[n]

LEMMA PrefixValues ==
  ASSUME NEW f \in Buffers
  PROVE  ReadsTo(Prefixes(f), f)
<1> DEFINE step == [p \in Nat \X Nat |->
                      IF p[1] < Width THEN p[2] * Base + f[p[1]] ELSE p[2]]
           Body(h) == [n \in 0 .. Width |-> IF n = 0 THEN 0 ELSE h[n - 1] * Base + f[n - 1]]
<1>1. \A n \in Nat : n < Width => f[n] \in Nat
  BY DEF Buffers, Digits
<1>2. step \in [Nat \X Nat -> Nat]
  <2>1. ASSUME NEW p \in Nat \X Nat
        PROVE  (IF p[1] < Width THEN p[2] * Base + f[p[1]] ELSE p[2]) \in Nat
    <3>1. p[1] \in Nat /\ p[2] \in Nat /\ p[2] * Base \in Nat
      OBVIOUS
    <3>2. QED
      BY <1>1, <3>1
  <2>2. QED
    BY <2>1
<1>3. PICK h \in [Nat -> Nat] : Recursive(h, 0, step)
  <2> HIDE DEF step
  <2>1. QED
    BY <1>2, Recursion
<1>4. ASSUME NEW n \in 0 .. Width - 1 PROVE h[n + 1] = h[n] * Base + f[n]
  <2>1. n \in Nat /\ h[n] \in Nat /\ n < Width
    OBVIOUS
  <2>2. step[<<n, h[n]>>] = h[n] * Base + f[n]
    BY <2>1
  <2>3. QED
    BY <1>3, <2>1, <2>2 DEF Recursive
<1> DEFINE g == [n \in 0 .. Width |-> h[n]]
<1>5. g = Body(g)
  <2>1. ASSUME NEW n \in 0 .. Width PROVE g[n] = Body(g)[n]
    <3>1. CASE n = 0
      BY <1>3, <3>1 DEF Recursive
    <3>2. CASE n # 0
      <4>1. n - 1 \in 0 .. Width - 1 /\ (n - 1) + 1 = n /\ n - 1 \in 0 .. Width
        BY <3>2
      <4>2. h[n] = h[n - 1] * Base + f[n - 1]
        BY <1>4, <4>1
      <4>3. QED
        BY <3>2, <4>1, <4>2
    <3>3. QED
      BY <3>1, <3>2
  <2>2. QED
    BY <2>1
<1> DEFINE prefix == CHOOSE k : k = Body(k)
<1>6. prefix = Body(prefix)
  <2> HIDE DEF Body, g
  <2>1. \E k : k = Body(k)
    BY <1>5
  <2>2. QED
    BY <2>1, Zenon
<1>7. Prefixes(f) = prefix
  BY DEF Prefixes
<1> HIDE DEF prefix
<1>8. prefix[0] = 0
  BY <1>6
<1>9. ASSUME NEW n \in 0 .. Width - 1 PROVE prefix[n + 1] = prefix[n] * Base + f[n]
  <2>1. n + 1 \in 0 .. Width /\ n + 1 # 0 /\ (n + 1) - 1 = n
    OBVIOUS
  <2>2. QED
    BY <1>6, <2>1
<1> DEFINE S == {n \in Nat : n <= Width => prefix[n] \in Nat}
<1>10. Nat \subseteq S
  <2>1. 0 \in S
    BY <1>8
  <2>2. ASSUME NEW n \in Nat, n \in S PROVE n + 1 \in S
    <3> SUFFICES ASSUME n + 1 <= Width PROVE prefix[n + 1] \in Nat
      OBVIOUS
    <3>1. n \in 0 .. Width - 1 /\ prefix[n] \in Nat /\ f[n] \in Nat
      BY <1>1, <2>2
    <3>2. QED
      BY <1>9, <3>1
  <2> HIDE DEF S
  <2>3. QED
    BY <2>1, <2>2, NatSetInduction
<1>11. prefix \in [0 .. Width -> Nat]
  <2>1. ASSUME NEW n \in 0 .. Width PROVE prefix[n] \in Nat
    BY <1>10
  <2>2. prefix = [n \in 0 .. Width |-> prefix[n]]
    BY <1>6
  <2>3. QED
    BY <2>1, <2>2
<1>12. QED
  BY <1>7, <1>8, <1>9, <1>11 DEF ReadsTo

LEMMA PowerValues ==
  /\ Powers \in [0 .. Width -> Nat] /\ Powers[0] = 1
  /\ \A n \in 0 .. Width - 1 : Powers[n + 1] = Powers[n] * Base
<1> DEFINE step == [p \in Nat \X Nat |-> p[2] * Base]
           Body(h) == [n \in 0 .. Width |-> IF n = 0 THEN 1 ELSE h[n - 1] * Base]
<1>1. step \in [Nat \X Nat -> Nat]
  OBVIOUS
<1>2. PICK h \in [Nat -> Nat] : Recursive(h, 1, step)
  <2> HIDE DEF step
  <2>1. QED
    BY <1>1, Recursion
<1>3. ASSUME NEW n \in Nat PROVE h[n + 1] = h[n] * Base
  <2>1. step[<<n, h[n]>>] = h[n] * Base
    OBVIOUS
  <2>2. QED
    BY <1>2, <2>1 DEF Recursive
<1> DEFINE g == [n \in 0 .. Width |-> h[n]]
<1>4. g = Body(g) /\ g \in [0 .. Width -> Nat]
  <2>1. ASSUME NEW n \in 0 .. Width PROVE g[n] = Body(g)[n]
    <3>1. CASE n = 0
      BY <1>2, <3>1 DEF Recursive
    <3>2. CASE n # 0
      <4>1. n - 1 \in Nat /\ (n - 1) + 1 = n /\ n - 1 \in 0 .. Width
        BY <3>2
      <4>2. h[n] = h[n - 1] * Base
        BY <1>3, <4>1
      <4>3. QED
        BY <3>2, <4>1, <4>2
    <3>3. QED
      BY <3>1, <3>2
  <2>2. QED
    BY <2>1
<1>5. Powers = Body(Powers)
  <2>1. Powers = CHOOSE k : k = Body(k)
    BY DEF Powers
  <2> HIDE DEF Body, g
  <2>2. \E k : k = Body(k)
    BY <1>4
  <2>3. QED
    BY <2>1, <2>2, Zenon
<1>6. Powers[0] = 1
  BY <1>5
<1>7. ASSUME NEW n \in 0 .. Width - 1 PROVE Powers[n + 1] = Powers[n] * Base
  <2>1. n + 1 \in 0 .. Width /\ n + 1 # 0 /\ (n + 1) - 1 = n
    OBVIOUS
  <2>2. QED
    BY <1>5, <2>1
<1> DEFINE S == {n \in Nat : n <= Width => Powers[n] \in Nat}
<1>8. Nat \subseteq S
  <2>1. 0 \in S
    BY <1>6
  <2>2. ASSUME NEW n \in Nat, n \in S PROVE n + 1 \in S
    <3> SUFFICES ASSUME n + 1 <= Width PROVE Powers[n + 1] \in Nat
      OBVIOUS
    <3>1. n \in 0 .. Width - 1 /\ Powers[n] \in Nat
      BY <2>2
    <3>2. QED
      BY <1>7, <3>1
  <2> HIDE DEF S
  <2>3. QED
    BY <2>1, <2>2, NatSetInduction
<1>9. Powers \in [0 .. Width -> Nat]
  <2>1. ASSUME NEW n \in 0 .. Width PROVE Powers[n] \in Nat
    BY <1>8
  <2>2. Powers = [n \in 0 .. Width |-> Powers[n]]
    BY <1>5
  <2>3. QED
    BY <2>1, <2>2
<1>10. QED
  BY <1>6, <1>7, <1>9

(* Equal digits read equal numbers.                                         *)
LEMMA SamePrefix ==
  ASSUME NEW f \in Buffers, NEW e \in Buffers, NEW k \in 0 .. Width,
         \A j \in 0 .. k - 1 : e[j] = f[j]
  PROVE  \A n \in 0 .. k : Prefixes(e)[n] = Prefixes(f)[n]
<1> DEFINE g == Prefixes(f)
           h == Prefixes(e)
<1>1. ReadsTo(g, f) /\ ReadsTo(h, e)
  BY PrefixValues
<1> HIDE DEF g, h
<1> DEFINE S == {n \in Nat : n <= k => h[n] = g[n]}
<1>2. 0 \in S
  BY <1>1 DEF ReadsTo
<1>3. ASSUME NEW n \in Nat, n \in S PROVE n + 1 \in S
  <2> SUFFICES ASSUME n + 1 <= k PROVE h[n + 1] = g[n + 1]
    OBVIOUS
  <2>1. n \in 0 .. Width - 1 /\ n \in 0 .. k - 1 /\ h[n] = g[n]
    BY <1>3
  <2>2. QED
    BY <1>1, <2>1 DEF ReadsTo
<1>4. Nat \subseteq S
  <2> HIDE DEF S
  <2>1. QED
    BY <1>2, <1>3, NatSetInduction
<1>5. QED
  BY <1>4 DEF g, h

LEMMA DigitsOrder ==
  ASSUME NEW a \in Nat, NEW b \in Nat, NEW x \in Digits, NEW y \in Digits, a < b
  PROVE  a * Base + x < b * Base + y
<1>1. (a + 1) * Base <= b * Base
  <2>1. a + 1 <= b
    OBVIOUS
  <2>2. QED
    BY <2>1
<1>2. (a + 1) * Base = a * Base + Base
  OBVIOUS
<1>3. x < Base /\ x \in Nat /\ y \in Nat
  BY DEF Digits
<1>4. a * Base \in Nat /\ b * Base \in Nat
  OBVIOUS
<1>5. QED
  BY <1>1, <1>2, <1>3, <1>4

(* The first different digit decides which number is less.                  *)
LEMMA FirstDifference ==
  ASSUME NEW f \in Buffers, NEW e \in Buffers, NEW k \in 0 .. Width - 1,
         \A j \in 0 .. k - 1 : e[j] = f[j], e[k] < f[k]
  PROVE  Value(e) < Value(f)
<1> DEFINE g == Prefixes(f)
           h == Prefixes(e)
<1>1. ReadsTo(g, f) /\ ReadsTo(h, e)
  BY PrefixValues
<1>2. h[k] = g[k]
  <2>1. k \in 0 .. Width /\ k \in 0 .. k
    OBVIOUS
  <2>2. QED
    BY <2>1, SamePrefix
<1> HIDE DEF g, h
<1> DEFINE S == {n \in Nat : k < n /\ n <= Width => h[n] < g[n]}
<1>3. 0 \in S
  OBVIOUS
<1>4. ASSUME NEW n \in Nat, n \in S PROVE n + 1 \in S
  <2> SUFFICES ASSUME k < n + 1, n + 1 <= Width PROVE h[n + 1] < g[n + 1]
    OBVIOUS
  <2>1. n \in 0 .. Width - 1 /\ n \in 0 .. Width
    OBVIOUS
  <2>2. /\ h[n] \in Nat /\ g[n] \in Nat /\ e[n] \in Digits /\ f[n] \in Digits
        /\ h[n + 1] = h[n] * Base + e[n] /\ g[n + 1] = g[n] * Base + f[n]
    BY <1>1, <2>1 DEF ReadsTo, Buffers
  <2>3. CASE n = k
    <3>1. h[n] * Base \in Nat /\ e[n] \in Nat /\ f[n] \in Nat
      BY <2>2 DEF Digits
    <3>2. h[n] = g[n] /\ e[n] < f[n]
      BY <1>2, <2>3
    <3>3. QED
      BY <2>2, <3>1, <3>2
  <2>4. CASE n # k
    <3>1. h[n] < g[n]
      BY <1>4, <2>1, <2>4
    <3>2. h[n] * Base + e[n] < g[n] * Base + f[n]
      BY <2>2, <3>1, DigitsOrder
    <3>3. QED
      BY <2>2, <3>2
  <2>5. QED
    BY <2>3, <2>4
<1>5. Nat \subseteq S
  <2> HIDE DEF S
  <2>1. QED
    BY <1>3, <1>4, NatSetInduction
<1>6. QED
  BY <1>5 DEF g, h, Value
-----------------------------------------------------------------------------
(* While it divides, the worker has stored the quotient's first digits; then *)
(* the target is the quotient, or the largest number for a difficulty that   *)
(* accepts everything.                                                       *)
Dividing == pc = "divide" /\ i > 0
Compared == pc \in {"hash", "compare", "answer"}
TargetInv ==
  /\ difficulty > 1 /\ Dividing =>
       quotient = Prefixes(target)[i - 1] /\ dividend = Powers[i - 1]
  /\ difficulty > 1 /\ Compared =>
       quotient = Value(target) /\ dividend = Powers[Width]
  /\ difficulty <= 0 /\ Compared => target = All(Base - 1)

(* The comparison has found equal digits so far; its answer is the order of  *)
(* the numbers.                                                              *)
CompareInv ==
  /\ pc = "compare" => i <= Width /\ \A k \in 0 .. i - 1 : HashDigits[k] = target[k]
  /\ pc = "answer" => (accepted <=> Value(HashDigits) <= Value(target))

LEMMA TargetKept ==
  ASSUME TypeOK, Divisible, DivisionExact, FirstDigit, TargetInv, [Next]_vars
  PROVE  TargetInv'
<1> USE DEF TypeOK, Divisible, Dividing, Compared
<1>1. ASSUME NEW d \in Difficulties, Snapshot(d) PROVE TargetInv'
  BY <1>1 DEF Snapshot, TargetInv
<1>2. CASE DivideStep
  <2>1. /\ pc = "divide" /\ difficulty' = difficulty /\ i' = i + 1
        /\ pc' = IF i = Width THEN "hash" ELSE "divide"
        /\ difficulty > 0 /\ difficulty \in Int /\ i \in 0 .. Width
        /\ dividend' = dividend * Base + DividendDigit(i)
    BY <1>2 DEF DivideStep, DivisionLast
  <2> SUFFICES ASSUME difficulty > 1
               PROVE  /\ quotient' = Prefixes(target')[i] /\ dividend' = Powers[i]
                      /\ i = Width => quotient' = Value(target') /\ dividend' = Powers[Width]
    BY <2>1 DEF TargetInv
  <2>2. CASE i = 0
    <3>1. quotient = 0 /\ dividend = 0 /\ target \in Buffers
      BY <2>1, <2>2 DEF FirstDigit
    <3>2. target' = target /\ quotient' = 0 /\ dividend' = 1
      BY <1>2, <2>1, <2>2, <3>1 DEF DivideStep, DividendDigit
    <3>3. Prefixes(target)[0] = 0 /\ Powers[0] = 1 /\ i # Width
      BY <2>2, <3>1, PrefixValues, PowerValues DEF ReadsTo
    <3>4. QED
      BY <2>2, <3>2, <3>3
  <2>3. CASE i # 0
    <3> DEFINE digit == QuotientDigit(Accumulated)
               k == i - 1
    <3>1. k \in 0 .. Width - 1 /\ k \in 0 .. Width /\ k + 1 = i
      BY <2>1, <2>3
    <3>2. digit \in Digits
      <4>1. Accumulated \in Int
        <5>1. Word \in Nat \ {0} /\ rem * Base + DividendDigit(i) \in Nat
          BY DEF DividendDigit
        <5>2. QED
          BY <5>1 DEF Accumulated
      <4>2. Accumulated \div difficulty \in Int
        BY <2>1, <4>1
      <4>3. QED
        BY <4>2 DEF QuotientDigit, Digits
    <3> HIDE DEF digit
    <3>3. /\ target' = [target EXCEPT ![k] = digit]
          /\ quotient' = quotient * Base + digit
          /\ dividend' = dividend * Base
      <4>1. i > 0 /\ DividendDigit(i) = 0 /\ dividend * Base + 0 = dividend * Base
        BY <2>1, <2>3 DEF DividendDigit
      <4>2. QED
        BY <1>2, <2>1, <4>1 DEF DivideStep, digit
    <3>4. quotient = Prefixes(target)[k] /\ dividend = Powers[k]
      BY <2>1, <2>3 DEF TargetInv
    <3> HIDE DEF k
    <3>5. target' \in Buffers /\ target'[k] = digit /\ \A j \in 0 .. k - 1 : target'[j] = target[j]
      BY <3>1, <3>2, <3>3 DEF Buffers
    <3>6. Prefixes(target')[k] = Prefixes(target)[k]
      <4>1. k \in 0 .. k /\ target \in Buffers
        BY <3>1
      <4>2. QED
        BY <3>1, <3>5, <4>1, SamePrefix
    <3>7. Prefixes(target')[k + 1] = Prefixes(target')[k] * Base + digit
      BY <3>1, <3>5, PrefixValues DEF ReadsTo
    <3>8. Powers[k + 1] = Powers[k] * Base
      BY <3>1, PowerValues
    <3>9. quotient' = Prefixes(target')[i] /\ dividend' = Powers[i]
      BY <3>1, <3>3, <3>4, <3>6, <3>7, <3>8
    <3>10. QED
      BY <3>9 DEF Value
  <2>4. QED
    BY <2>2, <2>3
<1>3. ASSUME NEW h \in Buffers, Hash(h) PROVE TargetInv'
  BY <1>3 DEF Hash, TargetInv, history
<1>4. CASE CompareStep
  BY <1>4 DEF CompareStep, TargetInv, history
<1>5. CASE Continue
  BY <1>5 DEF Continue, TargetInv, history
<1>6. CASE UNCHANGED vars
  BY <1>6 DEF vars, TargetInv, history
<1>7. QED
  BY <1>1, <1>2, <1>3, <1>4, <1>5, <1>6 DEF Next

LEMMA ComparisonKept ==
  ASSUME TypeOK, CompareInv, [Next]_vars
  PROVE  CompareInv'
<1> USE DEF TypeOK
<1>1. ASSUME NEW d \in Difficulties, Snapshot(d) PROVE CompareInv'
  BY <1>1 DEF Snapshot, CompareInv
<1>2. CASE DivideStep
  BY <1>2 DEF DivideStep, CompareInv
<1>3. ASSUME NEW h \in Buffers, Hash(h) PROVE CompareInv'
  BY <1>3 DEF Hash, CompareInv
<1>4. CASE CompareStep
  <2> DEFINE H == HashDigits
  <2>1. /\ pc = "compare" /\ hash' = hash /\ target' = target /\ H \in Buffers
        /\ i \in 0 .. Width /\ \A k \in 0 .. i - 1 : H[k] = target[k]
    <3>1. pc = "compare" /\ hash' = hash /\ target' = target
      BY <1>4 DEF CompareStep
    <3>2. H \in Buffers
      BY DEF HashDigits, Buffers
    <3>3. i \in 0 .. Width /\ \A k \in 0 .. i - 1 : H[k] = target[k]
      <4> HIDE DEF H
      <4>1. i <= Width /\ \A k \in 0 .. i - 1 : H[k] = target[k]
        BY <3>1 DEF CompareInv, H
      <4>2. QED
        BY <4>1
    <3>4. QED
      BY <3>1, <3>2, <3>3
  <2>2. HashDigits' = HashDigits
    BY <2>1 DEF HashDigits
  <2>3. i < Width => HashDigit(i) = H[i] /\ H[i] \in Int /\ target[i] \in Int
    BY <2>1 DEF HashDigit, HashDigits, Buffers, Digits
  <2> HIDE DEF H
  <2>4. CASE i < Width /\ H[i] = target[i]
    <3>1. i' = i + 1 /\ pc' = "compare"
      BY <1>4, <2>1, <2>3, <2>4 DEF CompareStep
    <3>2. \A k \in 0 .. i : H[k] = target[k]
      BY <2>1, <2>4
    <3>3. 0 .. i' - 1 = 0 .. i /\ i' <= Width
      BY <2>1, <2>4, <3>1
    <3>4. QED
      BY <2>1, <2>2, <3>1, <3>2, <3>3 DEF CompareInv, H
  <2>5. CASE ~(i < Width /\ H[i] = target[i])
    <3>1. pc' = "answer" /\ accepted' = (i = Width \/ HashDigit(i) < target[i])
      BY <1>4, <2>1, <2>3, <2>5, Zenon DEF CompareStep
    <3>2. Value(H) \in Nat /\ Value(target) \in Nat
      BY <2>1, PrefixValues DEF ReadsTo, Value
    <3>3. CASE i = Width
      <4>1. Width \in 0 .. Width /\ Width \in 0 .. i /\ i \in 0 .. Width
        BY <3>3
      <4>2. Value(H) = Value(target)
        BY <2>1, <4>1, SamePrefix DEF Value
      <4>3. Value(H) <= Value(target)
        BY <3>2, <4>2
      <4>4. accepted'
        BY <3>1, <3>3, Zenon
      <4>5. QED
        BY <2>1, <2>2, <3>1, <4>3, <4>4 DEF CompareInv, H
    <3>4. CASE i # Width
      <4>1. i \in 0 .. Width - 1 /\ i < Width
        BY <2>1, <3>4
      <4>2. CASE H[i] < target[i]
        <5>1. Value(H) < Value(target)
          BY <2>1, <4>1, <4>2, FirstDifference
        <5>2. Value(H) <= Value(target)
          BY <3>2, <5>1
        <5>3. HashDigit(i) < target[i]
          BY <2>3, <4>1, <4>2
        <5>4. accepted'
          BY <3>1, <5>3, Zenon
        <5>5. QED
          BY <2>1, <2>2, <3>1, <5>2, <5>4 DEF CompareInv, H
      <4>3. CASE ~(H[i] < target[i])
        <5>1. target[i] < H[i]
          BY <2>3, <2>5, <4>1, <4>3
        <5>2. Value(target) < Value(H)
          BY <2>1, <4>1, <5>1, FirstDifference
        <5>3. ~(Value(H) <= Value(target))
          BY <3>2, <5>2
        <5>4. ~(HashDigit(i) < target[i])
          BY <2>3, <4>1, <4>3
        <5>5. ~accepted'
          BY <3>1, <3>4, <5>4, Zenon
        <5>6. QED
          BY <2>1, <2>2, <3>1, <5>3, <5>5 DEF CompareInv, H
      <4>4. QED
        BY <4>2, <4>3
    <3>5. QED
      BY <3>3, <3>4
  <2>6. QED
    BY <2>4, <2>5
<1>5. CASE Continue
  BY <1>5 DEF Continue, CompareInv
<1>6. CASE UNCHANGED vars
  BY <1>6 DEF vars, CompareInv, HashDigits
<1>7. QED
  BY <1>1, <1>2, <1>3, <1>4, <1>5, <1>6 DEF Next

(* Being at most the quotient is being at most the dividend when multiplied. *)
LEMMA QuotientDecides ==
  ASSUME NEW d \in Nat, NEW h \in Nat, NEW q \in Nat, NEW r \in Nat, r < d,
         NEW n \in Nat, n = q * d + r
  PROVE  h <= q <=> h * d <= n
<1>1. ASSUME h <= q PROVE h * d <= n
  <2>1. h * d <= q * d
    BY <1>1
  <2>2. h * d \in Nat /\ q * d \in Nat
    OBVIOUS
  <2>3. QED
    BY <2>1, <2>2
<1>2. ASSUME ~(h <= q) PROVE ~(h * d <= n)
  <2>1. (q + 1) * d <= h * d
    <3>1. q + 1 <= h
      BY <1>2
    <3>2. QED
      BY <3>1
  <2>2. (q + 1) * d = q * d + d
    OBVIOUS
  <2>3. h * d \in Nat /\ q * d \in Nat
    OBVIOUS
  <2>4. QED
    BY <2>1, <2>2, <2>3
<1>3. QED
  BY <1>1, <1>2

(* The largest number is above every other.                                 *)
LEMMA LargestNumber ==
  ASSUME NEW f \in Buffers
  PROVE  Value(f) <= Value(All(Base - 1))
<1> DEFINE top == All(Base - 1)
           Differ == {k \in 0 .. Width - 1 : f[k] # top[k]}
<1>1. top \in Buffers /\ \A k \in 0 .. Width - 1 : top[k] = Base - 1
  BY DEF All, Buffers, Digits
<1>2. Value(f) \in Nat /\ Value(top) \in Nat
  BY <1>1, PrefixValues DEF ReadsTo, Value
<1> HIDE DEF top
<1>3. CASE Differ = {}
  <2>1. \A j \in 0 .. Width - 1 : f[j] = top[j]
    BY <1>3
  <2>2. Width \in 0 .. Width
    OBVIOUS
  <2>3. Value(f) = Value(top)
    BY <1>1, <2>1, <2>2, SamePrefix DEF Value
  <2>4. QED
    BY <1>2, <2>3 DEF top
<1>4. CASE Differ # {}
  <2>1. PICK k \in Differ : \A j \in Differ : k <= j
    <3>1. Differ \subseteq Nat
      OBVIOUS
    <3> HIDE DEF Differ
    <3>2. QED
      BY <1>4, <3>1, LeastElement
  <2>2. k \in 0 .. Width - 1 /\ f[k] # top[k] /\ \A j \in 0 .. k - 1 : f[j] = top[j]
    BY <2>1
  <2>3. f[k] < top[k]
    BY <1>1, <2>2 DEF Buffers, Digits
  <2>4. Value(f) < Value(top)
    BY <1>1, <2>2, <2>3, FirstDifference
  <2>5. QED
    BY <1>2, <2>4 DEF top
<1>5. QED
  BY <1>3, <1>4

(* A hash is a share exactly if it is at most Base^Width / difficulty, for   *)
(* every width and every difficulty but 1, whose quotient does not fit.      *)
THEOREM ShareIffEasyEnough == Spec => []SharesMeetDifficulty
<1>1. Init => TargetInv /\ CompareInv
  BY DEF Init, TargetInv, CompareInv, Dividing, Compared
<1>2. /\ TypeOK /\ Divisible /\ DivisionExact /\ FirstDigit /\ TargetInv /\ CompareInv
      /\ [Next]_vars
      => TargetInv' /\ CompareInv'
  BY TargetKept, ComparisonKept
<1>3. TypeOK /\ DivisionExact /\ TargetInv /\ CompareInv => SharesMeetDifficulty
  <2> SUFFICES ASSUME TypeOK, DivisionExact, TargetInv, CompareInv,
                      pc = "answer", difficulty # 1
               PROVE  accepted <=> EasyEnough
    BY DEF SharesMeetDifficulty
  <2>1. HashDigits \in Buffers /\ target \in Buffers /\ difficulty \in Int
        /\ rem \in Nat /\ Compared
    BY DEF TypeOK, HashDigits, Buffers, Compared
  <2> DEFINE h == Value(HashDigits)
             q == Value(target)
             n == Powers[Width]
  <2>2. h \in Nat /\ q \in Nat /\ n \in Nat
    BY <2>1, PrefixValues, PowerValues DEF ReadsTo, Value
  <2>3. accepted <=> h <= q
    BY DEF CompareInv
  <2>4. EasyEnough <=> (difficulty <= 0 \/ h * difficulty <= n)
    BY DEF EasyEnough
  <2>5. CASE difficulty > 1
    <3>1. n = q * difficulty + rem /\ rem < difficulty
      BY <2>1, <2>5 DEF TargetInv, DivisionExact
    <3> HIDE DEF h, q, n
    <3>2. difficulty \in Nat
      BY <2>1, <2>5
    <3>3. h <= q <=> h * difficulty <= n
      BY <2>1, <2>2, <3>1, <3>2, QuotientDecides
    <3>4. ~(difficulty <= 0)
      BY <2>1, <2>5
    <3>5. QED
      BY <2>3, <2>4, <3>3, <3>4, Zenon
  <2>6. CASE difficulty <= 0
    <3>1. target = All(Base - 1)
      BY <2>1, <2>6 DEF TargetInv
    <3>2. h <= q
      BY <2>1, <3>1, LargestNumber
    <3> HIDE DEF h, q, n
    <3>3. QED
      BY <2>3, <2>4, <2>6, <3>2, Zenon
  <2>7. difficulty > 1 \/ difficulty <= 0
    BY <2>1
  <2>8. QED
    BY <2>5, <2>6, <2>7
<1>4. QED
  BY <1>1, <1>2, <1>3, LoopsInBounds, ExactFromTheFirst, PTL DEF Spec
=============================================================================
