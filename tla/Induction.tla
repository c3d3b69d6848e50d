----------------------------- MODULE Induction -----------------------------
(***************************************************************************)
(* Induction over the natural numbers for sets, and definition by          *)
(* recursion for functions: the forms that a proof can cite without an     *)
(* operator for a parameter.  And remainders, by any modulus.              *)
(***************************************************************************)
EXTENDS Integers, WellFoundedInduction, TLAPS

Less == {pair \in Nat \X Nat : pair[1] < pair[2]}

LEMMA LessWellFounded == IsWellFoundedOn(Less, Nat)
  BY NatLessThanWellFounded DEF OpToRel, Less

LEMMA LeastElement ==
  ASSUME NEW T, T \subseteq Nat, T # {}
  PROVE  \E x \in T : \A y \in T : x <= y
<1>1. PICK x \in T : \A y \in T : ~(<<y, x>> \in Less)
  BY LessWellFounded, WFMin, Zenon
<1>2. ASSUME NEW y \in T, y < x PROVE FALSE
  <2>1. <<y, x>> \in Nat \X Nat /\ <<y, x>>[1] < <<y, x>>[2]
    BY <1>2
  <2>2. QED
    BY <1>1, <2>1 DEF Less
<1>3. QED
  BY <1>2

LEMMA NatSetInduction ==
  ASSUME NEW S, 0 \in S, \A n \in Nat : n \in S => n + 1 \in S
  PROVE  Nat \subseteq S
<1> DEFINE T == Nat \ S
<1> SUFFICES ASSUME T # {} PROVE FALSE
  OBVIOUS
<1>1. PICK x \in T : \A y \in T : x <= y
  <2> HIDE DEF T
  <2>1. T \subseteq Nat
    BY DEF T
  <2>2. QED
    BY <2>1, LeastElement
<1>2. x # 0 /\ x - 1 \in Nat /\ x - 1 \in S
  BY <1>1
<1>3. QED
  BY <1>2

(* A function on Nat is defined by its first value and by what step makes of *)
(* each value for the next one.                                              *)
Recursive(f, first, step) ==
  f[0] = first /\ \A n \in Nat : f[n + 1] = step[<<n, f[n]>>]

THEOREM Recursion ==
  ASSUME NEW V, NEW first \in V, NEW step \in [Nat \X V -> V]
  PROVE  \E f \in [Nat -> V] : Recursive(f, first, step)
<1> DEFINE Begins(g, n) ==
             /\ g \in [0 .. n -> V] /\ g[0] = first
             /\ \A i \in 0 .. n - 1 : g[i + 1] = step[<<i, g[i]>>]
           Begun == {n \in Nat : \E g : Begins(g, n)}
           Same(i) == \A m \in Nat : \A n \in Nat : \A g, h :
                        Begins(g, m) /\ Begins(h, n) /\ i <= m /\ i <= n
                          => g[i] = h[i]
           Agree == {i \in Nat : Same(i)}
           some(n) == CHOOSE g : Begins(g, n)
           f == [n \in Nat |-> some(n)[n]]
<1>1. Nat \subseteq Begun
  <2>1. 0 \in Begun
    <3>1. Begins([i \in 0 .. 0 |-> first], 0)
      OBVIOUS
    <3>2. QED
      BY <3>1
  <2>2. ASSUME NEW n \in Nat, n \in Begun PROVE n + 1 \in Begun
    <3>1. PICK g : Begins(g, n)
      BY <2>2
    <3> DEFINE h == [i \in 0 .. n + 1 |-> IF i = n + 1 THEN step[<<n, g[n]>>] ELSE g[i]]
    <3>2. g[n] \in V /\ step[<<n, g[n]>>] \in V
      BY <3>1
    <3>3. h \in [0 .. n + 1 -> V] /\ h[0] = first
      BY <3>1, <3>2
    <3>4. ASSUME NEW i \in 0 .. n PROVE h[i + 1] = step[<<i, h[i]>>]
      <4>1. CASE i = n
        <5>1. n # n + 1 /\ n \in 0 .. n + 1 /\ n + 1 \in 0 .. n + 1
          OBVIOUS
        <5>2. h[n] = g[n] /\ h[n + 1] = step[<<n, g[n]>>]
          BY <5>1
        <5>3. QED
          BY <4>1, <5>2
      <4>2. CASE i # n
        <5>1. i \in 0 .. n - 1 /\ i + 1 # n + 1 /\ i + 1 \in 0 .. n + 1 /\ i \in 0 .. n + 1
          BY <4>2
        <5>2. g[i + 1] = step[<<i, g[i]>>]
          BY <3>1, <5>1
        <5>3. QED
          BY <4>2, <5>1, <5>2
      <4>3. QED
        BY <4>1, <4>2
    <3>5. Begins(h, n + 1)
      <4> HIDE DEF h
      <4>1. (n + 1) - 1 = n
        OBVIOUS
      <4>2. QED
        BY <3>3, <3>4, <4>1
    <3> HIDE DEF Begins, h
    <3>6. \E k : Begins(k, n + 1)
      BY <3>5
    <3>7. QED
      BY <3>6
  <2>3. QED
    <3> HIDE DEF Begun
    <3>1. QED
      BY <2>1, <2>2, NatSetInduction
<1>2. Nat \subseteq Agree
  <2>1. 0 \in Agree
    OBVIOUS
  <2>2. ASSUME NEW i \in Nat, i \in Agree PROVE i + 1 \in Agree
    <3> SUFFICES ASSUME NEW m \in Nat, NEW n \in Nat, NEW g, NEW h,
                        Begins(g, m), Begins(h, n), i + 1 <= m, i + 1 <= n
                 PROVE  g[i + 1] = h[i + 1]
      OBVIOUS
    <3>1. i <= m /\ i <= n /\ i \in 0 .. m - 1 /\ i \in 0 .. n - 1
      OBVIOUS
    <3>2. g[i] = h[i]
      <4>1. Same(i)
        BY <2>2
      <4> HIDE DEF Begins
      <4>2. QED
        BY <3>1, <4>1, Zenon
    <3>3. g[i + 1] = step[<<i, g[i]>>] /\ h[i + 1] = step[<<i, h[i]>>]
      BY <3>1, Zenon
    <3>4. QED
      BY <3>2, <3>3
  <2>3. QED
    <3> HIDE DEF Agree
    <3>1. QED
      BY <2>1, <2>2, NatSetInduction
<1>3. ASSUME NEW n \in Nat PROVE Begins(some(n), n)
  <2>1. \E g : Begins(g, n)
    BY <1>1
  <2>2. QED
    BY <2>1, Zenon
<1>4. ASSUME NEW n \in Nat PROVE some(n)[n] \in V
  <2>1. some(n) \in [0 .. n -> V]
    BY <1>3, Zenon
  <2> HIDE DEF some
  <2>2. QED
    BY <2>1
<1>5. f \in [Nat -> V]
  <2> HIDE DEF some
  <2>1. QED
    BY <1>4
<1>6. f[0] = first
  <2>1. some(0)[0] = first
    BY <1>3, Zenon
  <2> HIDE DEF some
  <2>2. QED
    BY <2>1
<1>7. ASSUME NEW n \in Nat PROVE f[n + 1] = step[<<n, f[n]>>]
  <2>1. n + 1 \in Nat /\ n \in 0 .. (n + 1) - 1 /\ n <= n /\ n <= n + 1
    OBVIOUS
  <2>2. some(n + 1)[n + 1] = step[<<n, some(n + 1)[n]>>]
    BY <1>3, <2>1, Zenon
  <2>3. some(n + 1)[n] = some(n)[n]
    <3>1. n \in Agree
      BY <1>2
    <3>2. Begins(some(n + 1), n + 1) /\ Begins(some(n), n)
      BY <1>3, <2>1, Zenon
    <3>3. Same(n)
      BY <3>1
    <3> HIDE DEF Begins, some
    <3>4. QED
      BY <2>1, <3>2, <3>3, Zenon
  <2> HIDE DEF some
  <2>4. QED
    BY <2>1, <2>2, <2>3
<1>8. QED
  <2> HIDE DEF f
  <2>1. QED
    BY <1>5, <1>6, <1>7 DEF Recursive
-----------------------------------------------------------------------------
(* Remainders.                                                               *)
LEMMA Division ==
  ASSUME NEW a \in Nat, NEW b \in Nat \ {0}
  PROVE  /\ a \div b \in Nat /\ a % b \in 0 .. b - 1
         /\ a = (a \div b) * b + (a % b)
<1>0. b \in Nat /\ b > 0
  OBVIOUS
<1>1. /\ a \div b \in Int /\ a % b \in Int /\ 0 <= a % b /\ a % b < b
      /\ a = (a \div b) * b + (a % b)
  BY <1>0
<1>2. a \div b >= 0
  BY <1>1
<1>3. QED
  BY <1>0, <1>1, <1>2

(* Multiples that are less than b apart are the same.                       *)
LEMMA SameMultiple ==
  ASSUME NEW b \in Nat \ {0}, NEW p \in Int, NEW q \in Int,
         NEW r \in 0 .. b - 1, NEW s \in 0 .. b - 1, p * b + r = q * b + s
  PROVE  p = q /\ r = s
<1>1. ASSUME NEW x \in Int, NEW y \in Int, NEW u \in 0 .. b - 1, NEW v \in 0 .. b - 1,
             x * b + u = y * b + v, x < y
      PROVE  FALSE
  <2>1. x + 1 <= y
    BY <1>1
  <2>2. (x + 1) * b <= y * b
    BY <2>1
  <2>3. (x + 1) * b = x * b + b
    OBVIOUS
  <2>4. x * b \in Int /\ y * b \in Int
    OBVIOUS
  <2>5. QED
    BY <1>1, <2>2, <2>3, <2>4
<1>2. ~(p < q)
  BY <1>1
<1>3. ~(q < p)
  BY <1>1
<1>4. QED
  BY <1>2, <1>3

LEMMA QuotientOf ==
  ASSUME NEW b \in Nat \ {0}, NEW q \in Nat, NEW r \in 0 .. b - 1
  PROVE  (q * b + r) \div b = q /\ (q * b + r) % b = r
<1> DEFINE a == q * b + r
           p == a \div b
           s == a % b
<1>1. a \in Nat
  OBVIOUS
<1>2. p \in Nat /\ s \in 0 .. b - 1 /\ a = p * b + s
  <2> HIDE DEF a
  <2> QED
    BY <1>1, Division
<1>3. p * b + s = q * b + r
  BY <1>2
<1> HIDE DEF a, p, s
<1>4. p = q /\ s = r
  BY <1>2, <1>3, SameMultiple
<1> QED
  BY <1>4 DEF a, p, s

LEMMA RemainderOf ==
  ASSUME NEW b \in Nat \ {0}, NEW q \in Nat, NEW r \in 0 .. b - 1
  PROVE  (q * b + r) % b = r
  BY QuotientOf

LEMMA RemainderFirst ==
  ASSUME NEW a \in Nat, NEW b \in Nat \ {0}, NEW d \in Nat
  PROVE  ((a % b) + d) % b = (a + d) % b
<1> DEFINE q == a \div b
           r == a % b
           c == r + d
           p == c \div b
           s == c % b
<1>1. q \in Nat /\ r \in 0 .. b - 1 /\ a = q * b + r
  BY Division
<1> HIDE DEF q, r
<1>2. c \in Nat
  BY <1>1
<1> HIDE DEF c
<1>3. p \in Nat /\ s \in 0 .. b - 1 /\ c = p * b + s
  BY <1>2, Division
<1> HIDE DEF p, s
<1> DEFINE k == q + p
<1>4. k \in Nat /\ a + d = k * b + s
  <2>1. a + d = q * b + c
    BY <1>1, <1>2 DEF c
  <2>2. k * b = q * b + p * b
    BY <1>1, <1>3
  <2>3. q * b \in Nat /\ p * b \in Nat
    BY <1>1, <1>3
  <2> QED
    BY <1>1, <1>3, <2>1, <2>2, <2>3
<1> HIDE DEF k
<1>5. (k * b + s) % b = s
  BY <1>3, <1>4, RemainderOf
<1> QED
  BY <1>4, <1>5 DEF c, r, s

LEMMA RemainderStep ==
  ASSUME NEW a \in Nat, NEW b \in Nat \ {0}, NEW d \in Nat, (a % b) + d <= b
  PROVE  /\ (a % b) + d = b => (a + d) % b = 0
         /\ (a % b) + d # b => (a + d) % b = (a % b) + d
<1> DEFINE q == a \div b
           r == a % b
<1>1. q \in Nat /\ r \in 0 .. b - 1 /\ a = q * b + r /\ r + d <= b
  BY Division
<1> HIDE DEF q, r
<1>2. CASE r + d = b
  <2>1. q + 1 \in Nat /\ 0 \in 0 .. b - 1 /\ a + d = (q + 1) * b + 0
    BY <1>1, <1>2
  <2>2. ((q + 1) * b + 0) % b = 0
    <3> DEFINE k == q + 1
    <3> HIDE DEF k
    <3>1. k \in Nat
      BY <2>1 DEF k
    <3>2. (k * b + 0) % b = 0
      BY <2>1, <3>1, RemainderOf
    <3>3. QED
      BY <3>2 DEF k
  <2>3. QED
    BY <1>2, <2>1, <2>2 DEF r
<1>3. CASE r + d # b
  <2>1. r + d \in 0 .. b - 1 /\ a + d = q * b + (r + d)
    BY <1>1, <1>3
  <2>2. (a + d) % b = r + d
    BY <1>1, <2>1, RemainderOf
  <2>3. QED
    BY <1>3, <2>2 DEF r
<1>4. QED
  BY <1>2, <1>3

(* Adding less than the modulus changes a remainder.                        *)
LEMMA RemaindersDiffer ==
  ASSUME NEW a \in Nat, NEW b \in Nat \ {0}, NEW d \in 1 .. b - 1
  PROVE  (a + d) % b # a % b
<1> DEFINE q == a \div b
           r == a % b
           p == (a + d) \div b
<1> SUFFICES ASSUME (a + d) % b = r PROVE FALSE
  OBVIOUS
<1>1. q \in Nat /\ r \in 0 .. b - 1 /\ a = q * b + r
  BY Division
<1>2. a + d \in Nat
  OBVIOUS
<1>3. p \in Nat /\ a + d = p * b + r
  BY <1>2, Division
<1> HIDE DEF p, q, r
<1>4. CASE r + d <= b - 1
  <2>1. r + d \in 0 .. b - 1 /\ p * b + r = q * b + (r + d)
    BY <1>1, <1>3, <1>4
  <2>2. r = r + d
    BY <1>1, <1>3, <2>1, SameMultiple
  <2>3. QED
    BY <1>1, <2>2
<1>5. CASE r + d > b - 1
  <2>1. r + d - b \in 0 .. b - 1 /\ q + 1 \in Int
    BY <1>1, <1>5
  <2>2. p * b + r = (q + 1) * b + (r + d - b)
    BY <1>1, <1>3
  <2>3. r = r + d - b
    BY <1>1, <1>3, <2>1, <2>2, SameMultiple
  <2>4. QED
    BY <1>1, <2>3
<1>6. QED
  BY <1>1, <1>4, <1>5
=============================================================================
