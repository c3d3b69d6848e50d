-------------------------- MODULE MiningLoopProofs --------------------------
(***************************************************************************)
(* Proofs about MiningLoop for every number of workers, size of the nonce  *)
(* space, round, poll period and flush interval.                           *)
(***************************************************************************)
EXTENDS MiningLoop, Induction

(* A remainder by a multiple of b keeps the remainder by b.                 *)
LEMMA RemainderOfRemainder ==
  ASSUME NEW a \in Nat, NEW b \in Nat \ {0}, NEW c \in Nat \ {0}, c % b = 0
  PROVE  (a % c) % b = a % b
<1> DEFINE q == a \div c
           r == a % c
           p == c \div b
           s == r % b
           u == r \div b
<1>1. q \in Nat /\ r \in Nat /\ a = q * c + r
  BY Division
<1>2. p \in Nat /\ c = p * b
  BY Division
<1>3. s \in 0 .. b - 1 /\ u \in Nat /\ r = u * b + s
  BY <1>1, Division
<1> HIDE DEF p, q, r, s, u
<1>4. a = (q * p + u) * b + s
  <2>1. q * (p * b) = (q * p) * b
    BY <1>1, <1>2
  <2>2. (q * p + u) * b = (q * p) * b + u * b
    BY <1>1, <1>2, <1>3
  <2>3. QED
    BY <1>1, <1>2, <1>3, <2>1, <2>2
<1>5. q * p + u \in Nat
  BY <1>1, <1>2, <1>3
<1>6. a % b = s
  BY <1>3, <1>4, <1>5, RemainderOf
<1>7. QED
  BY <1>6 DEF r, s
(* Rounds of one or two in a whole flush: the count hits it exactly.        *)
LEMMA FlushExactly ==
  ASSUME NEW flush \in Nat \ {0}, NEW l \in {1, 2}, flush % l = 0,
         NEW c \in Nat, c < flush, c % l = 0
  PROVE  /\ c + l \in 1 .. flush /\ (c + l) % l = 0
         /\ (c + l) % flush = 0 <=> c + l = flush
<1>1. c + l \in 1 .. flush /\ (c + l) % l = 0
  OBVIOUS
<1> DEFINE n == c + l
<1>2. n \in 1 .. flush
  BY <1>1
<1> HIDE DEF n
<1>3. CASE n = flush
  <2>1. (1 * flush + 0) % flush = 0
    BY RemainderOf
  <2>2. QED
    BY <1>3, <2>1
<1>4. CASE n # flush
  <2>1. (0 * flush + n) % flush = n
    BY <1>2, <1>4, RemainderOf
  <2>2. QED
    BY <1>2, <1>4, <2>1
<1>5. (n % flush = 0) <=> (n = flush)
  BY <1>2, <1>3, <1>4
<1>6. QED
  BY <1>1, <1>5 DEF n
(* A remainder may be taken before adding or after.                         *)
LEMMA RemainderOfSum ==
  ASSUME NEW a \in Nat, NEW b \in Nat \ {0}, NEW d \in Nat
  PROVE  ((a % b) + d) % b = (a + d) % b
<1> DEFINE q == a \div b
           r == a % b
           p == (r + d) \div b
           s == (r + d) % b
<1>1. q \in Nat /\ r \in Nat /\ a = q * b + r
  BY Division
<1> HIDE DEF q, r
<1>2. r + d \in Nat
  BY <1>1
<1>3. p \in Nat /\ s \in 0 .. b - 1 /\ r + d = p * b + s
  BY <1>2, Division
<1> HIDE DEF p, s
<1>4. q + p \in Nat /\ a + d = (q + p) * b + s
  BY <1>1, <1>3
<1> DEFINE k == q + p
<1> HIDE DEF k
<1>5. k \in Nat /\ a + d = k * b + s
  BY <1>4 DEF k
<1>6. (k * b + s) % b = s
  BY <1>3, <1>5, RemainderOf
<1>7. QED
  BY <1>5, <1>6 DEF r, s

LEMMA MultipleOf ==
  ASSUME NEW a \in Nat, NEW b \in Nat \ {0}, a % b = 0, NEW k \in Nat
  PROVE  (a * k) % b = 0
<1> DEFINE q == a \div b
<1>1. q \in Nat /\ a = q * b + 0
  BY Division
<1> HIDE DEF q
<1>2. a * k = (q * k) * b + 0
  <2>1. a = q * b
    BY <1>1
  <2>2. (q * b) * k = (q * k) * b
    BY <1>1
  <2>3. (q * k) * b \in Int
    BY <1>1
  <2>4. QED
    BY <2>1, <2>2, <2>3
<1>3. q * k \in Nat /\ 0 \in 0 .. b - 1
  BY <1>1
<1> DEFINE p == q * k
<1> HIDE DEF p
<1>4. p \in Nat /\ a * k = p * b + 0
  BY <1>2, <1>3 DEF p
<1>5. (p * b + 0) % b = 0
  BY <1>3, <1>4, RemainderOf
<1>6. QED
  BY <1>4, <1>5

(* A round of l nonces, in a space that the poll period p divides, ends at   *)
(* the next poll or before it, unless every nonce is one.                    *)
ReachesPoll(x, y, l, p) ==
  /\ y % l = 0 /\ x % p \in Nat
  /\ IF y % p = 0 THEN (x % p) + l <= p \/ (p = 1 /\ x % p = 0)
                  ELSE y % p = (x % p) + l

LEMMA NextNonce ==
  ASSUME NEW space \in Nat \ {0}, NEW p \in Nat \ {0}, NEW l \in {1, 2},
         space % p = 0, space % l = 0, p % l = 0 \/ p = 1,
         NEW x \in Nat, x % l = 0
  PROVE  ReachesPoll(x, (x + l) % space, l, p)
<1> DEFINE y == (x + l) % space
<1>1. x + l \in Nat /\ l \in Nat \ {0}
  OBVIOUS
<1>2. y % l = (x + l) % l /\ y % p = (x + l) % p
  BY <1>1, RemainderOfRemainder
<1>3. (x + l) % l = 0
  BY <1>1, RemainderStep
<1>4. x % p \in 0 .. p - 1
  BY Division
<1>5. CASE p % l = 0
  <2>1. (x % p) % l = 0
    BY <1>1, <1>5, RemainderOfRemainder
  <2> DEFINE r == x % p
  <2>2. r \in Nat /\ r < p /\ r % l = 0
    BY <1>4, <2>1
  <2> HIDE DEF r
  <2>3. r + l \in 1 .. p
    BY <1>5, <2>2, FlushExactly
  <2>4. (x % p) + l <= p
    BY <2>3 DEF r
  <2>5. /\ (x % p) + l = p => (x + l) % p = 0
        /\ (x % p) + l # p => (x + l) % p = (x % p) + l
    BY <1>1, <2>4, RemainderStep, Zenon
  <2>6. QED
    BY <1>2, <1>3, <1>4, <2>4, <2>5 DEF ReachesPoll
<1>6. CASE p = 1
  <2>1. (x + l) % p \in 0 .. p - 1
    BY <1>1, Division
  <2>2. y % p = 0 /\ x % p = 0
    BY <1>2, <1>4, <1>6, <2>1
  <2>3. QED
    BY <1>2, <1>3, <1>6, <2>2 DEF ReachesPoll
<1>7. QED
  BY <1>5, <1>6
-----------------------------------------------------------------------------
USE ThreadsAssumption

Nonces == 0 .. NonceValues - 1

TypeOK ==
  /\ lanes \in LaneChoices /\ pollPeriod \in PollPeriods
  /\ quit \in BOOLEAN /\ jobEpoch \in Nat
  /\ totalHashes \in Nat /\ staleHashesObserved \in Nat
  /\ pc \in [Tids -> Pcs] /\ epoch \in [Tids -> Nat] /\ nonce \in [Tids -> Nonces]
  /\ localHashCount \in [Tids -> Nat] /\ localStale \in [Tids -> Nat]
  /\ rounds \in [Tids -> Nat] /\ hashed \in [Tids -> Nat]
  /\ staleHashed \in [Tids -> Nat]

-----------------------------------------------------------------------------
(* Sums over the workers. *)
PartialSums(g, f) ==
  /\ g \in [0 .. Threads -> Nat] /\ g[0] = 0
  /\ \A n \in 0 .. Threads - 1 : g[n + 1] = g[n] + f[n]

LEMMA SumValue ==
  ASSUME NEW f \in [Tids -> Nat]
  PROVE  \E g : PartialSums(g, f) /\ Sum(f) = g[Threads]
<1> DEFINE step == [p \in Nat \X Nat |-> IF p[1] < Threads THEN p[2] + f[p[1]] ELSE p[2]]
           Body(h) == [n \in 0 .. Threads |-> IF n = 0 THEN 0 ELSE h[n - 1] + f[n - 1]]
<1>1. \A n \in Nat : n < Threads => n \in Tids /\ f[n] \in Nat
  BY DEF Tids
<1>2. step \in [Nat \X Nat -> Nat]
  <2>1. ASSUME NEW p \in Nat \X Nat
        PROVE  (IF p[1] < Threads THEN p[2] + f[p[1]] ELSE p[2]) \in Nat
    BY <1>1
  <2>2. QED
    BY <2>1
<1>3. PICK h \in [Nat -> Nat] : Recursive(h, 0, step)
  <2> HIDE DEF step
  <2>1. QED
    BY <1>2, Recursion
<1>4. ASSUME NEW n \in 0 .. Threads - 1 PROVE h[n + 1] = h[n] + f[n]
  <2>1. n \in Nat /\ h[n] \in Nat /\ n < Threads
    OBVIOUS
  <2>2. step[<<n, h[n]>>] = h[n] + f[n]
    BY <2>1
  <2>3. QED
    BY <1>3, <2>1, <2>2 DEF Recursive
<1> DEFINE g == [n \in 0 .. Threads |-> h[n]]
<1>5. g = Body(g)
  <2>1. ASSUME NEW n \in 0 .. Threads PROVE g[n] = Body(g)[n]
    <3>1. CASE n = 0
      BY <1>3, <3>1 DEF Recursive
    <3>2. CASE n # 0
      <4>1. n - 1 \in 0 .. Threads - 1 /\ (n - 1) + 1 = n /\ n - 1 \in 0 .. Threads
        BY <3>2
      <4>2. h[n] = h[n - 1] + f[n - 1]
        BY <1>4, <4>1
      <4>3. QED
        BY <3>2, <4>1, <4>2
    <3>3. QED
      BY <3>1, <3>2
  <2>2. QED
    BY <2>1
<1> DEFINE upTo == CHOOSE k : k = Body(k)
<1>6. upTo = Body(upTo)
  <2> HIDE DEF Body, g
  <2>1. \E k : k = Body(k)
    BY <1>5
  <2>2. QED
    BY <2>1, Zenon
<1>7. Sum(f) = upTo[Threads]
  BY DEF Sum
<1> HIDE DEF upTo
<1>8. upTo[0] = 0
  BY <1>6
<1>9. ASSUME NEW n \in 0 .. Threads - 1 PROVE upTo[n + 1] = upTo[n] + f[n]
  <2>1. n + 1 \in 0 .. Threads /\ n + 1 # 0 /\ (n + 1) - 1 = n
    OBVIOUS
  <2>2. QED
    BY <1>6, <2>1
<1> DEFINE S == {n \in Nat : n <= Threads => upTo[n] \in Nat}
<1>10. Nat \subseteq S
  <2>1. 0 \in S
    BY <1>8
  <2>2. ASSUME NEW n \in Nat, n \in S PROVE n + 1 \in S
    <3> SUFFICES ASSUME n + 1 <= Threads PROVE upTo[n + 1] \in Nat
      OBVIOUS
    <3>1. n \in 0 .. Threads - 1 /\ upTo[n] \in Nat /\ f[n] \in Nat
      BY <1>1, <2>2
    <3>2. QED
      BY <1>9, <3>1
  <2> HIDE DEF S
  <2>3. QED
    BY <2>1, <2>2, NatSetInduction
<1>11. upTo \in [0 .. Threads -> Nat]
  <2>1. ASSUME NEW n \in 0 .. Threads PROVE upTo[n] \in Nat
    BY <1>10
  <2>2. upTo = [n \in 0 .. Threads |-> upTo[n]]
    BY <1>6
  <2>3. QED
    BY <2>1, <2>2
<1>12. PartialSums(upTo, f)
  BY <1>8, <1>9, <1>11 DEF PartialSums
<1>13. QED
  BY <1>7, <1>12

LEMMA SumInNat ==
  ASSUME NEW f \in [Tids -> Nat]
  PROVE  Sum(f) \in Nat
<1>1. PICK g : PartialSums(g, f) /\ Sum(f) = g[Threads]
  BY SumValue
<1>2. QED
  BY <1>1 DEF PartialSums

(* A change of one term changes the sum as much.                            *)
LEMMA SumChange ==
  ASSUME NEW f \in [Tids -> Nat], NEW e \in [Tids -> Nat], NEW t \in Tids,
         \A u \in Tids : u # t => e[u] = f[u]
  PROVE  Sum(e) + f[t] = Sum(f) + e[t]
<1> DEFINE k == e[t]
<1>1. /\ e[t] = k /\ f[t] \in Nat /\ k \in Nat
      /\ \A u \in Tids : f[u] \in Nat /\ (u # t => e[u] = f[u])
  OBVIOUS
<1> HIDE DEF k
<1>2. \A n \in 0 .. Threads - 1 : n \in Tids
  BY DEF Tids
<1>3. t \in Nat /\ t < Threads
  BY DEF Tids
<1>4. PICK g : PartialSums(g, f) /\ Sum(f) = g[Threads]
  BY SumValue
<1>5. PICK h : PartialSums(h, e) /\ Sum(e) = h[Threads]
  BY <1>1, SumValue
<1> DEFINE S == {n \in Nat : n <= Threads => IF n <= t THEN h[n] = g[n]
                                               ELSE h[n] + f[t] = g[n] + k}
<1>6. 0 \in S
  BY <1>3, <1>4, <1>5 DEF PartialSums
<1>7. ASSUME NEW n \in Nat, n \in S PROVE n + 1 \in S
  <2> SUFFICES ASSUME n + 1 <= Threads
               PROVE  IF n + 1 <= t THEN h[n + 1] = g[n + 1]
                        ELSE h[n + 1] + f[t] = g[n + 1] + k
    OBVIOUS
  <2>1. n \in 0 .. Threads - 1 /\ n \in 0 .. Threads /\ n \in Tids /\ n <= Threads
    BY <1>2
  <2>2. g[n + 1] = g[n] + f[n] /\ h[n + 1] = h[n] + e[n]
    BY <1>4, <1>5, <2>1 DEF PartialSums
  <2>3. g[n] \in Nat /\ h[n] \in Nat /\ f[n] \in Nat /\ f[t] \in Nat /\ k \in Nat
    BY <1>1, <1>4, <1>5, <2>1 DEF PartialSums
  <2>4. IF n <= t THEN h[n] = g[n] ELSE h[n] + f[t] = g[n] + k
    BY <1>7, <2>1
  <2>5. CASE n = t
    <3>1. h[n] = g[n] /\ e[n] = k /\ f[n] = f[t] /\ ~(n + 1 <= t)
      BY <1>1, <1>3, <2>4, <2>5
    <3>2. QED
      BY <2>2, <2>3, <3>1
  <2>6. CASE n < t
    BY <1>1, <1>3, <2>1, <2>2, <2>4, <2>6
  <2>7. CASE n > t
    <3>1. e[n] = f[n] /\ ~(n + 1 <= t) /\ h[n] + f[t] = g[n] + k
      BY <1>1, <1>3, <2>1, <2>4, <2>7
    <3>2. QED
      BY <2>2, <2>3, <3>1
  <2>8. QED
    BY <1>3, <2>5, <2>6, <2>7
<1>8. Threads \in S
  <2> HIDE DEF S
  <2>1. QED
    BY <1>6, <1>7, NatSetInduction
<1>9. Threads <= Threads /\ ~(Threads <= t)
  BY <1>3
<1>10. h[Threads] + f[t] = g[Threads] + k
  BY <1>8, <1>9
<1>11. QED
  BY <1>1, <1>4, <1>5, <1>10
-----------------------------------------------------------------------------
LEMMA SpaceFacts ==
  /\ NonceValues \in Nat \ {0}
  /\ \A n \in Nat : n % NonceValues \in Nonces
  /\ \A t \in Tids : FirstNonce(t) \in Nonces /\ ThreadByte(t) \in Nat
<1>1. NonceValues \in Nat \ {0}
  BY SpaceAssumption DEF NonceValues
<1>2. ASSUME NEW n \in Nat PROVE n % NonceValues \in Nonces
  BY <1>1, Division DEF Nonces
<1>3. ASSUME NEW t \in Tids PROVE FirstNonce(t) \in Nonces /\ ThreadByte(t) \in Nat
  <2>1. t \in Nat /\ t * Span \in Nat
    BY SpaceAssumption DEF Tids
  <2>2. t % TidValues \in Nat
    BY SpaceAssumption, <2>1, Division
  <2>3. QED
    BY <1>2, <2>1, <2>2 DEF FirstNonce, ThreadByte
<1>4. QED
  BY <1>1, <1>2, <1>3

LEMMA LaneFacts ==
  ASSUME lanes \in LaneChoices, pollPeriod \in PollPeriods
  PROVE  /\ lanes \in {1, 2} /\ lanes \in Nat /\ pollPeriod \in Nat \ {0}
         /\ FlushEvery \in Nat \ {0} /\ FlushEvery % lanes = 0
  BY RoundAssumption

LEMMA Typed == Spec => []TypeOK
<1>1. Init => TypeOK
  <2>1. 0 \in Nonces
    BY SpaceFacts DEF Nonces
  <2> SUFFICES ASSUME Init PROVE TypeOK
    OBVIOUS
  <2>2. pc \in [Tids -> Pcs] /\ nonce \in [Tids -> Nonces]
    BY <2>1 DEF Init, Pcs
  <2>3. /\ epoch \in [Tids -> Nat] /\ localHashCount \in [Tids -> Nat]
        /\ localStale \in [Tids -> Nat] /\ rounds \in [Tids -> Nat]
        /\ hashed \in [Tids -> Nat] /\ staleHashed \in [Tids -> Nat]
    BY DEF Init
  <2>4. QED
    BY <2>2, <2>3 DEF Init, TypeOK
<1>2. TypeOK /\ [Next]_vars => TypeOK'
  <2> SUFFICES ASSUME TypeOK, [Next]_vars PROVE TypeOK'
    OBVIOUS
  <2> USE DEF TypeOK
  <2>0. lanes \in Nat /\ FlushEvery \in Nat
    BY LaneFacts
  <2>1. ASSUME NEW t \in Tids, Snapshot(t) PROVE TypeOK'
    <3>1. FirstNonce(t) \in Nonces
      BY SpaceFacts
    <3>2. QED
      BY <2>1, <3>1 DEF Snapshot, Pcs, shared, config, totals, local
  <2>2. ASSUME NEW t \in Tids, Poll(t) PROVE TypeOK'
    BY <2>2 DEF Poll, Pcs, shared, config, totals, local, history
  <2>3. ASSUME NEW t \in Tids, CountStale(t) PROVE TypeOK'
    <3>1. localStale[t] + lanes \in Nat
      BY <2>0
    <3>2. localStale' \in [Tids -> Nat]
      BY <2>3, <3>1 DEF CountStale
    <3>3. QED
      BY <2>3, <3>2 DEF CountStale, Pcs, shared, config, totals, history
  <2>4. ASSUME NEW t \in Tids, HashRound(t) PROVE TypeOK'
    <3>1. lanes \in Nat
      BY <2>0
    <3>2. (nonce[t] + lanes) % NonceValues \in Nonces
      <4>1. nonce[t] + lanes \in Nat
        BY <3>1 DEF Nonces
      <4>2. QED
        BY <4>1, SpaceFacts
    <3>3. nonce' \in [Tids -> Nonces]
      BY <2>4, <3>2 DEF HashRound
    <3>4. localHashCount' \in [Tids -> Nat] /\ localStale' \in [Tids -> Nat]
      BY <2>4, <3>1 DEF HashRound
    <3>5. totalHashes' \in Nat /\ staleHashesObserved' \in Nat
      BY <2>0, <2>4 DEF HashRound, totals
    <3>6. rounds' \in [Tids -> Nat] /\ hashed' \in [Tids -> Nat]
      BY <2>4, <3>1 DEF HashRound
    <3>7. staleHashed' \in [Tids -> Nat]
      BY <2>4, <3>1 DEF HashRound
    <3>8. QED
      BY <2>4, <3>3, <3>4, <3>5, <3>6, <3>7 DEF HashRound, Pcs, shared, config
  <2>5. ASSUME NEW t \in Tids, Finish(t) PROVE TypeOK'
    <3>1. localHashCount' \in [Tids -> Nat] /\ localStale' \in [Tids -> Nat]
      BY <2>5 DEF Finish, Residue
    <3>2. totalHashes' \in Nat /\ staleHashesObserved' \in Nat
      BY <2>5 DEF Finish, Residue
    <3>3. QED
      BY <2>5, <3>1, <3>2 DEF Finish, Pcs, shared, config, history
  <2>6. CASE NewJob
    BY <2>6 DEF NewJob, config, totals, local, history
  <2>7. CASE Signal
    BY <2>7 DEF Signal, config, totals, local, history
  <2>8. CASE UNCHANGED vars
    BY <2>8 DEF vars, shared, config, totals, local, history
  <2>9. QED
    BY <2>1, <2>2, <2>3, <2>4, <2>5, <2>6, <2>7, <2>8 DEF Next
<1>3. QED
  BY <1>1, <1>2, PTL DEF Spec
-----------------------------------------------------------------------------
(* A worker has whole rounds of hashes unreported, less than a flush.       *)
Unflushed ==
  \A t \in Tids : localHashCount[t] < FlushEvery /\ localHashCount[t] % lanes = 0

(* What a worker may have hashed of a replaced job: nothing that a poll has *)
(* seen, then as many nonces as lie between the last poll and this one.     *)
StaleInv ==
  \A t \in Tids :
    /\ nonce[t] % lanes = 0
    /\ epoch[t] <= jobEpoch
    /\ staleHashed[t] > 0 => epoch[t] < jobEpoch
    /\ pc[t] \in {"count", "hash"} => staleHashed[t] <= nonce[t] % pollPeriod
    /\ pc[t] = "poll" /\ nonce[t] % pollPeriod # 0
         => staleHashed[t] <= nonce[t] % pollPeriod

(* Of the snapshot it works on, a worker has tried the nonces that follow   *)
(* its first, in order; before it takes another it has seen a newer job.    *)
Behind(t) == rounds[t] * lanes
TriedBy(t, w) ==
  \/ w[1] < epoch[t]
  \/ w[1] = epoch[t] /\ \E i \in 1 .. Behind(t) : w[2] = (FirstNonce(t) + i) % NonceValues
WorkInv ==
  /\ tried \subseteq Nat \X Nonces \X Nat
  /\ \A t \in Tids :
       /\ rounds[t] <= MaxRounds
       /\ pc[t] = "snap" => epoch[t] < jobEpoch
       /\ epoch[t] <= jobEpoch
       /\ pc[t] \in {"poll", "count", "hash"}
            => nonce[t] = (FirstNonce(t) + Behind(t)) % NonceValues
       /\ \A w \in tried : w[3] = ThreadByte(t) => TriedBy(t, w)

LEMMA UnflushedAlways == Spec => []Unflushed
<1>1. Init => Unflushed
  BY LaneFacts, RoundAssumption DEF Init, Unflushed
<1>2. TypeOK /\ Unflushed /\ [Next]_vars => Unflushed'
  <2> SUFFICES ASSUME TypeOK, Unflushed, [Next]_vars PROVE Unflushed'
    OBVIOUS
  <2>0. /\ lanes \in {1, 2} /\ FlushEvery \in Nat \ {0} /\ FlushEvery % lanes = 0
        /\ localHashCount \in [Tids -> Nat]
    BY LaneFacts DEF TypeOK
  <2>1. ASSUME NEW t \in Tids, HashRound(t) PROVE Unflushed'
    <3> DEFINE c == localHashCount[t]
               n == c + lanes
    <3>1. c \in Nat /\ c < FlushEvery /\ c % lanes = 0 /\ n \in Nat
      BY <2>0 DEF Unflushed
    <3>2. n \in 1 .. FlushEvery /\ n % lanes = 0 /\ (n % FlushEvery = 0 <=> n = FlushEvery)
      <4> HIDE DEF c
      <4>1. QED
        BY <2>0, <3>1, FlushExactly
    <3>3. n % FlushEvery = 0 \/ n < FlushEvery
      BY <2>0, <3>2
    <3>4. localHashCount' = [localHashCount EXCEPT ![t] = IF n % FlushEvery = 0 THEN 0 ELSE n]
      BY <2>1 DEF HashRound, FlushDue
    <3>5. lanes' = lanes /\ 0 % lanes = 0
      BY <2>0, <2>1 DEF HashRound, shared, config
    <3> HIDE DEF n
    <3>6. QED
      BY <3>1, <3>2, <3>3, <3>4, <3>5 DEF Unflushed, TypeOK
  <2>2. ASSUME NEW t \in Tids, Finish(t) PROVE Unflushed'
    BY <2>0, <2>2 DEF Finish, Residue, Unflushed, shared, config
  <2>3. CASE UNCHANGED <<lanes, localHashCount>>
    BY <2>3 DEF Unflushed
  <2>4. QED
    BY <2>1, <2>2, <2>3 DEF Next, Snapshot, Poll, CountStale, NewJob, Signal, vars,
                            shared, config, local
<1>3. QED
  BY <1>1, <1>2, Typed, PTL DEF Spec

HeldAll == \A t \in Tids : pc[t] = "done" => localHashCount[t] = 0

(* No hash is lost or counted twice, for any number of workers: what was    *)
(* flushed, with what the living workers hold, is what was computed.        *)
THEOREM EveryHashReported == Spec => []HashesReported
<1>1. Init => HashesReported /\ HeldAll
  <2> SUFFICES ASSUME Init PROVE HashesReported /\ HeldAll
    OBVIOUS
  <2>1. Held = hashed
    BY DEF Init, Held
  <2>2. hashed \in [Tids -> Nat] /\ totalHashes = 0
    BY DEF Init
  <2>3. QED
    BY <2>1, <2>2, SumInNat DEF HashesReported, HeldAll, Init
<1>2. TypeOK /\ Unflushed /\ HashesReported /\ HeldAll /\ [Next]_vars
        => HashesReported' /\ HeldAll'
  <2> SUFFICES ASSUME TypeOK, Unflushed, HashesReported, HeldAll, [Next]_vars
               PROVE  HashesReported' /\ HeldAll'
    OBVIOUS
  <2>0. /\ Held \in [Tids -> Nat] /\ Sum(Held) \in Nat
        /\ hashed \in [Tids -> Nat] /\ Sum(hashed) \in Nat
        /\ localHashCount \in [Tids -> Nat] /\ pc \in [Tids -> Pcs]
        /\ lanes \in {1, 2} /\ FlushEvery \in Nat \ {0} /\ totalHashes \in Nat
    <3>1. Held \in [Tids -> Nat] /\ hashed \in [Tids -> Nat]
      BY DEF TypeOK, Held
    <3>2. QED
      BY <3>1, LaneFacts, SumInNat DEF TypeOK
  <2>1. ASSUME NEW t \in Tids, HashRound(t) PROVE HashesReported' /\ HeldAll'
    <3> DEFINE c == localHashCount[t]
               n == c + lanes
               k == IF n % FlushEvery = 0 THEN 0 ELSE n
               h == hashed[t] + lanes
    <3>1. c \in Nat /\ n \in Nat /\ k \in Nat /\ h \in Nat /\ hashed[t] \in Nat
      BY <2>0
    <3>2. pc[t] = "hash" /\ Held[t] = c
      BY <2>1 DEF HashRound, Held
    <3>3. /\ localHashCount' = [localHashCount EXCEPT ![t] = k]
          /\ pc' = [pc EXCEPT ![t] = "poll"]
          /\ hashed' = [hashed EXCEPT ![t] = h]
          /\ totalHashes' = IF n % FlushEvery = 0 THEN totalHashes + FlushEvery ELSE totalHashes
      BY <2>1 DEF HashRound, FlushDue, totals
    <3>4. n % FlushEvery = 0 => n = FlushEvery
      <4>1. c < FlushEvery /\ c % lanes = 0 /\ FlushEvery % lanes = 0
        BY LaneFacts DEF Unflushed, TypeOK
      <4>2. QED
        BY <2>0, <3>1, <4>1, FlushExactly
    <3> HIDE DEF k, h, n, c
    <3>5. /\ Held' \in [Tids -> Nat] /\ Held'[t] = k
          /\ \A u \in Tids : u # t => Held'[u] = Held[u]
      BY <2>0, <3>1, <3>2, <3>3 DEF Held
    <3>6. Sum(Held') + c = Sum(Held) + k
      <4>1. Sum(Held') + Held[t] = Sum(Held) + Held'[t]
        BY <2>0, <3>5, SumChange
      <4>2. QED
        BY <3>2, <3>5, <4>1
    <3>7. Sum(hashed') + hashed[t] = Sum(hashed) + h
      <4>1. /\ hashed' \in [Tids -> Nat] /\ hashed'[t] = h
            /\ \A u \in Tids : u # t => hashed'[u] = hashed[u]
        BY <2>0, <3>1, <3>3
      <4>2. Sum(hashed') + hashed[t] = Sum(hashed) + hashed'[t]
        BY <2>0, <4>1, SumChange
      <4>3. QED
        BY <4>1, <4>2
    <3>8. totalHashes' + k = totalHashes + n
      BY <2>0, <3>1, <3>3, <3>4 DEF k
    <3>9. totalHashes' + Sum(Held') = Sum(hashed')
      <4>1. totalHashes + Sum(Held) = Sum(hashed) /\ totalHashes' \in Nat
        BY <2>0, <3>3 DEF HashesReported
      <4>2. h = hashed[t] + lanes /\ n = c + lanes /\ lanes \in Nat
        BY <2>0 DEF h, n
      <4>3. Sum(Held') \in Nat /\ Sum(hashed') \in Nat
        BY <2>0, <3>1, <3>3, <3>5, SumInNat
      <4> DEFINE held == Sum(Held)
                 held2 == Sum(Held')
                 sum == Sum(hashed)
                 sum2 == Sum(hashed')
                 x == hashed[t]
      <4>4. /\ held \in Nat /\ held2 \in Nat /\ sum \in Nat /\ sum2 \in Nat /\ x \in Nat
            /\ held2 + c = held + k /\ sum2 + x = sum + h /\ totalHashes + held = sum
            /\ h = x + lanes /\ totalHashes \in Nat /\ totalHashes' \in Nat
        BY <2>0, <3>1, <3>6, <3>7, <4>1, <4>2, <4>3
      <4> HIDE DEF held, held2, sum, sum2, x
      <4>5. totalHashes' + held2 = sum + lanes
        <5> DEFINE total == totalHashes'
        <5>1. /\ total + k = totalHashes + (c + lanes) /\ held2 + c = held + k
              /\ totalHashes + held = sum
          BY <3>8, <4>2, <4>4
        <5>2. /\ totalHashes \in Nat /\ total \in Nat /\ held \in Nat
              /\ held2 \in Nat /\ c \in Nat /\ k \in Nat /\ lanes \in Nat
          BY <3>1, <4>2, <4>4
        <5> HIDE DEF total
        <5>3. total + held2 = sum + lanes
          BY <5>1, <5>2
        <5>4. QED
          BY <5>3 DEF total
      <4>6. sum2 = sum + lanes
        BY <4>2, <4>4
      <4>7. QED
        BY <4>5, <4>6 DEF held2, sum2
    <3>10. HeldAll'
      BY <2>0, <3>3 DEF HeldAll, Pcs
    <3>11. QED
      BY <3>9, <3>10 DEF HashesReported
  <2>2. ASSUME NEW t \in Tids, Finish(t) PROVE HashesReported' /\ HeldAll'
    <3> DEFINE c == localHashCount[t]
    <3>1. c \in Nat /\ pc[t] # "done" /\ Held[t] = c
      BY <2>0, <2>2 DEF Finish, Held
    <3>2. /\ localHashCount' = [localHashCount EXCEPT ![t] = 0]
          /\ totalHashes' = totalHashes + c
          /\ pc' = [pc EXCEPT ![t] = "done"] /\ hashed' = hashed
      BY <2>2 DEF Finish, Residue, history
    <3> HIDE DEF c
    <3>3. /\ Held' \in [Tids -> Nat] /\ Held'[t] = 0
          /\ \A u \in Tids : u # t => Held'[u] = Held[u]
      BY <2>0, <3>2 DEF Held
    <3>4. Sum(Held') + c = Sum(Held) /\ Sum(Held') \in Nat
      <4>1. Sum(Held') + Held[t] = Sum(Held) + Held'[t]
        BY <2>0, <3>3, SumChange
      <4>2. Sum(Held') \in Nat
        BY <3>3, SumInNat
      <4>3. QED
        BY <2>0, <3>1, <3>3, <4>1, <4>2
    <3>5. totalHashes' + Sum(Held') = Sum(hashed)
      BY <2>0, <3>1, <3>2, <3>4 DEF HashesReported
    <3>6. HeldAll'
      BY <2>0, <3>2 DEF HeldAll
    <3>7. QED
      BY <3>2, <3>5, <3>6 DEF HashesReported
  <2>3. ASSUME UNCHANGED <<totalHashes, hashed, localHashCount>>,
               \A t \in Tids : (pc[t] = "done") = (pc'[t] = "done")
        PROVE  HashesReported' /\ HeldAll'
    <3>1. Held' = Held
      BY <2>3 DEF Held
    <3>2. QED
      BY <2>3, <3>1 DEF HashesReported, HeldAll
  <2>4. ASSUME NEW t \in Tids, Snapshot(t) \/ Poll(t) \/ CountStale(t)
        PROVE  HashesReported' /\ HeldAll'
    <3>1. UNCHANGED <<totalHashes, hashed, localHashCount>>
      BY <2>4 DEF Snapshot, Poll, CountStale, totals, local, history
    <3>2. \A u \in Tids : (pc[u] = "done") = (pc'[u] = "done")
      BY <2>0, <2>4 DEF Snapshot, Poll, CountStale
    <3>3. QED
      BY <2>3, <3>1, <3>2
  <2>5. CASE NewJob \/ Signal \/ UNCHANGED vars
    <3>1. UNCHANGED <<totalHashes, hashed, localHashCount, pc>>
      BY <2>5 DEF NewJob, Signal, vars, totals, local, history
    <3>2. QED
      BY <2>3, <3>1
  <2>6. QED
    BY <2>1, <2>2, <2>4, <2>5 DEF Next
<1>3. QED
  BY <1>1, <1>2, Typed, UnflushedAlways, PTL DEF Spec

LEMMA SpaceRemainders ==
  ASSUME lanes \in LaneChoices, pollPeriod \in PollPeriods
  PROVE  /\ NonceValues % pollPeriod = 0 /\ NonceValues % lanes = 0
         /\ pollPeriod % lanes = 0 \/ pollPeriod = 1
         /\ \A t \in Tids : FirstNonce(t) % lanes = 0
<1>1. lanes \in Nat \ {0} /\ Span \in Nat \ {0} /\ TidValues \in Nat /\ Span % lanes = 0
  BY LaneFacts, RoundAssumption, SpaceAssumption
<1>2. NonceValues % lanes = 0
  BY <1>1, MultipleOf DEF NonceValues
<1>3. ASSUME NEW t \in Tids PROVE FirstNonce(t) % lanes = 0
  <2> DEFINE a == t * Span
  <2>1. t \in Nat /\ a = Span * t /\ a \in Nat
    BY <1>1 DEF Tids
  <2>2. (Span * t) % lanes = 0
    BY <1>1, <2>1, MultipleOf
  <2> HIDE DEF a
  <2>3. (a % NonceValues) % lanes = a % lanes
    BY <1>1, <1>2, <2>1, SpaceFacts, RemainderOfRemainder
  <2>4. QED
    BY <2>1, <2>2, <2>3 DEF FirstNonce, a
<1>4. QED
  BY <1>2, <1>3, RoundAssumption DEF NonceValues

(* A replaced job costs a worker at most one poll period, or one round,     *)
(* whatever falls between the reads of the epoch.                           *)
THEOREM StaleWorkEnds == Spec => []StaleWorkBounded
<1> DEFINE Bounded == StaleInv /\ StaleWorkBounded
<1>1. Init => Bounded
  <2> SUFFICES ASSUME Init PROVE Bounded
    OBVIOUS
  <2>1. 0 % lanes = 0 /\ lanes \in Nat
    BY LaneFacts DEF Init
  <2>2. \A t \in Tids : nonce[t] = 0 /\ staleHashed[t] = 0 /\ epoch[t] = 0 /\ pc[t] = "snap"
    BY DEF Init
  <2>3. jobEpoch = 1 /\ pollPeriod \in Nat
    BY LaneFacts DEF Init
  <2>4. QED
    BY <2>1, <2>2, <2>3 DEF StaleInv, StaleWorkBounded
<1>2. TypeOK /\ Bounded /\ [Next]_vars => Bounded'
  <2> SUFFICES ASSUME TypeOK, StaleInv, StaleWorkBounded, [Next]_vars
               PROVE  StaleInv' /\ StaleWorkBounded'
    OBVIOUS
  <2>0. /\ lanes \in {1, 2} /\ pollPeriod \in Nat \ {0} /\ jobEpoch \in Nat
        /\ NonceValues % pollPeriod = 0 /\ NonceValues % lanes = 0
        /\ pollPeriod % lanes = 0 \/ pollPeriod = 1
        /\ pc \in [Tids -> Pcs] /\ epoch \in [Tids -> Nat]
        /\ nonce \in [Tids -> Nonces] /\ staleHashed \in [Tids -> Nat]
    BY LaneFacts, SpaceRemainders DEF TypeOK
  <2>1. ASSUME NEW t \in Tids, Snapshot(t) PROVE StaleInv' /\ StaleWorkBounded'
    <3>1. /\ UNCHANGED <<lanes, pollPeriod, jobEpoch>>
          /\ pc' = [pc EXCEPT ![t] = "poll"]
          /\ epoch' = [epoch EXCEPT ![t] = jobEpoch]
          /\ nonce' = [nonce EXCEPT ![t] = FirstNonce(t)]
          /\ staleHashed' = [staleHashed EXCEPT ![t] = 0]
      BY <2>1 DEF Snapshot, shared, config
    <3>2. FirstNonce(t) % lanes = 0 /\ FirstNonce(t) % pollPeriod \in Nat
      <4> DEFINE f == FirstNonce(t)
      <4>1. f \in Nat /\ f % lanes = 0
        BY SpaceFacts, SpaceRemainders DEF Nonces, TypeOK
      <4> HIDE DEF f
      <4>2. f % pollPeriod \in 0 .. pollPeriod - 1
        BY <2>0, <4>1, Division
      <4>3. QED
        BY <2>0, <4>1, <4>2 DEF f
    <3>3. QED
      BY <2>0, <3>1, <3>2 DEF StaleInv, StaleWorkBounded
  <2>2. ASSUME NEW t \in Tids, Poll(t) PROVE StaleInv' /\ StaleWorkBounded'
    <3>1. /\ UNCHANGED <<lanes, pollPeriod, jobEpoch, epoch, nonce, staleHashed>>
          /\ pc[t] = "poll"
          /\ pc' = [pc EXCEPT ![t] = IF nonce[t] % pollPeriod = 0 /\ jobEpoch # epoch[t]
                                     THEN "snap" ELSE "count"]
      BY <2>2 DEF Poll, PollNow, shared, config, history
    <3>2. StaleWorkBounded'
      BY <3>1 DEF StaleWorkBounded
    <3>3. ASSUME pc'[t] = "count" PROVE staleHashed[t] <= nonce[t] % pollPeriod
      <4>1. nonce[t] % pollPeriod = 0 => jobEpoch = epoch[t]
        BY <2>0, <3>1, <3>3
      <4>2. nonce[t] % pollPeriod # 0 => staleHashed[t] <= nonce[t] % pollPeriod
        BY <3>1 DEF StaleInv
      <4>3. staleHashed[t] > 0 => epoch[t] < jobEpoch
        BY DEF StaleInv
      <4>4. nonce[t] % pollPeriod = 0 => staleHashed[t] = 0
        BY <2>0, <4>1, <4>3
      <4>5. QED
        BY <2>0, <4>2, <4>4
    <3>4. StaleInv'
      <4>1. pc'[t] \in {"snap", "count"} /\ \A u \in Tids : u # t => pc'[u] = pc[u]
        BY <2>0, <3>1
      <4>2. QED
        BY <2>0, <3>1, <3>3, <4>1 DEF StaleInv
    <3>5. QED
      BY <3>2, <3>4
  <2>3. ASSUME NEW t \in Tids, CountStale(t) PROVE StaleInv' /\ StaleWorkBounded'
    <3>1. /\ UNCHANGED <<lanes, pollPeriod, jobEpoch, epoch, nonce, staleHashed>>
          /\ pc[t] = "count" /\ pc' = [pc EXCEPT ![t] = "hash"]
      BY <2>3 DEF CountStale, shared, config, history
    <3>2. pc'[t] = "hash" /\ \A u \in Tids : u # t => pc'[u] = pc[u]
      BY <2>0, <3>1
    <3>3. QED
      BY <2>0, <3>1, <3>2 DEF StaleInv, StaleWorkBounded
  <2>4. ASSUME NEW t \in Tids, HashRound(t) PROVE StaleInv' /\ StaleWorkBounded'
    <3> DEFINE x == nonce[t]
               y == (x + lanes) % NonceValues
               k == IF jobEpoch # epoch[t] THEN staleHashed[t] + lanes ELSE 0
    <3>1. /\ UNCHANGED <<lanes, pollPeriod, jobEpoch, epoch>>
          /\ pc[t] = "hash" /\ pc' = [pc EXCEPT ![t] = "poll"]
          /\ nonce' = [nonce EXCEPT ![t] = y]
          /\ staleHashed' = [staleHashed EXCEPT ![t] = k]
      BY <2>4 DEF HashRound, shared, config
    <3>2. /\ y % lanes = 0 /\ x % pollPeriod \in Nat /\ y % pollPeriod < pollPeriod
          /\ IF y % pollPeriod = 0
             THEN (x % pollPeriod) + lanes <= pollPeriod \/ (pollPeriod = 1 /\ x % pollPeriod = 0)
             ELSE y % pollPeriod = (x % pollPeriod) + lanes
      <4>1. x \in Nat /\ x % lanes = 0
        BY <2>0 DEF StaleInv, Nonces
      <4>2. NonceValues \in Nat \ {0}
        BY SpaceFacts
      <4>3. y = (x + lanes) % NonceValues /\ x + lanes \in Nat
        BY <2>0, <4>1
      <4> HIDE DEF x, y
      <4>4. y \in Nat
        BY <4>3, SpaceFacts DEF Nonces
      <4>5. y % pollPeriod \in 0 .. pollPeriod - 1
        BY <2>0, <4>4, Division
      <4>6. ReachesPoll(x, y, lanes, pollPeriod)
        <5>1. /\ NonceValues \in Nat \ {0} /\ pollPeriod \in Nat \ {0} /\ lanes \in {1, 2}
              /\ NonceValues % pollPeriod = 0 /\ NonceValues % lanes = 0
              /\ pollPeriod % lanes = 0 \/ pollPeriod = 1
              /\ x \in Nat /\ x % lanes = 0
          BY <2>0, <4>1, <4>2
        <5>2. ReachesPoll(x, (x + lanes) % NonceValues, lanes, pollPeriod)
          BY <5>1, NextNonce, Zenon
        <5>3. QED
          BY <4>3, <5>2
      <4>7. QED
        BY <2>0, <4>5, <4>6 DEF ReachesPoll
    <3>3. staleHashed[t] \in Nat /\ staleHashed[t] <= x % pollPeriod
      BY <2>0, <3>1 DEF StaleInv
    <3>4. k \in Nat /\ k <= (x % pollPeriod) + lanes
      BY <2>0, <3>2, <3>3
    <3>5. k > 0 => epoch[t] < jobEpoch
      <4>1. epoch[t] <= jobEpoch /\ epoch[t] \in Nat
        BY <2>0 DEF StaleInv
      <4>2. QED
        BY <2>0, <4>1
    <3> HIDE DEF x, y, k
    <3>6. k <= IF pollPeriod > lanes THEN pollPeriod ELSE lanes
      BY <2>0, <3>2, <3>4 DEF StaleWorkBounded
    <3>7. y % pollPeriod # 0 => k <= y % pollPeriod
      BY <2>0, <3>2, <3>4
    <3>8. /\ pc'[t] = "poll" /\ nonce'[t] = y /\ staleHashed'[t] = k
          /\ \A u \in Tids : u # t => /\ pc'[u] = pc[u] /\ nonce'[u] = nonce[u]
                                      /\ staleHashed'[u] = staleHashed[u]
      BY <2>0, <3>1
    <3>9. StaleWorkBounded'
      BY <3>1, <3>6, <3>8 DEF StaleWorkBounded
    <3>10. StaleInv'
      BY <2>0, <3>1, <3>2, <3>5, <3>7, <3>8 DEF StaleInv
    <3>11. QED
      BY <3>9, <3>10
  <2>5. ASSUME NEW t \in Tids, Finish(t) PROVE StaleInv' /\ StaleWorkBounded'
    <3>1. /\ UNCHANGED <<lanes, pollPeriod, jobEpoch, epoch, nonce, staleHashed>>
          /\ pc' = [pc EXCEPT ![t] = "done"]
      BY <2>5 DEF Finish, shared, config, history
    <3>2. pc'[t] = "done" /\ \A u \in Tids : u # t => pc'[u] = pc[u]
      BY <2>0, <3>1
    <3>3. QED
      BY <2>0, <3>1, <3>2 DEF StaleInv, StaleWorkBounded
  <2>6. CASE NewJob
    <3>1. UNCHANGED <<lanes, pollPeriod, epoch, nonce, staleHashed, pc>> /\ jobEpoch' = jobEpoch + 1
      BY <2>6 DEF NewJob, config, history
    <3>2. \A t \in Tids : epoch[t] \in Nat /\ epoch[t] <= jobEpoch
      BY <2>0 DEF StaleInv
    <3>3. \A t \in Tids : epoch[t] < jobEpoch'
      BY <2>0, <3>1, <3>2
    <3>4. \A t \in Tids : epoch[t] <= jobEpoch'
      BY <2>0, <3>1, <3>2
    <3>5. StaleWorkBounded'
      BY <3>1 DEF StaleWorkBounded
    <3>6. UNCHANGED <<lanes, pollPeriod, epoch, nonce, staleHashed, pc>>
      BY <3>1
    <3>7. StaleInv'
      BY <3>3, <3>4, <3>6 DEF StaleInv
    <3>8. QED
      BY <3>5, <3>7
  <2>7. CASE Signal \/ UNCHANGED vars
    BY <2>7 DEF Signal, vars, shared, config, history, StaleInv, StaleWorkBounded
  <2>8. QED
    BY <2>1, <2>2, <2>3, <2>4, <2>5, <2>6, <2>7 DEF Next
<1>3. Bounded => StaleWorkBounded
  OBVIOUS
<1> HIDE DEF Bounded
<1>4. QED
  BY <1>1, <1>2, <1>3, Typed, PTL DEF Spec

(* The nonces of a round follow those before it, and are new as long as the *)
(* worker has not gone round the whole space.                               *)
IsNew(first, b, i) ==
  /\ (((first + b) % NonceValues) + i) % NonceValues = (first + (b + i)) % NonceValues
  /\ \A j \in 1 .. b : (first + j) % NonceValues # (first + (b + i)) % NonceValues

LEMMA NewNonces ==
  ASSUME NEW first \in Nat, NEW b \in Nat, NEW i \in Nat \ {0},
         b + i <= NonceValues
  PROVE  IsNew(first, b, i)
<1>0. NonceValues \in Nat \ {0}
  BY SpaceFacts
<1>1. (((first + b) % NonceValues) + i) % NonceValues = (first + (b + i)) % NonceValues
  <2> DEFINE a == first + b
  <2>1. a \in Nat /\ a + i = first + (b + i)
    OBVIOUS
  <2> HIDE DEF a
  <2>2. ((a % NonceValues) + i) % NonceValues = (a + i) % NonceValues
    BY <1>0, <2>1, RemainderOfSum
  <2>3. QED
    BY <2>1, <2>2 DEF a
<1>2. ASSUME NEW j \in 1 .. b
      PROVE  (first + j) % NonceValues # (first + (b + i)) % NonceValues
  <2> DEFINE a == first + j
             d == (b + i) - j
  <2>1. a \in Nat /\ d \in 1 .. NonceValues - 1 /\ a + d = first + (b + i)
    BY <1>0
  <2> HIDE DEF a, d
  <2>2. (a + d) % NonceValues # a % NonceValues
    BY <1>0, <2>1, RemaindersDiffer
  <2>3. QED
    BY <2>1, <2>2 DEF a
<1>3. QED
  BY <1>1, <1>2 DEF IsNew

LEMMA BytesDiffer ==
  ASSUME Threads <= TidValues, NEW t \in Tids, NEW u \in Tids, t # u
  PROVE  ThreadByte(t) # ThreadByte(u)
<1>1. ASSUME NEW k \in Tids PROVE ThreadByte(k) = k
  <2>1. TidValues \in Nat \ {0} /\ k \in 0 .. TidValues - 1
    BY SpaceAssumption DEF Tids
  <2>2. (0 * TidValues + k) % TidValues = k
    BY <2>1, RemainderOf
  <2>3. 0 * TidValues + k = k
    BY <2>1
  <2>4. QED
    BY <2>2, <2>3 DEF ThreadByte
<1>2. QED
  BY <1>1

LEMMA WorkOfRound ==
  ASSUME TypeOK, WorkInv, NEW t \in Tids, HashRound(t),
         \A l \in LaneChoices : l * MaxRounds <= NonceValues
  PROVE  /\ Behind(t) \in Nat /\ lanes \in {1, 2} /\ Behind(t) + lanes <= NonceValues
         /\ rounds'[t] <= MaxRounds /\ rounds'[t] * lanes = Behind(t) + lanes
<1>1. rounds[t] \in Nat /\ lanes \in {1, 2} /\ rounds[t] < MaxRounds /\ MaxRounds \in Nat
  BY LaneFacts, LoopBounds DEF TypeOK, HashRound
<1>2. lanes * MaxRounds <= NonceValues /\ NonceValues \in Nat
  BY SpaceFacts DEF TypeOK
<1>3. rounds'[t] = rounds[t] + 1
  BY DEF TypeOK, HashRound
<1> DEFINE r == rounds[t]
           b == Behind(t)
<1>4. b = r * lanes /\ r \in Nat /\ r < MaxRounds /\ r + 1 <= MaxRounds
  BY <1>1 DEF Behind
<1> HIDE DEF r
<1>5. r * lanes \in Nat /\ (r + 1) * lanes = r * lanes + lanes
  BY <1>1, <1>4
<1>6. r * lanes + lanes <= lanes * MaxRounds
  <2>1. CASE lanes = 1
    BY <1>1, <1>4, <2>1
  <2>2. CASE lanes = 2
    BY <1>1, <1>4, <2>2
  <2>3. QED
    BY <1>1, <2>1, <2>2
<1>7. lanes * MaxRounds \in Nat
  BY <1>1
<1>8. r * lanes + lanes <= NonceValues
  <2> DEFINE x == r * lanes
             y == lanes * MaxRounds
  <2> HIDE DEF x, y
  <2>1. x \in Nat /\ y \in Nat /\ lanes \in Nat /\ x + lanes <= y /\ y <= NonceValues
    BY <1>1, <1>2, <1>5, <1>6, <1>7 DEF x, y
  <2>2. QED
    BY <1>2, <2>1 DEF x
<1>9. rounds'[t] = r + 1 /\ rounds'[t] <= MaxRounds
  BY <1>3, <1>4 DEF r
<1>10. QED
  BY <1>1, <1>4, <1>5, <1>8, <1>9

(* What one round does to the record of the work.                           *)
LEMMA RoundKeepsWork ==
  ASSUME TypeOK, WorkInv, NoWorkTwice, NEW t \in Tids, HashRound(t),
         Threads <= TidValues, \A l \in LaneChoices : l * MaxRounds <= NonceValues
  PROVE  WorkInv' /\ NoWorkTwice'
<1> DEFINE first == FirstNonce(t)
           b == Behind(t)
           byte == ThreadByte(t)
           new == {<<epoch[t], v, byte>> : v \in RoundNonces(t)}
<1>1. /\ UNCHANGED <<lanes, jobEpoch, epoch>>
      /\ pc[t] = "hash" /\ pc' = [pc EXCEPT ![t] = "poll"]
      /\ nonce' = [nonce EXCEPT ![t] = (@ + lanes) % NonceValues]
      /\ rounds' = [rounds EXCEPT ![t] = @ + 1]
      /\ repeated' = (repeated \/ tried \cap new # {})
      /\ tried' = tried \cup new
  BY DEF HashRound, shared, config
<1>2. /\ first \in Nat /\ byte \in Nat /\ epoch[t] \in Nat
      /\ pc \in [Tids -> Pcs] /\ epoch \in [Tids -> Nat] /\ jobEpoch \in Nat
      /\ nonce \in [Tids -> Nonces] /\ rounds \in [Tids -> Nat]
  BY SpaceFacts DEF TypeOK, Nonces
<1>3. /\ b \in Nat /\ lanes \in {1, 2} /\ b + lanes <= NonceValues
      /\ rounds'[t] <= MaxRounds /\ rounds'[t] * lanes = b + lanes
  BY WorkOfRound
<1>4. nonce[t] = (first + b) % NonceValues
  BY <1>1 DEF WorkInv
<1> HIDE DEF first, b, byte
<1>5. ASSUME NEW i \in 1 .. lanes
      PROVE  /\ (nonce[t] + i) % NonceValues = (first + (b + i)) % NonceValues
             /\ (nonce[t] + i) % NonceValues \in Nonces
             /\ \A j \in 1 .. b : (first + j) % NonceValues # (first + (b + i)) % NonceValues
  <2>1. i \in Nat \ {0} /\ b + i <= NonceValues
    <3>1. NonceValues \in Nat
      BY SpaceFacts
    <3>2. QED
      BY <1>3, <3>1
  <2>2. /\ (((first + b) % NonceValues) + i) % NonceValues = (first + (b + i)) % NonceValues
        /\ \A j \in 1 .. b : (first + j) % NonceValues # (first + (b + i)) % NonceValues
    <3>1. IsNew(first, b, i)
      BY <1>2, <1>3, <2>1, NewNonces
    <3>2. QED
      BY <3>1 DEF IsNew
  <2>3. nonce[t] + i \in Nat
    BY <1>2, <2>1 DEF Nonces
  <2>4. (nonce[t] + i) % NonceValues \in Nonces
    BY <2>3, SpaceFacts
  <2>5. QED
    BY <1>4, <2>2, <2>4
<1>6. ASSUME NEW w \in new
      PROVE  /\ w \in Nat \X Nonces \X Nat /\ w[1] = epoch[t] /\ w[3] = byte
             /\ \E i \in 1 .. lanes : /\ w[2] = (first + (b + i)) % NonceValues
                                      /\ \A j \in 1 .. b : w[2] # (first + j) % NonceValues
  <2>1. PICK i \in 1 .. lanes : w = <<epoch[t], (nonce[t] + i) % NonceValues, byte>>
    BY DEF RoundNonces
  <2> DEFINE v == (nonce[t] + i) % NonceValues
             z == (first + (b + i)) % NonceValues
  <2>2. v = z /\ v \in Nonces /\ \A j \in 1 .. b : (first + j) % NonceValues # z
    BY <1>5
  <2> HIDE DEF v, z
  <2>3. w = <<epoch[t], v, byte>>
    BY <2>1 DEF v
  <2>4. w[2] = z /\ \A j \in 1 .. b : w[2] # (first + j) % NonceValues
    BY <2>2, <2>3
  <2>5. QED
    BY <1>2, <2>2, <2>3, <2>4 DEF z
<1> HIDE DEF new
<1>7. ASSUME NEW w \in tried, w \in new PROVE FALSE
  <2>1. w[1] = epoch[t] /\ w[3] = byte /\ \A j \in 1 .. b : w[2] # (first + j) % NonceValues
    BY <1>6, <1>7
  <2>2. TriedBy(t, w)
    BY <2>1 DEF WorkInv, byte
  <2>3. ~(w[1] < epoch[t])
    BY <1>2, <2>1
  <2>4. QED
    BY <2>1, <2>2, <2>3 DEF TriedBy, first, b
<1>8. NoWorkTwice'
  BY <1>1, <1>7 DEF NoWorkTwice
<1>9. /\ pc'[t] = "poll" /\ nonce'[t] = (nonce[t] + lanes) % NonceValues
      /\ \A u \in Tids : u # t => /\ pc'[u] = pc[u] /\ nonce'[u] = nonce[u]
                                  /\ rounds'[u] = rounds[u]
  BY <1>1, <1>2
<1>10. nonce'[t] = (first + (b + lanes)) % NonceValues
  BY <1>3, <1>5, <1>9
<1>11. /\ Behind(t)' = b + lanes
       /\ \A u \in Tids : u # t => Behind(u)' = Behind(u)
  BY <1>1, <1>3, <1>9 DEF Behind
<1>12. ASSUME NEW u \in Tids, NEW w \in tried, w[3] = ThreadByte(u), u # t
       PROVE  TriedBy(u, w)'
  <2>1. TriedBy(u, w)
    BY <1>12 DEF WorkInv
  <2>2. Behind(u)' = Behind(u)
    BY <1>11, <1>12
  <2>3. QED
    BY <1>1, <2>1, <2>2 DEF TriedBy, FirstNonce
<1>13. ASSUME NEW w \in tried, w[3] = byte PROVE TriedBy(t, w)'
  <2>1. TriedBy(t, w)
    BY <1>13 DEF WorkInv, byte
  <2>2. ASSUME NEW i \in 1 .. b PROVE i \in 1 .. b + lanes
    BY <1>3
  <2>3. QED
    BY <1>1, <1>11, <2>1, <2>2 DEF TriedBy, FirstNonce, b
<1>14. ASSUME NEW u \in Tids, NEW w \in new, w[3] = ThreadByte(u)
       PROVE  TriedBy(u, w)'
  <2>1. u = t
    BY <1>6, <1>14, BytesDiffer DEF byte
  <2>2. PICK i \in 1 .. lanes : w[2] = (first + (b + i)) % NonceValues
    BY <1>6
  <2>3. b + i \in 1 .. b + lanes
    BY <1>3
  <2>4. w[1] = epoch'[t]
    BY <1>1, <1>6
  <2> DEFINE k == b + i
  <2>5. k \in 1 .. Behind(t)' /\ w[2] = (first + k) % NonceValues
    BY <1>11, <2>2, <2>3
  <2> HIDE DEF k
  <2>6. TriedBy(t, w)'
    BY <2>4, <2>5 DEF TriedBy, FirstNonce, first
  <2>7. QED
    BY <2>1, <2>6
<1>15. \A u \in Tids : \A w \in tried' : w[3] = ThreadByte(u) => TriedBy(u, w)'
  BY <1>1, <1>12, <1>13, <1>14 DEF byte
<1>16. tried' \subseteq Nat \X Nonces \X Nat
  BY <1>1, <1>6 DEF WorkInv
<1>17. ASSUME NEW u \in Tids
       PROVE  /\ rounds'[u] <= MaxRounds /\ epoch'[u] <= jobEpoch'
              /\ pc'[u] = "snap" => epoch'[u] < jobEpoch'
              /\ pc'[u] \in {"poll", "count", "hash"}
                   => nonce'[u] = (FirstNonce(u) + Behind(u)') % NonceValues
  <2>1. CASE u = t
    BY <1>1, <1>3, <1>9, <1>10, <1>11, <2>1 DEF WorkInv, first
  <2>2. CASE u # t
    BY <1>1, <1>9, <1>11, <2>2 DEF WorkInv
  <2>3. QED
    BY <2>1, <2>2
<1>18. WorkInv'
  BY <1>15, <1>16, <1>17 DEF WorkInv, FirstNonce, ThreadByte
<1>19. QED
  BY <1>8, <1>18

(* However the workers run into each other's nonces, no two hashes of a job *)
(* are of the same work: provided that the thread-id byte tells the workers *)
(* apart and none goes round the whole nonce space on one job.              *)
THEOREM WorkIsNeverRepeated ==
  ASSUME Threads <= TidValues, \A l \in LaneChoices : l * MaxRounds <= NonceValues
  PROVE  Spec => []NoWorkTwice
<1>1. Init => WorkInv /\ NoWorkTwice
  <2> SUFFICES ASSUME Init PROVE WorkInv /\ NoWorkTwice
    OBVIOUS
  <2>1. \A t \in Tids : rounds[t] = 0 /\ epoch[t] = 0 /\ pc[t] = "snap"
    BY DEF Init
  <2>2. MaxRounds \in Nat /\ jobEpoch = 1 /\ tried = {} /\ repeated = FALSE
    BY LoopBounds DEF Init
  <2>3. QED
    BY <2>1, <2>2 DEF WorkInv, NoWorkTwice
<1>2. TypeOK /\ WorkInv /\ NoWorkTwice /\ [Next]_vars => WorkInv' /\ NoWorkTwice'
  <2> SUFFICES ASSUME TypeOK, WorkInv, NoWorkTwice, [Next]_vars
               PROVE  WorkInv' /\ NoWorkTwice'
    OBVIOUS
  <2>0. /\ lanes \in {1, 2} /\ jobEpoch \in Nat /\ MaxRounds \in Nat
        /\ pc \in [Tids -> Pcs] /\ epoch \in [Tids -> Nat]
        /\ nonce \in [Tids -> Nonces] /\ rounds \in [Tids -> Nat]
        /\ tried \subseteq Nat \X Nonces \X Nat
    BY LaneFacts, LoopBounds DEF TypeOK, WorkInv
  <2>1. ASSUME NEW t \in Tids, Snapshot(t) PROVE WorkInv' /\ NoWorkTwice'
    <3>1. /\ UNCHANGED <<lanes, jobEpoch, tried, repeated>>
          /\ pc[t] = "snap" /\ pc' = [pc EXCEPT ![t] = "poll"]
          /\ epoch' = [epoch EXCEPT ![t] = jobEpoch]
          /\ nonce' = [nonce EXCEPT ![t] = FirstNonce(t)]
          /\ rounds' = [rounds EXCEPT ![t] = 0]
      BY <2>1 DEF Snapshot, shared, config
    <3>2. /\ pc'[t] = "poll" /\ epoch'[t] = jobEpoch /\ nonce'[t] = FirstNonce(t)
          /\ rounds'[t] = 0
          /\ \A u \in Tids : u # t => /\ pc'[u] = pc[u] /\ nonce'[u] = nonce[u]
                                      /\ rounds'[u] = rounds[u] /\ epoch'[u] = epoch[u]
      BY <2>0, <3>1
    <3>3. Behind(t)' = 0 /\ \A u \in Tids : u # t => Behind(u)' = Behind(u)
      BY <2>0, <3>1, <3>2 DEF Behind
    <3>4. (FirstNonce(t) + 0) % NonceValues = FirstNonce(t)
      <4> DEFINE f == FirstNonce(t)
      <4>1. NonceValues \in Nat \ {0} /\ f \in 0 .. NonceValues - 1
        BY SpaceFacts DEF Nonces
      <4> HIDE DEF f
      <4>2. (0 * NonceValues + f) % NonceValues = f /\ 0 * NonceValues + f = f + 0
        BY <4>1, RemainderOf
      <4>3. QED
        BY <4>2 DEF f
    <3>5. ASSUME NEW u \in Tids, NEW w \in tried, w[3] = ThreadByte(u) PROVE TriedBy(u, w)'
      <4>1. TriedBy(u, w)
        BY <3>5 DEF WorkInv
      <4>2. CASE u = t
        <5>1. epoch[t] < jobEpoch /\ epoch[t] \in Nat /\ w[1] \in Nat
          BY <2>0, <3>1 DEF WorkInv
        <5>2. w[1] < jobEpoch
          BY <2>0, <4>1, <4>2, <5>1 DEF TriedBy
        <5>3. QED
          BY <3>2, <4>2, <5>2 DEF TriedBy
      <4>3. CASE u # t
        <5>1. Behind(u)' = Behind(u) /\ epoch'[u] = epoch[u]
          BY <3>2, <3>3, <4>3
        <5>2. QED
          BY <4>1, <5>1 DEF TriedBy, FirstNonce
      <4>4. QED
        BY <4>2, <4>3
    <3>6. ASSUME NEW u \in Tids
          PROVE  /\ rounds'[u] <= MaxRounds /\ epoch'[u] <= jobEpoch'
                 /\ pc'[u] = "snap" => epoch'[u] < jobEpoch'
                 /\ pc'[u] \in {"poll", "count", "hash"}
                      => nonce'[u] = (FirstNonce(u) + Behind(u)') % NonceValues
      <4>1. CASE u = t
        BY <2>0, <3>1, <3>2, <3>3, <3>4, <4>1 DEF WorkInv
      <4>2. CASE u # t
        BY <3>1, <3>2, <3>3, <4>2 DEF WorkInv
      <4>3. QED
        BY <4>1, <4>2
    <3>7. WorkInv'
      BY <2>0, <3>1, <3>5, <3>6 DEF WorkInv, FirstNonce, ThreadByte
    <3>8. QED
      BY <3>1, <3>7 DEF NoWorkTwice
  <2>2. ASSUME NEW t \in Tids, HashRound(t) PROVE WorkInv' /\ NoWorkTwice'
    BY <2>2, RoundKeepsWork
  <2>3. ASSUME UNCHANGED <<lanes, tried, repeated, epoch, nonce, rounds>>, jobEpoch' \in Nat,
               jobEpoch <= jobEpoch',
               \A u \in Tids : \/ pc'[u] = pc[u]
                               \/ pc'[u] = "snap" /\ epoch[u] < jobEpoch
                               \/ pc'[u] = "done"
                               \/ pc[u] \in {"poll", "count"} /\ pc'[u] \in {"count", "hash"}
        PROVE  WorkInv' /\ NoWorkTwice'
    <3>1. ASSUME NEW u \in Tids
          PROVE  /\ rounds'[u] <= MaxRounds /\ epoch'[u] <= jobEpoch'
                 /\ pc'[u] = "snap" => epoch'[u] < jobEpoch'
                 /\ pc'[u] \in {"poll", "count", "hash"}
                      => nonce'[u] = (FirstNonce(u) + Behind(u)') % NonceValues
      <4>1. Behind(u)' = Behind(u) /\ epoch'[u] = epoch[u] /\ epoch[u] \in Nat
        BY <2>0, <2>3 DEF Behind
      <4>2. epoch[u] <= jobEpoch /\ (pc[u] = "snap" => epoch[u] < jobEpoch)
        BY DEF WorkInv
      <4>3. epoch'[u] <= jobEpoch' /\ (pc'[u] = "snap" => epoch'[u] < jobEpoch')
        BY <2>0, <2>3, <4>1, <4>2
      <4>4. pc'[u] \in {"poll", "count", "hash"}
              => nonce'[u] = (FirstNonce(u) + Behind(u)') % NonceValues
        BY <2>0, <2>3, <4>1 DEF WorkInv
      <4>5. QED
        BY <2>3, <4>3, <4>4 DEF WorkInv
    <3>2. ASSUME NEW u \in Tids, NEW w \in tried, w[3] = ThreadByte(u) PROVE TriedBy(u, w)'
      <4>1. TriedBy(u, w)
        BY <3>2 DEF WorkInv
      <4>2. Behind(u)' = Behind(u) /\ epoch'[u] = epoch[u]
        BY <2>3 DEF Behind
      <4>3. QED
        BY <4>1, <4>2 DEF TriedBy, FirstNonce
    <3>3. WorkInv'
      BY <2>0, <2>3, <3>1, <3>2 DEF WorkInv, FirstNonce, ThreadByte
    <3>4. QED
      BY <2>3, <3>3 DEF NoWorkTwice
  <2>4. ASSUME NEW t \in Tids, Poll(t) \/ CountStale(t) \/ Finish(t)
        PROVE  WorkInv' /\ NoWorkTwice'
    <3>1. UNCHANGED <<lanes, tried, repeated, epoch, nonce, rounds, jobEpoch>>
      BY <2>4 DEF Poll, CountStale, Finish, shared, config, history
    <3>2. epoch[t] <= jobEpoch /\ epoch[t] \in Nat
      BY <2>0 DEF WorkInv
    <3>3. \A u \in Tids : \/ pc'[u] = pc[u]
                          \/ pc'[u] = "snap" /\ epoch[u] < jobEpoch
                          \/ pc'[u] = "done"
                          \/ pc[u] \in {"poll", "count"} /\ pc'[u] \in {"count", "hash"}
      BY <2>0, <2>4, <3>2 DEF Poll, CountStale, Finish
    <3>4. QED
      BY <2>0, <2>3, <3>1, <3>3
  <2>5. CASE NewJob
    <3>1. UNCHANGED <<lanes, tried, repeated, epoch, nonce, rounds, pc>> /\ jobEpoch' = jobEpoch + 1
      BY <2>5 DEF NewJob, config, history
    <3>2. QED
      BY <2>0, <2>3, <3>1
  <2>6. CASE Signal \/ UNCHANGED vars
    <3>1. UNCHANGED <<lanes, tried, repeated, epoch, nonce, rounds, pc, jobEpoch>>
      BY <2>6 DEF Signal, vars, shared, config, history
    <3>2. QED
      BY <2>0, <2>3, <3>1
  <2>7. QED
    BY <2>1, <2>2, <2>4, <2>5, <2>6 DEF Next
<1>3. QED
  BY <1>1, <1>2, Typed, PTL DEF Spec
=============================================================================
