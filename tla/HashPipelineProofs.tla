------------------------- MODULE HashPipelineProofs -------------------------
(***************************************************************************)
(* The template never runs out of entries, its runs begin at the chunks    *)
(* that were encrypted, and every way through the hash ends in the digest of the   *)
(* input it was called with: SHA-256 of the suffix array, whichever        *)
(* implementation hashes it and in how many pieces.  What Sha256 computes  *)
(* is shown of messages over any set of words.                             *)
(***************************************************************************)
EXTENDS Digests, Induction, SequenceTheorems

(* A marker at most for every chunk behind the first, and one at the end.   *)
FewerMarkers ==
  /\ pc \in {"wolf", "flush"} =>
       templateIdx <= tries /\ (tries > 0 => templateIdx <= tries - 1)
  /\ pc = "wolf" => tries < MaxTries
  /\ pc = "flush" => tries > 0

LEMMA MarkerType ==
  ASSUME NEW first \in Nat, NEW count \in Nat
  PROVE  Marker(first, count) \in [start : Nat, length : Nat]
<1>1. count % RunLimit \in Nat
  BY TemplateAssumption
<1>2. (IF count >= RunLimit /\ first % 2 = 0 THEN first + 1 ELSE first) \in Nat
  OBVIOUS
<1> QED
  BY <1>1, <1>2 DEF Marker

LEMMA ErasedType == Erased \in [0 .. Slots - 1 -> [start : Nat, length : Nat]]
  BY DEF Erased, Unused

LEMMA Bounds ==
  /\ MaxTries \in Nat /\ MaxTries > 0 /\ MaxTries <= Slots /\ Slots \in Nat
  /\ RunLimit \in Nat /\ 2 * RunLimit \in Nat /\ 2 * RunLimit > 1
  BY TriesAssumption, TemplateAssumption, SlotsAssumption

(* No hash writes a marker behind the end of astroTemplate.                 *)
THEOREM TemplateInBounds == Spec => [](TypeOK /\ FewerMarkers)
<1> USE Bounds
<1>1. ASSUME Init  PROVE TypeOK /\ FewerMarkers
  <2>1. template \in [0 .. Slots - 1 -> [start : Nat, length : Nat]]
    BY <1>1, ErasedType DEF Init
  <2>2. /\ tries \in 0 .. MaxTries /\ chunkCount \in 0 .. 2 * RunLimit - 1
        /\ firstChunk \in 0 .. MaxTries /\ templateIdx \in 0 .. Slots
        /\ groups \in 0 .. MaxTries
    BY <1>1 DEF Init
  <2>3. descReady \in BOOLEAN /\ spilled \in BOOLEAN
    BY <1>1, Zenon DEF Init
  <2> QED
    BY <1>1, <2>1, <2>2, <2>3 DEF Init, TypeOK, FewerMarkers, Lanes, Contents, AllJunk
<1>2. TypeOK /\ FewerMarkers /\ [Next]_vars => (TypeOK /\ FewerMarkers)'
  <2> SUFFICES ASSUME TypeOK, FewerMarkers, [Next]_vars
               PROVE  (TypeOK /\ FewerMarkers)'
    OBVIOUS
  <2>0. firstChunk \in Nat /\ chunkCount \in Nat
    BY DEF TypeOK
  <2> USE DEF TypeOK, FewerMarkers, Lanes, Contents, call, wolf, buffers
  <2>1. ASSUME NEW ls \in {{"a"}, Lanes}, Call(ls)
        PROVE  (TypeOK /\ FewerMarkers)'
    <3>1. template' \in [0 .. Slots - 1 -> [start : Nat, length : Nat]]
      BY <2>1, ErasedType DEF Call, StartWolf
    <3>2. /\ tries' \in 0 .. MaxTries /\ chunkCount' \in 0 .. 2 * RunLimit - 1
          /\ firstChunk' \in 0 .. MaxTries /\ templateIdx' \in 0 .. Slots
          /\ groups' \in 0 .. MaxTries
      BY <2>1 DEF Call, StartWolf
    <3>3. descReady' \in BOOLEAN /\ spilled' \in BOOLEAN
      BY <2>1, Zenon DEF Call, StartWolf
    <3> QED
      BY <2>1, <3>1, <3>2, <3>3 DEF Call, StartWolf, AllJunk
  <2>2. CASE Chunk
    <3>1. /\ tries \in Nat /\ tries' = tries + 1 /\ tries' \in 1 .. MaxTries
          /\ templateIdx \in Nat /\ templateIdx <= tries
          /\ tries > 0 => templateIdx <= tries - 1
      BY <2>2 DEF Chunk
    <3>2. CASE Encrypt(tries')
      <4>1. Marker(firstChunk, chunkCount) \in [start : Nat, length : Nat]
        BY <2>0, MarkerType
      <4>2. template' \in [0 .. Slots - 1 -> [start : Nat, length : Nat]]
        BY <3>2, <4>1 DEF Encrypt
      <4>3. templateIdx' \in Nat /\ templateIdx' <= tries' - 1
        <5>1. CASE tries = 0
          BY <3>1, <3>2, <5>1 DEF Encrypt, SlotsTaken
        <5>2. CASE tries > 0
          BY <3>1, <3>2, <5>2 DEF Encrypt, SlotsTaken
        <5> QED
          BY <3>1, <5>1, <5>2
      <4>4. firstChunk' \in 0 .. MaxTries
        BY <3>1, <3>2 DEF Encrypt, FirstOfRun
      <4>5. chunkCount' \in 0 .. 2 * RunLimit - 1
        BY <3>2 DEF Encrypt
      <4>6. encrypted' \subseteq 1 .. MaxTries
        BY <3>1, <3>2 DEF Encrypt
      <4>7. spilled' \in BOOLEAN
        BY <3>2, Zenon DEF Encrypt
      <4>8. templateIdx' \in 0 .. Slots /\ templateIdx' < Slots
        BY <3>1, <4>3
      <4>9. FewerMarkers'
        BY <2>2, <3>1, <4>3 DEF Chunk
      <4>10. tries' \in 0 .. MaxTries /\ pc' \in {"wolf", "flush"}
        BY <2>2, <3>1 DEF Chunk
      <4>11. UNCHANGED <<call, lane, groups, flags, buffers, descReady, ready>>
        BY <2>2 DEF Chunk
      <4>12. TypeOK'
        BY <4>2, <4>4, <4>5, <4>6, <4>7, <4>8, <4>10, <4>11
      <4> QED
        BY <4>9, <4>12
    <3>3. CASE NoEncrypt
      <4>1. chunkCount' \in 0 .. 2 * RunLimit - 1
        <5>1. chunkCount + 1 \in Nat /\ chunkCount' = (chunkCount + 1) % (2 * RunLimit)
          BY <2>0, <3>3 DEF NoEncrypt, NextCount
        <5> QED
          BY <5>1
      <4>2. spilled' \in BOOLEAN
        BY <3>3 DEF NoEncrypt
      <4> QED
        BY <2>2, <3>1, <3>3, <4>1, <4>2 DEF Chunk, NoEncrypt
    <3> QED
      BY <2>2, <3>2, <3>3 DEF Chunk
  <2>3. CASE Flush
    <3>1. Marker(firstChunk, chunkCount) \in [start : Nat, length : Nat]
      BY <2>0, MarkerType
    <3>2. template' \in [0 .. Slots - 1 -> [start : Nat, length : Nat]]
      BY <2>3, <3>1 DEF Flush
    <3>3. templateIdx' \in 0 .. Slots
      BY <2>3 DEF Flush
    <3> QED
      BY <2>3, <3>2, <3>3 DEF Flush
  <2>4. CASE BuildFlags
    <3>1. flags' \subseteq 0 .. MaxTries
      BY <2>4, Bounds DEF BuildFlags, Flags
    <3>2. pc' \in {"stream", "build"}
      BY <2>4 DEF BuildFlags
    <3> QED
      BY <2>4, <3>1, <3>2 DEF BuildFlags
  <2>5. CASE NoDescriptor
    BY <2>5 DEF NoDescriptor
  <2>6. CASE Stream
    BY <2>6 DEF Stream, AfterFailedStream
  <2>7. CASE Build
    BY <2>7 DEF Build
  <2>8. CASE BuildDefault
    BY <2>8 DEF BuildDefault
  <2>9. CASE Verify
    BY <2>9 DEF Verify
  <2>10. CASE LaneDone
    <3>1. CASE lane = "a" /\ "b" \in lanes
      <4>1. template' \in [0 .. Slots - 1 -> [start : Nat, length : Nat]]
        BY <2>10, <3>1, ErasedType DEF LaneDone, StartWolf
      <4>2. /\ tries' \in 0 .. MaxTries /\ chunkCount' \in 0 .. 2 * RunLimit - 1
            /\ firstChunk' \in 0 .. MaxTries /\ templateIdx' \in 0 .. Slots
            /\ groups' \in 0 .. MaxTries
        BY <2>10, <3>1 DEF LaneDone, StartWolf
      <4>3. descReady' \in BOOLEAN /\ spilled' \in BOOLEAN
        BY <2>10, <3>1, Zenon DEF LaneDone, StartWolf
      <4>4. lane' \in lanes' /\ ready' \subseteq lanes'
        BY <2>10, <3>1 DEF LaneDone, StartWolf
      <4> QED
        BY <2>10, <3>1, <4>1, <4>2, <4>3, <4>4 DEF LaneDone, StartWolf
    <3>2. CASE ~(lane = "a" /\ "b" \in lanes)
      BY <2>10, <3>2 DEF LaneDone
    <3> QED
      BY <3>1, <3>2
  <2>11. CASE Digest
    BY <2>11 DEF Digest
  <2>12. CASE Return
    BY <2>12 DEF Return
  <2>13. CASE UNCHANGED vars
    BY <2>13 DEF vars
  <2> QED
    BY <2>1, <2>2, <2>3, <2>4, <2>5, <2>6, <2>7, <2>8, <2>9, <2>10, <2>11,
       <2>12, <2>13 DEF Next
<1> QED
  BY <1>1, <1>2, PTL DEF Spec
-----------------------------------------------------------------------------
(* What each stage relies on of those before it.  An array that waits for   *)
(* its SHA-256 is not touched while the other lane is prepared; only a call *)
(* of one lane streams, and then nothing waits.                             *)
Preparing == {"wolf", "flush", "sa", "stream", "build", "default", "verify",
              "done", "streamed"}
Waiting ==
  /\ \A l \in ready : sa[l] = l
  /\ pc \in Preparing => ready = IF lane = "a" THEN {} ELSE {"a"}
  /\ pc \in {"stream", "streamed"} => lanes = {"a"}
  /\ pc = "done" => sa[lane] = lane
  /\ pc = "streamed" => output[lane] = lane
  /\ pc = "digest" => \A l \in lanes : l \in ready \/ output[l] = l
  /\ pc = "return" => \A l \in lanes : output[l] = l

LEMMA WaitingHolds == Spec => []Waiting
<1>1. Init => Waiting
  BY DEF Init, Waiting, Preparing
<1>2. TypeOK /\ Waiting /\ [Next]_vars => Waiting'
  <2> SUFFICES ASSUME TypeOK, Waiting, [Next]_vars
               PROVE  Waiting'
    OBVIOUS
  <2> DEFINE Lane == lane \in Lanes /\ (lanes = {"a"} => lane = "a")
  <2>0. /\ Lane /\ sa \in [Lanes -> Contents] /\ output \in [Lanes -> Contents]
        /\ lanes \in {{"a"}, Lanes} /\ ready \subseteq Lanes /\ "a" # "b"
    BY DEF TypeOK, Lanes
  <2> USE DEF Waiting, Preparing, Lanes, call, wolf, buffers
  <2>1. ASSUME NEW ls \in {{"a"}, Lanes}, Call(ls)
        PROVE  Waiting'
    BY <2>1 DEF Call, StartWolf
  <2>2. CASE Chunk
    BY <2>2 DEF Chunk
  <2>3. CASE Flush
    BY <2>3 DEF Flush
  <2>4. CASE BuildFlags
    BY <2>4 DEF BuildFlags, CanStream
  <2>5. CASE NoDescriptor
    BY <2>5 DEF NoDescriptor
  <2>6. CASE Stream
    BY <2>0, <2>6 DEF Stream, AfterFailedStream
  <2>7. CASE Build
    BY <2>0, <2>7 DEF Build
  <2>8. CASE BuildDefault
    BY <2>0, <2>8 DEF BuildDefault
  <2>9. CASE Verify
    BY <2>0, <2>9 DEF Verify, Replaces
  <2>10. CASE LaneDone
    BY <2>0, <2>10 DEF LaneDone, StartWolf
  <2>11. CASE Digest
    BY <2>0, <2>11 DEF Digest
  <2>12. CASE Return
    BY <2>12 DEF Return
  <2>13. CASE UNCHANGED vars
    BY <2>13 DEF vars
  <2> QED
    BY <2>1, <2>2, <2>3, <2>4, <2>5, <2>6, <2>7, <2>8, <2>9, <2>10, <2>11,
       <2>12, <2>13 DEF Next
<1> QED
  BY <1>1, <1>2, TemplateInBounds, PTL DEF Spec

(* dluna_hash() and dluna_hash_x2() return the digest of their own input     *)
(* under every setting of the switches, however the descriptors fail.       *)
THEOREM HashIsRight == Spec => []DigestOfItsInput
<1>1. Waiting => DigestOfItsInput
  BY DEF Waiting, DigestOfItsInput
<1> QED
  BY <1>1, WaitingHolds, PTL
-----------------------------------------------------------------------------
(* The runs of a template and the chunks that were encrypted. *)
Markers == [0 .. Slots - 1 -> [start : Nat, length : Nat]]
EndsOf(f, n) ==
  {f[k].start + f[k].length : k \in {i \in 0 .. n - 1 : f[i].length # 0}}
BeginsOf(S) ==
  LET first == Min(S)
      later == {t - 1 : t \in S \ {first}}
  IN CASE S = {} -> {}
       [] 1 \in S -> later
       [] OTHER   -> later \cup {first}

(* A marker ends a run at the entry it is written to, and moves no other.   *)
Written(f, n, m, g) == g[n] = m /\ \A k \in 0 .. n - 1 : g[k] = f[k]
RunEnded(f, n, m, g) ==
  /\ EndsOf(g, n) = EndsOf(f, n)
  /\ EndsOf(g, n + 1) = EndsOf(f, n) \cup {m.start + m.length}

LEMMA MarkerAdded ==
  ASSUME NEW f, NEW g, NEW n \in Nat, NEW m,
         m.length # 0, Written(f, n, m, g)
  PROVE  RunEnded(f, n, m, g)
<1>1. n \in Nat /\ g[n] = m /\ \A k \in 0 .. n - 1 : g[k] = f[k]
  BY DEF Written
<1>2. \A k \in 0 .. (n + 1) - 1 : k = n \/ k \in 0 .. n - 1
  BY <1>1
<1>3. EndsOf(g, n) = EndsOf(f, n)
  BY <1>1 DEF EndsOf
<1>4. EndsOf(g, n + 1) = EndsOf(g, n) \cup {m.start + m.length}
  <2>1. ASSUME NEW e \in EndsOf(g, n + 1) PROVE e \in EndsOf(g, n) \cup {m.start + m.length}
    <3>1. PICK k \in 0 .. (n + 1) - 1 : g[k].length # 0 /\ e = g[k].start + g[k].length
      BY DEF EndsOf
    <3>2. CASE k = n
      BY <1>1, <3>1, <3>2
    <3>3. CASE k # n
      BY <1>2, <3>1, <3>3 DEF EndsOf
    <3>4. QED
      BY <3>2, <3>3
  <2>2. ASSUME NEW e \in EndsOf(g, n) PROVE e \in EndsOf(g, n + 1)
    <3>1. PICK k \in 0 .. n - 1 : g[k].length # 0 /\ e = g[k].start + g[k].length
      BY DEF EndsOf
    <3>2. k \in 0 .. (n + 1) - 1
      BY <1>1
    <3>3. QED
      BY <3>1, <3>2 DEF EndsOf
  <2>3. m.start + m.length \in EndsOf(g, n + 1)
    <3>1. n \in 0 .. (n + 1) - 1
      BY <1>1
    <3>2. QED
      BY <1>1, <3>1 DEF EndsOf
  <2>4. QED
    BY <2>1, <2>2, <2>3
<1>5. QED
  BY <1>3, <1>4 DEF RunEnded

LEMMA BeginsFirst ==
  ASSUME NEW t \in Nat \ {0}
  PROVE  /\ BeginsOf({}) = {}
         /\ BeginsOf({t}) = IF t = 1 THEN {} ELSE {t}
<1>1. Min({t}) = t
  BY DEF Min
<1>2. QED
  BY <1>1 DEF BeginsOf

LEMMA BeginsNext ==
  ASSUME NEW S, S \subseteq Nat \ {0}, S # {}, NEW t \in Nat, \A s \in S : s < t
  PROVE  BeginsOf(S \cup {t}) = BeginsOf(S) \cup {t - 1}
<1> DEFINE U == S \cup {t}
<1>1. PICK x \in S : \A y \in S : x <= y
  <2>1. S \subseteq Nat
    OBVIOUS
  <2>2. QED
    BY <2>1, LeastElement
<1>2. x \in Nat /\ x < t /\ \A y \in U : x <= y
  BY <1>1
<1>3. ASSUME NEW T, T \subseteq Nat, x \in T, \A y \in T : x <= y
      PROVE  Min(T) = x
  <2>1. \A z \in T : (\A y \in T : z <= y) => z = x
    BY <1>2, <1>3
  <2>2. \E z \in T : \A y \in T : z <= y
    BY <1>3
  <2>3. Min(T) \in T /\ \A y \in T : Min(T) <= y
    BY <2>2, Zenon DEF Min
  <2>4. QED
    BY <2>1, <2>3, Zenon
<1>4. Min(S) = x
  BY <1>1, <1>3
<1>5. Min(U) = x
  <2>1. U \subseteq Nat /\ x \in U
    OBVIOUS
  <2> HIDE DEF U
  <2>2. QED
    BY <1>2, <1>3, <2>1
<1>6. t \notin S /\ t # x /\ t # 1
  BY <1>2
<1>7. U \ {x} = (S \ {x}) \cup {t}
  BY <1>6
<1>8. {s - 1 : s \in U \ {x}} = {s - 1 : s \in S \ {x}} \cup {t - 1}
  BY <1>7
<1>9. U # {} /\ (1 \in U <=> 1 \in S)
  BY <1>6
<1> HIDE DEF U
<1>10. CASE 1 \in S
  <2>1. BeginsOf(U) = {s - 1 : s \in U \ {x}}
    BY <1>5, <1>9, <1>10 DEF BeginsOf
  <2>2. BeginsOf(S) = {s - 1 : s \in S \ {x}}
    BY <1>4, <1>10 DEF BeginsOf
  <2>3. QED
    BY <1>8, <2>1, <2>2 DEF U
<1>11. CASE 1 \notin S
  <2>1. BeginsOf(U) = {s - 1 : s \in U \ {x}} \cup {x}
    BY <1>5, <1>9, <1>11 DEF BeginsOf
  <2>2. BeginsOf(S) = {s - 1 : s \in S \ {x}} \cup {x}
    BY <1>4, <1>11 DEF BeginsOf
  <2>3. QED
    BY <1>8, <2>1, <2>2 DEF U
<1>12. QED
  BY <1>10, <1>11

(* As long as no run outgrows its length: the markers written so far end     *)
(* where the runs begin, and the run under way has come to the last chunk,   *)
(* or one further if it is the first and chunk 1 was not encrypted.           *)
Reached == IF encrypted = {} THEN tries + 1 ELSE tries
RunsInv ==
  ~spilled =>
    /\ pc \in {"wolf", "flush"} =>
         /\ chunkCount \in 1 .. RunLimit - 1 /\ encrypted \subseteq 1 .. tries
         /\ RunEnds = RunBegins /\ firstChunk + chunkCount = Reached
    /\ pc \in {"sa", "stream", "build"} =>
         RunEnds \cap 1 .. groups = RunBegins \cap 1 .. groups
    /\ pc \in {"stream", "build"} => flags = {0} \cup (RunEnds \cap 1 .. groups)

LEMMA NoneBegun == BeginsOf({}) = {}
  BY DEF BeginsOf

LEMMA NoneWritten == ASSUME NEW f  PROVE EndsOf(f, 0) = {}
  BY DEF EndsOf

(* A run that fits its length field is written as it is.                    *)
LEMMA MarkerFits ==
  ASSUME NEW first \in Nat, NEW count \in 1 .. RunLimit - 1
  PROVE  /\ Marker(first, count).start = first
         /\ Marker(first, count).length = count /\ count # 0
<1>1. count % RunLimit = count
  BY Bounds
<1>2. ~(count >= RunLimit)
  BY Bounds
<1> QED
  BY <1>1, <1>2 DEF Marker

(* Every flag the descriptors are built from is the first group or a chunk   *)
(* that RC4 encrypted (the first of these one late unless it is chunk 1): the *)
(* template says of the text what the loop did.                               *)
THEOREM RunsFollowEncryption == Spec => []RunsBeginAtEncryptions
<1>0. RunEnds = EndsOf(template, templateIdx) /\ RunBegins = BeginsOf(encrypted)
  BY DEF RunEnds, EndsOf, RunBegins, BeginsOf
<1>1. Init => RunsInv
  BY DEF Init, RunsInv
<1>2. TypeOK /\ FewerMarkers /\ RunsInv /\ [Next]_vars => RunsInv'
  <2> SUFFICES ASSUME TypeOK, FewerMarkers, RunsInv, [Next]_vars, ~spilled'
               PROVE  RunsInv'
    BY DEF RunsInv
  <2> USE DEF call, wolf, buffers
  <2>0. /\ RunEnds' = EndsOf(template', templateIdx')
        /\ RunBegins' = BeginsOf(encrypted')
    BY DEF RunEnds, EndsOf, RunBegins, BeginsOf
  <2>1. ASSUME NEW l, StartWolf(l)
        PROVE  RunsInv'
    <3>1. RunEnds' = {} /\ RunBegins' = {}
      <4>1. templateIdx' = 0 /\ encrypted' = {}
        BY <2>1 DEF StartWolf
      <4> QED
        BY <2>0, <4>1, NoneWritten, NoneBegun
    <3>2. /\ chunkCount' \in 1 .. RunLimit - 1 /\ encrypted' \subseteq 1 .. tries'
          /\ firstChunk' + chunkCount' = Reached'
      BY <2>1, TemplateAssumption DEF StartWolf, Reached
    <3>3. pc' = "wolf"
      BY <2>1 DEF StartWolf
    <3> QED
      BY <3>1, <3>2, <3>3 DEF RunsInv
  <2>2. ASSUME NEW ls \in {{"a"}, Lanes}, Call(ls)
        PROVE  RunsInv'
    BY <2>1, <2>2 DEF Call
  <2>3. CASE Chunk
    <3>1. /\ tries \in Nat /\ firstChunk \in Nat
          /\ templateIdx \in 0 .. Slots - 1 /\ templateIdx <= tries
          /\ template \in Markers
      BY <2>3, Bounds DEF Chunk, TypeOK, FewerMarkers, Markers
    <3>2. /\ pc = "wolf" /\ pc' \in {"wolf", "flush"} /\ tries' = tries + 1 /\ ~spilled
      <4>1. pc = "wolf" /\ pc' \in {"wolf", "flush"} /\ tries' = tries + 1
        BY <2>3 DEF Chunk
      <4>2. Encrypt(tries') \/ NoEncrypt
        BY <2>3 DEF Chunk
      <4>3. ~spilled
        BY <4>2, Zenon DEF Encrypt, NoEncrypt
      <4> QED
        BY <4>1, <4>3
    <3>3. /\ chunkCount \in 1 .. RunLimit - 1 /\ encrypted \subseteq 1 .. tries
          /\ RunEnds = RunBegins /\ firstChunk + chunkCount = Reached
      BY <3>2 DEF RunsInv
    <3> DEFINE t == tries'
               m == Marker(firstChunk, chunkCount)
               n == templateIdx'
    <3>4. t \in Nat \ {0} /\ t = tries + 1
      BY <3>1, <3>2
    <3> HIDE DEF t
    <3>5. CASE Encrypt(t)
      <4>1. /\ m \in [start : Nat, length : Nat] /\ m.length # 0
            /\ m.start + m.length = Reached
        <5>1. chunkCount \in Nat
          BY <3>3, Bounds
        <5>2. m \in [start : Nat, length : Nat]
          BY <3>1, <5>1, MarkerType
        <5>3. m.start = firstChunk /\ m.length = chunkCount /\ chunkCount # 0
          BY <3>1, <3>3, MarkerFits
        <5> QED
          BY <3>3, <5>2, <5>3
      <4>2. /\ template' = [template EXCEPT ![templateIdx] = m]
            /\ n = templateIdx + SlotsTaken(t)
            /\ firstChunk' = t - 1 /\ chunkCount' = 1 /\ encrypted' = encrypted \cup {t}
        BY <3>5 DEF Encrypt, FirstOfRun
      <4> HIDE DEF m, n
      <4>3. /\ EndsOf(template', templateIdx) = EndsOf(template, templateIdx)
            /\ EndsOf(template', templateIdx + 1) =
                 EndsOf(template, templateIdx) \cup {Reached}
        <5>1. /\ templateIdx \in Nat /\ m.length # 0
              /\ Written(template, templateIdx, m, template')
          BY <3>1, <4>1, <4>2 DEF Markers, Written
        <5>2. RunEnded(template, templateIdx, m, template')
          BY <5>1, MarkerAdded, Zenon
        <5> QED
          BY <4>1, <5>2 DEF RunEnded
      <4>4. RunEnds' = RunBegins'
        <5>1. CASE t = 1
          <6>1. n = 0 /\ encrypted = {}
            BY <3>1, <3>3, <3>4, <4>2, <5>1 DEF SlotsTaken
          <6>2. RunEnds' = {}
            BY <2>0, <6>1, NoneWritten DEF n
          <6>3. encrypted' = {1} /\ 1 \in Nat \ {0}
            BY <4>2, <5>1, <6>1
          <6> QED
            BY <2>0, <6>2, <6>3, BeginsFirst
        <5>2. CASE t # 1 /\ encrypted = {}
          <6>1. n = templateIdx + 1 /\ Reached = t
            BY <3>4, <4>2, <5>2 DEF SlotsTaken, Reached
          <6>2. RunEnds' = RunEnds \cup {t}
            BY <1>0, <2>0, <4>3, <6>1 DEF n
          <6>3. RunEnds = {} /\ encrypted' = {t}
            BY <1>0, <3>3, <4>2, <5>2, NoneBegun
          <6> QED
            BY <2>0, <3>4, <5>2, <6>2, <6>3, BeginsFirst
        <5>3. CASE t # 1 /\ encrypted # {}
          <6>1. n = templateIdx + 1 /\ Reached = t - 1
            BY <3>1, <3>4, <4>2, <5>3 DEF SlotsTaken, Reached
          <6>2. RunEnds' = BeginsOf(encrypted) \cup {t - 1}
            BY <1>0, <2>0, <3>3, <4>3, <6>1 DEF n
          <6>3. encrypted \subseteq Nat \ {0} /\ \A s \in encrypted : s < t
            BY <3>1, <3>3, <3>4
          <6> QED
            BY <2>0, <3>4, <4>2, <5>3, <6>2, <6>3, BeginsNext
        <5> QED
          BY <5>1, <5>2, <5>3
      <4>5. encrypted' \subseteq 1 .. t /\ encrypted' # {}
        BY <3>1, <3>3, <3>4, <4>2
      <4>6. Reached' = t
        BY <4>5 DEF Reached, t
      <4>7. firstChunk' + chunkCount' = Reached' /\ chunkCount' \in 1 .. RunLimit - 1
        BY <3>4, <4>2, <4>6, Bounds, TemplateAssumption
      <4> QED
        BY <3>2, <4>4, <4>5, <4>7 DEF RunsInv, t
    <3>6. CASE NoEncrypt
      <4>1. chunkCount + 1 < RunLimit
        <5>1. ~(chunkCount + 1 >= RunLimit)
          BY <3>6, Zenon DEF NoEncrypt
        <5> QED
          BY <3>3, <5>1, Bounds
      <4>2. (chunkCount + 1) % (2 * RunLimit) = chunkCount + 1
        BY <3>3, <4>1, Bounds
      <4>3. chunkCount' = chunkCount + 1
        BY <3>6, <4>2 DEF NoEncrypt, NextCount
      <4>4. /\ UNCHANGED <<template, templateIdx, firstChunk, encrypted>>
            /\ RunEnds' = RunEnds /\ RunBegins' = RunBegins
        BY <1>0, <2>0, <3>6 DEF NoEncrypt
      <4>5. Reached' = Reached + 1
        BY <3>1, <3>4, <4>4 DEF Reached, t
      <4>6. firstChunk' + chunkCount' = Reached' /\ chunkCount' \in 1 .. RunLimit - 1
        BY <3>1, <3>3, <4>1, <4>3, <4>4, <4>5, Bounds
      <4>7. encrypted' \subseteq 1 .. t
        BY <3>1, <3>3, <3>4, <4>4
      <4> QED
        BY <3>2, <3>3, <4>4, <4>6, <4>7 DEF RunsInv, t
    <3> QED
      BY <2>3, <3>5, <3>6 DEF Chunk, t
  <2>4. CASE Flush
    <3>1. /\ tries \in Nat /\ firstChunk \in Nat /\ tries > 0
          /\ templateIdx \in 0 .. Slots - 1 /\ template \in Markers
      BY <2>4, Bounds DEF Flush, TypeOK, FewerMarkers, Markers
    <3>2. /\ pc = "flush" /\ pc' = "sa" /\ ~spilled /\ UNCHANGED encrypted
          /\ groups' \in 0 .. tries - 1
      BY <2>4, Zenon DEF Flush
    <3>3. /\ chunkCount \in 1 .. RunLimit - 1
          /\ RunEnds = RunBegins /\ firstChunk + chunkCount = Reached
      BY <3>2 DEF RunsInv
    <3> DEFINE m == Marker(firstChunk, chunkCount)
    <3>4. /\ m \in [start : Nat, length : Nat] /\ m.length # 0
          /\ m.start + m.length = Reached
      <4>1. chunkCount \in Nat
        BY <3>3, Bounds
      <4>2. m \in [start : Nat, length : Nat]
        BY <3>1, <4>1, MarkerType
      <4>3. m.start = firstChunk /\ m.length = chunkCount /\ chunkCount # 0
        BY <3>1, <3>3, MarkerFits
      <4> QED
        BY <3>3, <4>2, <4>3
    <3>5. /\ template' = [template EXCEPT ![templateIdx] = m]
          /\ templateIdx' = templateIdx + 1
      BY <2>4, <3>3 DEF Flush
    <3> HIDE DEF m
    <3>6. RunEnds' = RunEnds \cup {Reached}
      <4>1. /\ templateIdx \in Nat /\ m.length # 0
            /\ Written(template, templateIdx, m, template')
        BY <3>1, <3>4, <3>5 DEF Markers, Written
      <4>2. RunEnded(template, templateIdx, m, template')
        BY <4>1, MarkerAdded, Zenon
      <4> QED
        BY <1>0, <2>0, <3>4, <3>5, <4>2 DEF RunEnded
    <3>7. Reached \notin 1 .. groups'
      BY <3>1, <3>2 DEF Reached
    <3>8. RunBegins' = RunBegins
      BY <1>0, <2>0, <3>2
    <3> QED
      BY <3>2, <3>3, <3>6, <3>7, <3>8 DEF RunsInv
  <2>5. ASSUME UNCHANGED <<wolf, groups>>
        PROVE  RunEnds' = RunEnds /\ RunBegins' = RunBegins /\ ~spilled
    BY <1>0, <2>0, <2>5
  <2>6. CASE BuildFlags
    <3>1. /\ pc = "sa" /\ pc' \in {"stream", "build"} /\ groups' = groups
          /\ flags' = {0} \cup (RunEnds \cap 1 .. groups)
          /\ RunEnds' = RunEnds /\ RunBegins' = RunBegins /\ ~spilled
      BY <2>5, <2>6 DEF BuildFlags, Flags
    <3> QED
      BY <3>1 DEF RunsInv
  <2>7. CASE NoDescriptor
    BY <2>7 DEF NoDescriptor, RunsInv
  <2>8. CASE Stream
    BY <2>8 DEF Stream, AfterFailedStream, RunsInv
  <2>9. CASE Build
    <3>1. pc' \in {"verify", "done", "default"}
      BY <2>9 DEF Build
    <3> QED
      BY <3>1 DEF RunsInv
  <2>10. CASE BuildDefault
    BY <2>10 DEF BuildDefault, RunsInv
  <2>11. CASE Verify
    BY <2>11 DEF Verify, RunsInv
  <2>12. CASE LaneDone
    <3>1. CASE lane = "a" /\ "b" \in lanes
      BY <2>1, <2>12, <3>1 DEF LaneDone
    <3>2. CASE ~(lane = "a" /\ "b" \in lanes)
      BY <2>12, <3>2 DEF LaneDone, RunsInv
    <3> QED
      BY <3>1, <3>2
  <2>13. CASE Digest
    BY <2>13 DEF Digest, RunsInv
  <2>14. CASE Return
    BY <2>14 DEF Return, RunsInv
  <2>15. CASE UNCHANGED vars
    <3>1. /\ UNCHANGED <<pc, chunkCount, tries, firstChunk, encrypted, groups, flags>>
          /\ RunEnds' = RunEnds /\ RunBegins' = RunBegins /\ ~spilled
      BY <2>5, <2>15 DEF vars
    <3>2. Reached' = Reached
      BY <3>1 DEF Reached
    <3> QED
      BY <3>1, <3>2 DEF RunsInv
  <2> QED
    BY <2>2, <2>3, <2>4, <2>6, <2>7, <2>8, <2>9, <2>10, <2>11, <2>12, <2>13,
       <2>14, <2>15 DEF Next
<1>3. RunsInv => RunsBeginAtEncryptions
  <2>1. ASSUME pc \in {"stream", "build"}, ~spilled, RunsInv
        PROVE  flags = {0} \cup (RunBegins \cap 1 .. groups)
    BY <2>1 DEF RunsInv
  <2> QED
    BY <2>1 DEF RunsBeginAtEncryptions
<1> QED
  BY <1>1, <1>2, <1>3, TemplateInBounds, PTL DEF Spec
-----------------------------------------------------------------------------
(* The words of a message that fill no block.                               *)
Rest(m) == SubSeq(m, BlockWords * (Len(m) \div BlockWords) + 1, Len(m))

LEMMA BlockSize == BlockWords \in Nat /\ BlockWords > 2 /\ BlockWords \in Nat \ {0}
  BY BlockAssumption

(* Block i of n words begins and ends inside them.                          *)
LEMMA Places ==
  ASSUME NEW n \in Nat, NEW i \in 1 .. n \div BlockWords
  PROVE  /\ BlockWords * (i - 1) \in Nat
         /\ BlockWords * i = BlockWords * (i - 1) + BlockWords
         /\ BlockWords * i <= n
<1> DEFINE q == n \div BlockWords
<1>1. q \in Nat /\ n % BlockWords \in Nat /\ n = q * BlockWords + (n % BlockWords)
  BY BlockSize, Division
<1> HIDE DEF q
<1>2. i \in 1 .. q /\ i \in Nat /\ i - 1 \in Nat /\ q - i \in Nat
  BY <1>1 DEF q
<1>3. BlockWords * (i - 1) \in Nat /\ BlockWords * (q - i) \in Nat
  BY <1>2, BlockSize
<1>4. BlockWords * i = BlockWords * (i - 1) + BlockWords
  BY <1>2, BlockSize
<1>5. q * BlockWords = BlockWords * i + BlockWords * (q - i)
  BY <1>1, <1>2, BlockSize
<1> DEFINE a == BlockWords * i
           b == BlockWords * (q - i)
           r == n % BlockWords
           c == q * BlockWords
<1>6. a \in Nat /\ b \in Nat /\ r \in Nat /\ n = c + r /\ c = a + b
  BY <1>1, <1>2, <1>3, <1>5, BlockSize
<1> HIDE DEF a, b, c, r
<1>7. a <= n
  BY <1>6
<1> QED
  BY <1>3, <1>4, <1>7 DEF a

(* The blocks of a message, word by word.                                   *)
LEMMA BlocksAre ==
  ASSUME NEW S, NEW m \in Seq(S)
  PROVE  /\ Len(m) \in Nat /\ Len(m) \div BlockWords \in Nat
         /\ Blocks(m) \in Seq(Seq(S)) /\ Len(Blocks(m)) = Len(m) \div BlockWords
         /\ \A i \in 1 .. Len(m) \div BlockWords :
              /\ Blocks(m)[i] \in Seq(S) /\ Len(Blocks(m)[i]) = BlockWords
              /\ \A k \in 1 .. BlockWords :
                   Blocks(m)[i][k] = m[BlockWords * (i - 1) + k]
<1> DEFINE q == Len(m) \div BlockWords
<1>0. Len(m) \in Nat
  OBVIOUS
<1>1. Len(m) \in Nat /\ q \in Nat
  <2> DEFINE n == Len(m)
  <2> HIDE DEF n
  <2>1. n \div BlockWords \in Nat
    BY <1>0, BlockSize, Division DEF n
  <2> QED
    BY <1>0, <2>1 DEF n
<1>2. ASSUME NEW i \in 1 .. q
      PROVE  LET s == SubSeq(m, BlockWords * (i - 1) + 1, BlockWords * i)
             IN /\ s \in Seq(S) /\ Len(s) = BlockWords
                /\ \A k \in 1 .. BlockWords : s[k] = m[BlockWords * (i - 1) + k]
  <2> DEFINE a == BlockWords * (i - 1)
             b == BlockWords * i
             s == SubSeq(m, a + 1, b)
  <2>1. a \in Nat /\ b = a + BlockWords /\ b <= Len(m)
    BY <1>1, Places
  <2> HIDE DEF a, b
  <2>2. \A j \in a + 1 .. b : m[j] \in S
    BY <2>1, <1>1
  <2>3. a + 1 \in Int /\ b \in Int
    BY <2>1, BlockSize
  <2>4. /\ s \in Seq(S) /\ Len(s) = IF a + 1 <= b THEN b - (a + 1) + 1 ELSE 0
        /\ \A k \in 1 .. b - (a + 1) + 1 : s[k] = m[(a + 1) + k - 1]
    BY <2>2, <2>3, SubSeqProperties
  <2>5. b - (a + 1) + 1 = BlockWords /\ a + 1 <= b
    BY <2>1, BlockSize
  <2>6. \A k \in 1 .. BlockWords : (a + 1) + k - 1 = a + k
    BY <2>1, BlockSize
  <2>7. s \in Seq(S) /\ Len(s) = BlockWords /\ \A k \in 1 .. BlockWords : s[k] = m[a + k]
    <3> HIDE DEF s
    <3> QED BY <2>4, <2>5, <2>6
  <2> QED
    BY <2>7 DEF a, b
<1> HIDE DEF q
<1>3. Blocks(m) = [i \in 1 .. q |-> SubSeq(m, BlockWords * (i - 1) + 1, BlockWords * i)]
  BY DEF Blocks, q
<1>4. Blocks(m) \in [1 .. q -> Seq(S)]
  BY <1>2, <1>3
<1>5. Blocks(m) \in Seq(Seq(S)) /\ Len(Blocks(m)) = q
  BY <1>1, <1>4
<1>6. \A i \in 1 .. q : /\ Blocks(m)[i] \in Seq(S) /\ Len(Blocks(m)[i]) = BlockWords
                        /\ \A k \in 1 .. BlockWords :
                             Blocks(m)[i][k] = m[BlockWords * (i - 1) + k]
  BY <1>2, <1>3
<1> QED
  BY <1>1, <1>5, <1>6 DEF q

(* The rest of a message, word by word.                                     *)
LEMMA RestIs ==
  ASSUME NEW S, NEW m \in Seq(S)
  PROVE  LET whole == BlockWords * (Len(m) \div BlockWords)
         IN /\ whole \in Nat /\ Len(m) = whole + (Len(m) % BlockWords)
            /\ Rest(m) \in Seq(S) /\ Len(Rest(m)) = Len(m) % BlockWords
            /\ Len(m) % BlockWords \in 0 .. BlockWords - 1
            /\ \A k \in 1 .. Len(m) % BlockWords : Rest(m)[k] = m[whole + k]
<1> DEFINE n == Len(m)
           q == n \div BlockWords
           r == n % BlockWords
           a == BlockWords * q
<1>0. n \in Nat
  OBVIOUS
<1> HIDE DEF n
<1>1. n \in Nat /\ q \in Nat /\ r \in 0 .. BlockWords - 1 /\ n = q * BlockWords + r
  BY <1>0, BlockSize, Division
<1> HIDE DEF q, r
<1>2. a \in Nat /\ n = a + r /\ r \in Nat
  BY <1>1, BlockSize
<1> HIDE DEF a
<1>3. Rest(m) = SubSeq(m, a + 1, n)
  BY DEF Rest, a, q, n
<1>4. \A j \in a + 1 .. n : m[j] \in S
  BY <1>2 DEF n
<1>5. a + 1 \in Int /\ n \in Int
  BY <1>2
<1>6. /\ Rest(m) \in Seq(S)
      /\ Len(Rest(m)) = IF a + 1 <= n THEN n - (a + 1) + 1 ELSE 0
      /\ \A k \in 1 .. n - (a + 1) + 1 : Rest(m)[k] = m[(a + 1) + k - 1]
  BY <1>3, <1>4, <1>5, SubSeqProperties
<1>7. /\ (IF a + 1 <= n THEN n - (a + 1) + 1 ELSE 0) = r /\ n - (a + 1) + 1 = r
      /\ \A k \in 1 .. r : (a + 1) + k - 1 = a + k
  BY <1>2
<1>8. Len(Rest(m)) = r /\ \A k \in 1 .. r : Rest(m)[k] = m[a + k]
  BY <1>6, <1>7
<1> QED
  BY <1>1, <1>2, <1>6, <1>8 DEF a, q, r, n

(* Words appended to a message come behind its rest: as many blocks more as *)
(* the rest and they fill.                                                  *)
LEMMA AppendedWords ==
  ASSUME NEW S, NEW m \in Seq(S), NEW w \in Seq(S)
  PROVE  LET q == Len(m) \div BlockWords
             x == m \o w
             y == Rest(m) \o w
         IN /\ x \in Seq(S) /\ y \in Seq(S) /\ q \in Nat /\ BlockWords * q \in Nat
            /\ Len(x) \in Nat /\ Len(y) \in Nat
            /\ Len(x) = BlockWords * q + Len(y)
            /\ \A j \in 1 .. Len(y) : y[j] = x[BlockWords * q + j]
            /\ Len(y) \div BlockWords \in Nat
            /\ Len(x) \div BlockWords = q + (Len(y) \div BlockWords)
            /\ BlockWords * (Len(x) \div BlockWords)
                 = BlockWords * q + BlockWords * (Len(y) \div BlockWords)
            /\ Len(x) % BlockWords = Len(y) % BlockWords
<1> DEFINE q == Len(m) \div BlockWords
           a == BlockWords * q
           r == Rest(m)
           x == m \o w
           y == r \o w
<1>1. /\ a \in Nat /\ q \in Nat /\ r \in Seq(S) /\ Len(m) = a + Len(r)
      /\ \A k \in 1 .. Len(r) : r[k] = m[a + k]
  BY RestIs, BlocksAre
<1> HIDE DEF r, a, q
<1>2. /\ Len(m) \in Nat /\ Len(w) \in Nat /\ Len(r) \in Nat
      /\ x \in Seq(S) /\ Len(x) = Len(m) + Len(w)
      /\ \A i \in 1 .. Len(m) + Len(w) :
           x[i] = IF i <= Len(m) THEN m[i] ELSE w[i - Len(m)]
      /\ y \in Seq(S) /\ Len(y) = Len(r) + Len(w)
      /\ \A i \in 1 .. Len(r) + Len(w) :
           y[i] = IF i <= Len(r) THEN r[i] ELSE w[i - Len(r)]
  <2>1. Len(m) \in Nat /\ Len(w) \in Nat /\ Len(r) \in Nat
    BY <1>1, LenProperties
  <2>2. /\ x \in Seq(S) /\ Len(x) = Len(m) + Len(w)
        /\ \A i \in 1 .. Len(m) + Len(w) :
             x[i] = IF i <= Len(m) THEN m[i] ELSE w[i - Len(m)]
    BY ConcatProperties, Zenon
  <2>3. /\ y \in Seq(S) /\ Len(y) = Len(r) + Len(w)
        /\ \A i \in 1 .. Len(r) + Len(w) :
             y[i] = IF i <= Len(r) THEN r[i] ELSE w[i - Len(r)]
    <3>1. r \in Seq(S)
      BY <1>1
    <3> QED
      BY <3>1, ConcatProperties, Zenon
  <2> QED
    BY <2>1, <2>2, <2>3
<1> HIDE DEF x, y
<1>3. Len(x) = a + Len(y) /\ Len(x) \in Nat /\ Len(y) \in Nat
  BY <1>1, <1>2
<1>4. ASSUME NEW j \in 1 .. Len(y) PROVE y[j] = x[a + j]
  <2>1. a + j \in 1 .. Len(m) + Len(w) /\ j \in 1 .. Len(r) + Len(w)
    BY <1>1, <1>2
  <2>2. (a + j) - Len(m) = j - Len(r) /\ (a + j <= Len(m) <=> j <= Len(r))
    BY <1>1, <1>2
  <2>3. j <= Len(r) => r[j] = m[a + j]
    BY <1>1, <1>2
  <2> QED
    BY <1>2, <2>1, <2>2, <2>3
<1> DEFINE p == Len(y) \div BlockWords
           u == Len(y) % BlockWords
           d == Len(x) \div BlockWords
           v == Len(x) % BlockWords
           B == BlockWords
<1>5. /\ p \in Nat /\ u \in 0 .. B - 1 /\ Len(y) = p * B + u
      /\ d \in Nat /\ v \in 0 .. B - 1 /\ Len(x) = d * B + v
  <2> DEFINE n == Len(x)
             k == Len(y)
  <2>1. n \in Nat /\ k \in Nat
    BY <1>3
  <2> HIDE DEF n, k
  <2>2. /\ k \div B \in Nat /\ k % B \in 0 .. B - 1 /\ k = (k \div B) * B + (k % B)
        /\ n \div B \in Nat /\ n % B \in 0 .. B - 1 /\ n = (n \div B) * B + (n % B)
    BY <2>1, BlockSize, Division
  <2> QED
    BY <2>2 DEF n, k
<1> HIDE DEF p, u, d, v, B
<1>6. a = q * B /\ B \in Nat \ {0} /\ q \in Nat
  BY <1>1, BlockSize DEF a, B
<1>7. (q + p) * B = q * B + p * B /\ q + p \in Int /\ d \in Int
  BY <1>5, <1>6
<1>8. (q + p) * B + u = d * B + v
  <2>1. d * B \in Nat /\ p * B \in Nat /\ q * B \in Nat /\ u \in Nat /\ v \in Nat
    BY <1>5, <1>6
  <2> QED
    BY <1>3, <1>5, <1>6, <1>7, <2>1
<1>9. d = q + p /\ u = v
  <2> DEFINE c == q + p
  <2>1. c \in Int /\ c * B + u = d * B + v
    BY <1>7, <1>8
  <2> HIDE DEF c
  <2>2. c = d /\ u = v
    BY <1>5, <1>6, <1>7, <2>1, SameMultiple
  <2> QED
    BY <2>2 DEF c
<1>10. B * d = B * q + B * p
  BY <1>5, <1>6, <1>9
<1> QED
  BY <1>1, <1>2, <1>3, <1>4, <1>5, <1>9, <1>10 DEF a, q, r, x, y, p, u, d, v, B

(* The blocks of a message stay when words are appended, and those that     *)
(* follow are the blocks of its rest and the words.                         *)
LEMMA BlocksAppended ==
  ASSUME NEW S, NEW m \in Seq(S), NEW w \in Seq(S)
  PROVE  /\ Blocks(m \o w) = Blocks(m) \o Blocks(Rest(m) \o w)
         /\ Rest(m \o w) = Rest(Rest(m) \o w)
<1> DEFINE q == Len(m) \div BlockWords
           x == m \o w
           y == Rest(m) \o w
           p == Len(y) \div BlockWords
           d == Len(x) \div BlockWords
           a == BlockWords * q
<1>1. /\ x \in Seq(S) /\ y \in Seq(S) /\ q \in Nat /\ a \in Nat
      /\ Len(x) \in Nat /\ Len(y) \in Nat /\ Len(x) = a + Len(y)
      /\ \A j \in 1 .. Len(y) : y[j] = x[a + j]
      /\ p \in Nat /\ d = q + p /\ BlockWords * d = a + BlockWords * p
      /\ Len(x) % BlockWords = Len(y) % BlockWords
  BY AppendedWords
<1>2. /\ Len(m) \in Nat /\ Len(m) <= Len(x)
      /\ \A j \in 1 .. Len(m) : x[j] = m[j]
  BY ConcatProperties, LenProperties
<1> HIDE DEF x, y
<1>3. /\ Blocks(x) \in Seq(Seq(S)) /\ Len(Blocks(x)) = d
      /\ \A i \in 1 .. d :
           /\ Blocks(x)[i] \in Seq(S) /\ Len(Blocks(x)[i]) = BlockWords
           /\ \A k \in 1 .. BlockWords : Blocks(x)[i][k] = x[BlockWords * (i - 1) + k]
  BY <1>1, BlocksAre
<1>4. /\ Blocks(y) \in Seq(Seq(S)) /\ Len(Blocks(y)) = p
      /\ \A i \in 1 .. p :
           /\ Blocks(y)[i] \in Seq(S) /\ Len(Blocks(y)[i]) = BlockWords
           /\ \A k \in 1 .. BlockWords : Blocks(y)[i][k] = y[BlockWords * (i - 1) + k]
  BY <1>1, BlocksAre
<1>5. /\ Blocks(m) \in Seq(Seq(S)) /\ Len(Blocks(m)) = q
      /\ \A i \in 1 .. q :
           /\ Blocks(m)[i] \in Seq(S) /\ Len(Blocks(m)[i]) = BlockWords
           /\ \A k \in 1 .. BlockWords : Blocks(m)[i][k] = m[BlockWords * (i - 1) + k]
  BY BlocksAre
<1>6. ASSUME NEW i \in 1 .. d, i <= q PROVE Blocks(x)[i] = Blocks(m)[i]
  <2>1. i \in 1 .. q
    BY <1>1, <1>6
  <2>2. /\ BlockWords * (i - 1) \in Nat
        /\ BlockWords * (i - 1) + BlockWords <= Len(m)
    BY <1>2, <2>1, Places
  <2>3. ASSUME NEW k \in 1 .. BlockWords PROVE Blocks(x)[i][k] = Blocks(m)[i][k]
    <3> DEFINE b == BlockWords * (i - 1)
               j == b + k
    <3>1. j \in 1 .. Len(m)
      <4>1. b \in Nat /\ b + BlockWords <= Len(m)
        BY <2>2
      <4> HIDE DEF b
      <4> QED
        BY <1>2, <4>1, BlockSize
    <3>2. Blocks(x)[i][k] = x[j] /\ Blocks(m)[i][k] = m[j]
      BY <1>3, <1>5, <2>1
    <3> HIDE DEF j
    <3> QED
      BY <1>2, <3>1, <3>2
  <2>4. /\ Blocks(x)[i] \in Seq(S) /\ Blocks(m)[i] \in Seq(S)
        /\ Len(Blocks(x)[i]) = BlockWords /\ Len(Blocks(m)[i]) = BlockWords
    BY <1>3, <1>5, <2>1
  <2> QED
    BY <2>3, <2>4, SeqEqual
<1>7. ASSUME NEW i \in 1 .. d, i > q PROVE Blocks(x)[i] = Blocks(y)[i - q]
  <2>1. i - q \in 1 .. p /\ i \in Nat
    BY <1>1, <1>7
  <2>2. /\ BlockWords * (i - q - 1) \in Nat
        /\ BlockWords * (i - q - 1) + BlockWords <= Len(y)
    BY <1>1, <2>1, Places
  <2>3. BlockWords * (i - 1) = a + BlockWords * (i - q - 1)
    BY <1>1, <2>1, BlockSize
  <2>4. ASSUME NEW k \in 1 .. BlockWords
        PROVE  Blocks(x)[i][k] = Blocks(y)[i - q][k]
    <3> DEFINE b == BlockWords * (i - q - 1)
               j == b + k
    <3>1. j \in 1 .. Len(y) /\ BlockWords * (i - 1) + k = a + j
      <4>1. b \in Nat /\ b + BlockWords <= Len(y) /\ BlockWords * (i - 1) = a + b
        BY <2>2, <2>3
      <4> DEFINE c == BlockWords * (i - 1)
      <4>2. c = a + b
        BY <4>1
      <4> HIDE DEF b, c, a
      <4>3. j \in 1 .. Len(y) /\ c + k = a + j
        BY <1>1, <4>1, <4>2, BlockSize
      <4> QED
        BY <4>3 DEF c
    <3>2. Blocks(x)[i][k] = x[BlockWords * (i - 1) + k] /\ Blocks(y)[i - q][k] = y[j]
      BY <1>3, <1>4, <2>1
    <3> HIDE DEF j
    <3> QED
      BY <1>1, <3>1, <3>2
  <2>5. /\ Blocks(x)[i] \in Seq(S) /\ Blocks(y)[i - q] \in Seq(S)
        /\ Len(Blocks(x)[i]) = BlockWords /\ Len(Blocks(y)[i - q]) = BlockWords
    BY <1>3, <1>4, <2>1
  <2> DEFINE s == Blocks(x)[i]
             t == Blocks(y)[i - q]
  <2>6. \A k \in 1 .. BlockWords : s[k] = t[k]
    BY <2>4
  <2>7. s \in Seq(S) /\ t \in Seq(S) /\ Len(s) = BlockWords /\ Len(t) = BlockWords
    BY <2>5
  <2> HIDE DEF s, t
  <2>8. s = t
    BY <2>6, <2>7, SeqEqual
  <2> QED
    BY <2>8 DEF s, t
<1>8. Blocks(x) = Blocks(m) \o Blocks(y)
  <2> DEFINE bx == Blocks(x)
             bm == Blocks(m)
             by == Blocks(y)
             T == Seq(S)
  <2>1. bx \in Seq(T) /\ bm \in Seq(T) /\ by \in Seq(T)
    BY <1>3, <1>4, <1>5
  <2>2. /\ Len(bx) = d /\ Len(bm) = q /\ Len(by) = p
        /\ \A i \in 1 .. d : bx[i] = IF i <= q THEN bm[i] ELSE by[i - q]
    BY <1>1, <1>3, <1>4, <1>5, <1>6, <1>7
  <2> HIDE DEF bx, bm, by, T, d, p, q
  <2>3. /\ bm \o by \in Seq(T) /\ Len(bm \o by) = q + p
        /\ \A i \in 1 .. q + p : (bm \o by)[i] = IF i <= q THEN bm[i] ELSE by[i - q]
    BY <2>1, <2>2, ConcatProperties, Zenon
  <2>4. d = q + p
    BY <1>1
  <2> DEFINE c == bm \o by
  <2>5. /\ c \in Seq(T) /\ Len(bx) = Len(c)
        /\ \A i \in 1 .. Len(bx) : bx[i] = c[i]
    BY <2>2, <2>3, <2>4
  <2> HIDE DEF c
  <2>6. bx = c
    BY <2>1, <2>5, SeqEqual
  <2> QED
    BY <2>6 DEF bx, bm, by, c
<1>9. Rest(x) = Rest(y)
  <2> DEFINE v == Len(x) % BlockWords
             b == BlockWords * p
  <2>1. /\ Rest(x) \in Seq(S) /\ Len(Rest(x)) = v /\ v \in 0 .. BlockWords - 1
        /\ \A k \in 1 .. v : Rest(x)[k] = x[BlockWords * d + k]
    BY <1>1, RestIs
  <2>2. /\ Rest(y) \in Seq(S) /\ Len(Rest(y)) = v
        /\ b \in Nat /\ Len(y) = b + v
        /\ \A k \in 1 .. v : Rest(y)[k] = y[b + k]
    BY <1>1, RestIs
  <2>3. ASSUME NEW k \in 1 .. v PROVE Rest(x)[k] = Rest(y)[k]
    <3>1. BlockWords * d = a + b
      BY <1>1
    <3> DEFINE c == BlockWords * d
    <3>2. c = a + b /\ Rest(x)[k] = x[c + k] /\ Rest(y)[k] = y[b + k]
      BY <2>1, <2>2, <3>1
    <3>3. v \in Nat
      BY <2>1, BlockSize
    <3> HIDE DEF c, b, v, a
    <3>4. b + k \in 1 .. Len(y) /\ c + k = a + (b + k)
      BY <1>1, <2>2, <3>2, <3>3
    <3> QED
      BY <1>1, <3>2, <3>4
  <2> HIDE DEF v
  <2> QED
    BY <2>1, <2>2, <2>3, SeqEqual
<1> QED
  BY <1>8, <1>9 DEF x, y

(* The quotients of less than a block, and of one block.                    *)
LEMMA Quotients ==
  ASSUME NEW n \in Nat
  PROVE  /\ n < BlockWords => n \div BlockWords = 0 /\ n % BlockWords = n
         /\ n = BlockWords => n \div BlockWords = 1 /\ n % BlockWords = 0
<1> DEFINE q == n \div BlockWords
           r == n % BlockWords
           B == BlockWords
<1>1. q \in Nat /\ r \in 0 .. B - 1 /\ n = q * B + r
  BY BlockSize, Division
<1>2. B \in Nat \ {0}
  BY BlockSize
<1> HIDE DEF q, r, B
<1>3. CASE n < B
  <2>1. n \in 0 .. B - 1 /\ 0 * B + n = q * B + r /\ q \in Int
    BY <1>1, <1>2, <1>3
  <2>2. 0 = q /\ n = r
    BY <1>1, <1>2, <2>1, SameMultiple
  <2> QED
    BY <1>2, <1>3, <2>2 DEF q, r, B
<1>4. CASE n = B
  <2>1. 0 \in 0 .. B - 1 /\ 1 * B + 0 = q * B + r /\ q \in Int
    BY <1>1, <1>2, <1>4
  <2>2. 1 = q /\ 0 = r
    BY <1>1, <1>2, <2>1, SameMultiple
  <2> QED
    BY <1>2, <1>4, <2>2 DEF q, r, B
<1>5. CASE n > B
  BY <1>2, <1>5 DEF B
<1> QED
  BY <1>2, <1>3, <1>4, <1>5

(* Less than a block of words has no blocks, and is all rest.               *)
LEMMA ShortRest ==
  ASSUME NEW S, NEW s \in Seq(S), Len(s) < BlockWords
  PROVE  Blocks(s) = <<>> /\ Rest(s) = s
<1>1. Len(s) \in Nat
  BY LenProperties
<1>2. Len(s) \div BlockWords = 0 /\ Len(s) % BlockWords = Len(s)
  BY <1>1, Quotients
<1>3. Blocks(s) \in Seq(Seq(S)) /\ Len(Blocks(s)) = 0
  BY <1>2, BlocksAre
<1>4. Blocks(s) = <<>>
  <2> DEFINE b == Blocks(s)
  <2>1. b \in Seq(Seq(S)) /\ Len(b) = 0
    BY <1>3
  <2> HIDE DEF b
  <2>2. b = <<>>
    BY <2>1, EmptySeq
  <2> QED
    BY <2>2 DEF b
<1>5. BlockWords * 0 = 0
  BY BlockSize
<1>6. Rest(s) = SubSeq(s, 1, Len(s))
  BY <1>2, <1>5 DEF Rest
<1> QED
  BY <1>4, <1>6, SubSeqFull

(* One block of words is its only block.                                    *)
LEMMA OneBlock ==
  ASSUME NEW S, NEW s \in Seq(S), Len(s) = BlockWords
  PROVE  Blocks(s) = <<s>> /\ Rest(s) = <<>>
<1>1. Len(s) \in Nat
  BY LenProperties
<1>2. Len(s) \div BlockWords = 1 /\ Len(s) % BlockWords = 0
  BY <1>1, Quotients
<1>3. /\ Blocks(s) \in Seq(Seq(S)) /\ Len(Blocks(s)) = 1
      /\ Blocks(s)[1] \in Seq(S) /\ Len(Blocks(s)[1]) = BlockWords
      /\ \A k \in 1 .. BlockWords : Blocks(s)[1][k] = s[BlockWords * (1 - 1) + k]
  <2> DEFINE n == Len(s) \div BlockWords
             Is(i) == /\ Blocks(s)[i] \in Seq(S) /\ Len(Blocks(s)[i]) = BlockWords
                      /\ \A k \in 1 .. BlockWords :
                           Blocks(s)[i][k] = s[BlockWords * (i - 1) + k]
  <2>0. n = 1
    BY <1>2
  <2>1. /\ Blocks(s) \in Seq(Seq(S)) /\ Len(Blocks(s)) = n
    BY BlocksAre
  <2>3. ASSUME NEW i \in 1 .. n PROVE Is(i)
    BY BlocksAre
  <2> HIDE DEF n, Is
  <2>2. Is(1)
    BY <2>0, <2>3
  <2> QED
    BY <2>0, <2>1, <2>2 DEF Is
<1>4. Blocks(s)[1] = s
  <2> DEFINE b == Blocks(s)[1]
  <2>1. \A k \in 1 .. BlockWords : b[k] = s[k]
    <3>1. \A k \in 1 .. BlockWords : BlockWords * (1 - 1) + k = k
      BY BlockSize
    <3> QED
      BY <1>3, <3>1
  <2>2. b \in Seq(S) /\ Len(b) = BlockWords
    BY <1>3
  <2> HIDE DEF b
  <2>3. b = s
    BY <2>1, <2>2, SeqEqual
  <2> QED
    BY <2>3 DEF b
<1>5. Blocks(s) = <<s>>
  BY <1>3, <1>4
<1>6. Rest(s) \in Seq(S) /\ Len(Rest(s)) = 0
  BY <1>2, RestIs
<1>7. Rest(s) = <<>>
  <2> DEFINE r == Rest(s)
  <2>1. r \in Seq(S) /\ Len(r) = 0
    BY <1>6
  <2> HIDE DEF r
  <2>2. r = <<>>
    BY <2>1, EmptySeq
  <2> QED
    BY <2>2 DEF r
<1> QED
  BY <1>5, <1>7

(* A block in front of a message.                                           *)
LEMMA BlockFirst ==
  ASSUME NEW S, NEW s \in Seq(S), Len(s) = BlockWords, NEW w \in Seq(S)
  PROVE  Blocks(s \o w) = <<s>> \o Blocks(w) /\ Rest(s \o w) = Rest(w)
<1>1. Blocks(s) = <<s>> /\ Rest(s) = <<>>
  BY OneBlock
<1>2. <<>> \o w = w
  BY ConcatEmptySeq
<1>3. Blocks(s \o w) = Blocks(s) \o Blocks(Rest(s) \o w) /\ Rest(s \o w) = Rest(Rest(s) \o w)
  BY BlocksAppended
<1> QED
  BY <1>1, <1>2, <1>3

-----------------------------------------------------------------------------
(* A prefix, one longer.                                                    *)
LEMMA OneMore ==
  ASSUME NEW T, NEW b \in Seq(T), NEW i \in Nat, i < Len(b)
  PROVE  SubSeq(b, 1, i + 1) = Append(SubSeq(b, 1, i), b[i + 1])
<1> DEFINE j == i + 1
           s == SubSeq(b, 1, i)
           e == b[j]
<1>1. j \in 1 .. Len(b) /\ 1 \in 1 .. Len(b) /\ i = j - 1
  BY LenProperties
<1>2. e \in T /\ SubSeq(b, 1, j) = SubSeq(b, 1, j - 1) \o <<b[j]>>
  <2> HIDE DEF j
  <2> QED
    BY <1>1, ElementOfSeq, SubSeqRecursiveSecond DEF e
<1>3. s \in Seq(T)
  <2>1. \A k \in 1 .. i : b[k] \in T
    BY <1>1, ElementOfSeq
  <2> QED
    BY <2>1, SubSeqProperties
<1>4. Append(s, e) = s \o <<e>>
  <2> HIDE DEF s, e
  <2> QED
    BY <1>2, <1>3, AppendIsConcat
<1>5. SubSeq(b, 1, j) = s \o <<e>>
  BY <1>1, <1>2
<1> QED
  BY <1>4, <1>5

(* The values of the recursion in sha256_process_blocks, from first to      *)
(* last.                                                                    *)
ProcessIs(g, h, blocks) ==
  /\ \A ni : sha256_process_blocks(ni, h, blocks)
               = IF ni THEN h \o blocks ELSE g[Len(blocks)]
  /\ g[0] = h /\ \A i \in 0 .. Len(blocks) - 1 : g[i + 1] = Append(g[i], blocks[i + 1])

(* That recursion has such values.                                          *)
LEMMA ProcessSteps ==
  ASSUME NEW T, NEW h \in Seq(T), NEW blocks \in Seq(T)
  PROVE  \E g : ProcessIs(g, h, blocks)
<1> DEFINE V == Seq(T)
           N == Len(blocks)
           step == [p \in Nat \X V |-> IF p[1] < N THEN Append(p[2], blocks[p[1] + 1]) ELSE p[2]]
           Body(g) == [i \in 0 .. N |->
                         IF i = 0 THEN h ELSE sha256_block_soft(g[i - 1], blocks[i])]
<1>0. N \in Nat
  BY LenProperties
<1>1. ASSUME NEW i \in 1 .. N, NEW s \in V PROVE Append(s, blocks[i]) \in V
  <2>1. blocks[i] \in T
    BY ElementOfSeq
  <2> QED
    BY <2>1, AppendProperties
<1>2. step \in [Nat \X V -> V]
  <2> HIDE DEF V, N
  <2>1. ASSUME NEW p \in Nat \X V
        PROVE  (IF p[1] < N THEN Append(p[2], blocks[p[1] + 1]) ELSE p[2]) \in V
    <3>1. p[1] \in Nat /\ p[2] \in V
      OBVIOUS
    <3>2. p[1] < N => p[1] + 1 \in 1 .. N
      BY <1>0, <3>1
    <3> QED
      BY <1>1, <3>1, <3>2
  <2> QED
    BY <2>1
<1>3. h \in V
  OBVIOUS
<1> HIDE DEF V, N
<1>4. PICK f \in [Nat -> V] : Recursive(f, h, step)
  <2> HIDE DEF step
  <2> QED
    BY <1>2, <1>3, Recursion
<1>5. ASSUME NEW i \in 0 .. N - 1 PROVE f[i + 1] = Append(f[i], blocks[i + 1])
  <2>1. i \in Nat /\ f[i] \in V /\ i < N
    BY <1>0
  <2>2. step[<<i, f[i]>>] = Append(f[i], blocks[i + 1])
    BY <2>1
  <2> QED
    BY <1>4, <2>1, <2>2 DEF Recursive
<1> DEFINE k == [i \in 0 .. N |-> f[i]]
<1>6. k = Body(k)
  <2>1. ASSUME NEW i \in 0 .. N PROVE k[i] = Body(k)[i]
    <3>1. CASE i = 0
      BY <1>4, <3>1 DEF Recursive
    <3>2. CASE i # 0
      <4>1. i - 1 \in 0 .. N - 1 /\ (i - 1) + 1 = i /\ i - 1 \in 0 .. N
        BY <1>0, <3>2
      <4>2. f[i] = Append(f[i - 1], blocks[i])
        BY <1>5, <4>1
      <4> QED
        BY <3>2, <4>1, <4>2 DEF sha256_block_soft
    <3> QED
      BY <3>1, <3>2
  <2> QED
    BY <2>1
<1> DEFINE g == CHOOSE g : g = Body(g)
<1>7. g = Body(g)
  <2> HIDE DEF Body, k
  <2>1. \E x : x = Body(x)
    BY <1>6
  <2> QED
    BY <2>1, Zenon
<1>8. \A ni : sha256_process_blocks(ni, h, blocks)
                = IF ni THEN h \o blocks ELSE g[Len(blocks)]
  BY DEF sha256_process_blocks, sha256_blocks_ni, N
<1> HIDE DEF g, Body
<1>9. ASSUME NEW i \in 0 .. N - 1 PROVE g[i + 1] = Append(g[i], blocks[i + 1])
  <2>1. i + 1 \in 0 .. N /\ i + 1 # 0 /\ (i + 1) - 1 = i
    BY <1>0
  <2> DEFINE b == Body(g)
  <2>2. b[i + 1] = sha256_block_soft(g[i], blocks[i + 1])
    BY <2>1 DEF Body
  <2> QED
    BY <1>7, <2>2 DEF sha256_block_soft
<1>10. g[0] = h
  <2> DEFINE b == Body(g)
  <2>1. b[0] = h
    BY <1>0 DEF Body
  <2> QED
    BY <1>7, <2>1
<1> QED
  BY <1>8, <1>9, <1>10 DEF ProcessIs, N

(* Every implementation of the compression takes the blocks in their order, *)
(* none twice and none left out.                                            *)
LEMMA Processed ==
  ASSUME NEW T, NEW h \in Seq(T), NEW blocks \in Seq(T), NEW ni
  PROVE  sha256_process_blocks(ni, h, blocks) = h \o blocks
<1>1. PICK g : ProcessIs(g, h, blocks)
  BY ProcessSteps
<1> DEFINE N == Len(blocks)
           Done(i) == h \o SubSeq(blocks, 1, i)
           Right == {i \in Nat : i <= N => g[i] = Done(i)}
<1>2. N \in Nat /\ g[0] = h /\ \A i \in 0 .. N - 1 : g[i + 1] = Append(g[i], blocks[i + 1])
  BY <1>1, LenProperties DEF ProcessIs
<1> HIDE DEF N
<1>3. 0 \in Right
  <2>1. SubSeq(blocks, 1, 0) = <<>> /\ h \o <<>> = h
    BY SubSeqEmpty, ConcatEmptySeq
  <2> QED
    BY <1>2, <2>1
<1>4. ASSUME NEW i \in Nat, i \in Right PROVE i + 1 \in Right
  <2> SUFFICES ASSUME i + 1 <= N PROVE g[i + 1] = Done(i + 1)
    OBVIOUS
  <2>1. i \in 0 .. N - 1 /\ i < Len(blocks) /\ g[i] = Done(i)
    BY <1>2, <1>4 DEF N
  <2> DEFINE s == SubSeq(blocks, 1, i)
             t == SubSeq(blocks, 1, i + 1)
             e == blocks[i + 1]
  <2>2. t = Append(s, e)
    BY <2>1, OneMore
  <2>3. s \in Seq(T) /\ e \in T
    <3>1. e \in T /\ \A k \in 1 .. i : blocks[k] \in T
      BY <2>1, LenProperties, ElementOfSeq
    <3> QED
      BY <3>1, SubSeqProperties
  <2>4. g[i + 1] = Append(h \o s, e)
    BY <1>2, <2>1
  <2> HIDE DEF s, t, e
  <2>5. h \o s \in Seq(T) /\ <<e>> \in Seq(T)
    BY <2>3, ConcatProperties
  <2>6. Append(h \o s, e) = (h \o s) \o <<e>> /\ Append(s, e) = s \o <<e>>
    BY <2>3, <2>5, AppendIsConcat
  <2>7. (h \o s) \o <<e>> = h \o (s \o <<e>>)
    BY <2>3, <2>5, ConcatAssociative
  <2>8. g[i + 1] = h \o t
    BY <2>2, <2>4, <2>6, <2>7
  <2> QED
    BY <2>8 DEF t
<1>5. N \in Right
  <2> HIDE DEF Right
  <2> QED
    BY <1>2, <1>3, <1>4, NatSetInduction
<1>6. g[N] = h \o blocks
  <2>1. SubSeq(blocks, 1, N) = blocks
    BY SubSeqFull DEF N
  <2> QED
    BY <1>2, <1>5, <2>1
<1> QED
  BY <1>1, <1>6 DEF ProcessIs, N

-----------------------------------------------------------------------------
LEMMA HalfSize == Half \in Nat \ {0} /\ WordBits \in Nat
  BY CountAssumption

(* The two halves of a sum, from those of its terms: a carry shows in a     *)
(* lower half that has become less.                                         *)
LEMMA CarryIs ==
  ASSUME NEW a \in Nat, NEW b \in Nat
  PROVE  LET l == ((a % Half) + (b % Half)) % Half
             carry == IF l < a % Half THEN 1 ELSE 0
         IN /\ l = (a + b) % Half
            /\ (((a \div Half) % Half) + carry + (b \div Half)) % Half
                 = ((a + b) \div Half) % Half
<1> DEFINE H == Half
           p == a \div H
           r == a % H
           q == b \div H
           s == b % H
           t == r + s
           l == t % H
           carry == IF l < r THEN 1 ELSE 0
           k == p + q + carry
<1>0. H \in Nat \ {0}
  BY HalfSize
<1> HIDE DEF H
<1>1. p \in Nat /\ r \in 0 .. H - 1 /\ a = p * H + r
  BY <1>0, Division
<1>2. q \in Nat /\ s \in 0 .. H - 1 /\ b = q * H + s
  BY <1>0, Division
<1> HIDE DEF p, r, q, s
<1>3. t \in Nat
  BY <1>0, <1>1, <1>2
<1>4. /\ t < H => l = t
      /\ t >= H => l = t - H
  <2>1. CASE t < H
    <3>1. 0 * H + t = t /\ t \in 0 .. H - 1
      BY <1>0, <1>3, <2>1
    <3> HIDE DEF t
    <3>2. (0 * H + t) % H = t
      BY <1>0, <3>1, QuotientOf
    <3> QED
      BY <1>0, <2>1, <3>1, <3>2
  <2>2. CASE t >= H
    <3> DEFINE u == t - H
    <3>1. u \in 0 .. H - 1 /\ 1 * H + u = t
      BY <1>0, <1>1, <1>2, <2>2
    <3> HIDE DEF u, t
    <3>2. (1 * H + u) % H = u
      BY <1>0, <3>1, QuotientOf
    <3> QED
      BY <1>0, <2>2, <3>1, <3>2 DEF u
  <2> QED
    BY <1>0, <1>3, <2>1, <2>2
<1>5. l \in 0 .. H - 1 /\ carry \in {0, 1} /\ t = carry * H + l
  <2>1. CASE t < H
    BY <1>0, <1>1, <1>2, <1>4, <2>1
  <2>2. CASE t >= H
    BY <1>0, <1>1, <1>2, <1>4, <2>2
  <2> QED
    BY <1>0, <1>3, <2>1, <2>2
<1> HIDE DEF carry, l
<1>6. k \in Nat /\ a + b = k * H + l
  <2>1. k * H = p * H + q * H + carry * H
    BY <1>0, <1>1, <1>2, <1>5
  <2>2. p * H \in Nat /\ q * H \in Nat /\ carry * H \in Nat
    BY <1>0, <1>1, <1>2, <1>5
  <2>3. a + b = p * H + q * H + t
    BY <1>1, <1>2, <2>2, <1>0
  <2>4. a + b = p * H + q * H + carry * H + l
    BY <1>5, <2>3, <2>2, <1>0, <1>3
  <2>5. k \in Nat
    BY <1>1, <1>2, <1>5
  <2> QED
    BY <2>1, <2>4, <2>5
<1>7. (k * H + l) \div H = k /\ (k * H + l) % H = l
  <2> HIDE DEF k
  <2> QED
    BY <1>0, <1>5, <1>6, QuotientOf
<1>8. ((p % H) + carry + q) % H = k % H
  <2> DEFINE d == carry + q
  <2>1. d \in Nat
    BY <1>2, <1>5
  <2> HIDE DEF d
  <2>2. ((p % H) + d) % H = (p + d) % H
    BY <1>0, <1>1, <2>1, RemainderFirst
  <2>3. p % H \in Nat
    BY <1>0, <1>1, Division
  <2> DEFINE e == p % H
  <2> HIDE DEF e
  <2>4. e + d = e + carry + q /\ p + d = k
    BY <1>1, <1>2, <1>5, <2>3 DEF d, e
  <2> QED
    BY <2>2, <2>4 DEF e
<1> QED
  BY <1>6, <1>7, <1>8 DEF H, p, r, q, s, l, carry

(* The context after a message, whatever the pieces it came in.             *)
BitsOf(m) == Len(m) * WordBits
Context(m) ==
  [h |-> Blocks(m), Nl |-> BitsOf(m) % Half, Nh |-> (BitsOf(m) \div Half) % Half,
   data |-> Rest(m)]

LEMMA BitsNat == ASSUME NEW S, NEW m \in Seq(S) PROVE BitsOf(m) \in Nat
<1>1. Len(m) \in Nat
  BY LenProperties
<1> QED
  BY <1>1, HalfSize DEF BitsOf

(* SHA256_Init() begins with the empty message.                             *)
LEMMA EmptyContext == SHA256_Init = Context(<<>>)
<1>1. <<>> \in Seq(Nat) /\ Len(<<>>) = 0
  OBVIOUS
<1>2. Blocks(<<>>) = <<>> /\ Rest(<<>>) = <<>>
  <2>1. Len(<<>>) < BlockWords
    BY <1>1, BlockSize
  <2> DEFINE e == <<>>
  <2>2. e \in Seq(Nat) /\ Len(e) < BlockWords
    BY <1>1, <2>1
  <2>3. Blocks(e) = <<>> /\ Rest(e) = e
    BY <2>2, ShortRest
  <2> QED
    BY <2>3
<1>3. BitsOf(<<>>) = 0 /\ 0 \div Half = 0 /\ 0 % Half = 0
  <2>1. BitsOf(<<>>) = 0
    BY <1>1, HalfSize DEF BitsOf
  <2>2. 0 \div Half = 0 /\ 0 % Half = 0
    BY HalfSize
  <2> QED
    BY <2>1, <2>2
<1> QED
  BY <1>2, <1>3 DEF SHA256_Init, Context

(* The bit count of a context, after words are appended.                    *)
LEMMA CountedIs ==
  ASSUME NEW S, NEW m \in Seq(S), NEW w \in Seq(S)
  PROVE  Counted(Context(m), Len(w) * WordBits)
           = [h |-> Blocks(m), Nl |-> BitsOf(m \o w) % Half,
              Nh |-> (BitsOf(m \o w) \div Half) % Half, data |-> Rest(m)]
<1> DEFINE a == BitsOf(m)
           b == Len(w) * WordBits
           l == ((a % Half) + (b % Half)) % Half
           carry == IF l < a % Half THEN 1 ELSE 0
<1>1. a \in Nat /\ b \in Nat /\ BitsOf(m \o w) = a + b
  <2>1. Len(m) \in Nat /\ Len(w) \in Nat /\ Len(m \o w) = Len(m) + Len(w)
    BY LenProperties, ConcatProperties
  <2> QED
    BY <2>1, HalfSize DEF BitsOf
<1>2. /\ l = (a + b) % Half
      /\ (((a \div Half) % Half) + carry + (b \div Half)) % Half = ((a + b) \div Half) % Half
  <2> HIDE DEF a, b
  <2> QED
    BY <1>1, CarryIs
<1>3. Counted(Context(m), b)
        = [h |-> Blocks(m), Nl |-> l,
           Nh |-> (((a \div Half) % Half) + carry + (b \div Half)) % Half, data |-> Rest(m)]
  <2> DEFINE c == Context(m)
  <2>1. /\ c = [h |-> Blocks(m), Nl |-> a % Half, Nh |-> (a \div Half) % Half,
                data |-> Rest(m)]
        /\ c.Nl = a % Half /\ c.Nh = (a \div Half) % Half
    BY DEF Context
  <2> HIDE DEF c
  <2>2. Counted(c, b) = [c EXCEPT !.Nl = l,
                                  !.Nh = (((a \div Half) % Half) + carry + (b \div Half)) % Half]
    <3> HIDE DEF a, b
    <3> QED
      BY <2>1, Zenon DEF Counted
  <2> DEFINE u == (((a \div Half) % Half) + carry + (b \div Half)) % Half
             p == a % Half
             q == (a \div Half) % Half
             bm == Blocks(m)
             r == Rest(m)
             d == [h |-> bm, Nl |-> p, Nh |-> q, data |-> r]
  <2>3. c = d
    BY <2>1
  <2> HIDE DEF l, u, p, q, bm, r
  <2>4. [d EXCEPT !.Nl = l, !.Nh = u] = [h |-> bm, Nl |-> l, Nh |-> u, data |-> r]
    <3> DEFINE e == [d EXCEPT !.Nl = l, !.Nh = u]
    <3>1. e \in [h : {bm}, Nl : {l}, Nh : {u}, data : {r}]
      OBVIOUS
    <3> HIDE DEF e, d
    <3>2. e = [h |-> bm, Nl |-> l, Nh |-> u, data |-> r]
      BY <3>1
    <3> QED
      BY <3>2 DEF e
  <2> HIDE DEF d
  <2>5. Counted(c, b) = [h |-> bm, Nl |-> l, Nh |-> u, data |-> r]
    BY <2>2, <2>3, <2>4 DEF u
  <2> QED
    BY <2>5 DEF u, c, bm, r
<1> QED
  BY <1>1, <1>2, <1>3

(* An equation that the provers do not take apart.                          *)
Same(x, y) == x = y

(* Brackets among three sequences.                                         *)
LEMMA ThreeJoined ==
  ASSUME NEW S, NEW a \in Seq(S), NEW b \in Seq(S), NEW c \in Seq(S)
  PROVE  Same((a \o b) \o c, a \o (b \o c))
<1>1. (a \o b) \o c = a \o (b \o c)
  BY ConcatAssociative
<1> QED
  BY <1>1, Zenon DEF Same

(* SHA256_Update() takes the context of a message to that of the message    *)
(* and the words, wherever the block boundary falls.                        *)
LEMMA ContextGrows ==
  ASSUME NEW S, NEW m \in Seq(S), NEW w \in Seq(S), NEW ni
  PROVE  SHA256_Update(ni, Context(m), w) = Context(m \o w)
<1> DEFINE r == Rest(m)
           bm == Blocks(m)
           x == m \o w
           nl == BitsOf(x) % Half
           nh == (BitsOf(x) \div Half) % Half
           c == [h |-> bm, Nl |-> nl, Nh |-> nh, data |-> r]
           need == BlockWords - Len(r)
           first == IF r = <<>> THEN <<>> ELSE <<r \o SubSeq(w, 1, need)>>
           left == IF r = <<>> THEN w ELSE SubSeq(w, need + 1, Len(w))
<1>1. /\ r \in Seq(S) /\ Len(r) \in 0 .. BlockWords - 1
      /\ bm \in Seq(Seq(S)) /\ Len(w) \in Nat /\ Len(r) \in Nat
  <2>1. r \in Seq(S) /\ Len(r) = Len(m) % BlockWords /\ Len(m) % BlockWords \in 0 .. BlockWords - 1
    BY RestIs
  <2>2. bm \in Seq(Seq(S)) /\ Len(w) \in Nat
    BY BlocksAre
  <2> QED
    BY <2>1, <2>2, BlockSize
<1>2. Blocks(x) = bm \o Blocks(r \o w) /\ Rest(x) = Rest(r \o w)
  BY BlocksAppended
<1>3. Counted(Context(m), Len(w) * WordBits) = c
  BY CountedIs
<1>4. SHA256_Update(ni, Context(m), w) =
        IF r # <<>> /\ Len(w) < need
        THEN [c EXCEPT !.data = @ \o w]
        ELSE [c EXCEPT !.h = sha256_process_blocks(ni, @, first \o Blocks(left)),
                       !.data = Rest(left)]
  <2>1. c.data = r
    OBVIOUS
  <2> HIDE DEF c, r, bm, x
  <2> QED
    BY <1>3, <2>1 DEF SHA256_Update, Rest
<1> HIDE DEF r, bm, nl, nh
<1>5. CASE r # <<>> /\ Len(w) < need
  <2>1. r \o w \in Seq(S) /\ Len(r \o w) < BlockWords
    BY <1>1, <1>5, BlockSize, ConcatProperties
  <2>2. Blocks(r \o w) = <<>> /\ Rest(r \o w) = r \o w
    BY <2>1, ShortRest
  <2>3. Blocks(x) = bm /\ Rest(x) = r \o w
    BY <1>1, <1>2, <2>2, ConcatEmptySeq
  <2>4. SHA256_Update(ni, Context(m), w) = [h |-> bm, Nl |-> nl, Nh |-> nh, data |-> r \o w]
    BY <1>4, <1>5
  <2>5. Context(x) = [h |-> bm, Nl |-> nl, Nh |-> nh, data |-> r \o w]
    BY <2>3 DEF Context, nl, nh
  <2> QED
    BY <2>4, <2>5
<1>6. CASE ~(r # <<>> /\ Len(w) < need)
  <2>1. /\ left \in Seq(S) /\ first \in Seq(Seq(S))
        /\ Blocks(r \o w) = first \o Blocks(left) /\ Rest(r \o w) = Rest(left)
    <3>1. CASE r = <<>>
      <4>1. left = w /\ first = <<>> /\ r \o w = w
        BY <3>1, ConcatEmptySeq
      <4>2. Blocks(w) \in Seq(Seq(S))
        BY BlocksAre
      <4>3. <<>> \o Blocks(w) = Blocks(w)
        BY <4>2, ConcatEmptySeq
      <4>4. <<>> \in Seq(Seq(S))
        BY EmptySeq
      <4> HIDE DEF left, first
      <4> QED
        BY <4>1, <4>3, <4>4
    <3>2. CASE r # <<>>
      <4> DEFINE s == SubSeq(w, 1, need)
                 v == SubSeq(w, need + 1, Len(w))
      <4>1. need \in 1 .. Len(w) /\ Len(r) + need = BlockWords /\ need \in Nat
        BY <1>1, <1>6, <3>2, BlockSize
      <4> HIDE DEF need
      <4>2. \A i \in 1 .. Len(w) : w[i] \in S
        BY ElementOfSeq
      <4>3. s \in Seq(S) /\ Len(s) = need
        <5>1. \A i \in 1 .. need : w[i] \in S
          BY <4>1, <4>2
        <5>2. s \in Seq(S) /\ Len(s) = IF 1 <= need THEN need - 1 + 1 ELSE 0
          BY <4>1, <5>1, SubSeqProperties
        <5> QED
          BY <4>1, <5>2
      <4>4. v \in Seq(S)
        <5>1. \A i \in need + 1 .. Len(w) : w[i] \in S
          BY <4>1, <4>2
        <5>2. need + 1 \in Int /\ Len(w) \in Int
          BY <4>1, <1>1
        <5> QED
          BY <5>1, <5>2, SubSeqProperties
      <4>5. w = s \o v
        <5>1. SubSeq(w, 1, need) \o SubSeq(w, need + 1, Len(w)) = SubSeq(w, 1, Len(w))
          <6>1. 1 \in 1 .. Len(w) + 1 /\ need \in 1 - 1 .. Len(w) /\ Len(w) \in need .. Len(w)
            BY <1>1, <4>1
          <6> QED
            BY <6>1, ConcatAdjacentSubSeq
        <5>2. SubSeq(w, 1, Len(w)) = w
          BY SubSeqFull
        <5> QED
          BY <5>1, <5>2
      <4> HIDE DEF s, v
      <4>7. r \o (s \o v) = (r \o s) \o v
        <5>1. r \in Seq(S) /\ s \in Seq(S) /\ v \in Seq(S)
          BY <1>1, <4>3, <4>4
        <5>2. Same((r \o s) \o v, r \o (s \o v))
          <6> HIDE DEF s, v, r, x, c, first, left, need
          <6> QED
            BY <5>1, ThreeJoined, Zenon
        <5> QED
          BY <5>2, Zenon DEF Same
      <4> DEFINE b == r \o s
      <4>6. b \in Seq(S) /\ Len(b) = BlockWords
        BY <1>1, <4>1, <4>3, ConcatProperties
      <4>8. first = <<b>> /\ left = v
        BY <3>2 DEF s, v
      <4> HIDE DEF b, first, left
      <4>9. Blocks(b \o v) = <<b>> \o Blocks(v) /\ Rest(b \o v) = Rest(v)
        BY <4>4, <4>6, BlockFirst
      <4> QED
        BY <4>4, <4>5, <4>6, <4>7, <4>8, <4>9 DEF b
    <3> QED
      BY <3>1, <3>2
  <2> HIDE DEF first, left
  <2>2. first \o Blocks(left) \in Seq(Seq(S))
    <3>1. Blocks(left) \in Seq(Seq(S))
      BY <2>1, BlocksAre
    <3> QED
      BY <2>1, <3>1, ConcatProperties
  <2>3. sha256_process_blocks(ni, bm, first \o Blocks(left)) = Blocks(x)
    BY <1>1, <1>2, <2>1, <2>2, Processed
  <2>4. SHA256_Update(ni, Context(m), w) = [h |-> Blocks(x), Nl |-> nl, Nh |-> nh, data |-> Rest(x)]
    BY <1>2, <1>4, <1>6, <2>1, <2>3
  <2> QED
    BY <2>4 DEF Context, nl, nh
<1> QED
  BY <1>5, <1>6

-----------------------------------------------------------------------------
(* The padding of a message: the one bit, the fewest zeros and the number   *)
(* of bits.                                                                 *)
ZerosAfter(m) ==
  LET r == Len(m) % BlockWords
  IN IF r + 3 <= BlockWords THEN BlockWords - 3 - r ELSE 2 * BlockWords - 3 - r
CountOf(m) == <<BitsOf(m) \div Half, BitsOf(m) % Half>>
PaddingOf(m) == <<One>> \o Zeros(ZerosAfter(m)) \o CountOf(m)

(* The zeros of Padded(): those that fill the last block.                   *)
LEMMA PaddingFills ==
  ASSUME NEW S, NEW m \in Seq(S)
  PROVE  /\ ZerosAfter(m) \in 0 .. BlockWords - 1
         /\ (CHOOSE k \in 0 .. BlockWords - 1 :
               (Len(m) + 1 + k + LengthWords) % BlockWords = 0) = ZerosAfter(m)
<1> DEFINE B == BlockWords
           n == Len(m)
           q == n \div B
           r == n % B
           z == ZerosAfter(m)
           Fills(k) == (n + 1 + k + LengthWords) % B = 0
<1>1. n \in Nat
  BY LenProperties
<1>2. B \in Nat /\ B > 2 /\ B \in Nat \ {0}
  BY BlockSize
<1>3. q \in Nat /\ r \in 0 .. B - 1 /\ n = q * B + r
  <2> HIDE DEF n, B
  <2> QED
    BY <1>1, <1>2, Division
<1>4. z = IF r + 3 <= B THEN B - 3 - r ELSE 2 * B - 3 - r
  BY DEF ZerosAfter
<1> HIDE DEF n, B, q, r, z
<1>5. z \in 0 .. B - 1
  BY <1>2, <1>3, <1>4
<1>6. \E p \in Nat : n + 1 + z + LengthWords = p * B + 0
  <2>1. CASE r + 3 <= B
    <3>1. (q + 1) * B + 0 = q * B + B
      BY <1>2, <1>3
    <3>2. n + 1 + z + LengthWords = q * B + B
      BY <1>2, <1>3, <1>4, <2>1 DEF LengthWords
    <3> QED
      BY <1>3, <3>1, <3>2
  <2>2. CASE ~(r + 3 <= B)
    <3>1. (q + 2) * B + 0 = q * B + 2 * B
      BY <1>2, <1>3
    <3>2. n + 1 + z + LengthWords = q * B + 2 * B
      BY <1>2, <1>3, <1>4, <2>2 DEF LengthWords
    <3> QED
      BY <1>3, <3>1, <3>2
  <2> QED
    BY <2>1, <2>2
<1>7. Fills(z)
  <2>1. PICK p \in Nat : n + 1 + z + LengthWords = p * B + 0
    BY <1>6
  <2>2. 0 \in 0 .. B - 1
    BY <1>2
  <2>3. (p * B + 0) % B = 0
    BY <1>2, <2>2, QuotientOf
  <2> QED
    BY <2>1, <2>3
<1>8. ASSUME NEW j \in 0 .. B - 1, NEW k \in 0 .. B - 1, j < k, Fills(j), Fills(k)
      PROVE  FALSE
  <2> DEFINE a == n + 1 + j + LengthWords
             d == k - j
  <2>1. a \in Nat /\ d \in 1 .. B - 1 /\ a + d = n + 1 + k + LengthWords
    BY <1>1, <1>2, <1>8 DEF LengthWords
  <2>2. a % B = 0 /\ (a + d) % B = 0
    BY <1>8, <2>1
  <2> HIDE DEF a, d
  <2>3. (a + d) % B # a % B
    BY <1>2, <2>1, RemaindersDiffer
  <2> QED
    BY <2>2, <2>3
<1>9. \A k \in 0 .. B - 1 : Fills(k) => k = z
  <2> HIDE DEF Fills
  <2>1. ASSUME NEW k \in 0 .. B - 1, Fills(k), k # z PROVE FALSE
    <3>1. k < z \/ z < k
      BY <1>2, <1>5, <2>1
    <3> QED
      BY <1>5, <1>7, <1>8, <2>1, <3>1
  <2> QED
    BY <2>1
<1>10. (CHOOSE k \in 0 .. B - 1 : Fills(k)) = z
  <2> HIDE DEF Fills
  <2> QED
    BY <1>5, <1>7, <1>9
<1> QED
  BY <1>5, <1>10 DEF B, n, z

LEMMA ZerosAre ==
  ASSUME NEW S, 0 \in S, NEW n \in Nat
  PROVE  /\ Zeros(n) \in Seq(S) /\ Len(Zeros(n)) = n
         /\ \A i \in 1 .. n : Zeros(n)[i] = 0
  BY DEF Zeros

LEMMA ZerosJoin ==
  ASSUME NEW a \in Nat, NEW b \in Nat
  PROVE  Zeros(a) \o Zeros(b) = Zeros(a + b)
<1> DEFINE s == Zeros(a)
           t == Zeros(b)
           u == Zeros(a + b)
<1>1. a + b \in Nat /\ 0 \in Nat
  OBVIOUS
<1>2. /\ s \in Seq(Nat) /\ Len(s) = a /\ \A i \in 1 .. a : s[i] = 0
      /\ t \in Seq(Nat) /\ Len(t) = b /\ \A i \in 1 .. b : t[i] = 0
  BY <1>1, ZerosAre
<1>3. u \in Seq(Nat) /\ Len(u) = a + b /\ \A i \in 1 .. a + b : u[i] = 0
  <2> DEFINE n == a + b
  <2> HIDE DEF n
  <2>1. Zeros(n) \in Seq(Nat) /\ Len(Zeros(n)) = n /\ \A i \in 1 .. n : Zeros(n)[i] = 0
    BY <1>1, ZerosAre DEF n
  <2> QED
    BY <2>1 DEF n
<1> HIDE DEF s, t, u
<1>4. /\ s \o t \in Seq(Nat) /\ Len(s \o t) = a + b
      /\ \A i \in 1 .. a + b : (s \o t)[i] = IF i <= a THEN s[i] ELSE t[i - a]
  BY <1>2, ConcatProperties
<1>5. ASSUME NEW i \in 1 .. a + b PROVE (s \o t)[i] = u[i]
  <2>1. i > a => i - a \in 1 .. b
    OBVIOUS
  <2> QED
    BY <1>2, <1>3, <1>4, <2>1
<1>6. s \o t = u
  BY <1>3, <1>4, <1>5, SeqEqual
<1> QED
  BY <1>6 DEF s, t, u

(* What a word may be.                                                      *)
IsWordSet(S) == One \in S /\ Nat \subseteq S

(* Brackets among four and five sequences.                                  *)
LEMMA FourJoined ==
  ASSUME NEW S, NEW a \in Seq(S), NEW b \in Seq(S), NEW c \in Seq(S), NEW d \in Seq(S)
  PROVE  Same(((a \o b) \o c) \o d, a \o ((b \o c) \o d))
<1> DEFINE e == b \o c
<1>1. e \in Seq(S)
  BY ConcatProperties
<1>2. Same((a \o b) \o c, a \o e)
  BY ThreeJoined, Zenon
<1> HIDE DEF e
<1>3. Same((a \o e) \o d, a \o (e \o d))
  BY <1>1, ThreeJoined, Zenon
<1> QED
  BY <1>2, <1>3, Zenon DEF e, Same

LEMMA FiveJoined ==
  ASSUME NEW S, NEW a \in Seq(S), NEW b \in Seq(S), NEW c \in Seq(S), NEW d \in Seq(S),
         NEW e \in Seq(S)
  PROVE  Same(a \o ((b \o (c \o d)) \o e), ((a \o b) \o c) \o (d \o e))
<1> DEFINE f == d \o e
           g == a \o b
           h == b \o c
<1>1. f \in Seq(S) /\ g \in Seq(S) /\ h \in Seq(S) /\ c \o d \in Seq(S)
  BY ConcatProperties
<1>2. Same(h \o d, b \o (c \o d))
  BY ThreeJoined, Zenon
<1>3. Same(g \o c, a \o h)
  BY ThreeJoined, Zenon
<1> HIDE DEF g, h
<1>4. Same((h \o d) \o e, h \o f)
  BY <1>1, ThreeJoined, Zenon
<1> HIDE DEF f
<1>5. Same((a \o h) \o f, a \o (h \o f))
  BY <1>1, ThreeJoined, Zenon
<1> QED
  BY <1>2, <1>3, <1>4, <1>5, Zenon DEF f, g, Same

(* Each part of the padding is made of words.                               *)
LEMMA PaddingIs ==
  ASSUME NEW S, IsWordSet(S), NEW m \in Seq(S)
  PROVE  /\ Zeros(ZerosAfter(m)) \in Seq(S) /\ Len(Zeros(ZerosAfter(m))) = ZerosAfter(m)
         /\ CountOf(m) \in Seq(S) /\ Len(CountOf(m)) = 2
         /\ <<One>> \in Seq(S) /\ PaddingOf(m) \in Seq(S)
<1> DEFINE z == ZerosAfter(m)
           t == Zeros(z)
           c == CountOf(m)
           o == <<One>>
<1>1. z \in Nat
  BY PaddingFills, BlockSize
<1>2. 0 \in S /\ One \in S /\ Nat \subseteq S
  BY DEF IsWordSet
<1> HIDE DEF z
<1>3. t \in Seq(S) /\ Len(t) = z
  BY <1>1, <1>2, ZerosAre
<1>4. c \in Seq(S) /\ Len(c) = 2
  <2> DEFINE a == BitsOf(m) \div Half
             b == BitsOf(m) % Half
  <2>1. a \in Nat /\ b \in Nat
    <3> DEFINE n == BitsOf(m)
    <3>1. n \in Nat
      BY BitsNat
    <3> HIDE DEF n
    <3>2. n \div Half \in Nat /\ n % Half \in 0 .. Half - 1
      BY <3>1, HalfSize, Division
    <3>3. n % Half \in Nat
      BY <3>2, HalfSize
    <3> QED
      BY <3>2, <3>3 DEF n
  <2>2. c = <<a, b>>
    BY DEF CountOf
  <2> HIDE DEF a, b, c
  <2>3. a \in S /\ b \in S
    BY <1>2, <2>1
  <2> QED
    BY <2>2, <2>3
<1>5. o \in Seq(S)
  BY <1>2
<1> HIDE DEF t, c, o
<1>6. o \o t \in Seq(S)
  BY <1>3, <1>5, ConcatProperties
<1>7. (o \o t) \o c \in Seq(S)
  BY <1>4, <1>6, ConcatProperties
<1> QED
  BY <1>3, <1>4, <1>5, <1>7 DEF PaddingOf, z, t, c, o

(* The blocks SHA-256 is defined over: those of the message, and those of   *)
(* its rest and the padding.                                                *)
LEMMA PaddedIs ==
  ASSUME NEW S, IsWordSet(S), NEW m \in Seq(S)
  PROVE  Padded(m) = Blocks(m) \o Blocks(Rest(m) \o PaddingOf(m))
<1> DEFINE t == Zeros(ZerosAfter(m))
           c == CountOf(m)
           o == <<One>>
           p == (o \o t) \o c
<1>1. t \in Seq(S) /\ c \in Seq(S) /\ o \in Seq(S) /\ p \in Seq(S)
  BY PaddingIs DEF PaddingOf
<1>2. Padded(m) = Blocks(((m \o o) \o t) \o c)
  BY PaddingFills DEF Padded, CountOf, BitsOf
<1> HIDE DEF t, c, o
<1> HIDE DEF p
<1>6. Same(((m \o o) \o t) \o c, m \o p)
  BY <1>1, FourJoined, Zenon DEF p
<1> HIDE DEF p
<1>7. Blocks(m \o p) = Blocks(m) \o Blocks(Rest(m) \o p)
  BY <1>1, BlocksAppended
<1> QED
  BY <1>2, <1>6, <1>7 DEF Same, p, o, t, c, PaddingOf

(* build_tail() makes the latter of the two: the last blocks of a lane of   *)
(* dluna_sha256_x2().                                                       *)
LEMMA TailIs ==
  ASSUME NEW S, IsWordSet(S), NEW m \in Seq(S)
  PROVE  build_tail(m) = Blocks(Rest(m) \o PaddingOf(m))
<1> DEFINE n == Len(m)
           r == n % BlockWords
           rest == Rest(m)
           z == ZerosAfter(m)
           blocks == IF r < BlockWords - LengthWords THEN 1 ELSE 2
           tail == rest \o <<One>>
<1>1. /\ n = BlockWords * (n \div BlockWords) + r /\ BlockWords * (n \div BlockWords) \in Nat
      /\ rest \in Seq(S) /\ Len(rest) = r /\ r \in 0 .. BlockWords - 1
  BY RestIs
<1>2. n \in Nat
  BY LenProperties
<1>3. SubSeq(m, n - r + 1, n) = rest
  <2> DEFINE a == BlockWords * (n \div BlockWords)
  <2>1. rest = SubSeq(m, a + 1, n)
    BY DEF Rest
  <2>2. n = a + r /\ a \in Nat /\ r \in Nat
    BY <1>1, BlockSize
  <2> HIDE DEF a, r, rest, n
  <2>3. n - r + 1 = a + 1
    BY <2>2
  <2> QED
    BY <2>1, <2>3
<1>4. /\ Zeros(z) \in Seq(S) /\ <<One>> \in Seq(S)
      /\ CountOf(m) \in Seq(S)
  BY PaddingIs
<1>5. tail \in Seq(S) /\ Len(tail) = r + 1
  <2> DEFINE o == <<One>>
  <2>1. o \in Seq(S) /\ Len(o) = 1
    BY <1>4
  <2>3. rest \in Seq(S) /\ Len(rest) = r /\ r \in Nat
    BY <1>1, BlockSize
  <2> HIDE DEF o, rest, r
  <2>4. rest \o o \in Seq(S) /\ Len(rest \o o) = Len(rest) + Len(o)
    BY <2>1, <2>3, ConcatProperties, Zenon
  <2>2. rest \o o \in Seq(S) /\ Len(rest \o o) = r + 1
    BY <2>1, <2>3, <2>4
  <2> QED
    BY <2>2 DEF o
<1>6. BlockWords * blocks - LengthWords - Len(tail) = z
  <2>1. r \in Nat /\ z = IF r + 3 <= BlockWords THEN BlockWords - 3 - r
                                             ELSE 2 * BlockWords - 3 - r
    BY <1>1, BlockSize DEF ZerosAfter
  <2> HIDE DEF r, tail, z
  <2>2. CASE r + 3 <= BlockWords
    <3>1. blocks = 1
      BY <2>1, <2>2, BlockSize DEF LengthWords
    <3> QED
      BY <1>5, <2>1, <2>2, <3>1, BlockSize DEF LengthWords
  <2>3. CASE ~(r + 3 <= BlockWords)
    <3>1. blocks = 2
      BY <2>1, <2>3, BlockSize DEF LengthWords
    <3> QED
      BY <1>5, <2>1, <2>3, <3>1, BlockSize DEF LengthWords
  <2> QED
    BY <2>2, <2>3
<1>7. build_tail(m) = Blocks((tail \o Zeros(z)) \o CountOf(m))
  <2>1. BitCount(Len(m)) = CountOf(m)
    BY DEF BitCount, CountOf, BitsOf
  <2> QED
    BY <1>3, <1>6, <2>1, Zenon DEF build_tail
<1> DEFINE t == Zeros(z)
           c == CountOf(m)
           o == <<One>>
<1>8. rest \in Seq(S) /\ o \in Seq(S) /\ t \in Seq(S) /\ c \in Seq(S)
  BY <1>1, <1>4
<1> HIDE DEF t, c, o, rest
<1>9. Same(((rest \o o) \o t) \o c, rest \o ((o \o t) \o c))
  BY <1>8, FourJoined, Zenon
<1> QED
  BY <1>7, <1>9 DEF Same, PaddingOf, rest, o, t, c

(* The count of a context is the number of bits, as long as two words hold  *)
(* it.                                                                      *)
LEMMA CountFits ==
  ASSUME NEW S, NEW m \in Seq(S), BitsOf(m) < Half * Half
  PROVE  CountOf(m) = <<Context(m).Nh, Context(m).Nl>>
<1> DEFINE n == BitsOf(m)
           q == n \div Half
           r == n % Half
           H == Half
<1>1. n \in Nat /\ n < H * H /\ H \in Nat \ {0}
  BY BitsNat, HalfSize
<1>2. q \in Nat /\ r \in 0 .. H - 1 /\ n = q * H + r
  <2> HIDE DEF n, H
  <2> QED
    BY <1>1, Division DEF H
<1> HIDE DEF n, q, r, H
<1>3. q < H
  <2> SUFFICES ASSUME q >= H PROVE FALSE
    BY <1>1, <1>2
  <2>1. q * H >= H * H
    BY <1>1, <1>2
  <2>2. q * H \in Nat /\ H * H \in Nat
    BY <1>1, <1>2
  <2> QED
    BY <1>1, <1>2, <2>1, <2>2
<1>4. q % H = q
  <2>1. 0 * H + q = q /\ q \in 0 .. H - 1
    BY <1>1, <1>2, <1>3
  <2>2. (0 * H + q) % H = q
    BY <1>1, <2>1, QuotientOf
  <2> QED
    BY <2>1, <2>2
<1>5. (n \div Half) % Half = n \div Half
  BY <1>4 DEF q, H
<1> QED
  BY <1>5 DEF Context, CountOf, n

(* The one or two blocks SHA256_Final() compresses.                         *)
LastBlocks(data, count) ==
  LET pad == BlockWords - Len(data) - 1
  IN IF pad < 2
     THEN <<data \o <<One>> \o Zeros(pad), Zeros(BlockWords - 2) \o count>>
     ELSE <<data \o <<One>> \o Zeros(pad - 2) \o count>>

LEMMA TwoJoined ==
  ASSUME NEW T, NEW x \in T, NEW y \in T
  PROVE  <<x>> \o <<y>> = <<x, y>>
<1> DEFINE s == <<x>>
           t == <<y>>
           u == s \o t
           v == <<x, y>>
<1>1. s \in Seq(T) /\ t \in Seq(T) /\ Len(s) = 1 /\ Len(t) = 1 /\ s[1] = x /\ t[1] = y
      /\ v \in Seq(T) /\ Len(v) = 2 /\ v[1] = x /\ v[2] = y
  OBVIOUS
<1> HIDE DEF s, t, v
<1>2. /\ u \in Seq(T) /\ Len(u) = Len(s) + Len(t)
      /\ \A i \in 1 .. Len(s) + Len(t) : u[i] = IF i <= Len(s) THEN s[i] ELSE t[i - Len(s)]
  BY <1>1, ConcatProperties, Zenon
<1> HIDE DEF u
<1>3. Len(u) = Len(v) /\ \A i \in 1 .. Len(u) : u[i] = v[i]
  BY <1>1, <1>2
<1>4. u = v
  BY <1>1, <1>2, <1>3, SeqEqual
<1> QED
  BY <1>4 DEF u, v, s, t

(* SHA256_Final() makes the digest of the message its context stands for.   *)
LEMMA Finished ==
  ASSUME NEW S, IsWordSet(S), NEW m \in Seq(S), BitsOf(m) < Half * Half, NEW ni
  PROVE  SHA256_Final(ni, Context(m)) = Padded(m)
<1> DEFINE B == BlockWords
           r == Rest(m)
           o == <<One>>
           z == ZerosAfter(m)
           count == CountOf(m)
           pad == B - Len(r) - 1
           bm == Blocks(m)
           last == Blocks(r \o PaddingOf(m))
<1>1. /\ r \in Seq(S) /\ Len(r) = Len(m) % B /\ Len(m) % B \in 0 .. B - 1
  BY RestIs
<1>2. B \in Nat /\ B > 2
  BY BlockSize
<1>3. /\ Len(r) \in Nat /\ pad \in 0 .. B - 1
      /\ z = IF pad < 2 THEN pad + (B - 2) ELSE pad - 2
  <2> DEFINE k == Len(m) % B
  <2>1. Len(r) = k /\ k \in 0 .. B - 1 /\ z = IF k + 3 <= B THEN B - 3 - k ELSE 2 * B - 3 - k
    BY <1>1 DEF ZerosAfter
  <2> HIDE DEF k, B, r, z
  <2> QED
    BY <1>2, <2>1
<1>4. 0 \in S /\ o \in Seq(S) /\ Len(o) = 1 /\ count \in Seq(S) /\ Len(count) = 2
  BY PaddingIs DEF IsWordSet
<1>5. bm \in Seq(Seq(S))
  BY BlocksAre
<1>6. PaddingOf(m) = (o \o Zeros(z)) \o count
  BY DEF PaddingOf
<1>7. SHA256_Final(ni, Context(m)) = sha256_process_blocks(ni, bm, LastBlocks(r, count))
  <2> DEFINE c == Context(m)
  <2>1. c.data = r /\ c.h = bm /\ <<c.Nh, c.Nl>> = count
    BY CountFits DEF Context
  <2> HIDE DEF c, r, bm, count
  <2>2. SHA256_Final(ni, c) = sha256_process_blocks(ni, c.h, LastBlocks(c.data, <<c.Nh, c.Nl>>))
    BY DEF SHA256_Final, LengthWords, LastBlocks
  <2> QED
    BY <2>1, <2>2, Zenon DEF c
<1> HIDE DEF B, r, o, z, count, pad, bm
<1> DEFINE ro == r \o o
<1>8. ro \in Seq(S) /\ Len(ro) + pad = B
  <2>1. ro \in Seq(S) /\ Len(ro) = Len(r) + Len(o)
    BY <1>1, <1>4, ConcatProperties, Zenon
  <2> QED
    BY <1>2, <1>3, <1>4, <2>1 DEF pad
<1>9. CASE pad < 2
  <2> DEFINE zp == Zeros(pad)
             zb == Zeros(B - 2)
             first == ro \o zp
             second == zb \o count
  <2>1. pad \in Nat /\ B - 2 \in Nat /\ z = pad + (B - 2)
    BY <1>2, <1>3, <1>9
  <2>2. zp \in Seq(S) /\ Len(zp) = pad
    BY <1>4, <2>1, ZerosAre
  <2>3. zb \in Seq(S) /\ Len(zb) = B - 2
    <3> DEFINE n == B - 2
    <3> HIDE DEF n
    <3>1. Zeros(n) \in Seq(S) /\ Len(Zeros(n)) = n
      BY <1>4, <2>1, ZerosAre DEF n
    <3> QED
      BY <3>1 DEF n
  <2>4. Zeros(z) = zp \o zb
    <3> DEFINE n == B - 2
    <3> HIDE DEF n
    <3>1. Zeros(pad) \o Zeros(n) = Zeros(pad + n)
      BY <2>1, ZerosJoin DEF n
    <3> QED
      BY <2>1, <3>1 DEF n
  <2> HIDE DEF zp, zb, ro
  <2>5. first \in Seq(S) /\ Len(first) = B
    <3>1. first \in Seq(S) /\ Len(first) = Len(ro) + Len(zp)
      BY <1>8, <2>2, ConcatProperties, Zenon
    <3> QED
      BY <1>8, <2>2, <3>1
  <2>6. second \in Seq(S) /\ Len(second) = B
    <3>1. second \in Seq(S) /\ Len(second) = Len(zb) + Len(count)
      BY <1>4, <2>3, ConcatProperties, Zenon
    <3> QED
      BY <1>2, <1>4, <2>3, <3>1
  <2>7. Same(r \o ((o \o (zp \o zb)) \o count), ((r \o o) \o zp) \o (zb \o count))
    BY <1>1, <1>4, <2>2, <2>3, FiveJoined, Zenon
  <2>8. last = Blocks(first \o second)
    BY <1>6, <2>4, <2>7 DEF Same, ro
  <2> HIDE DEF first, second
  <2>9. Blocks(first \o second) = <<first>> \o Blocks(second) /\ Blocks(second) = <<second>>
    BY <2>5, <2>6, BlockFirst, OneBlock DEF B
  <2>10. last = <<first, second>>
    <3>1. <<first>> \o <<second>> = <<first, second>>
      BY <2>5, <2>6, TwoJoined, Zenon
    <3> QED
      BY <2>8, <2>9, <3>1, Zenon
  <2>11. <<first, second>> \in Seq(Seq(S))
    BY <2>5, <2>6
  <2>12. SHA256_Final(ni, Context(m)) = sha256_process_blocks(ni, bm, last)
    <3>1. LastBlocks(r, count) = <<first, second>>
      BY <1>9 DEF LastBlocks, first, second, zp, zb, ro, o, pad, B
    <3> QED
      BY <1>7, <2>10, <3>1, Zenon
  <2>13. sha256_process_blocks(ni, bm, last) = bm \o last
    BY <1>5, <2>10, <2>11, Processed
  <2> QED
    BY <2>12, <2>13, PaddedIs DEF bm, r
<1>10. CASE ~(pad < 2)
  <2> DEFINE zp == Zeros(pad - 2)
             block == (ro \o zp) \o count
  <2>1. pad - 2 \in Nat /\ z = pad - 2
    BY <1>2, <1>3, <1>10
  <2>2. zp \in Seq(S) /\ Len(zp) = pad - 2
    <3> DEFINE n == pad - 2
    <3> HIDE DEF n
    <3>1. Zeros(n) \in Seq(S) /\ Len(Zeros(n)) = n
      BY <1>4, <2>1, ZerosAre DEF n
    <3> QED
      BY <3>1 DEF n
  <2>3. Zeros(z) = zp
    BY <2>1
  <2> HIDE DEF zp, ro
  <2>4. block \in Seq(S) /\ Len(block) = B
    <3> DEFINE a == ro \o zp
    <3>1. a \in Seq(S) /\ Len(a) = Len(ro) + Len(zp)
      BY <1>8, <2>2, ConcatProperties, Zenon
    <3> HIDE DEF a
    <3>2. a \o count \in Seq(S) /\ Len(a \o count) = Len(a) + Len(count)
      BY <1>4, <3>1, ConcatProperties, Zenon
    <3>3. Len(a \o count) = B
      BY <1>2, <1>3, <1>4, <1>8, <2>2, <3>1, <3>2
    <3> QED
      BY <3>2, <3>3 DEF a
  <2>5. Same(((r \o o) \o zp) \o count, r \o ((o \o zp) \o count))
    BY <1>1, <1>4, <2>2, FourJoined, Zenon
  <2>6. last = Blocks(block)
    BY <1>6, <2>3, <2>5 DEF Same, ro
  <2> HIDE DEF block
  <2>7. last = <<block>>
    BY <2>4, <2>6, OneBlock DEF B
  <2>8. <<block>> \in Seq(Seq(S))
    BY <2>4
  <2>9. SHA256_Final(ni, Context(m)) = sha256_process_blocks(ni, bm, last)
    <3>1. LastBlocks(r, count) = <<block>>
      BY <1>10 DEF LastBlocks, block, zp, ro, o, pad, B
    <3> QED
      BY <1>7, <2>7, <3>1, Zenon
  <2>10. sha256_process_blocks(ni, bm, last) = bm \o last
    BY <1>5, <2>7, <2>8, Processed
  <2> QED
    BY <2>9, <2>10, PaddedIs DEF bm, r
<1> QED
  BY <1>9, <1>10

(* hashSHA256() is SHA-256.                                                 *)
LEMMA HashedAtOnce ==
  ASSUME NEW S, IsWordSet(S), NEW m \in Seq(S), BitsOf(m) < Half * Half, NEW ni
  PROVE  hashSHA256(ni, m) = Padded(m)
<1>1. <<>> \in Seq(S) /\ <<>> \o m = m
  BY ConcatEmptySeq
<1>2. SHA256_Update(ni, SHA256_Init, m) = Context(m)
  <2>1. SHA256_Update(ni, Context(<<>>), m) = Context(<<>> \o m)
    BY <1>1, ContextGrows
  <2> QED
    BY <1>1, <2>1, EmptyContext
<1> QED
  BY <1>2, Finished DEF hashSHA256

-----------------------------------------------------------------------------
(* The blocks of either lane, and what a round makes of the two states.     *)
LaneBlocks(m) == [l \in Lanes |-> Blocks(m[l]) \o build_tail(m[l])]
Round(m, i, h) ==
  [l \in Lanes |-> IF i <= Len(LaneBlocks(m)[l])
                    THEN Append(h[l], LaneBlocks(m)[l][i]) ELSE h[l]]

(* The states of dluna_sha256_x2(), round by round, up to the longer lane.  *)
LockstepIs(g, n, m) ==
  /\ n \in Nat /\ \A l \in Lanes : Len(LaneBlocks(m)[l]) <= n
  /\ dluna_sha256_x2(m) = g[n]
  /\ g[0] = [l \in Lanes |-> <<>>]
  /\ \A i \in 0 .. n - 1 : g[i + 1] = Round(m, i + 1, g[i])

(* The blocks of a lane are those of its padded message.                    *)
LEMMA LaneBlocksAre ==
  ASSUME NEW S, IsWordSet(S), NEW m \in [Lanes -> Seq(S)], NEW l \in Lanes
  PROVE  /\ LaneBlocks(m)[l] = Padded(m[l])
         /\ LaneBlocks(m)[l] \in Seq(Seq(S)) /\ Len(LaneBlocks(m)[l]) \in Nat
<1> DEFINE w == m[l]
           t == Rest(w) \o PaddingOf(w)
<1>1. w \in Seq(S)
  OBVIOUS
<1>2. t \in Seq(S)
  <2>1. Rest(w) \in Seq(S)
    BY RestIs
  <2>2. PaddingOf(w) \in Seq(S)
    BY PaddingIs
  <2> QED
    BY <2>1, <2>2, ConcatProperties, Zenon
<1>3. Blocks(w) \in Seq(Seq(S)) /\ Blocks(t) \in Seq(Seq(S))
  <2> HIDE DEF w, t
  <2> QED
    BY <1>1, <1>2, BlocksAre
<1>4. build_tail(w) = Blocks(t) /\ Padded(w) = Blocks(w) \o Blocks(t)
  BY <1>1, TailIs, PaddedIs
<1>5. LaneBlocks(m)[l] = Blocks(w) \o build_tail(w)
  BY DEF LaneBlocks
<1> DEFINE bw == Blocks(w)
           bt == Blocks(t)
<1>6. bw \o bt \in Seq(Seq(S))
  <2> HIDE DEF bw, bt
  <2> QED
    BY <1>3, ConcatProperties, Zenon DEF bw, bt
<1> HIDE DEF w, t, bw, bt
<1>7. LaneBlocks(m)[l] = bw \o bt /\ Padded(w) = bw \o bt
  BY <1>4, <1>5, Zenon DEF bw, bt
<1> QED
  BY <1>6, <1>7, LenProperties DEF w

(* The state a round puts back for a lane without a block left.             *)
LEMMA RoundIs ==
  ASSUME NEW S, IsWordSet(S), NEW m \in [Lanes -> Seq(S)], NEW T, NEW h \in [Lanes -> T],
         NEW i \in Nat
  PROVE  LET Active(l) == i <= Len(LaneBlocks(m)[l])
             after == compress2(h, [l \in DOMAIN m |->
                        IF Active(l) THEN LaneBlocks(m)[l][i] ELSE Zeros(BlockWords)])
         IN [l \in DOMAIN m |-> Kept(Active(l), h[l], after[l])] = Round(m, i, h)
BY DEF compress2, Kept, Round

(* The recursion in dluna_sha256_x2() has these states.                     *)
LEMMA LockstepSteps ==
  ASSUME NEW S, IsWordSet(S), NEW m \in [Lanes -> Seq(S)]
  PROVE  \E g, n : LockstepIs(g, n, m)
<1> DEFINE blocks == [l \in DOMAIN m |-> Blocks(m[l]) \o build_tail(m[l])]
           N == CHOOSE n \in {Len(blocks[l]) : l \in DOMAIN blocks} :
                  \A l \in DOMAIN blocks : Len(blocks[l]) <= n
           Active(l, i) == i <= Len(blocks[l])
           Step(h, i) ==
             LET after == compress2(h, [l \in DOMAIN m |->
                            IF Active(l, i) THEN blocks[l][i] ELSE Zeros(BlockWords)])
             IN [l \in DOMAIN m |-> Kept(Active(l, i), h[l], after[l])]
           Body(g) == [i \in 0 .. N |-> IF i = 0 THEN [l \in DOMAIN m |-> <<>>]
                                                 ELSE Step(g[i - 1], i)]
           h0 == [l \in Lanes |-> <<>>]
           V == [Lanes -> Seq(Seq(S))]
           step == [p \in Nat \X V |-> Round(m, p[1] + 1, p[2])]
<1>1. blocks = LaneBlocks(m) /\ DOMAIN m = Lanes /\ DOMAIN blocks = Lanes
  BY DEF LaneBlocks
<1>2. dluna_sha256_x2(m) = (CHOOSE g : g = Body(g))[N]
  BY DEF dluna_sha256_x2
<1> HIDE DEF blocks
<1>3. N \in Nat /\ \A l \in Lanes : Len(LaneBlocks(m)[l]) <= N
  <2> DEFINE a == Len(blocks["a"])
             b == Len(blocks["b"])
             E == {Len(blocks[l]) : l \in DOMAIN blocks}
             IsMost(n) == \A l \in DOMAIN blocks : Len(blocks[l]) <= n
  <2>1. a \in Nat /\ b \in Nat /\ E = {a, b} /\ \A n : IsMost(n) <=> a <= n /\ b <= n
    <3>1. a \in Nat /\ b \in Nat
      BY <1>1, LaneBlocksAre DEF Lanes
    <3> QED
      BY <1>1, <3>1 DEF Lanes
  <2>2. \E n \in E : IsMost(n)
    <3> HIDE DEF a, b, E, IsMost
    <3> QED
      BY <2>1
  <2>3. N \in E /\ IsMost(N)
    <3> HIDE DEF E, IsMost
    <3>1. (CHOOSE n \in E : IsMost(n)) \in E /\ IsMost(CHOOSE n \in E : IsMost(n))
      BY <2>2, Zenon
    <3> QED
      BY <3>1 DEF E, IsMost
  <2> HIDE DEF N, a, b
  <2> QED
    BY <1>1, <2>1, <2>3
<1>4. ASSUME NEW T, NEW h \in [Lanes -> T], NEW i \in Nat
      PROVE  Step(h, i) = Round(m, i, h)
  BY <1>1, RoundIs
<1> HIDE DEF N, Step
<1>5. ASSUME NEW h \in V, NEW i \in Nat \ {0} PROVE Round(m, i, h) \in V
  <2>1. ASSUME NEW l \in Lanes
        PROVE  (IF i <= Len(LaneBlocks(m)[l])
                THEN Append(h[l], LaneBlocks(m)[l][i]) ELSE h[l]) \in Seq(Seq(S))
    <3> DEFINE b == LaneBlocks(m)[l]
    <3>1. b \in Seq(Seq(S)) /\ Len(b) \in Nat /\ h[l] \in Seq(Seq(S))
      BY LaneBlocksAre
    <3> HIDE DEF b
    <3>2. CASE i <= Len(b)
      <4>1. b[i] \in Seq(S)
        BY <3>1, <3>2, ElementOfSeq
      <4>2. Append(h[l], b[i]) \in Seq(Seq(S))
        BY <3>1, <4>1, AppendProperties
      <4> QED
        BY <3>2, <4>2 DEF b
    <3>3. CASE ~(i <= Len(b))
      BY <3>1, <3>3 DEF b
    <3> QED
      BY <3>2, <3>3
  <2> QED
    BY <2>1 DEF Round
<1>6. step \in [Nat \X V -> V] /\ h0 \in V
  <2>1. h0 \in V
    OBVIOUS
  <2>2. ASSUME NEW p \in Nat \X V PROVE Round(m, p[1] + 1, p[2]) \in V
    <3> HIDE DEF V
    <3> QED
      BY <1>5
  <2> HIDE DEF V
  <2> QED
    BY <2>1, <2>2
<1> HIDE DEF V, h0
<1>7. PICK f \in [Nat -> V] : Recursive(f, h0, step)
  <2> HIDE DEF step
  <2> QED
    BY <1>6, Recursion
<1>8. f[0] = h0 /\ \A i \in Nat : f[i + 1] = Round(m, i + 1, f[i])
  BY <1>7 DEF Recursive
<1> DEFINE k == [i \in 0 .. N |-> f[i]]
<1>9. k = Body(k)
  <2>1. ASSUME NEW i \in 0 .. N PROVE k[i] = Body(k)[i]
    <3>1. CASE i = 0
      BY <1>1, <1>8, <3>1 DEF h0
    <3>2. CASE i # 0
      <4>1. i \in Nat /\ i - 1 \in Nat /\ (i - 1) + 1 = i /\ i - 1 \in 0 .. N
        BY <1>3, <3>2
      <4>2. f[i] = Round(m, i, f[i - 1])
        BY <1>8, <4>1
      <4>3. f[i - 1] \in [Lanes -> Seq(Seq(S))]
        BY <1>7, <4>1 DEF V
      <4>4. Step(f[i - 1], i) = Round(m, i, f[i - 1])
        BY <1>4, <4>1, <4>3
      <4> QED
        BY <3>2, <4>1, <4>2, <4>4
    <3> QED
      BY <3>1, <3>2
  <2> QED
    BY <2>1
<1> DEFINE g == CHOOSE g : g = Body(g)
<1>10. g = Body(g)
  <2> HIDE DEF Body, k
  <2>1. \E x : x = Body(x)
    BY <1>9
  <2> QED
    BY <2>1, Zenon
<1>11. dluna_sha256_x2(m) = g[N]
  BY <1>2
<1> HIDE DEF g
<1>12. g[0] = h0
  <2>1. Body(g)[0] = h0
    BY <1>1, <1>3 DEF h0
  <2> HIDE DEF Body
  <2> QED
    BY <1>10, <2>1
<1>13. ASSUME NEW i \in 0 .. N - 1 PROVE g[i + 1] = Step(g[i], i + 1)
  <2>1. i + 1 \in 0 .. N /\ i + 1 # 0 /\ (i + 1) - 1 = i
    BY <1>3
  <2>2. Body(g)[i + 1] = Step(g[i], i + 1)
    BY <2>1
  <2> HIDE DEF Body
  <2> QED
    BY <1>10, <2>2
<1>14. ASSUME NEW i \in 0 .. N PROVE \E T : g[i] \in [Lanes -> T]
  <2>1. CASE i = 0
    <3>1. g[0] \in [Lanes -> {<<>>}]
      BY <1>12 DEF h0
    <3> QED
      BY <2>1, <3>1
  <2>2. CASE i # 0
    <3>1. i - 1 \in 0 .. N - 1 /\ (i - 1) + 1 = i
      BY <1>3, <2>2
    <3>2. g[i] = Step(g[i - 1], i)
      BY <1>13, <3>1
    <3>3. g[i] \in [Lanes -> {g[i][l] : l \in Lanes}]
      BY <1>1, <3>2 DEF Step
    <3> QED
      BY <3>3
  <2> QED
    BY <2>1, <2>2
<1>15. ASSUME NEW i \in 0 .. N - 1 PROVE g[i + 1] = Round(m, i + 1, g[i])
  <2>1. i + 1 \in Nat /\ i \in 0 .. N
    BY <1>3
  <2>2. PICK T : g[i] \in [Lanes -> T]
    BY <1>14, <2>1
  <2> QED
    BY <1>4, <1>13, <2>1, <2>2
<1> QED
  BY <1>3, <1>11, <1>12, <1>15, Zenon DEF LockstepIs, h0

(* dluna_sha256_x2() is SHA-256 in either lane, whatever the length of the  *)
(* message in the other.                                                    *)
LEMMA Lockstep ==
  ASSUME NEW S, IsWordSet(S), NEW m \in [Lanes -> Seq(S)], NEW l \in Lanes
  PROVE  dluna_sha256_x2(m)[l] = Padded(m[l])
<1>1. PICK g, n : LockstepIs(g, n, m)
  BY LockstepSteps
<1> DEFINE b == LaneBlocks(m)[l]
           N == Len(b)
           Taken(i) == SubSeq(b, 1, IF i <= N THEN i ELSE N)
           Right == {i \in Nat : i <= n => g[i][l] = Taken(i)}
<1>2. /\ n \in Nat /\ N <= n /\ dluna_sha256_x2(m) = g[n] /\ g[0][l] = <<>>
      /\ \A i \in 0 .. n - 1 :
           g[i + 1][l] = IF i + 1 <= N THEN Append(g[i][l], b[i + 1]) ELSE g[i][l]
  BY <1>1 DEF LockstepIs, Round
<1>3. b \in Seq(Seq(S)) /\ N \in Nat /\ b = Padded(m[l])
  BY LaneBlocksAre
<1> HIDE DEF b, N
<1>4. 0 \in Right
  <2>1. SubSeq(b, 1, 0) = <<>>
    BY SubSeqEmpty
  <2>2. Taken(0) = SubSeq(b, 1, 0)
    BY <1>3
  <2>3. g[0][l] = Taken(0)
    BY <1>2, <2>1, <2>2
  <2> HIDE DEF Taken
  <2> QED
    BY <2>3
<1>5. ASSUME NEW i \in Nat, i \in Right PROVE i + 1 \in Right
  <2> SUFFICES ASSUME i + 1 <= n PROVE g[i + 1][l] = Taken(i + 1)
    OBVIOUS
  <2>1. i \in 0 .. n - 1 /\ g[i][l] = Taken(i)
    BY <1>2, <1>5
  <2>2. g[i + 1][l] = IF i + 1 <= N THEN Append(g[i][l], b[i + 1]) ELSE g[i][l]
    BY <1>2, <2>1
  <2>3. CASE i + 1 <= N
    <3>1. i < Len(b) /\ i <= N
      BY <1>3, <2>3 DEF N
    <3>2. SubSeq(b, 1, i + 1) = Append(SubSeq(b, 1, i), b[i + 1])
      BY <1>3, <3>1, OneMore
    <3> QED
      BY <2>1, <2>2, <2>3, <3>1, <3>2
  <2>4. CASE ~(i + 1 <= N)
    <3>1. (IF i <= N THEN i ELSE N) = N
      BY <1>3, <2>4
    <3> QED
      BY <2>1, <2>2, <2>4, <3>1
  <2> QED
    BY <2>3, <2>4
<1>6. n \in Right
  <2> HIDE DEF Right
  <2> QED
    BY <1>2, <1>4, <1>5, NatSetInduction
<1>7. Taken(n) = b
  <2>1. SubSeq(b, 1, N) = b
    BY <1>3, SubSeqFull DEF N
  <2>2. (IF n <= N THEN n ELSE N) = N
    BY <1>2, <1>3
  <2> QED
    BY <2>1, <2>2
<1> QED
  BY <1>2, <1>3, <1>6, <1>7

-----------------------------------------------------------------------------
(* The values of the sink, word by word.                                    *)
SinkIs(g, ni, a, cuts) ==
  /\ FusedHashSink(ni, a, cuts)[Len(a)] = g[Len(a)]
  /\ g[0] = [hashed |-> 0, ctx |-> SHA256_Init]
  /\ \A k \in 0 .. Len(a) - 1 :
       g[k + 1] = IF k + 1 \in cuts \/ k + 1 = Len(a)
                  THEN [hashed |-> k + 1,
                        ctx |-> SHA256_Update(ni, g[k].ctx, SubSeq(a, g[k].hashed + 1, k + 1))]
                  ELSE g[k]

(* The sink after h words are hashed: the context is that of these words.   *)
SinkAt(a, h) == [hashed |-> h, ctx |-> Context(SubSeq(a, 1, h))]

LEMMA SinkEmpty == ASSUME NEW a PROVE SinkAt(a, 0) = [hashed |-> 0, ctx |-> SHA256_Init]
<1>1. SubSeq(a, 1, 0) = <<>>
  BY SubSeqEmpty
<1> QED
  BY <1>1, EmptyContext, Zenon DEF SinkAt

(* Hashing the words behind the first h ones.                               *)
LEMMA SinkGrows ==
  ASSUME NEW S, NEW a \in Seq(S), NEW h \in Nat, NEW k \in Nat, h <= k, k <= Len(a), NEW ni
  PROVE  [hashed |-> k, ctx |-> SHA256_Update(ni, SinkAt(a, h).ctx, SubSeq(a, h + 1, k))]
           = SinkAt(a, k)
<1> DEFINE m == SubSeq(a, 1, h)
           w == SubSeq(a, h + 1, k)
<1>1. m \in Seq(S) /\ w \in Seq(S) /\ m \o w = SubSeq(a, 1, k)
  <2>1. Len(a) \in Nat /\ \A i \in 1 .. Len(a) : a[i] \in S
    BY LenProperties, ElementOfSeq
  <2>2. m \in Seq(S) /\ w \in Seq(S)
    BY <2>1, SubSeqProperties
  <2>3. m \o w = SubSeq(a, 1, k)
    BY <2>1
  <2> QED
    BY <2>2, <2>3
<1>2. SinkAt(a, h).ctx = Context(m)
  BY DEF SinkAt
<1> HIDE DEF m
<1>3. SHA256_Update(ni, Context(m), w) = Context(m \o w)
  <2> HIDE DEF w
  <2> QED
    BY <1>1, ContextGrows
<1> QED
  BY <1>1, <1>2, <1>3, Zenon DEF SinkAt

(* The recursion in FusedHashSink has these values.                         *)
LEMMA SinkSteps ==
  ASSUME NEW S, NEW a \in Seq(S), NEW ni, NEW cuts
  PROVE  \E g : SinkIs(g, ni, a, cuts)
<1> DEFINE N == Len(a)
           Cut(k) == k \in cuts \/ k = N
           Sink(s, k) ==
             [hashed |-> k, ctx |-> SHA256_Update(ni, s.ctx, SubSeq(a, s.hashed + 1, k))]
           Body(g) == [k \in 0 .. N |->
                         IF k = 0 THEN [hashed |-> 0, ctx |-> SHA256_Init]
                         ELSE LET sink == g[k - 1]
                              IN IF k \in cuts \/ k = Len(a)
                                 THEN [hashed |-> k,
                                       ctx |-> SHA256_Update(ni, sink.ctx,
                                                             SubSeq(a, sink.hashed + 1, k))]
                                 ELSE sink]
           step == [p \in Nat \X Nat |-> IF Cut(p[1] + 1) THEN p[1] + 1 ELSE p[2]]
<1>1. N \in Nat
  BY LenProperties
<1> HIDE DEF Cut
<1>2. step \in [Nat \X Nat -> Nat]
  OBVIOUS
<1>3. PICK f \in [Nat -> Nat] : Recursive(f, 0, step)
  <2> HIDE DEF step
  <2> QED
    BY <1>2, Recursion
<1>4. f[0] = 0 /\ \A i \in Nat : f[i + 1] = IF Cut(i + 1) THEN i + 1 ELSE f[i]
  BY <1>3 DEF Recursive
<1> DEFINE Below == {i \in Nat : f[i] <= i}
<1>5. Nat \subseteq Below
  <2>1. 0 \in Below
    BY <1>4
  <2>2. ASSUME NEW i \in Nat, i \in Below PROVE i + 1 \in Below
    <3>1. f[i] \in Nat /\ f[i] <= i /\ i + 1 \in Nat
      BY <1>3, <2>2
    <3>2. f[i + 1] = IF Cut(i + 1) THEN i + 1 ELSE f[i]
      BY <1>4
    <3> DEFINE x == f[i]
               y == f[i + 1]
    <3>3. x \in Nat /\ x <= i /\ y = IF Cut(i + 1) THEN i + 1 ELSE x
      BY <3>1, <3>2
    <3> HIDE DEF x, y
    <3>4. y <= i + 1
      BY <3>3
    <3> QED
      BY <3>1, <3>4 DEF y
  <2> HIDE DEF Below
  <2> QED
    BY <2>1, <2>2, NatSetInduction
<1> DEFINE k == [i \in 0 .. N |-> SinkAt(a, f[i])]
<1>6. SinkAt(a, 0) = [hashed |-> 0, ctx |-> SHA256_Init]
  BY SinkEmpty
<1>7. ASSUME NEW i \in 1 .. N PROVE f[i - 1] \in 0 .. i - 1 /\ i - 1 \in 0 .. N /\ i \in Nat
  <2>1. i - 1 \in Nat /\ f[i - 1] \in Nat /\ i - 1 \in Below
    BY <1>1, <1>3, <1>5
  <2> QED
    BY <1>1, <2>1
<1>8. k = Body(k)
  <2>1. ASSUME NEW i \in 0 .. N PROVE k[i] = Body(k)[i]
    <3>1. CASE i = 0
      BY <1>4, <1>6, <3>1
    <3>2. CASE i # 0
      <4>1. i \in 1 .. N
        BY <1>1, <3>2
      <4>2. f[i - 1] \in 0 .. i - 1 /\ i - 1 \in 0 .. N /\ i \in Nat
        BY <1>7, <4>1
      <4>3. f[i] = IF Cut(i) THEN i ELSE f[i - 1]
        <5>1. i - 1 \in Nat /\ (i - 1) + 1 = i
          BY <4>1
        <5> QED
          BY <1>4, <5>1
      <4> DEFINE h == f[i - 1]
                 sink == SinkAt(a, h)
      <4>4. k[i - 1] = sink /\ k[i] = SinkAt(a, f[i]) /\ sink.hashed = h
        BY <4>2 DEF SinkAt
      <4> HIDE DEF k
      <4>5. Body(k)[i] = IF Cut(i) THEN Sink(sink, i) ELSE sink
        BY <3>2, <4>4 DEF Cut
      <4> HIDE DEF Body
      <4>6. Sink(sink, i) = SinkAt(a, i)
        <5>1. h \in Nat /\ h <= i /\ i <= Len(a)
          BY <4>1, <4>2
        <5> HIDE DEF h
        <5>2. [hashed |-> i, ctx |-> SHA256_Update(ni, SinkAt(a, h).ctx, SubSeq(a, h + 1, i))]
                = SinkAt(a, i)
          BY <4>2, <5>1, SinkGrows
        <5> QED
          BY <4>4, <5>2
      <4> QED
        BY <4>3, <4>4, <4>5, <4>6
    <3> QED
      BY <3>1, <3>2
  <2> QED
    BY <2>1
<1> DEFINE g == CHOOSE g : g = Body(g)
<1>9. g = Body(g)
  <2> HIDE DEF Body, k
  <2>1. \E x : x = Body(x)
    BY <1>8
  <2> QED
    BY <2>1, Zenon
<1>10. FusedHashSink(ni, a, cuts) = g
  BY DEF FusedHashSink
<1> HIDE DEF g
<1>11. g[0] = [hashed |-> 0, ctx |-> SHA256_Init]
  <2>1. Body(g)[0] = [hashed |-> 0, ctx |-> SHA256_Init]
    BY <1>1
  <2> HIDE DEF Body
  <2> QED
    BY <1>9, <2>1
<1>12. ASSUME NEW i \in 0 .. N - 1
       PROVE  g[i + 1] = IF i + 1 \in cuts \/ i + 1 = Len(a) THEN Sink(g[i], i + 1) ELSE g[i]
  <2>1. i + 1 \in 0 .. N /\ i + 1 # 0 /\ (i + 1) - 1 = i
    BY <1>1
  <2>2. Body(g)[i + 1] = IF i + 1 \in cuts \/ i + 1 = Len(a) THEN Sink(g[i], i + 1) ELSE g[i]
    BY <2>1
  <2> HIDE DEF Body
  <2> QED
    BY <1>9, <2>2
<1> QED
  BY <1>10, <1>11, <1>12 DEF SinkIs

(* The digest of a streamed array is its SHA-256, wherever the sink was     *)
(* emptied on the way.                                                      *)
LEMMA Streamed ==
  ASSUME NEW S, IsWordSet(S), NEW a \in Seq(S), BitsOf(a) < Half * Half, NEW ni, NEW cuts
  PROVE  StreamedDigest(ni, a, cuts) = Padded(a)
<1>1. PICK g : SinkIs(g, ni, a, cuts)
  BY SinkSteps
<1> DEFINE N == Len(a)
           Sink(s, k) ==
             [hashed |-> k, ctx |-> SHA256_Update(ni, s.ctx, SubSeq(a, s.hashed + 1, k))]
           Right == {k \in Nat : k <= N =>
                       \E h \in 0 .. k : g[k] = SinkAt(a, h) /\ (k = N => h = N)}
<1>2. /\ N \in Nat /\ FusedHashSink(ni, a, cuts)[N] = g[N]
      /\ g[0] = SinkAt(a, 0)
      /\ \A k \in 0 .. N - 1 :
           g[k + 1] = IF k + 1 \in cuts \/ k + 1 = N THEN Sink(g[k], k + 1) ELSE g[k]
  BY <1>1, LenProperties, SinkEmpty DEF SinkIs
<1>3. 0 \in Right
  BY <1>2
<1>4. ASSUME NEW k \in Nat, k \in Right PROVE k + 1 \in Right
  <2> SUFFICES ASSUME k + 1 <= N
               PROVE  \E h \in 0 .. k + 1 : g[k + 1] = SinkAt(a, h) /\ (k + 1 = N => h = N)
    OBVIOUS
  <2>1. k \in 0 .. N - 1 /\ k <= N
    BY <1>2
  <2>2. PICK h \in 0 .. k : g[k] = SinkAt(a, h)
    BY <1>4, <2>1
  <2>3. g[k + 1] = IF k + 1 \in cuts \/ k + 1 = N THEN Sink(g[k], k + 1) ELSE g[k]
    BY <1>2, <2>1
  <2>4. Sink(g[k], k + 1) = SinkAt(a, k + 1)
    <3> DEFINE j == k + 1
    <3>1. h \in Nat /\ j \in Nat /\ h <= j /\ j <= Len(a)
      BY <2>1, <1>2
    <3> HIDE DEF j
    <3>2. [hashed |-> j, ctx |-> SHA256_Update(ni, SinkAt(a, h).ctx, SubSeq(a, h + 1, j))]
            = SinkAt(a, j)
      BY <3>1, SinkGrows
    <3>3. SinkAt(a, h).hashed = h
      BY DEF SinkAt
    <3> QED
      BY <2>2, <3>2, <3>3 DEF j
  <2>5. CASE k + 1 \in cuts \/ k + 1 = N
    <3>1. g[k + 1] = SinkAt(a, k + 1) /\ k + 1 \in 0 .. k + 1
      BY <2>3, <2>4, <2>5
    <3> QED
      BY <3>1
  <2>6. CASE ~(k + 1 \in cuts \/ k + 1 = N)
    <3>1. g[k + 1] = SinkAt(a, h) /\ h \in 0 .. k + 1 /\ k + 1 # N
      BY <2>2, <2>3, <2>6
    <3> QED
      BY <3>1
  <2> QED
    BY <2>5, <2>6
<1>5. N \in Right
  <2> HIDE DEF Right
  <2> QED
    BY <1>2, <1>3, <1>4, NatSetInduction
<1>6. g[N] = SinkAt(a, N)
  BY <1>2, <1>5
<1>7. SubSeq(a, 1, N) = a
  BY SubSeqFull
<1>8. FusedHashSink(ni, a, cuts)[Len(a)].ctx = Context(a)
  <2>1. SinkAt(a, N).ctx = Context(SubSeq(a, 1, N))
    BY DEF SinkAt
  <2> HIDE DEF N
  <2> QED
    BY <1>2, <1>6, <1>7, <2>1, Zenon DEF N
<1> QED
  BY <1>8, Finished DEF StreamedDigest
-----------------------------------------------------------------------------
(* The words of the messages that are hashed.                                *)
Words == (Contents \X Nat) \cup {One} \cup Nat

LEMMA CellsAre ==
  ASSUME NEW c \in Contents, NEW n \in TextLengths
  PROVE  /\ IsWordSet(Words) /\ Cells(c, n) \in Seq(Words)
         /\ BitsOf(Cells(c, n)) < Half * Half
<1>1. n \in Nat /\ n * WordBits < Half * Half
  BY TextAssumption
<1>2. IsWordSet(Words)
  BY DEF IsWordSet, Words
<1>3. \A i \in 1 .. n : <<c, i>> \in Words
  BY <1>1 DEF Words
<1> DEFINE s == Cells(c, n)
<1>4. s \in Seq(Words) /\ Len(s) = n
  <2> HIDE DEF Words
  <2> QED
    BY <1>1, <1>3 DEF Cells
<1> QED
  BY <1>1, <1>2, <1>4 DEF BitsOf

(* The digest in the output of a lane is SHA-256 of that lane's array.       *)
IsDigested(l) ==
  digest[l] = Padded(Cells(l, words[l]))

(* As Waiting, for the digests.                                              *)
DigestInv ==
  /\ words = [l \in Lanes |-> words[l]] /\ digest = [l \in Lanes |-> digest[l]]
  /\ pc = "streamed" => IsDigested(lane)
  /\ pc = "digest" => \A l \in lanes : l \in ready \/ IsDigested(l)
  /\ pc = "return" => \A l \in lanes : IsDigested(l)

LEMMA DigestSteps ==
  ASSUME DigestNext
  PROVE  /\ Next
         /\ \/ StreamDigest \/ ArrayDigest \/ ReturnDigest
            \/ /\ UNCHANGED <<words, digest>>
               /\ LaneDone \/ pc' \notin {"streamed", "digest", "return"}
<1>1. CASE StreamDigest \/ ArrayDigest \/ ReturnDigest
  BY <1>1, Zenon DEF StreamDigest, ArrayDigest, ReturnDigest, Next
<1>2. CASE /\ \/ \E ls \in {{"a"}, Lanes} : Call(ls)
              \/ Chunk \/ Flush
              \/ BuildFlags \/ NoDescriptor \/ Build \/ BuildDefault \/ Verify
              \/ LaneDone
           /\ UNCHANGED <<words, digest>>
  <2>1. Next
    BY <1>2, Zenon DEF Next
  <2>2. (\E ls \in {{"a"}, Lanes} : Call(ls)) => pc' = "wolf"
    BY DEF Call, StartWolf
  <2>3. Chunk \/ Flush => pc' \in {"wolf", "flush", "sa"}
    BY DEF Chunk, Flush
  <2>4. BuildFlags \/ NoDescriptor => pc' \in {"stream", "build", "verify", "default"}
    BY DEF BuildFlags, NoDescriptor
  <2>5. Build \/ BuildDefault \/ Verify => pc' \in {"verify", "done", "default"}
    BY DEF Build, BuildDefault, Verify
  <2>6. pc' \in {"wolf", "flush", "sa", "stream", "build", "verify", "default", "done"}
          => pc' \notin {"streamed", "digest", "return"}
    OBVIOUS
  <2>7. LaneDone \/ pc' \notin {"streamed", "digest", "return"}
    BY <1>2, <2>2, <2>3, <2>4, <2>5, <2>6
  <2> QED
    BY <1>2, <2>1, <2>7, Zenon
<1> QED
  BY <1>1, <1>2, Zenon DEF DigestNext

LEMMA DigestOfPipeline == DigestSpec => Spec
<1>1. DigestInit => Init
  BY DEF DigestInit
<1>2. [DigestNext]_digestVars => [Next]_vars
  BY DigestSteps DEF digestVars
<1> QED
  BY <1>1, <1>2, PTL DEF DigestSpec, Spec

(* Both ways to hash the arrays that wait.                                   *)
LEMMA ArraysDigested ==
  ASSUME ready \subseteq Lanes, \A l \in ready : sa[l] = l,
         NEW n \in [ready -> TextLengths], NEW shani, NEW l \in ready
  PROVE  ArrayDigests(shani, n)[l] = Padded(Cells(l, n[l]))
<1> DEFINE array == [k \in ready |-> Cells(sa[k], n[k])]
<1>1. ASSUME NEW k \in ready
      PROVE  /\ array[k] = Cells(k, n[k]) /\ array[k] \in Seq(Words)
             /\ IsWordSet(Words) /\ BitsOf(array[k]) < Half * Half
  <2>1. k \in Contents /\ n[k] \in TextLengths /\ array[k] = Cells(k, n[k])
    BY DEF Contents
  <2> HIDE DEF array
  <2> QED
    BY <2>1, CellsAre
<1>2. array = [k \in ready |-> array[k]]
  OBVIOUS
<1>3. ArrayDigests(shani, n)
        = IF ready = Lanes /\ shani THEN dluna_sha256_x2(array)
          ELSE [k \in ready |-> hashSHA256(shani, array[k])]
  BY DEF ArrayDigests
<1> HIDE DEF array
<1>4. CASE ready = Lanes /\ shani
  <2>1. array \in [Lanes -> Seq(Words)]
    <3> HIDE DEF Words
    <3> QED
      BY <1>1, <1>2, <1>4
  <2>2. dluna_sha256_x2(array)[l] = Padded(array[l])
    BY <1>1, <1>4, <2>1, Lockstep
  <2> QED
    BY <1>1, <1>3, <1>4, <2>2
<1>5. CASE ~(ready = Lanes /\ shani)
  <2>1. hashSHA256(shani, array[l]) = Padded(array[l])
    BY <1>1, HashedAtOnce
  <2> QED
    BY <1>1, <1>3, <1>5, <2>1
<1> QED
  BY <1>4, <1>5

(* The digest of every hash is SHA-256 of the suffix array of its input,     *)
(* with or without the SHA extension: hashed at once, in the pieces that the *)
(* sink is filled by, or in lockstep with a message of another length.       *)
THEOREM DigestsAreSha256 == DigestSpec => []DigestIsSha256
<1>1. DigestInit => DigestInv
  BY DEF DigestInit, Init, DigestInv, NoWords, NoDigest
<1>2. TypeOK /\ Waiting /\ DigestInv /\ [DigestNext]_digestVars => DigestInv'
  <2> SUFFICES ASSUME TypeOK, Waiting, DigestInv, [DigestNext]_digestVars
               PROVE  DigestInv'
    OBVIOUS
  <2>0. /\ lane \in lanes /\ lanes \in {{"a"}, Lanes} /\ ready \subseteq lanes
        /\ lane \in Lanes /\ lanes \subseteq Lanes
    BY DEF TypeOK, Lanes
  <2>1. CASE StreamDigest
    <3>1. /\ pc' = "streamed" \/ pc' = "default"
          /\ UNCHANGED <<lane, lanes, ready>>
      BY <2>1, Zenon DEF StreamDigest, Stream, AfterFailedStream, call
    <3>2. CASE pc' = "streamed"
      <4>0. PICK n \in TextLengths :
              \E cuts \in SUBSET {k \in 1 .. n : k % SinkWords = 0}, shani \in BOOLEAN :
                /\ words' = [words EXCEPT ![lane] = n]
                /\ digest' = [digest EXCEPT ![lane] =
                                StreamedDigest(shani, Cells(lane, n), cuts)]
        BY <2>1, <3>2, Zenon DEF StreamDigest
      <4>1. PICK cuts \in SUBSET {k \in 1 .. n : k % SinkWords = 0}, shani \in BOOLEAN :
              /\ words' = [words EXCEPT ![lane] = n]
              /\ digest' = [digest EXCEPT ![lane] =
                              StreamedDigest(shani, Cells(lane, n), cuts)]
        BY <4>0, Zenon
      <4> DEFINE made == StreamedDigest(shani, Cells(lane, n), cuts)
      <4>2. made = Padded(Cells(lane, n))
        <5>1. lane \in Contents
          BY <2>0 DEF Contents
        <5> DEFINE array == Cells(lane, n)
        <5>2. IsWordSet(Words) /\ array \in Seq(Words) /\ BitsOf(array) < Half * Half
          BY <5>1, CellsAre
        <5> HIDE DEF array
        <5> QED
          BY <5>2, Streamed DEF array
      <4> HIDE DEF made
      <4>3. /\ words' = [l \in Lanes |-> words'[l]] /\ digest' = [l \in Lanes |-> digest'[l]]
            /\ words'[lane] = n /\ digest'[lane] = made
        BY <2>0, <4>1 DEF DigestInv, made
      <4> QED
        BY <3>1, <3>2, <4>2, <4>3 DEF DigestInv, IsDigested
    <3>3. CASE pc' # "streamed"
      <4>1. UNCHANGED <<words, digest>> /\ pc' = "default"
        BY <2>1, <3>1, <3>3, Zenon DEF StreamDigest
      <4> QED
        BY <4>1 DEF DigestInv
    <3> QED
      BY <3>2, <3>3
  <2>2. CASE ArrayDigest
    <3>1. pc = "digest" /\ pc' = "return" /\ UNCHANGED <<lanes, lane, ready>>
      BY <2>2 DEF ArrayDigest, Digest, call
    <3>2. PICK n \in [ready -> TextLengths], shani \in BOOLEAN :
            /\ words' = [l \in Lanes |-> IF l \in ready THEN n[l] ELSE words[l]]
            /\ digest' = [l \in Lanes |-> IF l \in ready
                                          THEN ArrayDigests(shani, n)[l] ELSE digest[l]]
      BY <2>2, Zenon DEF ArrayDigest
    <3>3. ASSUME NEW l \in lanes PROVE IsDigested(l)'
      <4>1. l \in Lanes
        BY <2>0
      <4>2. CASE l \in ready
        <5>1. ArrayDigests(shani, n)[l] = Padded(Cells(l, n[l]))
          BY <2>0, <4>2, ArraysDigested DEF Waiting
        <5>2. words'[l] = n[l] /\ digest'[l] = ArrayDigests(shani, n)[l]
          BY <3>2, <4>1, <4>2
        <5> QED
          BY <5>1, <5>2 DEF IsDigested
      <4>3. CASE l \notin ready
        <5>1. words'[l] = words[l] /\ digest'[l] = digest[l]
          BY <3>2, <4>1, <4>3
        <5> QED
          BY <3>1, <4>3, <5>1 DEF DigestInv, IsDigested
      <4> QED
        BY <4>2, <4>3
    <3>4. words' = [l \in Lanes |-> words'[l]] /\ digest' = [l \in Lanes |-> digest'[l]]
      BY <3>2
    <3> QED
      BY <3>1, <3>3, <3>4 DEF DigestInv
  <2>3. CASE ReturnDigest
    BY <2>3 DEF ReturnDigest, Return, NoWords, NoDigest, DigestInv
  <2>4. ASSUME UNCHANGED <<words, digest>>
        PROVE  /\ words' = [l \in Lanes |-> words'[l]] /\ digest' = [l \in Lanes |-> digest'[l]]
               /\ \A l : IsDigested(l)' = IsDigested(l)
    BY <2>4 DEF DigestInv, IsDigested
  <2>5. CASE UNCHANGED <<words, digest>> /\ pc' \notin {"streamed", "digest", "return"}
    BY <2>4, <2>5 DEF DigestInv
  <2>6. CASE UNCHANGED <<words, digest>> /\ LaneDone
    <3>1. /\ pc \in {"done", "streamed"} /\ lanes' = lanes
          /\ ready' = IF pc = "done" THEN ready \cup {lane} ELSE ready
          /\ IF lane = "a" /\ "b" \in lanes THEN pc' = "wolf"
             ELSE pc' = "digest" /\ lane' = lane
      BY <2>6 DEF LaneDone, StartWolf, call
    <3>2. /\ ready = IF lane = "a" THEN {} ELSE {"a"}
          /\ pc = "streamed" => lanes = {"a"}
      BY <3>1 DEF Waiting, Preparing
    <3>3. CASE pc' = "wolf"
      BY <2>4, <2>6, <3>3 DEF DigestInv
    <3>4. CASE pc' = "digest"
      <4>1. ~(lane = "a" /\ "b" \in lanes)
        BY <3>1, <3>4
      <4>2. ASSUME NEW l \in lanes PROVE l \in ready' \/ IsDigested(l)
        <5>1. CASE pc = "done"
          BY <2>0, <3>1, <3>2, <4>1, <5>1 DEF Lanes
        <5>2. CASE pc = "streamed"
          <6>1. l = lane
            BY <2>0, <3>2, <5>2
          <6> QED
            BY <5>2, <6>1 DEF DigestInv
        <5> QED
          BY <3>1, <5>1, <5>2
      <4> QED
        BY <2>4, <2>6, <3>1, <3>4, <4>2 DEF DigestInv
    <3> QED
      BY <3>1, <3>3, <3>4
  <2>7. CASE UNCHANGED digestVars
    <3>1. UNCHANGED <<words, digest, pc, lane, lanes, ready>>
      BY <2>7 DEF digestVars, vars, call
    <3> QED
      BY <2>4, <3>1 DEF DigestInv
  <2> QED
    BY <2>1, <2>2, <2>3, <2>5, <2>6, <2>7, DigestSteps, Zenon
<1>3. DigestInv => DigestIsSha256
  BY DEF DigestInv, DigestIsSha256, IsDigested
<1> QED
  BY <1>1, <1>2, <1>3, DigestOfPipeline, TemplateInBounds, WaitingHolds, PTL DEF DigestSpec
=============================================================================
