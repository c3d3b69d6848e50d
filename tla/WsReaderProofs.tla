--------------------------- MODULE WsReaderProofs ---------------------------
(***************************************************************************)
(* Proofs about WsReader for every stream, response, length limit and      *)
(* stall limit, however the stream is cut.                                 *)
(***************************************************************************)
EXTENDS WsReader, Induction

(* Where in its frame the reader is when it begins a part.                   *)
Offset(part, f) ==
  CASE part = "header"  -> 0
    [] part = "ext"     -> 2
    [] part = "mask"    -> 2 + f.ext
    [] part = "payload" -> 2 + f.ext + (IF f.masked THEN 4 ELSE 0)

(* The parts a frame has.                                                    *)
Has(part, f) ==
  /\ part = "ext" => f.ext > 0
  /\ part = "mask" => f.masked
  /\ part = "payload" => f.len > 0

NeedOf(part, f) ==
  CASE part = "header"  -> 2
    [] part = "ext"     -> f.ext
    [] part = "mask"    -> 4
    [] part = "payload" -> f.len

Types ==
  /\ frames \in Seq(Frame) /\ frames # <<>>
  /\ arrived \in 0 .. StreamLen /\ closed \in BOOLEAN /\ quit \in BOOLEAN
  /\ pc \in Pcs /\ pos \in 0 .. arrived /\ got \in Nat
  /\ cur \in Frame

(* The messages read, one effect each.                                       *)
Read == Len(effects)

ReadInv ==
  /\ Read \in 0 .. Len(frames)
  /\ effects = [i \in 1 .. Read |-> Effect(frames[i])]
  /\ pc = "upgrade" => pos < ResponseLen /\ got = 0 /\ effects = <<>>
  /\ pc \in {"turn", "head", "share"} => pos = FrameEnd(Read) /\ got = 0
  /\ pc \in Parts \cup {"act", "pong"} /\ pc # "header" =>
       Read < Len(frames) /\ cur = frames[Read + 1]
  /\ pc \in Parts =>
       /\ Has(pc, cur) /\ got < NeedOf(pc, cur)
       /\ pos = FrameEnd(Read) + Offset(pc, cur) + got
  /\ pc \in {"act", "pong"} => pos = FrameEnd(Read + 1) /\ got = 0
  /\ pc = "pong" => cur.kind = "ping"
  /\ torn => pc \in Sends \cup {"dead"}
-----------------------------------------------------------------------------
(* Frames and the positions they end at.                                     *)
LEMMA SizeType ==
  ASSUME NEW f \in Frame
  PROVE  Size(f) \in Nat /\ Size(f) >= 2
  BY DEF Frame, Size

LEMMA SumType ==
  ASSUME NEW a \in Nat, NEW b \in Nat, NEW c, c = a + b
  PROVE  c \in Nat
  OBVIOUS

(* FrameEnds is recursive: it is the function that Recursion gives, cut off  *)
(* at the last frame.                                                        *)
LEMMA EndsValue ==
  ASSUME NEW s \in Seq(Frame)
  PROVE  /\ FrameEnds(s)[0] = ResponseLen
         /\ \A k \in 0 .. Len(s) - 1 :
              FrameEnds(s)[k + 1] = FrameEnds(s)[k] + Size(s[k + 1])
         /\ \A k \in 0 .. Len(s) : FrameEnds(s)[k] \in Nat
<1> DEFINE n == Len(s)
           step == [p \in Nat \X Nat |->
                      IF p[1] < n THEN p[2] + Size(s[p[1] + 1]) ELSE p[2]]
           Body(f) == [k \in 0 .. n |->
                         IF k = 0 THEN ResponseLen ELSE f[k - 1] + Size(s[k])]
<1>0. n \in Nat /\ ResponseLen \in Nat /\ \A k \in 1 .. n : s[k] \in Frame
  BY ResponseAssumption
<1> HIDE DEF n
<1>1. \A k \in 1 .. n : Size(s[k]) \in Nat
  BY <1>0, SizeType
<1>2. step \in [Nat \X Nat -> Nat]
  <2>1. ASSUME NEW p \in Nat \X Nat
        PROVE  (IF p[1] < n THEN p[2] + Size(s[p[1] + 1]) ELSE p[2]) \in Nat
    <3>1. p[1] \in Nat /\ p[2] \in Nat
      OBVIOUS
    <3>2. p[1] < n => Size(s[p[1] + 1]) \in Nat
      BY <1>0, <1>1, <3>1
    <3>3. QED
      BY <3>1, <3>2
  <2>2. QED
    BY <2>1
<1>3. PICK f \in [Nat -> Nat] : Recursive(f, ResponseLen, step)
  <2> HIDE DEF step
  <2>1. QED
    BY <1>0, <1>2, Recursion
<1>4. ASSUME NEW k \in 0 .. n - 1 PROVE f[k + 1] = f[k] + Size(s[k + 1])
  <2>1. k \in Nat /\ f[k] \in Nat /\ k < n
    BY <1>0
  <2>2. step[<<k, f[k]>>] = f[k] + Size(s[k + 1])
    BY <2>1
  <2>3. QED
    BY <1>3, <2>1, <2>2 DEF Recursive
<1> DEFINE g == [k \in 0 .. n |-> f[k]]
<1>5. g = Body(g)
  <2>1. ASSUME NEW k \in 0 .. n PROVE g[k] = Body(g)[k]
    <3>1. CASE k = 0
      BY <1>0, <1>3, <3>1 DEF Recursive
    <3>2. CASE k # 0
      <4>1. k - 1 \in 0 .. n - 1 /\ (k - 1) + 1 = k /\ k - 1 \in 0 .. n
        BY <1>0, <3>2
      <4>2. f[k] = f[k - 1] + Size(s[k])
        BY <1>4, <4>1
      <4>3. QED
        BY <3>2, <4>1, <4>2
    <3>3. QED
      BY <3>1, <3>2
  <2>2. QED
    BY <2>1
<1>6. FrameEnds(s) = Body(FrameEnds(s))
  <2>1. FrameEnds(s) = CHOOSE h : h = Body(h)
    BY DEF FrameEnds, n
  <2> HIDE DEF Body, g
  <2>2. \E h : h = Body(h)
    BY <1>5
  <2>3. QED
    BY <2>1, <2>2, Zenon
<1>7. FrameEnds(s)[0] = ResponseLen
  BY <1>0, <1>6
<1>8. ASSUME NEW k \in 0 .. n - 1
      PROVE  FrameEnds(s)[k + 1] = FrameEnds(s)[k] + Size(s[k + 1])
  <2>1. k + 1 \in 0 .. n /\ k + 1 # 0 /\ (k + 1) - 1 = k
    BY <1>0
  <2>2. QED
    BY <1>6, <2>1
<1>9. ASSUME NEW k \in 0 .. n - 1, FrameEnds(s)[k] \in Nat
      PROVE  FrameEnds(s)[k + 1] \in Nat
  <2>1. Size(s[k + 1]) \in Nat
    BY <1>0, <1>1
  <2>2. FrameEnds(s)[k + 1] = FrameEnds(s)[k] + Size(s[k + 1])
    BY <1>8
  <2>3. FrameEnds(s)[k] \in Nat
    BY <1>9
  <2>4. QED
    BY <2>1, <2>2, <2>3, SumType
<1>10. \A k \in 0 .. n : FrameEnds(s)[k] \in Nat
  <2> DEFINE S == {k \in Nat : k <= n => FrameEnds(s)[k] \in Nat}
  <2>1. 0 \in S
    BY <1>0, <1>7
  <2>2. ASSUME NEW k \in Nat, k \in S PROVE k + 1 \in S
    <3> SUFFICES ASSUME k + 1 <= n PROVE FrameEnds(s)[k + 1] \in Nat
      BY <1>0
    <3>1. k \in 0 .. n - 1 /\ k + 1 \in 1 .. n /\ FrameEnds(s)[k] \in Nat
      BY <1>0, <2>2
    <3>2. QED
      BY <1>9, <3>1
  <2> HIDE DEF S
  <2>3. Nat \subseteq S
    BY <2>1, <2>2, NatSetInduction
  <2> USE DEF S
  <2>4. QED
    BY <1>0, <2>3
<1>11. QED
  BY <1>7, <1>8, <1>10 DEF n

(* No two frames end at the same place.                                      *)
LEMMA EndsIncrease ==
  ASSUME NEW s \in Seq(Frame), NEW j \in 0 .. Len(s), NEW k \in 0 .. Len(s), j < k
  PROVE  FrameEnds(s)[j] + 2 <= FrameEnds(s)[k]
<1> DEFINE n == Len(s)
           S == {m \in Nat : m <= n =>
                   \A i \in 0 .. m - 1 : FrameEnds(s)[i] + 2 <= FrameEnds(s)[m]}
<1>0. n \in Nat /\ \A m \in 1 .. n : s[m] \in Frame
  OBVIOUS
<1>1. /\ \A m \in 0 .. n - 1 : FrameEnds(s)[m + 1] = FrameEnds(s)[m] + Size(s[m + 1])
      /\ \A m \in 0 .. n : FrameEnds(s)[m] \in Nat
  BY EndsValue
<1> HIDE DEF n
<1>2. 0 \in S
  OBVIOUS
<1>3. ASSUME NEW m \in Nat, m \in S PROVE m + 1 \in S
  <2> SUFFICES ASSUME m + 1 <= n, NEW i \in 0 .. m
               PROVE  FrameEnds(s)[i] + 2 <= FrameEnds(s)[m + 1]
    BY <1>0
  <2>1. m \in 0 .. n - 1 /\ m \in 0 .. n /\ i \in 0 .. n /\ m + 1 \in 1 .. n
    BY <1>0
  <2>2. /\ FrameEnds(s)[m + 1] = FrameEnds(s)[m] + Size(s[m + 1])
        /\ FrameEnds(s)[m] \in Nat /\ FrameEnds(s)[i] \in Nat
        /\ Size(s[m + 1]) \in Nat /\ Size(s[m + 1]) >= 2
    BY <1>0, <1>1, <2>1, SizeType
  <2>3. i = m \/ FrameEnds(s)[i] + 2 <= FrameEnds(s)[m]
    BY <1>3, <2>1
  <2>4. QED
    BY <2>2, <2>3
<1> HIDE DEF S
<1>4. Nat \subseteq S
  BY <1>2, <1>3, NatSetInduction
<1>5. k \in S /\ k <= n /\ j \in 0 .. k - 1
  BY <1>4 DEF n
<1>6. QED
  BY <1>5 DEF S

(* One part of a frame is followed by the next one it has, or by its end.    *)
LEMMA PartsInOrder ==
  ASSUME NEW f \in Frame, NEW part \in Parts, Has(part, f),
         NEW to, to = PartAfter(part, f)
  PROVE  /\ NeedOf(part, f) \in Nat /\ Offset(part, f) \in Nat
         /\ to \in {"ext", "mask", "payload", "act", "dead"}
         /\ to \in Parts => /\ Has(to, f) /\ NeedOf(to, f) > 0
                            /\ Offset(part, f) + NeedOf(part, f) = Offset(to, f)
         /\ to = "act" => Offset(part, f) + NeedOf(part, f) = Size(f)
<1>1. f.ext \in {0, 2, 8} /\ f.len \in Nat
  BY DEF Frame
<1>2. CASE part = "header"
  BY <1>1, <1>2 DEF Has, NeedOf, Offset, PartAfter, Parts, Size
<1>3. CASE part = "ext"
  BY <1>1, <1>3 DEF Has, NeedOf, Offset, PartAfter, Parts, Size
<1>4. CASE part = "mask"
  BY <1>1, <1>4 DEF Has, NeedOf, Offset, PartAfter, Parts, Size
<1>5. CASE part = "payload"
  BY <1>1, <1>5 DEF Has, NeedOf, Offset, PartAfter, Parts, Size
<1>6. QED
  BY <1>2, <1>3, <1>4, <1>5 DEF Parts

LEMMA FrameFacts ==
  ASSUME Types
  PROVE  /\ Len(frames) \in Nat \ {0}
         /\ \A i \in 1 .. Len(frames) : frames[i] \in Frame
         /\ \A k \in 0 .. Len(frames) : FrameEnd(k) \in Nat
         /\ StreamLen \in Nat
<1>1. frames \in Seq(Frame) /\ frames # <<>>
  BY DEF Types
<1>2. Len(frames) \in Nat \ {0} /\ \A i \in 1 .. Len(frames) : frames[i] \in Frame
  <2> HIDE DEF Frame
  <2>1. QED
    BY <1>1
<1>3. \A k \in 0 .. Len(frames) : FrameEnd(k) \in Nat
  BY <1>1, EndsValue DEF FrameEnd
<1>4. QED
  BY <1>2, <1>3 DEF StreamLen

(* The header bytes that end two bytes into a frame are that frame's.        *)
LEMMA HeaderOfFrame ==
  ASSUME Types, NEW k \in 0 .. Len(frames) - 1
  PROVE  HeadersAt(FrameEnd(k) + 2) = {frames[k + 1]}
<1> DEFINE here == {i \in DOMAIN frames : FrameEnd(i - 1) + 2 = FrameEnd(k) + 2}
<1>0. Len(frames) \in Nat /\ DOMAIN frames = 1 .. Len(frames) /\ frames \in Seq(Frame)
  BY DEF Types
<1>1. ASSUME NEW i \in 1 .. Len(frames), i # k + 1
      PROVE  FrameEnd(i - 1) + 2 # FrameEnd(k) + 2
  <2>1. i - 1 \in 0 .. Len(frames) /\ k \in 0 .. Len(frames) /\ i - 1 # k
    BY <1>0, <1>1
  <2>2. FrameEnd(i - 1) \in Nat /\ FrameEnd(k) \in Nat
    BY <2>1, FrameFacts
  <2>3. CASE i - 1 < k
    BY <1>0, <2>1, <2>2, <2>3, EndsIncrease DEF FrameEnd
  <2>4. CASE k < i - 1
    BY <1>0, <2>1, <2>2, <2>4, EndsIncrease DEF FrameEnd
  <2>5. QED
    BY <1>0, <2>1, <2>3, <2>4
<1>2. k + 1 \in 1 .. Len(frames) /\ (k + 1) - 1 = k
  BY <1>0
<1>3. here = {k + 1}
  BY <1>0, <1>1, <1>2
<1>4. HeadersAt(FrameEnd(k) + 2) = {frames[i] : i \in here}
  BY <1>3 DEF HeadersAt
<1>5. QED
  BY <1>3, <1>4
-----------------------------------------------------------------------------
LEMMA TypesStep ==
  ASSUME Types, [Next]_vars
  PROVE  Types'
<1> USE DEF peer, recv, history, send
<1>0. /\ frames' = frames
      /\ arrived \in Nat /\ pos \in Nat /\ pos <= arrived /\ arrived <= StreamLen
      /\ got \in Nat /\ cur \in Frame /\ pc \in Pcs
  <2>1. frames' = frames
    BY DEF Next, Reader, UpgradeRead, ReadBytes, UpgradeFails, ReadTimeout, ReadError,
       Act, Drain, NextTurn, SendHeader, SendPayload, SendFails, Arrive, PeerCloses,
       Signal, ShareQueued, vars
  <2>2. QED
    BY <2>1, FrameFacts DEF Types
<1>1. StreamLen' = StreamLen
  BY <1>0 DEF StreamLen, FrameEnd
<1>2. ASSUME arrived' = arrived, pos' = pos, got' \in Nat, cur' = cur, closed' = closed,
             quit' = quit, pc' \in Pcs
      PROVE  Types'
  BY <1>0, <1>1, <1>2 DEF Types
<1>3. ASSUME NEW n \in 1 .. Readable, UpgradeRead(n) \/ ReadBytes(n) PROVE Types'
  <2>1. n \in Nat /\ pos + n \in 0 .. arrived
    <3>1. ResponseLen \in Nat
      BY ResponseAssumption
    <3>2. Readable \in Int /\ Readable <= arrived - pos
      BY <1>0, <3>1 DEF Readable
    <3>3. QED
      BY <1>0, <3>2
  <2>2. CASE UpgradeRead(n)
    BY <1>0, <1>1, <2>1, <2>2 DEF UpgradeRead, Types, Pcs
  <2>3. CASE ReadBytes(n)
    <3>1. pos' \in 0 .. arrived' /\ UNCHANGED <<quit, frames, arrived, closed>>
      BY <2>1, <2>3 DEF ReadBytes
    <3>2. got' \in Nat
      BY <1>0, <2>1, <2>3 DEF ReadBytes
    <3>3. cur' \in Frame
      <4>1. HeadersAt(pos') \subseteq Frame
        BY FrameFacts DEF HeadersAt, Range, Types
      <4>2. QED
        BY <1>0, <2>3, <4>1 DEF ReadBytes
    <3>4. pc' \in Pcs
      BY <1>0, <2>3 DEF ReadBytes, PartAfter, Pcs, Parts
    <3>5. QED
      BY <1>1, <3>1, <3>2, <3>3, <3>4 DEF Types
  <2>4. QED
    BY <1>3, <2>2, <2>3
<1>4. CASE UpgradeFails \/ ReadTimeout \/ ReadError \/ Act \/ Drain \/ NextTurn
  <2>1. pc' \in Pcs
    BY <1>0, <1>4 DEF UpgradeFails, ReadTimeout, ReadError, Act, Drain, NextTurn, Pcs,
       Parts, Sends
  <2>2. QED
    BY <1>0, <1>2, <1>4, <2>1 DEF UpgradeFails, ReadTimeout, ReadError, Act, Drain, NextTurn
<1>5. CASE SendHeader \/ SendPayload \/ SendFails
  BY <1>0, <1>2, <1>5 DEF SendHeader, SendPayload, SendFails, Sent, Pcs
<1>6. CASE Arrive
  BY <1>0, <1>1, <1>6, FrameFacts DEF Arrive, Types
<1>7. CASE PeerCloses \/ Signal \/ ShareQueued \/ UNCHANGED vars
  BY <1>1, <1>7 DEF PeerCloses, Signal, ShareQueued, vars, Types
<1>8. QED
  BY <1>3, <1>4, <1>5, <1>6, <1>7 DEF Next, Reader
-----------------------------------------------------------------------------
(* One more message read, and its effect.                                    *)
LEMMA OneMoreEffect ==
  ASSUME Read \in Nat, effects = [i \in 1 .. Read |-> Effect(frames[i])],
         effects' = Append(effects, Effect(frames[Read + 1])), frames' = frames
  PROVE  Read' = Read + 1 /\ effects' = [i \in 1 .. Read' |-> Effect(frames'[i])]
<1> DEFINE n == Read
           new == [i \in 1 .. n + 1 |-> Effect(frames[i])]
           S == {Effect(frames[i]) : i \in 1 .. n + 1}
<1>0. n \in Nat /\ Len(effects) = n
  BY DEF Read
<1> HIDE DEF n
<1>1. effects = [i \in 1 .. n |-> Effect(frames[i])]
  BY DEF n
<1>2. Effect(frames[n + 1]) \in S
  BY <1>0
<1>3. effects \in Seq(S)
  <2>1. \A i \in 1 .. n : Effect(frames[i]) \in S
    BY <1>0
  <2> HIDE DEF S
  <2>2. effects \in [1 .. n -> S]
    BY <1>1, <2>1
  <2>3. QED
    BY <1>0, <2>2
<1> DEFINE longer == Append(effects, Effect(frames[n + 1]))
<1>4. /\ Len(longer) = n + 1 /\ longer \in Seq(S)
      /\ longer[n + 1] = Effect(frames[n + 1])
      /\ \A i \in 1 .. n : longer[i] = effects[i]
  <2> HIDE DEF S
  <2>1. QED
    BY <1>0, <1>2, <1>3
<1>5. effects' = longer
  BY DEF n
<1> HIDE DEF longer, S
<1>6. longer = new
  <2>1. DOMAIN longer = 1 .. n + 1 /\ longer = [i \in 1 .. n + 1 |-> longer[i]]
    BY <1>0, <1>4
  <2>2. ASSUME NEW i \in 1 .. n + 1 PROVE longer[i] = Effect(frames[i])
    <3>1. CASE i = n + 1
      BY <1>4, <3>1
    <3>2. CASE i # n + 1
      <4>1. i \in 1 .. n
        BY <1>0, <3>2
      <4>2. QED
        BY <1>1, <1>4, <4>1
    <3>3. QED
      BY <3>1, <3>2
  <2>3. QED
    BY <2>1, <2>2
<1>7. Read' = n + 1
  BY <1>4, <1>5 DEF Read
<1>8. QED
  BY <1>5, <1>6, <1>7 DEF n

(* A part of a frame has been read to its end.                               *)
LEMMA PartRead ==
  ASSUME Types, ReadInv, NEW n \in 1 .. Readable, ReadBytes(n), got + n >= NeedOf(pc, cur)
  PROVE  ReadInv'
<1> USE DEF peer, recv, send
<1> DEFINE k == Read
<1>0. /\ pc \in Parts /\ Has(pc, cur) /\ got < NeedOf(pc, cur)
      /\ pos = FrameEnd(k) + Offset(pc, cur) + got
      /\ k \in 0 .. Len(frames) /\ effects = [i \in 1 .. k |-> Effect(frames[i])]
      /\ pc # "header" => k < Len(frames) /\ cur = frames[k + 1]
      /\ torn => pc \in Sends \cup {"dead"}
  BY DEF ReadBytes, ReadInv
<1>1. cur \in Frame /\ got \in Nat /\ pos \in Nat /\ arrived \in Nat /\ arrived <= StreamLen
      /\ pos <= arrived
  BY FrameFacts DEF Types
<1>2. Len(frames) \in Nat /\ FrameEnd(k) \in Nat
  BY <1>0, FrameFacts
<1> HIDE DEF k
<1>3. n \in Nat \ {0} /\ pos + n <= StreamLen
  <2>1. ResponseLen \in Nat
    BY ResponseAssumption
  <2>2. Readable \in Int /\ Readable <= arrived - pos
    BY <1>1, <2>1 DEF Readable
  <2>3. StreamLen \in Nat
    BY FrameFacts
  <2>4. QED
    BY <1>1, <2>2, <2>3
<1>4. NeedOf(pc, cur) = Need /\ NeedOf(pc, cur) \in Nat /\ Offset(pc, cur) \in Nat
  BY <1>0, <1>1, PartsInOrder DEF Need, NeedOf
<1>5. got + n = NeedOf(pc, cur)
  <2>1. n <= NeedOf(pc, cur) - got
    BY <1>4 DEF ReadBytes
  <2>2. QED
    BY <1>1, <1>3, <1>4, <2>1
<1>6. k < Len(frames)
  <2>1. CASE k = Len(frames)
    <3>1. FrameEnd(k) = StreamLen
      BY <2>1 DEF StreamLen
    <3>2. QED
      BY <1>0, <1>1, <1>2, <1>3, <1>4, <3>1
  <2>2. QED
    BY <1>0, <1>2, <2>1
<1>7. pos' = FrameEnd(k) + Offset(pc, cur) + NeedOf(pc, cur)
  <2>1. pos' = pos + n
    BY DEF ReadBytes
  <2>2. QED
    BY <1>0, <1>1, <1>2, <1>3, <1>4, <1>5, <2>1
<1>8. /\ got' = 0 /\ pc' = PartAfter(pc, cur')
      /\ cur' \in IF pc = "header" THEN HeadersAt(pos') ELSE {cur}
      /\ UNCHANGED <<frames, effects, torn>>
  <2>1. ~(got + n < Need)
    BY <1>1, <1>3, <1>4, <1>5
  <2>2. QED
    BY <2>1 DEF ReadBytes
<1>9. cur' = frames[k + 1] /\ cur' \in Frame
  <2>1. frames[k + 1] \in Frame
    <3>1. k + 1 \in 1 .. Len(frames)
      BY <1>0, <1>2, <1>6
    <3>2. QED
      BY <3>1, FrameFacts
  <2>2. CASE pc = "header"
    <3>1. pos' = FrameEnd(k) + 2
      BY <1>2, <1>7, <2>2 DEF Offset, NeedOf
    <3>2. k \in 0 .. Len(frames) - 1
      BY <1>0, <1>2, <1>6
    <3>3. HeadersAt(pos') = {frames[k + 1]}
      BY <3>1, <3>2, HeaderOfFrame
    <3>4. QED
      BY <1>8, <2>1, <2>2, <3>3
  <2>3. CASE pc # "header"
    BY <1>0, <1>8, <2>1, <2>3
  <2>4. QED
    BY <2>2, <2>3
<1>10. /\ Has(pc, cur') /\ NeedOf(pc, cur') = NeedOf(pc, cur)
       /\ Offset(pc, cur') = Offset(pc, cur)
  BY <1>0, <1>8, <1>9 DEF Has, NeedOf, Offset
<1>11. /\ pc' \in {"ext", "mask", "payload", "act", "dead"}
       /\ pc' \in Parts => /\ Has(pc', cur') /\ NeedOf(pc', cur') > 0
                           /\ Offset(pc, cur) + NeedOf(pc, cur) = Offset(pc', cur')
       /\ pc' = "act" => Offset(pc, cur) + NeedOf(pc, cur) = Size(cur')
  BY <1>0, <1>8, <1>9, <1>10, PartsInOrder
<1>12. FrameEnd(k + 1) = FrameEnd(k) + Size(cur')
  <2>1. k \in 0 .. Len(frames) - 1 /\ frames \in Seq(Frame)
    BY <1>0, <1>2, <1>6 DEF Types
  <2>2. QED
    BY <1>9, <2>1, EndsValue DEF FrameEnd
<1>13. Size(cur') \in Nat
  BY <1>9, SizeType
<1>14. /\ pc' \in Parts => pos' = FrameEnd(k) + Offset(pc', cur') + got'
       /\ pc' = "act" => pos' = FrameEnd(k + 1)
  <2>1. CASE pc' \in Parts
    <3>1. Offset(pc', cur') = Offset(pc, cur) + NeedOf(pc, cur) /\ pc' # "act"
      BY <1>11, <2>1 DEF Parts
    <3>2. QED
      BY <1>2, <1>4, <1>7, <1>8, <3>1
  <2>2. CASE pc' = "act"
    <3>1. Size(cur') = Offset(pc, cur) + NeedOf(pc, cur) /\ ~(pc' \in Parts)
      BY <1>11, <2>2 DEF Parts
    <3>2. QED
      BY <1>2, <1>4, <1>7, <1>12, <3>1
  <2>3. QED
    BY <2>1, <2>2
<1>15. \A j : FrameEnd(j)' = FrameEnd(j)
  BY <1>8 DEF FrameEnd
<1>16. ~torn'
  BY <1>0, <1>8 DEF Parts, Sends
<1>17. Read' = k /\ Len(frames') = Len(frames)
  BY <1>8 DEF k, Read
<1>18. effects' = [i \in 1 .. k |-> Effect(frames'[i])]
  BY <1>0, <1>8
<1>19. QED
  BY <1>0, <1>2, <1>6, <1>8, <1>9, <1>11, <1>14, <1>15, <1>16, <1>17, <1>18
     DEF ReadInv, Parts, Sends

(* What the invariant says once the frames and the effects stay as they are. *)
LEMMA SameEffects ==
  ASSUME ReadInv, UNCHANGED <<frames, effects>>
  PROVE  /\ Read' = Read /\ Read' \in 0 .. Len(frames')
         /\ effects' = [i \in 1 .. Read' |-> Effect(frames'[i])]
         /\ FrameEnd(Read)' = FrameEnd(Read) /\ FrameEnd(Read + 1)' = FrameEnd(Read + 1)
  BY DEF ReadInv, Read, FrameEnd

LEMMA ReadStep ==
  ASSUME ResponseAlone, Types, ReadInv, [Next]_vars
  PROVE  ReadInv'
<1> USE DEF peer, recv, history, send
<1>1. /\ arrived \in Nat /\ pos \in Nat /\ pos <= arrived /\ arrived <= StreamLen
      /\ got \in Nat /\ cur \in Frame /\ Len(frames) \in Nat
  BY FrameFacts DEF Types
<1>2. FrameEnd(0) = ResponseLen
  BY EndsValue DEF FrameEnd, Types
<1>3. ASSUME pc' = "dead", UNCHANGED <<frames, effects>> PROVE ReadInv'
  BY <1>3, SameEffects DEF ReadInv, Parts, Sends
<1>4. ASSUME NEW n \in 1 .. Readable, UpgradeRead(n) PROVE ReadInv'
  <2>1. pos < ResponseLen /\ got = 0 /\ effects = <<>>
    BY <1>4 DEF UpgradeRead, ReadInv
  <2>2. n \in Nat /\ pos + n <= ResponseLen
    <3>1. ResponseLen \in Nat
      BY ResponseAssumption
    <3>2. Readable = IF arrived > ResponseLen THEN ResponseLen - pos ELSE arrived - pos
      BY <2>1 DEF Readable
    <3>3. QED
      BY <1>1, <3>1, <3>2
  <2>3. /\ pos' = pos + n /\ UNCHANGED <<frames, effects, got, torn>>
        /\ \/ pos' >= ResponseLen /\ pc' = "head"
           \/ pos' < ResponseLen /\ pc' = "upgrade"
           \/ pc' = "dead"
    BY <1>4 DEF UpgradeRead
  <2>4. Read = 0
    BY <2>1 DEF Read
  <2>5. CASE pos' >= ResponseLen /\ pc' = "head"
    <3>1. pos' = ResponseLen
      BY <1>1, <2>2, <2>3, <2>5, ResponseAssumption
    <3>2. ~torn
      BY <1>4 DEF UpgradeRead, ReadInv, Sends
    <3>3. QED
      BY <1>2, <2>1, <2>3, <2>4, <2>5, <3>1, <3>2, SameEffects DEF ReadInv, Parts, Sends
  <2>6. CASE pos' < ResponseLen /\ pc' = "upgrade"
    <3>1. ~torn
      BY <1>4 DEF UpgradeRead, ReadInv, Sends
    <3>2. QED
      BY <2>1, <2>3, <2>6, <3>1, SameEffects DEF ReadInv, Parts, Sends
  <2>7. QED
    BY <1>3, <2>3, <2>5, <2>6
<1>5. ASSUME NEW n \in 1 .. Readable, ReadBytes(n) PROVE ReadInv'
  <2>1. CASE got + n >= NeedOf(pc, cur)
    BY <1>5, <2>1, PartRead
  <2>2. CASE ~(got + n >= NeedOf(pc, cur))
    <3>1. pc \in Parts /\ got < NeedOf(pc, cur) /\ Has(pc, cur)
          /\ pos = FrameEnd(Read) + Offset(pc, cur) + got
      BY <1>5 DEF ReadBytes, ReadInv
    <3>2. NeedOf(pc, cur) = Need /\ NeedOf(pc, cur) \in Nat /\ Offset(pc, cur) \in Nat
      BY <1>1, <3>1, PartsInOrder DEF Need, NeedOf
    <3>3. n \in Nat
      <4>1. Readable \in Int
        BY <1>1, ResponseAssumption DEF Readable
      <4>2. QED
        BY <4>1
    <3>4. FrameEnd(Read) \in Nat
      BY FrameFacts DEF ReadInv
    <3>5. /\ got' = got + n /\ pos' = pos + n
          /\ UNCHANGED <<pc, cur, frames, effects, torn>>
      BY <1>1, <1>5, <2>2, <3>2, <3>3 DEF ReadBytes
    <3>6. got' < NeedOf(pc, cur) /\ pos' = FrameEnd(Read) + Offset(pc, cur) + got'
      BY <1>1, <2>2, <3>1, <3>2, <3>3, <3>4, <3>5
    <3>7. QED
      BY <3>1, <3>5, <3>6, SameEffects DEF ReadInv, Parts, Sends
  <2>3. QED
    BY <2>1, <2>2
<1>6. CASE UpgradeFails \/ ReadError \/ SendFails
  BY <1>3, <1>6 DEF UpgradeFails, ReadError, SendFails
<1>7. CASE ReadTimeout
  <2>1. /\ UNCHANGED <<pos, cur, frames, effects, torn>> /\ pc \in Parts
        /\ \/ pc' = "dead"
           \/ pc' = "turn" /\ pc = "header" /\ got = 0 /\ got' = 0
           \/ pc' = pc /\ got' = got
    BY <1>7 DEF ReadTimeout, NothingPending
  <2>2. CASE pc' = "turn" /\ pc = "header" /\ got = 0 /\ got' = 0
    <3>1. pos = FrameEnd(Read) /\ ~torn
      <4>1. pos = FrameEnd(Read) + 0 + 0
        BY <2>1, <2>2 DEF ReadInv, Offset
      <4>2. FrameEnd(Read) \in Nat
        BY FrameFacts DEF ReadInv
      <4>3. QED
        BY <2>1, <4>1, <4>2 DEF ReadInv, Parts, Sends
    <3>2. QED
      BY <2>1, <2>2, <3>1, SameEffects DEF ReadInv, Parts, Sends
  <2>3. CASE pc' = pc /\ got' = got
    BY <2>1, <2>3, SameEffects DEF ReadInv, Parts, Sends
  <2>4. QED
    BY <1>3, <2>1, <2>2, <2>3
<1>8. CASE Act
  <2>1. /\ pc = "act" /\ UNCHANGED <<pos, got, cur, frames, torn>> /\ ~torn
        /\ Read < Len(frames) /\ cur = frames[Read + 1] /\ Read \in Nat
        /\ pos = FrameEnd(Read + 1) /\ got = 0
    BY <1>8 DEF Act, ReadInv, Parts, Sends
  <2>2. CASE Handed(cur)
    <3>1. pc' = "turn" /\ effects' = Append(effects, Effect(cur))
      <4>1. Effect(cur) = IF cur.len > 0 THEN [len |-> cur.len] ELSE Nothing
        BY <1>1, <2>2 DEF Effect, Frame, Handed
      <4>2. cur.kind # "ping" /\ ~EndsSession(cur)
        BY <2>2 DEF Handed
      <4>3. QED
        BY <1>8, <2>2, <4>1, <4>2 DEF Act, Delivered
    <3>2. /\ Read' = Read + 1
          /\ effects' = [i \in 1 .. Read' |-> Effect(frames'[i])]
      BY <2>1, <3>1, OneMoreEffect DEF ReadInv
    <3>3. pos' = FrameEnds(frames')[Read'] /\ Read' \in 0 .. Len(frames')
      BY <1>1, <2>1, <3>2 DEF FrameEnd
    <3>4. QED
      BY <2>1, <3>1, <3>2, <3>3 DEF ReadInv, Parts, Sends, FrameEnd
  <2>3. CASE cur.kind = "ping"
    <3>1. pc' = "pong" /\ effects' = effects
      BY <1>8, <2>3 DEF Act, Delivered, Handed
    <3>2. QED
      BY <2>1, <2>3, <3>1, SameEffects DEF ReadInv, Parts, Sends
  <2>4. CASE cur.kind # "ping" /\ EndsSession(cur)
    <3>1. pc' = "dead" /\ effects' = effects
      BY <1>8, <2>4 DEF Act, Delivered, Handed
    <3>2. QED
      BY <1>3, <2>1, <3>1
  <2>5. QED
    BY <2>2, <2>3, <2>4 DEF Handed
<1>9. CASE Drain
  <2>1. /\ pc = "turn" /\ pc' \in {"share", "head"}
        /\ UNCHANGED <<pos, got, cur, frames, effects, torn>>
    BY <1>9 DEF Drain
  <2>2. QED
    BY <2>1, SameEffects DEF ReadInv, Parts, Sends
<1>10. CASE SendHeader \/ SendPayload
  <2>1. /\ pc \in Sends /\ UNCHANGED <<pos, got, cur, frames>>
        /\ \/ torn' /\ UNCHANGED <<pc, effects>>
           \/ Sent
    BY <1>10 DEF SendHeader, SendPayload
  <2>2. CASE torn' /\ UNCHANGED <<pc, effects>>
    BY <2>1, <2>2, SameEffects DEF ReadInv, Parts, Sends
  <2>3. CASE Sent /\ pc = "share"
    <3>1. pc' = "head" /\ effects' = effects /\ ~torn'
      BY <2>3 DEF Sent
    <3>2. QED
      BY <2>1, <2>3, <3>1, SameEffects DEF ReadInv, Parts, Sends
  <2>4. CASE Sent /\ pc = "pong"
    <3>1. pc' = "turn" /\ effects' = Append(effects, Pong) /\ ~torn'
      BY <2>4 DEF Sent
    <3>2. /\ Read < Len(frames) /\ cur = frames[Read + 1] /\ Read \in Nat
          /\ pos = FrameEnd(Read + 1) /\ got = 0 /\ Effect(cur) = Pong
      BY <2>4 DEF ReadInv, Effect
    <3>3. /\ Read' = Read + 1
          /\ effects' = [i \in 1 .. Read' |-> Effect(frames'[i])]
      BY <2>1, <3>1, <3>2, OneMoreEffect DEF ReadInv
    <3>4. pos' = FrameEnds(frames')[Read'] /\ Read' \in 0 .. Len(frames')
      BY <1>1, <2>1, <3>2, <3>3 DEF FrameEnd
    <3>5. QED
      BY <2>1, <3>1, <3>2, <3>3, <3>4 DEF ReadInv, Parts, Sends, FrameEnd
  <2>5. QED
    BY <2>1, <2>2, <2>3, <2>4 DEF Sends
<1>11. CASE NextTurn
  <2>1. /\ pc = "head" /\ UNCHANGED <<pos, got, cur, frames, effects, torn>>
        /\ pc' \in {"done", "header"}
    BY <1>11 DEF NextTurn
  <2>2. /\ pos = FrameEnd(Read) /\ got = 0 /\ ~torn /\ FrameEnd(Read) \in Nat
    BY <2>1, FrameFacts DEF ReadInv, Sends
  <2>3. pos = FrameEnd(Read) + 0 + 0
    BY <2>2
  <2>4. /\ Offset("header", cur') = 0 /\ NeedOf("header", cur') = 2 /\ Has("header", cur')
    BY DEF Offset, NeedOf, Has
  <2>5. CASE pc' = "done"
    BY <2>1, <2>2, <2>5, SameEffects DEF ReadInv, Parts, Sends
  <2>6. CASE pc' = "header"
    BY <2>1, <2>2, <2>3, <2>4, <2>6, SameEffects DEF ReadInv, Parts, Sends
  <2>7. QED
    BY <2>1, <2>5, <2>6
<1>12. CASE Arrive \/ PeerCloses \/ Signal \/ ShareQueued \/ UNCHANGED vars
  <2>1. UNCHANGED <<pc, pos, got, cur, frames, effects, torn>>
    BY <1>12 DEF Arrive, PeerCloses, Signal, ShareQueued, vars
  <2>2. QED
    BY <2>1, SameEffects DEF ReadInv
<1>13. QED
  BY <1>4, <1>5, <1>6, <1>7, <1>8, <1>9, <1>10, <1>11, <1>12 DEF Next, Reader

LEMMA ReadInit ==
  Init => Types /\ ReadInv
<1> SUFFICES ASSUME Init PROVE Types /\ ReadInv
  OBVIOUS
<1>1. frames \in Seq(Frame) /\ frames # <<>>
  BY StreamsAssumption DEF Init
<1>2. Len(frames) \in Nat \ {0} /\ frames[1] \in Frame
  <2> HIDE DEF Frame
  <2>1. QED
    BY <1>1
<1>3. StreamLen \in Nat
  BY <1>1, <1>2, EndsValue DEF StreamLen, FrameEnd
<1>4. Types
  <2>1. arrived \in 0 .. StreamLen /\ pos \in 0 .. arrived /\ got \in Nat
    BY <1>3 DEF Init
  <2>2. cur \in Frame /\ pc \in Pcs /\ closed \in BOOLEAN /\ quit \in BOOLEAN
    BY <1>2 DEF Init, Pcs
  <2>3. QED
    BY <1>1, <2>1, <2>2 DEF Types
<1>5. ReadInv
  <2>1. Read = 0 /\ effects = <<>> /\ pc = "upgrade" /\ pos = 0 /\ got = 0 /\ torn = FALSE
    BY DEF Init, Read
  <2>2. effects = [i \in 1 .. Read |-> Effect(frames[i])]
    BY <2>1
  <2>3. QED
    BY <1>2, <2>1, <2>2, ResponseAssumption DEF ReadInv, Parts
<1>6. QED
  BY <1>4, <1>5

(* The reader never loses its place: with a daemon that ends a TLS record    *)
(* with its response, a message begins only where a frame does, however the  *)
(* bytes are cut and wherever the reads time out.                            *)
THEOREM ReaderStaysInStep ==
  ASSUME ResponseAlone
  PROVE  Spec => []InStep
<1>1. Types /\ ReadInv => InStep
  <2> SUFFICES ASSUME Types, ReadInv PROVE InStep
    OBVIOUS
  <2>1. ASSUME pc = "header", got = 0 PROVE pos = FrameEnd(Read)
    <3>1. pos = FrameEnd(Read) + 0 + 0
      BY <2>1 DEF ReadInv, Parts, Offset
    <3>2. FrameEnd(Read) \in Nat
      BY FrameFacts DEF ReadInv
    <3>3. QED
      BY <3>1, <3>2
  <2>2. QED
    BY <2>1 DEF ReadInv, InStep
<1>2. QED
  BY <1>1, ReadInit, TypesStep, ReadStep, PTL DEF Spec

(* Between messages each frame consumed has had its one effect, in order.    *)
THEOREM EveryFrameOnce ==
  ASSUME ResponseAlone
  PROVE  Spec => []FramesHandledOnce
<1>1. ReadInv => FramesHandledOnce
  BY DEF ReadInv, FramesHandledOnce
<1>2. QED
  BY <1>1, ReadInit, TypesStep, ReadStep, PTL DEF Spec
-----------------------------------------------------------------------------
(* The stall counter of a part never runs ahead of the silence on the wire,  *)
(* which the parts of a frame share.                                         *)
StallInv ==
  /\ stall \in Nat /\ silent \in Nat
  /\ stall <= silent \/ silent >= MaxStallPolls

(* A session that dies in the middle of a frame was closed, ended by the     *)
(* signal, or silent for the whole stall limit.                              *)
THEOREM NoHastyReconnect == Spec => NoSpuriousReconnect
<1> USE DEF peer, recv, history, send
<1>1. Init => StallInv
  BY DEF Init, StallInv
<1>2. StallInv /\ [Next]_vars => StallInv'
  <2> SUFFICES ASSUME StallInv, [Next]_vars PROVE StallInv'
    OBVIOUS
  <2>0. MaxStallPolls \in Nat \ {0}
    BY StallAssumption
  <2>1. ASSUME NEW n \in 1 .. Readable, ReadBytes(n) PROVE StallInv'
    BY <2>1 DEF ReadBytes, StallAfterBytes, StallInv
  <2>2. CASE ReadTimeout
    BY <2>0, <2>2 DEF ReadTimeout, StallAfterTimeout, StallInv
  <2>3. CASE UNCHANGED <<stall, silent>>
    BY <2>3 DEF StallInv
  <2>4. QED
    BY <2>1, <2>2, <2>3 DEF Next, Reader, UpgradeRead, UpgradeFails, ReadError, Act, Drain,
       NextTurn, SendHeader, SendPayload, SendFails, Arrive, PeerCloses, Signal,
       ShareQueued, vars
<1>3. Types /\ StallInv /\ [Next]_vars
        => [(pc \in Parts /\ pc' = "dead" /\ pos' = pos)
              => closed \/ quit \/ silent' >= MaxStallPolls]_vars
  <2> SUFFICES ASSUME Types, StallInv, Next, pc \in Parts, pc' = "dead", pos' = pos,
                      ~closed, ~quit
               PROVE  silent' >= MaxStallPolls
    OBVIOUS
  <2>0. MaxStallPolls \in Nat \ {0} /\ pos \in Nat
    BY StallAssumption, FrameFacts DEF Types
  <2>1. ReadTimeout
    <3>1. ASSUME NEW n \in 1 .. Readable PROVE ~ReadBytes(n)
      <4>1. Readable \in Int
        BY FrameFacts, ResponseAssumption DEF Readable, Types
      <4>2. pos + n # pos
        BY <2>0, <4>1
      <4>3. QED
        BY <4>2 DEF ReadBytes
    <3>2. QED
      BY <3>1 DEF Next, Reader, UpgradeRead, UpgradeFails, ReadError, Act, Drain,
         NextTurn, SendHeader, SendPayload, SendFails, Arrive, PeerCloses, Signal,
         ShareQueued, Parts, Sends
  <2>2. stall + 1 >= MaxStallPolls /\ silent' = IF silent < MaxStallPolls
                                               THEN silent + 1 ELSE silent
    BY <2>1 DEF ReadTimeout, StallsOut, StallAfterTimeout, Parts
  <2>3. QED
    BY <2>0, <2>2 DEF StallInv
<1>4. Spec => []Types
  BY ReadInit, TypesStep, PTL DEF Spec
<1>5. QED
  BY <1>1, <1>2, <1>3, <1>4, PTL DEF Spec, NoSpuriousReconnect
=============================================================================
