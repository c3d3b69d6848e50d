----------------------------- MODULE WsReader ------------------------------
(***************************************************************************)
(* Reading the daemon's byte stream: the upgrade loop of ws_connect(),     *)
(* recv_all(), ws_read_message() and the session loop around them.  The    *)
(* stream is the upgrade response followed by frames; the peer delivers    *)
(* it in pieces of any size, may stall, and may close at any point.  A     *)
(* byte is its position in the stream, a frame what its header says.  In   *)
(* between, pongs and shares are written by ws_send_message().             *)
(***************************************************************************)
EXTENDS Integers, Sequences, SequencesExt

CONSTANTS
  Streams,         \* the sequences of frames a daemon may send
  ResponseLen,     \* bytes of the upgrade response, terminator included
  ResponseMax,     \* sizeof resp - 1
  ResponseAlone,   \* the daemon ends a TLS record with the response
  FrameMax,        \* the longest payload read, 1 MiB
  ControlMax,      \* the longest payload of a control frame, 125
  MaxStallPolls    \* MAX_STALL_POLLS

\* ext: bytes of extended length (0, 2 or 8), whatever the length they encode.
\* "data" stands for the opcodes 0x0 to 0x7, "pong" for 0xA to 0xF.
Frame == [kind : {"data", "pong", "ping", "close"}, fin : BOOLEAN, ext : {0, 2, 8},
          masked : BOOLEAN, len : Nat]

ASSUME StreamsAssumption == \A s \in Streams : s \in Seq(Frame) /\ s # <<>>
ASSUME ResponseAssumption ==
  /\ ResponseLen \in Nat \ {0} /\ ResponseMax \in Nat /\ ResponseLen < ResponseMax
  /\ ResponseAlone \in BOOLEAN
ASSUME LengthAssumption == FrameMax \in Nat /\ ControlMax \in 0 .. FrameMax
ASSUME StallAssumption == MaxStallPolls \in Nat \ {0}

VARIABLES
  quit,        \* G.quit
  frames,      \* what the daemon sends on this connection
  arrived,     \* bytes of the stream that have arrived
  closed,      \* the peer has closed, nothing more arrives
  pc,          \* where the network thread is
  pos,         \* bytes of the stream consumed
  got,         \* recv_all()'s got
  stall,       \* recv_all()'s stall_polls
  cur,         \* the frame being read, once its header is decoded
  share,       \* a share is queued for the drain
  torn,        \* a frame of the miner's has gone out in part
  \* history
  effects,     \* what each message read came to: a length, for what was given
               \* to handle_job(), a pong, or nothing
  silent       \* polls timed out since the last byte

peer == <<frames, arrived, closed>>
recv == <<got, stall, cur>>
history == <<effects, silent>>
send == <<share, torn>>
vars == <<quit, peer, pc, pos, recv, send, history>>

Parts == {"header", "ext", "mask", "payload"}
Sends == {"pong", "share"}   \* ws_send_message()
Pcs == Parts \cup Sends \cup {"upgrade", "act", "turn", "head", "dead", "done"}

Size(f) == 2 + f.ext + (IF f.masked THEN 4 ELSE 0) + f.len
\* The stream positions at which the frames of s end, and the response before them.
FrameEnds(s) ==
  LET end[k \in 0 .. Len(s)] == IF k = 0 THEN ResponseLen ELSE end[k - 1] + Size(s[k])
  IN end
FrameEnd(k) == FrameEnds(frames)[k]
StreamLen == FrameEnd(Len(frames))

Init ==
  /\ quit = FALSE /\ frames \in Streams /\ arrived = 0 /\ closed = FALSE
  /\ pc = "upgrade" /\ pos = 0 /\ got = 0 /\ stall = 0 /\ cur = frames[1]
  /\ share = FALSE /\ torn = FALSE
  /\ effects = <<>> /\ silent = 0
-----------------------------------------------------------------------------
(* Surroundings: the peer, the signal, and a worker that queues a share. *)
Arrive ==
  /\ ~closed /\ arrived < StreamLen
  /\ arrived' = arrived + 1
  /\ UNCHANGED <<quit, frames, closed, pc, pos, recv, send, history>>

PeerCloses ==
  /\ closed' = TRUE
  /\ UNCHANGED <<quit, frames, arrived, pc, pos, recv, send, history>>

Signal ==
  /\ quit' = TRUE
  /\ UNCHANGED <<peer, pc, pos, recv, send, history>>

ShareQueued ==
  /\ pc # "upgrade" /\ ~share
  /\ share' = TRUE
  /\ UNCHANGED <<quit, peer, pc, pos, recv, torn, history>>
-----------------------------------------------------------------------------
(* The upgrade loop: read what there is until the response is complete;     *)
(* what a read brings beyond the terminator is dropped with the buffer.     *)

\* Bytes one SSL_read may return: they come out of a single TLS record.
Readable ==
  IF ResponseAlone /\ pos < ResponseLen /\ arrived > ResponseLen
  THEN ResponseLen - pos ELSE arrived - pos

UpgradeRead(n) ==
  /\ pc = "upgrade" /\ ~quit
  /\ n <= ResponseMax - pos
  /\ pos' = pos + n
  /\ \/ pos' >= ResponseLen /\ pc' \in {"head", "dead"}   \* "101", or not
     \/ /\ pos' < ResponseLen
        /\ pc' = IF pos' >= ResponseMax THEN "dead" ELSE "upgrade"
  /\ UNCHANGED <<quit, peer, recv, send, history>>

\* quit, a read timeout or error, or the deadline of the whole phase.
UpgradeFails ==
  /\ pc = "upgrade"
  /\ pc' = "dead"
  /\ UNCHANGED <<quit, peer, pos, recv, send, history>>
-----------------------------------------------------------------------------
(* recv_all() and ws_read_message(). *)

Control(f) == f.kind # "data"
Refused(f) == f.len > FrameMax \/ (Control(f) /\ f.len > ControlMax)

\* What is read after a part of a frame is complete.
PartAfter(part, f) ==
  IF part = "header" /\ f.ext > 0 THEN "ext"
  ELSE IF part \in {"header", "ext"} /\ Refused(f) THEN "dead"
  ELSE IF part \in {"header", "ext"} /\ f.masked THEN "mask"
  ELSE IF part # "payload" /\ f.len > 0 THEN "payload" ELSE "act"

Need == CASE pc = "header"  -> 2
          [] pc = "ext"     -> cur.ext
          [] pc = "mask"    -> 4
          [] pc = "payload" -> cur.len

\* The two header bytes ending at p: a frame of the daemon, or whatever the
\* bytes happen to say when the reader is out of step.
HeadersAt(p) ==
  LET here == {i \in DOMAIN frames : FrameEnd(i - 1) + 2 = p}
  IN IF here # {} THEN {frames[i] : i \in here} ELSE Range(frames)

StallAfterBytesKept == stall
StallAfterBytes == 0

\* SSL_read returns n bytes.
ReadBytes(n) ==
  /\ pc \in Parts
  /\ n <= Need - got
  /\ pos' = pos + n
  /\ silent' = 0
  /\ IF got + n < Need
     THEN /\ got' = got + n
          /\ stall' = StallAfterBytes
          /\ UNCHANGED <<pc, cur>>
     ELSE /\ got' = 0 /\ stall' = 0
          /\ cur' \in IF pc = "header" THEN HeadersAt(pos') ELSE {cur}
          /\ pc' = PartAfter(pc, cur')
  /\ UNCHANGED <<quit, peer, send, effects>>

\* No message pending: only before the first byte of a header.
NothingPendingAnywhere == pc = "header"
NothingPending == pc = "header" /\ got = 0

StallAfterTimeoutKept == stall
StallAfterTimeout == stall + 1

StallsOut == StallAfterTimeout >= MaxStallPolls

\* SSL_read times out.
ReadTimeout ==
  /\ pc \in Parts /\ arrived = pos /\ ~closed
  /\ IF NothingPending
     THEN /\ pc' = "turn"
          /\ got' = 0
          /\ UNCHANGED <<stall, silent>>
     ELSE /\ pc' = IF quit \/ StallsOut THEN "dead" ELSE pc
          /\ stall' = IF quit THEN stall ELSE StallAfterTimeout
          /\ silent' = IF silent < MaxStallPolls THEN silent + 1 ELSE silent
          /\ UNCHANGED got
  /\ UNCHANGED <<quit, peer, pos, cur, send, effects>>

\* The peer has closed, or the connection fails.
ReadError ==
  /\ pc \in Parts /\ closed
  /\ pc' = "dead"
  /\ UNCHANGED <<quit, peer, pos, recv, send, history>>

\* A ping is answered, a close or any other frame without FIN ends the session,
\* and whatever is left goes to handle_job() if it has a payload.
EndsSession(f) == f.kind = "close" \/ (f.kind # "ping" /\ ~f.fin)
Handed(f) == f.kind # "ping" /\ ~EndsSession(f)
DeliveredWithPings(f) == f.len > 0 /\ ~EndsSession(f)
Delivered(f) == f.len > 0 /\ Handed(f)

Pong == [pong |-> TRUE]
Nothing == [nothing |-> TRUE]

Act ==
  /\ pc = "act"
  /\ pc' = IF cur.kind = "ping" THEN "pong" ELSE IF Handed(cur) THEN "turn" ELSE "dead"
  /\ effects' = IF Delivered(cur) THEN Append(effects, [len |-> cur.len])
                ELSE IF Handed(cur) THEN Append(effects, Nothing) ELSE effects
  /\ UNCHANGED <<quit, peer, pos, recv, send, silent>>

\* submit_share() takes the queued share.
Drain ==
  /\ pc = "turn"
  /\ pc' = IF share THEN "share" ELSE "head"
  /\ share' = FALSE
  /\ UNCHANGED <<quit, peer, pos, recv, torn, history>>
-----------------------------------------------------------------------------
(* ws_send_message(): the header with its mask is one send_all(), the       *)
(* payload, if there is one, another.  A pong returns to the session loop,  *)
(* a share to the loop's head.                                              *)
HasPayload == pc = "share" \/ cur.len > 0

Sent ==
  /\ pc' = IF pc = "pong" THEN "turn" ELSE "head"
  /\ effects' = IF pc = "pong" THEN Append(effects, Pong) ELSE effects
  /\ torn' = FALSE

SendHeader ==
  /\ pc \in Sends /\ ~torn
  /\ IF HasPayload THEN torn' = TRUE /\ UNCHANGED <<pc, effects>> ELSE Sent
  /\ UNCHANGED <<quit, peer, pos, recv, share, silent>>

SendPayload ==
  /\ pc \in Sends /\ torn
  /\ Sent
  /\ UNCHANGED <<quit, peer, pos, recv, share, silent>>

\* SSL_write fails; what it had written before is on the wire.
SendFails ==
  /\ pc \in Sends
  /\ pc' = "dead"
  /\ torn' \in {torn, TRUE}
  /\ UNCHANGED <<quit, peer, pos, recv, share, history>>

\* while (!quit), and ws_read_message() begins.
NextTurn ==
  /\ pc = "head"
  /\ pc' = IF quit THEN "done" ELSE "header"
  /\ UNCHANGED <<quit, peer, pos, recv, send, history>>

Reader ==
  \/ \E n \in 1 .. Readable : UpgradeRead(n) \/ ReadBytes(n)
  \/ UpgradeFails \/ ReadTimeout \/ ReadError \/ Act \/ Drain \/ NextTurn
  \/ SendHeader \/ SendPayload \/ SendFails

Next == Reader \/ Arrive \/ PeerCloses \/ Signal \/ ShareQueued

Spec == Init /\ [][Next]_vars

\* The thread goes on; the peer, the signal and the workers owe nothing.
FairSpec == Spec /\ WF_vars(Reader)
-----------------------------------------------------------------------------
(* The reader begins a message only where the daemon began a frame, however *)
(* the stream was cut and wherever the reads timed out                      *)
(* (network.cpp:529, "Read one complete WebSocket message"); and it goes on *)
(* with the session only behind whole frames of its own, so that what it    *)
(* sends next is not taken for the rest of one.                             *)
InStep ==
  /\ pc = "header" /\ got = 0 => \E k \in 0 .. Len(frames) : pos = FrameEnd(k)
  /\ torn => pc \in Sends \cup {"dead"}

(* Between messages, every frame consumed has had its effect once and in    *)
(* order: the pings were answered, and every other frame with a payload was *)
(* delivered, a pong's included.  Only lengths are judged: a ping of up to  *)
(* 125 bytes whose length has the form for longer ones is answered, though  *)
(* network.cpp:556-558 says it is rejected.                                 *)
Effect(f) == CASE f.kind = "ping"                -> Pong
               [] f.kind # "ping" /\ f.len > 0   -> [len |-> f.len]
               [] f.kind # "ping" /\ f.len = 0   -> Nothing
FramesHandledOnce ==
  pc \in {"turn", "head"} =>
    \E k \in 0 .. Len(frames) :
      pos = FrameEnd(k) /\ effects = [i \in 1 .. k |-> Effect(frames[i])]

(* A slow frame is no reason to reconnect: a session that dies in the       *)
(* middle of a frame was closed by the peer, ended by the signal, or silent *)
(* for the whole stall limit.                                               *)
NoSpuriousReconnect ==
  [][(pc \in Parts /\ pc' = "dead" /\ pos' = pos)
       => closed \/ quit \/ silent' >= MaxStallPolls]_vars

(* A peer that goes silent in the middle of a frame does not hold the       *)
(* thread: the read ends.                                                   *)
MidFrame == pc \in {"ext", "mask", "payload"} \/ (pc = "header" /\ got > 0)
ReadEnds == MidFrame ~> ~MidFrame
=============================================================================
