---------------------------- MODULE HashPipeline ----------------------------
(***************************************************************************)
(* The stages of a hash around the suffix array: the template wolfCompute()*)
(* records, the run boundaries read back from it, and the ways             *)
(* dluna_hash() and dluna_hash_x2() come to a digest under the switches of *)
(* the environment.  A text, its suffix array and the digest of that are   *)
(* named by the lane whose input they belong to; what a buffer still holds *)
(* of an earlier call is Junk.  How a suffix array is built is module      *)
(* Descriptor's subject.                                                   *)
(***************************************************************************)
EXTENDS Integers, FiniteSets, FiniteSetsExt

CONSTANTS
  Junk,        \* what a buffer holds that is right for neither lane
  MinTries,    \* chunks after which wolfCompute() may end, 261
  MaxTries,    \* chunks after which it ends, 277
  RunLimit,    \* values of a marker's run length, 2^7; chunkCount has twice
  Slots        \* entries of astroTemplate, 277

ASSUME JunkAssumption == Junk \notin {"a", "b"}
ASSUME TriesAssumption == /\ MinTries \in Nat \ {0} /\ MaxTries \in Nat
                          /\ MinTries <= MaxTries
ASSUME TemplateAssumption == RunLimit \in Nat /\ RunLimit > 1 /\ Slots \in Nat
ASSUME SlotsAssumption == MaxTries <= Slots

Lanes == {"a", "b"}

\* The switches, read once.  verify: DLUNA_VERIFY_STAGE5_DESCRIPTOR; plain:
\* one of DLUNA_USE_2BYTE_SA, _FORCE_LIBSAIS and _USE_STAGE5_DESCRIPTOR=0;
\* tritonn: DLUNA_VERIFY_TRITONN or its _STATS; stream:
\* DLUNA_STREAM_STAGE5_HASH.  DLUNA_USE_SPSA_LOCAL is not set.
Environments ==
  [verify : BOOLEAN, plain : BOOLEAN, tritonn : BOOLEAN, stream : BOOLEAN]

VARIABLES
  env,          \* the switches
  pc,
  lanes, lane,  \* the lanes of this call, and the one being prepared
  \* wolfCompute(), of the present lane
  tries, chunkCount, firstChunk, templateIdx, template,
  groups,       \* full groups of 256 in the text
  \* buffers
  flags,        \* LiveStage5Scratch.flags, as the set of the groups marked
  descSa,       \* LiveStage5Scratch.descriptor_sa
  sa,           \* w.sa of either lane
  output,
  descReady,    \* desc_ready
  ready,        \* the lanes whose suffix array waits for its SHA-256
  \* history
  encrypted,    \* the chunks encrypted with RC4 (A <= 0x40), counted from 1
  spilled       \* a run has outgrown its length field

call == <<env, lanes>>
wolf == <<tries, chunkCount, firstChunk, templateIdx, template, encrypted, spilled>>
buffers == <<descSa, sa, output>>
vars == <<call, pc, lane, wolf, groups, flags, buffers, descReady, ready>>

\* A buffer holds the right bytes for a lane's input, or Junk.
Contents == Lanes \cup {Junk}
AllJunk == [l \in Lanes |-> Junk]

UseDescriptor == ~env.plain
CanStream ==
  lanes = {"a"} /\ env.stream /\ UseDescriptor /\ ~env.verify /\ ~env.tritonn

Unused == [start |-> 0, length |-> 0]
Erased == [k \in 0 .. Slots - 1 |-> Unused]

Init ==
  /\ env \in Environments
  /\ pc = "idle" /\ lanes = {"a"} /\ lane = "a"
  /\ tries = 0 /\ chunkCount = 1 /\ firstChunk = 0
  /\ templateIdx = 0 /\ template = Erased
  /\ encrypted = {} /\ spilled = FALSE
  /\ groups = 0 /\ flags = {}
  /\ descSa = Junk /\ sa = AllJunk /\ output = AllJunk
  /\ descReady = FALSE /\ ready = {}
-----------------------------------------------------------------------------
(* Calls.  dluna_hash_x2() prepares one lane after the other.  *)
StartWolf(l) ==
  /\ pc' = "wolf" /\ lane' = l
  /\ tries' = 0 /\ chunkCount' = 1 /\ firstChunk' = 0
  /\ templateIdx' = 0 /\ template' = Erased   \* old markers are not read
  /\ encrypted' = {} /\ spilled' = FALSE
  /\ descReady' = FALSE

Call(ls) ==
  /\ pc = "idle"
  /\ lanes' = ls /\ ready' = {}
  /\ descSa' = Junk /\ sa' = AllJunk /\ output' = AllJunk
  /\ StartWolf("a")
  /\ UNCHANGED <<env, groups, flags>>

-----------------------------------------------------------------------------
(* wolfCompute(): a chunk at a time.  A chunk that is encrypted ends a run of *)
(* copies of each other, and its marker is written; the renewal of the key at *)
(* op 254 and 255 writes none.                                                *)

\* posData packs the first chunk above a length of too few bits for chunkCount.
Marker(first, count) ==
  [start  |-> IF count >= RunLimit /\ first % 2 = 0 THEN first + 1 ELSE first,
   length |-> count % RunLimit]

NextCount == (chunkCount + 1) % (2 * RunLimit)
FirstOfRun(t) == t - 1
SlotsTakenAlways(t) == 1
SlotsTaken(t) == IF t > 1 THEN 1 ELSE 0

Encrypt(t) ==
  /\ template' = [template EXCEPT ![templateIdx] = Marker(firstChunk, chunkCount)]
  /\ templateIdx' = templateIdx + SlotsTaken(t)
  /\ firstChunk' = FirstOfRun(t)
  /\ chunkCount' = 1
  /\ encrypted' = encrypted \cup {t}
  /\ UNCHANGED spilled

NoEncrypt ==
  /\ chunkCount' = NextCount
  /\ spilled' = (spilled \/ chunkCount + 1 >= RunLimit)
  /\ UNCHANGED <<template, templateIdx, firstChunk, encrypted>>

Chunk ==
  /\ pc = "wolf"
  /\ tries' = tries + 1
  /\ Encrypt(tries') \/ NoEncrypt
  /\ \/ tries' < MaxTries /\ pc' = "wolf"
     \/ tries' >= MinTries /\ pc' = "flush"
  /\ UNCHANGED <<call, lane, groups, flags, buffers, descReady, ready>>

\* The last marker, and the length of the text without its trailing zeros.
Flush ==
  /\ pc = "flush"
  /\ IF chunkCount > 0
     THEN /\ template' = [template EXCEPT ![templateIdx] =
                            Marker(firstChunk, chunkCount)]
          /\ templateIdx' = templateIdx + 1
     ELSE UNCHANGED <<template, templateIdx>>
  /\ groups' \in 0 .. tries - 1
  /\ pc' = "sa"
  /\ UNCHANGED <<call, lane, tries, chunkCount, firstChunk, encrypted, spilled,
                 flags, buffers, descReady, ready>>
-----------------------------------------------------------------------------
(* The suffix array. *)

\* build_v114_stage5_flags(): 0, and where the runs of the template end.
RunEnds ==
  {template[k].start + template[k].length :
     k \in {i \in 0 .. templateIdx - 1 : template[i].length # 0}}
FlagsKept == flags \cup {0} \cup (RunEnds \cap 1 .. groups)
Flags == {0} \cup (RunEnds \cap 1 .. groups)

BuildFlags ==
  /\ pc = "sa" /\ (UseDescriptor \/ env.verify)
  /\ flags' = Flags
  /\ pc' = IF CanStream THEN "stream" ELSE "build"
  /\ UNCHANGED <<call, lane, wolf, groups, buffers, descReady, ready>>

\* The text is empty, so the flags stay as they are; or no descriptor is wanted.
NoDescriptor ==
  /\ pc = "sa"
  /\ (UseDescriptor \/ env.verify) => groups = 0
  /\ pc' = IF env.verify THEN "verify" ELSE "default"
  /\ UNCHANGED <<call, lane, wolf, groups, flags, buffers, descReady, ready>>

\* Streamed, the suffix array is hashed while it is built; on a failure
\* nothing has been written to the output.
AfterFailedStream == "default"

Stream ==
  /\ pc = "stream"
  /\ \/ /\ output' = [output EXCEPT ![lane] = lane]
        /\ pc' = "streamed"
     \/ /\ pc' = AfterFailedStream
        /\ UNCHANGED output
  /\ UNCHANGED <<call, lane, wolf, groups, flags, descSa, sa, descReady, ready>>

\* Built into w.sa, or beside it when it is to be verified, and then not
\* trusted to be right.  A failure may leave anything behind.
Build ==
  /\ pc = "build"
  /\ \E built \in {lane, Junk, IF env.verify THEN descSa ELSE sa[lane]},
        ok \in BOOLEAN :
       /\ ok /\ ~env.verify => built = lane
       /\ descReady' = ok
       /\ IF env.verify
          THEN descSa' = built /\ UNCHANGED sa
          ELSE sa' = [sa EXCEPT ![lane] = built] /\ UNCHANGED descSa
       /\ pc' = CASE env.verify -> "verify"
                  [] ~env.verify /\ ok -> "done"
                  [] OTHER -> "default"
  /\ UNCHANGED <<call, lane, wolf, groups, flags, output, ready>>

\* libsais or the two-byte radix sort.
BuildDefault ==
  /\ pc = "default"
  /\ sa' = [sa EXCEPT ![lane] = lane]
  /\ pc' = "done"
  /\ UNCHANGED <<call, lane, wolf, groups, flags, descSa, output, descReady, ready>>

\* libsais fills w.sa, and the descriptors' array replaces it if it is the same.
ReplacesUnchecked == descReady /\ UseDescriptor
Replaces == descReady /\ descSa = lane /\ UseDescriptor

Verify ==
  /\ pc = "verify"
  /\ sa' = [sa EXCEPT ![lane] = IF Replaces THEN descSa ELSE lane]
  /\ pc' = "done"
  /\ UNCHANGED <<call, lane, wolf, groups, flags, descSa, output, descReady, ready>>

-----------------------------------------------------------------------------
(* The digest. *)

\* One lane is prepared: the other one's turn, or the final SHA-256.
LaneDone ==
  /\ pc \in {"done", "streamed"}
  /\ ready' = IF pc = "done" THEN ready \cup {lane} ELSE ready
  /\ IF lane = "a" /\ "b" \in lanes
     THEN StartWolf("b")
     ELSE pc' = "digest" /\ UNCHANGED <<lane, wolf, descReady>>
  /\ UNCHANGED <<call, groups, flags, buffers>>

\* SHA-256 of each array that waits, two of them in one go.
Digest ==
  /\ pc = "digest"
  /\ output' = [l \in Lanes |-> IF l \in ready THEN sa[l] ELSE output[l]]
  /\ pc' = "return"
  /\ UNCHANGED <<call, lane, wolf, groups, flags, descSa, sa, descReady, ready>>

Return ==
  /\ pc = "return"
  /\ pc' = "idle"
  /\ UNCHANGED <<call, lane, wolf, groups, flags, buffers, descReady, ready>>

Next ==
  \/ \E ls \in {{"a"}, Lanes} : Call(ls)
  \/ Chunk \/ Flush
  \/ BuildFlags \/ NoDescriptor \/ Stream \/ Build \/ BuildDefault \/ Verify
  \/ LaneDone \/ Digest \/ Return

Spec == Init /\ [][Next]_vars
-----------------------------------------------------------------------------
(* Types; every marker written is in the template.                          *)
TypeOK ==
  /\ env \in Environments /\ lanes \in {{"a"}, Lanes} /\ lane \in lanes
  /\ pc \in {"idle", "wolf", "flush", "sa", "stream", "build", "default", "verify",
             "done", "streamed", "digest", "return"}
  /\ tries \in 0 .. MaxTries /\ chunkCount \in 0 .. 2 * RunLimit - 1
  /\ firstChunk \in 0 .. MaxTries
  /\ template \in [0 .. Slots - 1 -> [start : Nat, length : Nat]]
  /\ templateIdx \in 0 .. Slots
  /\ pc \in {"wolf", "flush"} => templateIdx < Slots
  /\ groups \in 0 .. MaxTries /\ flags \subseteq 0 .. MaxTries
  /\ descSa \in Contents /\ sa \in [Lanes -> Contents]
  /\ output \in [Lanes -> Contents]
  /\ descReady \in BOOLEAN /\ ready \subseteq lanes
  /\ encrypted \subseteq 1 .. MaxTries /\ spilled \in BOOLEAN

(* The groups of the descriptor begin exactly at the chunks of this text that *)
(* RC4 encrypted, the first of them one group late unless it is the first     *)
(* chunk (chunkCount counts from 1 before there is a chunk), as long as every *)
(* run fits its length field.                                                 *)
RunBegins ==
  LET first == Min(encrypted)
      later == {t - 1 : t \in encrypted \ {first}}
  IN CASE encrypted = {} -> {}
       [] 1 \in encrypted -> later
       [] OTHER         -> later \cup {first}
RunsBeginAtEncryptions ==
  pc \in {"stream", "build"} /\ ~spilled =>
    flags = {0} \cup (RunBegins \cap 1 .. groups)

(* Whatever the switches, and whatever the descriptors fail at or get wrong  *)
(* under verification: the digest returned for an input is that of its own   *)
(* suffix array, for both lanes, with buffers full of earlier hashes         *)
(* (dluna.h:228).                                                            *)
DigestOfItsInput ==
  pc = "return" => \A l \in lanes : output[l] = l
=============================================================================
