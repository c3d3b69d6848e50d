------------------------------ MODULE Digests -------------------------------
(***************************************************************************)
(* Module HashPipeline with its digests taken apart: the suffix arrays are *)
(* words, and a digest is what module Sha256 makes of them - at once, from *)
(* the sink of the streamed descriptors piece by piece, or for both lanes  *)
(* in lockstep.                                                            *)
(***************************************************************************)
EXTENDS HashPipeline, Sha256

CONSTANTS
  TextLengths,  \* lengths of a text, and so of its suffix array
  SinkWords     \* FusedHashSink::kBufferWords, 2048

\* SHA-256 is defined for texts whose bits two words can count.
ASSUME TextAssumption ==
  /\ TextLengths \subseteq Nat /\ TextLengths # {}
  /\ \A n \in TextLengths : n * WordBits < Half * Half
\* The sink is a whole number of blocks.
ASSUME SinkAssumption == SinkWords \in Nat \ {0} /\ SinkWords % BlockWords = 0

VARIABLES
  words,    \* data_len of either lane
  digest    \* the digest in the output of either lane

digestVars == <<vars, words, digest>>

NoWords == [l \in Lanes |-> 0]
NoDigest == [l \in Lanes |-> <<>>]
\* A suffix array: the cells of what the buffer contains.
Cells(contents, n) == [i \in 1 .. n |-> <<contents, i>>]

DigestInit == Init /\ words = NoWords /\ digest = NoDigest

\* Whether the CPU has the SHA extension is left open at every digest.

\* The FusedHashSink after each word: how many words are hashed, and the
\* context.  fused_hash_sink_write_positions() hashes what the sink holds when it
\* is full, or several times as much at once from a run that finds it empty;
\* fused_hash_sink_final() the rest.
FusedHashSink(shani, array, cuts) ==
  LET after[k \in 0 .. Len(array)] ==
        IF k = 0 THEN [hashed |-> 0, ctx |-> SHA256_Init]
        ELSE LET sink == after[k - 1]
             IN IF k \in cuts \/ k = Len(array)
                THEN [hashed |-> k,
                      ctx |-> SHA256_Update(shani, sink.ctx,
                                            SubSeq(array, sink.hashed + 1, k))]
                ELSE sink
  IN after
StreamedDigest(shani, array, cuts) ==
  SHA256_Final(shani, FusedHashSink(shani, array, cuts)[Len(array)].ctx)

StreamDigest ==
  /\ Stream
  /\ IF pc' = "streamed"
     THEN \E n \in TextLengths :
            \E cuts \in SUBSET {k \in 1 .. n : k % SinkWords = 0}, shani \in BOOLEAN :
              /\ words' = [words EXCEPT ![lane] = n]
              /\ digest' = [digest EXCEPT ![lane] =
                              StreamedDigest(shani, Cells(lane, n), cuts)]
     ELSE UNCHANGED <<words, digest>>

\* dluna_hash() hashes one array; dluna_hash_x2() both together if it can.
ArrayDigests(shani, n) ==
  LET array == [l \in ready |-> Cells(sa[l], n[l])]
  IN IF ready = Lanes /\ shani THEN dluna_sha256_x2(array)
     ELSE [l \in ready |-> hashSHA256(shani, array[l])]

ArrayDigest ==
  /\ Digest
  /\ \E n \in [ready -> TextLengths], shani \in BOOLEAN :
       LET made == ArrayDigests(shani, n)
       IN /\ words' = [l \in Lanes |-> IF l \in ready THEN n[l] ELSE words[l]]
          /\ digest' = [l \in Lanes |-> IF l \in ready THEN made[l] ELSE digest[l]]

ReturnDigest == Return /\ words' = NoWords /\ digest' = NoDigest

DigestNext ==
  \/ StreamDigest \/ ArrayDigest \/ ReturnDigest
  \/ /\ \/ \E ls \in {{"a"}, Lanes} : Call(ls)
        \/ Chunk \/ Flush
        \/ BuildFlags \/ NoDescriptor \/ Build \/ BuildDefault \/ Verify
        \/ LaneDone
     /\ UNCHANGED <<words, digest>>

DigestSpec == DigestInit /\ [][DigestNext]_digestVars
-----------------------------------------------------------------------------
(* The blocks SHA-256 is defined over: the message, a one bit, the fewest   *)
(* zeros and the number of bits, in whole blocks.                           *)
Padded(message) ==
  LET zeros == CHOOSE k \in 0 .. BlockWords - 1 :
                 (Len(message) + 1 + k + LengthWords) % BlockWords = 0
      bits == Len(message) * WordBits
  IN Blocks(message \o <<One>> \o Zeros(zeros) \o <<bits \div Half, bits % Half>>)

(* The digest returned for an input is SHA-256 of its own suffix array,     *)
(* whichever implementation took it, in how many pieces, and whatever the   *)
(* length of the message it shared the lockstep with (dluna.h:230).         *)
DigestIsSha256 ==
  pc = "return" => \A l \in lanes : digest[l] = Padded(Cells(l, words[l]))
=============================================================================
