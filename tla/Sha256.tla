------------------------------- MODULE Sha256 -------------------------------
(***************************************************************************)
(* The SHA-256 of the miner: the functions that replace OpenSSL's at link  *)
(* time (sha256_ni.cpp) and the one that hashes two messages in lockstep   *)
(* (sha256_x2.cpp).  All messages of the miner are whole 32-bit words.     *)
(* The rounds are left out: a hash state is the sequence of the blocks     *)
(* compressed into it, and a digest is a hash state.                       *)
(***************************************************************************)
EXTENDS Integers, Sequences

CONSTANTS
  BlockWords,   \* words of a block, 16
  WordBits,     \* 32
  Half,         \* values of each half of the bit count, 2^32
  One           \* the word that begins the padding, 0x80000000

ASSUME BlockAssumption == BlockWords \in Nat /\ BlockWords > 2
ASSUME CountAssumption == WordBits \in Nat \ {0} /\ Half \in Nat \ {0}
ASSUME OneAssumption == One \notin 0 .. Half - 1

LengthWords == 2
Zeros(n) == [i \in 1 .. n |-> 0]
Blocks(words) ==
  [i \in 1 .. Len(words) \div BlockWords |->
     SubSeq(words, BlockWords * (i - 1) + 1, BlockWords * i)]
-----------------------------------------------------------------------------
(* Compression: one block in software, any number with the SHA extension,  *)
(* one block of each of two states.                                        *)
sha256_block_soft(h, block) == Append(h, block)
sha256_blocks_ni(h, blocks) == h \o blocks
compress2(h, block) == [l \in DOMAIN h |-> Append(h[l], block[l])]

sha256_process_blocks(ni, h, blocks) ==
  LET after[i \in 0 .. Len(blocks)] ==
        IF i = 0 THEN h ELSE sha256_block_soft(after[i - 1], blocks[i])
  IN IF ni THEN sha256_blocks_ni(h, blocks) ELSE after[Len(blocks)]
-----------------------------------------------------------------------------
(* The context: the state, the bit count in two halves, and num words of   *)
(* data that do not fill a block yet.                                      *)
SHA256_Init == [h |-> <<>>, Nl |-> 0, Nh |-> 0, data |-> <<>>]

Counted(c, bits) ==
  LET l == (c.Nl + (bits % Half)) % Half
      carry == IF l < c.Nl THEN 1 ELSE 0
  IN [c EXCEPT !.Nl = l, !.Nh = (@ + carry + (bits \div Half)) % Half]

SHA256_Update(ni, ctx, words) ==
  LET c     == Counted(ctx, Len(words) * WordBits)
      need  == BlockWords - Len(c.data)
      first == IF c.data = <<>> THEN <<>>
               ELSE <<c.data \o SubSeq(words, 1, need)>>
      left  == IF c.data = <<>> THEN words ELSE SubSeq(words, need + 1, Len(words))
      full  == Len(left) \div BlockWords
  IN IF c.data # <<>> /\ Len(words) < need
     THEN [c EXCEPT !.data = @ \o words]
     ELSE [c EXCEPT !.h = sha256_process_blocks(ni, @, first \o Blocks(left)),
                    !.data = SubSeq(left, BlockWords * full + 1, Len(left))]

SHA256_Final(ni, c) ==
  LET pad == BlockWords - Len(c.data) - 1
      last == IF pad < LengthWords
              THEN <<c.data \o <<One>> \o Zeros(pad),
                     Zeros(BlockWords - LengthWords) \o <<c.Nh, c.Nl>>>>
              ELSE <<c.data \o <<One>> \o Zeros(pad - LengthWords) \o <<c.Nh, c.Nl>>>>
  IN sha256_process_blocks(ni, c.h, last)

hashSHA256(ni, words) == SHA256_Final(ni, SHA256_Update(ni, SHA256_Init, words))
-----------------------------------------------------------------------------
(* Two messages in lockstep.  The bit count is one number of two halves.   *)
BitCount(n) == <<(n * WordBits) \div Half, (n * WordBits) % Half>>

build_tail(words) ==
  LET rem == Len(words) % BlockWords
      tail == SubSeq(words, Len(words) - rem + 1, Len(words)) \o <<One>>
      blocks == IF rem < BlockWords - LengthWords THEN 1 ELSE 2
  IN Blocks(tail \o Zeros(BlockWords * blocks - LengthWords - Len(tail))
              \o BitCount(Len(words)))

\* A lane without a block left compresses zeros, and what it had is put back.
KeptAlways(active, saved, compressed) == compressed
Kept(active, saved, compressed) == IF active THEN compressed ELSE saved

dluna_sha256_x2(message) ==
  LET blocks == [l \in DOMAIN message |-> Blocks(message[l]) \o build_tail(message[l])]
      rounds == CHOOSE n \in {Len(blocks[l]) : l \in DOMAIN blocks} :
                  \A l \in DOMAIN blocks : Len(blocks[l]) <= n
      Active(l, i) == i <= Len(blocks[l])
      state[i \in 0 .. rounds] ==
        IF i = 0 THEN [l \in DOMAIN message |-> <<>>]
        ELSE LET after == compress2(state[i - 1],
                            [l \in DOMAIN message |->
                               IF Active(l, i) THEN blocks[l][i] ELSE Zeros(BlockWords)])
             IN [l \in DOMAIN message |-> Kept(Active(l, i), state[i - 1][l], after[l])]
  IN state[rounds]
=============================================================================
