------------------------------- MODULE Replay -------------------------------
(***************************************************************************)
(* The descriptor of a hash written out and read back, as the replay tools *)
(* do to compare it with captures of another miner: an encoder writes      *)
(* records and an arena (stage_v114_encode_with_arena_raw,                 *)
(* stage_v114_encode_compact_raw), and a reader turns them into the suffix *)
(* array, checking what it is given (stage_v114_sa_build_descriptor) or    *)
(* not (stage_v114_sa_build_descriptor_trusted).  A capture is a file: what *)
(* the checking reader finds in it may have been altered, or come from a   *)
(* text longer than the encoders take.  Each behaviour is either one of    *)
(* module Descriptor or a replay; a replay shares its text, its flags and  *)
(* its walk over the groups.                                               *)
(***************************************************************************)
EXTENDS Descriptor

CONSTANTS
  ReplayLengths,  \* lengths of the texts replayed
  AlterLength,    \* bound: the longest text whose capture is altered
  IndexCount,     \* kDescriptorArenaIndexCount, 0x20000, values of an index
  RadixBase       \* half a key, 0x1000

ASSUME ReplayAssumption ==
  /\ ReplayLengths \subseteq Nat \ {0} /\ IndexCount \in Nat \ {0}
  /\ AlterLength \in 0 .. IndexCount
  /\ RadixBase \in Nat /\ RadixBase * RadixBase >= (SymbolMax + 1) ^ KeyLen

VARIABLES
  path,      \* "live", or the reader of a replay: "checked" or "trusted"
  stage,     \* where the replay is
  records,   \* the descriptor: keys, and counts packed above indices
  cells,     \* int_arena, a sequence
  altered,   \* the capture is not what the encoder wrote
  at,        \* the record to be read or written next
  seen,      \* the positions whose seen_generation is the current one
  placed,    \* the positions written to the array
  aliased    \* history: a literal was supplied that an index cannot hold

replay == <<stage, records, cells, altered, at, seen, placed, aliased>>
reader == <<at, seen, placed, aliased>>
descriptor == <<input, pc, built, pass, next, lists, output>>
replayVars == <<vars, path, replay>>

\* init_identity_arena(): only the encoder that fills the whole arena.
Identity == [i \in 1 .. L |-> i - 1]

ReplayInit ==
  /\ path \in {"live", "checked", "trusted"}
  /\ IF path = "live" THEN Init ELSE Begin(ReplayLengths)
  /\ stage = IF path # "live" /\ L > IndexCount THEN "long" ELSE "encode"
  /\ stage = "long" => mode = "array" /\ flags = {}   \* an encoder's, and not used
  /\ records = <<>>
  /\ cells = IF mode = "array" /\ path # "live" THEN Identity ELSE <<>>
  /\ altered = FALSE /\ at = 1 /\ seen = {} /\ placed = <<>> /\ aliased = FALSE
-----------------------------------------------------------------------------
(* Encoding.                                                               *)
\* make_stage5_run(): a literal is its position, without a count.
Packed(count, index) == count * IndexCount + index
Record(key, count, index) == [key |-> key, packed |-> Packed(count, index)]
Encoded(r) == r.packed \div IndexCount
Index(r) == r.packed % IndexCount

\* emit_direct_records(): the identity arena has the position at itself.
DirectRecords(first, n) ==
  [i \in 1 .. n |-> Record(Key(first + i - 1), 1, first + i - 1)]

\* emit_compact_literal_records() and write_compact_order_group(): a literal
\* record holds its position, any other names the end of the arena.
IndexedUnlessSingle(block) == Len(block) > 1
Indexed(block) == Len(block) > 1 \/ mode = "singletons"
CompactRecord(block, arenaEntries) ==
  IF Indexed(block) THEN Record(Key(block[1]), Len(block), arenaEntries)
                    ELSE Record(Key(block[1]), 0, block[1])

\* append_compact_arena_positions(): all of a block or nothing.
NoRoom(block) == Indexed(block) /\ Len(cells) + Len(block) > IndexCount

\* Append the compact records of the blocks, or give up at the first block
\* without room.
EmitCompact(blocks) ==
  LET run == FoldLeft(
        LAMBDA s, b : [records |-> Append(s.records, CompactRecord(b, Len(s.cells))),
                       cells |-> IF Indexed(b) THEN s.cells \o b ELSE s.cells],
        [records |-> records, cells |-> cells], blocks)
  IN /\ records' = run.records
     /\ cells' = run.cells

EncodeGroupAlone ==
  /\ stage = "encode" /\ runStart < FullGroups /\ RunEnd = runStart + 1
  /\ order = <<>>
  /\ IF mode = "array"
     THEN /\ records' = records \o DirectRecords(runStart * GroupLen, GroupLen)
          /\ UNCHANGED cells
     ELSE EmitCompact(Singles(runStart * GroupLen, GroupLen))
  /\ runStart' = RunEnd
  /\ UNCHANGED <<descriptor, order, rel, path, stage, altered, reader>>

EncodeBeginRun ==
  /\ stage = "encode" /\ runStart < FullGroups /\ RunEnd > runStart + 1
  /\ order = <<>>
  /\ order' = SortSeq(
       [i \in 1 .. RunEnd - runStart |-> (runStart + i - 1) * GroupLen],
       LAMBDA a, b : SuffixLess(a + GroupLen - 1, b + GroupLen - 1))
  /\ rel' = GroupLen - 1
  /\ runStart' = RunEnd
  /\ UNCHANGED <<descriptor, path, replay>>

\* The cells of a column in the whole arena: the columns of a run, from the
\* right, each as wide as there are groups, where the run begins.
ArenaBase == Min(Range(order)) + (GroupLen - 1 - rel) * Len(order)

EmitWhole(blocks) ==
  LET positions == FlattenSeq(blocks)
      before(i) == Len(FlattenSeq(SubSeq(blocks, 1, i - 1)))
  IN /\ records' = records \o [i \in DOMAIN blocks |->
                     Record(Key(blocks[i][1]), Len(blocks[i]), ArenaBase + before(i))]
     /\ cells' = [c \in DOMAIN cells |->
                    IF c - ArenaBase \in DOMAIN positions THEN positions[c - ArenaBase]
                                                          ELSE cells[c]]

\* The records of a column, or the end where the arena has no room, and the
\* order of the column to the left.
EmitRecords(blocks, left) ==
  /\ IF mode # "array" /\ \E b \in Range(blocks) : NoRoom(b)
     THEN stage' = "refused" /\ UNCHANGED <<records, cells, order, rel>>
     ELSE /\ IF mode = "array" THEN EmitWhole(blocks) ELSE EmitCompact(blocks)
          /\ order' = IF rel = 0 THEN <<>> ELSE left
          /\ rel' = IF rel = 0 THEN 0 ELSE rel - 1
          /\ UNCHANGED stage
  /\ UNCHANGED <<descriptor, runStart, path, altered, reader>>

\* The compact encoder has two groups change places where the symbols to the
\* left do not ascend.
Swapped == IF At(order[1] + rel - 1) > At(order[2] + rel - 1) THEN Reverse(order) ELSE order
InPairs == mode # "array" /\ Len(order) = 2

EncodeColumnOfTwo ==
  /\ stage = "encode" /\ order # <<>> /\ InPairs
  /\ LET p == order[1] + rel  q == order[2] + rel
     IN EmitRecords(IF Key(p) = Key(q) THEN <<<<p, q>>>> ELSE <<<<p>>, <<q>>>>, Swapped)

\* More groups, and in the whole arena any number: an insertion sort.
LeftOfAll == StableBy(order, LAMBDA p : At(p + rel - 1))

EncodeColumn ==
  /\ stage = "encode" /\ order # <<>> /\ ~InPairs
  /\ EmitRecords(KeyBlocks(ColumnPositions), LeftOfAll)

EncodeTail ==
  /\ stage = "encode" /\ order = <<>> /\ runStart = FullGroups
  /\ IF mode = "array"
     THEN /\ records' = records \o DirectRecords(FullGroups * GroupLen, L % GroupLen)
          /\ UNCHANGED cells
     ELSE EmitCompact(Singles(FullGroups * GroupLen, L % GroupLen))
  /\ stage' = "captured"
  /\ UNCHANGED <<descriptor, walk, path, altered, reader>>
-----------------------------------------------------------------------------
(* Longer texts.  The encoders refuse them; a capture of one is a run for    *)
(* every key, and need not name the zeros of the tail.                       *)
TooLong ==
  /\ stage = "long"
  /\ stage' = "refused"
  /\ UNCHANGED <<vars, path, records, cells, altered, reader>>

\* suffix_is_zero_tail()
ZeroTail(p) == \A i \in p .. L - 1 : text[i] = 0

CaptureLong ==
  /\ stage = "long" /\ path = "checked"
  /\ \E left \in SUBSET {p \in 0 .. L - 1 : ZeroTail(p)} :
       LET named == SelectSeq(SuffixArray, LAMBDA p : p \notin left)
           blocks == IF named = <<>> THEN <<>> ELSE KeyBlocks(named)
           before(i) == Len(FlattenSeq(SubSeq(blocks, 1, i - 1)))
       IN /\ \A i \in DOMAIN blocks : before(i) < IndexCount
          /\ cells' = named
          /\ records' = [i \in DOMAIN blocks |->
                           Record(Key(blocks[i][1]), Len(blocks[i]), before(i))]
  /\ stage' = "captured"
  /\ UNCHANGED <<vars, path, altered, reader>>
-----------------------------------------------------------------------------
(* Between the encoder and the checking reader: one record lost or changed, *)
(* or one cell of the arena.                                               *)
Alter ==
  /\ stage = "captured" /\ path = "checked" /\ ~altered /\ L <= AlterLength
  /\ \/ \E i \in DOMAIN records : records' = RemoveAt(records, i) /\ UNCHANGED cells
     \/ \E i \in DOMAIN records, n \in 0 .. 3 :
          /\ records' = [records EXCEPT ![i].packed = Packed(n, Index(records[i]))]
          /\ UNCHANGED cells
     \/ \E i \in DOMAIN records, n \in 0 .. L :
          /\ records' = [records EXCEPT ![i].packed = Packed(Encoded(records[i]), n)]
          /\ UNCHANGED cells
     \/ \E i, j \in DOMAIN records :
          records' = [records EXCEPT ![i].key = records[j].key] /\ UNCHANGED cells
     \/ \E c \in DOMAIN cells, p \in 0 .. L :
          cells' = [cells EXCEPT ![c] = p] /\ UNCHANGED records
  /\ altered' = TRUE
  /\ UNCHANGED <<vars, path, stage, reader>>
-----------------------------------------------------------------------------
(* Reading.                                                                *)
InArena(r) == Index(r) <= Len(cells) /\ Encoded(r) <= Len(cells) - Index(r)
Count(r) == IF Encoded(r) = 0 THEN 1 ELSE Encoded(r)
ReadPositions(r) ==
  IF Encoded(r) = 0 THEN <<Index(r)>> ELSE SubSeq(cells, Index(r) + 1, Index(r) + Encoded(r))
Counted(rs) == FoldLeft(LAMBDA n, r : n + Count(r), 0, rs)
Total == Counted(SubSeq(records, 1, at - 1))

\* What the checking reader asks of a record: positions of the text, none of
\* them seen before, all with its key and in the order of their suffixes.
FreshPositionsInRun(ps) == IsInjective(ps)
FreshPositions(ps) == Range(ps) \cap seen = {} /\ IsInjective(ps)
Ascending(ps) == \A i \in 1 .. Len(ps) - 1 : ~SuffixLess(ps[i + 1], ps[i])
Accepted(r) ==
  /\ Encoded(r) > 0 /\ InArena(r) /\ Encoded(r) <= L - Total
  /\ LET ps == ReadPositions(r)
     IN /\ Range(ps) \subseteq 0 .. L - 1
        /\ FreshPositions(ps)
        /\ \A p \in Range(ps) : Key(p) = r.key
        /\ Ascending(ps)

\* What the other one asks.
Trusted(r) ==
  IF Encoded(r) = 0 THEN Index(r) < L /\ Total < L
                    ELSE InArena(r) /\ Total <= L /\ Encoded(r) <= L - Total

StartReading ==
  /\ stage = "captured"
  /\ stage' = "read" /\ at' = 1
  /\ UNCHANGED <<descriptor, walk, path, records, cells, altered, seen, placed, aliased>>

ReadRecord ==
  /\ stage = "read" /\ at <= Len(records)
  /\ LET r == records[at]
     IN IF path = "checked"
        THEN /\ stage' = IF Accepted(r) THEN stage ELSE "refused"
             /\ seen' = IF Accepted(r) THEN seen \cup Range(ReadPositions(r)) ELSE seen
        ELSE /\ stage' = IF Trusted(r) THEN stage ELSE "refused"
             /\ UNCHANGED seen
  /\ at' = at + 1
  /\ UNCHANGED <<descriptor, walk, path, records, cells, altered, placed, aliased>>

\* stage5_radix_order_key(): the first symbol of a key counts most, although
\* the word it is stored in has it lowest.
RadixKey(key) ==
  FoldLeft(LAMBDA n, symbol : n * (SymbolMax + 1) + symbol, 0, key)

\* radix_sort_runs_by_key(): two stable passes, the low half of the key first.
Radix(rs) ==
  LET BucketSort(s, DigitOf(_)) ==
        FlattenSeq([d \in 1 .. RadixBase |-> SelectSeq(s, LAMBDA r : DigitOf(r) = d - 1)])
  IN BucketSort(BucketSort(rs, LAMBDA r : RadixKey(r.key) % RadixBase),
                LAMBDA r : RadixKey(r.key) \div RadixBase)

\* Whether what the records stand for is read from the arena and fits the array.
Contained(rs) ==
  /\ \A r \in Range(rs) : Encoded(r) = 0 \/ InArena(r)
  /\ Counted(rs) <= L

\* The checking reader, short of positions, supplies the zeros of the tail as
\* literals; any other position must have come.  A literal beyond the indices
\* reads as a run, of cells nobody checked or that do not exist ("wild").
SortRecords ==
  /\ stage = "read" /\ at = Len(records) + 1
  /\ LET missing == IF path = "checked" /\ Total < L THEN (0 .. L - 1) \ seen ELSE {}
         tail == SelectSeq([p \in 1 .. L |-> p - 1], LAMBDA p : p \in missing)
         literals == [i \in DOMAIN tail |-> Record(Key(tail[i]), 0, tail[i])]
     IN \/ /\ \A p \in missing : ZeroTail(p)
           /\ Total + Len(tail) = L
           /\ stage' = IF Contained(records \o literals) THEN "write" ELSE "wild"
           /\ records' = Radix(records \o literals)
           /\ seen' = seen \cup missing
           /\ aliased' = \E p \in missing : p >= IndexCount
        \/ /\ (\E p \in missing : ~ZeroTail(p)) \/ Total + Len(tail) # L
           /\ stage' = "refused"
           /\ UNCHANGED <<records, seen, aliased>>
  /\ at' = 1
  /\ UNCHANGED <<descriptor, walk, path, cells, altered, placed>>

\* The checking reader merges through a heap, with the least of the first
\* positions of all runs on top.
RECURSIVE HeapMerged(_)
HeapMerged(ls) ==
  LET runsLeft == {i \in DOMAIN ls : ls[i] # <<>>}
      Above(i, j) == LET a == ls[i][1]  b == ls[j][1]
                     IN AfterKey(a, b) \/ (~AfterKey(b, a) /\ a <= b)
      top == CHOOSE i \in runsLeft : \A j \in runsLeft : Above(i, j)
  IN IF runsLeft = {} THEN <<>>
     ELSE <<ls[top][1]>> \o HeapMerged([ls EXCEPT ![top] = Tail(@)])

\* The other one sorts a few literals in place and merges runs in pairs, pass
\* after pass.
RECURSIVE PairsMerged(_)
PairsMerged(ls) ==
  IF Len(ls) = 1 THEN ls[1]
  ELSE PairsMerged([i \in 1 .. (Len(ls) + 1) \div 2 |->
                      IF 2 * i > Len(ls) THEN ls[2 * i - 1]
                      ELSE Merged(ls[2 * i - 1], ls[2 * i], FALSE)])
LiteralsOnly(rs) == Len(rs) <= LiteralMax /\ \A r \in Range(rs) : Encoded(r) = 0

\* The records from "at" on that have its key.
SameKey == Max({i \in at .. Len(records) : \A j \in at .. i : records[j].key = records[at].key})

\* A record alone with its key is copied.
WriteRecord ==
  /\ stage = "write" /\ at <= Len(records) /\ SameKey = at
  /\ placed' = placed \o ReadPositions(records[at])
  /\ at' = at + 1
  /\ UNCHANGED <<descriptor, walk, path, stage, records, cells, altered, seen, aliased>>

\* Of two, the trusting reader takes the lesser suffix until one has none left.
TwoMerged(u, v) == Merged(u, v, FALSE)

WriteRecords ==
  /\ stage = "write" /\ at <= Len(records) /\ SameKey > at
  /\ LET rs == SubSeq(records, at, SameKey)
         ls == [i \in DOMAIN rs |-> ReadPositions(rs[i])]
     IN placed' = placed \o
          (IF path = "trusted" /\ LiteralsOnly(rs) THEN SortSeq(FlattenSeq(ls), AfterKey)
           ELSE IF path = "trusted" /\ Len(ls) = 2 THEN TwoMerged(ls[1], ls[2])
           ELSE IF path = "checked" THEN HeapMerged(ls)
           ELSE PairsMerged(ls))
  /\ at' = SameKey + 1
  /\ UNCHANGED <<descriptor, walk, path, stage, records, cells, altered, seen, aliased>>

FinishReplay ==
  /\ stage = "write" /\ at > Len(records)
  /\ stage' = IF Len(placed) = L THEN "done" ELSE "refused"
  /\ UNCHANGED <<vars, path, records, cells, altered, reader>>

LiveNext == path = "live" /\ Next /\ UNCHANGED <<path, replay>>
ReplayNext ==
  /\ path # "live"
  /\ \/ EncodeGroupAlone \/ EncodeBeginRun \/ EncodeColumnOfTwo \/ EncodeColumn
     \/ EncodeTail
     \/ TooLong \/ CaptureLong \/ Alter
     \/ StartReading \/ ReadRecord \/ SortRecords
     \/ WriteRecord \/ WriteRecords \/ FinishReplay

ReplaySpec == ReplayInit /\ [][LiveNext \/ ReplayNext]_replayVars
-----------------------------------------------------------------------------
(* What a reader completes is the suffix array.  For the checking reader    *)
(* that is so whatever the capture holds, with one exception: its checks of *)
(* each record, of the positions seen and of the tail refuse every          *)
(* descriptor that would give another array, but it does not bound the      *)
(* length, and a literal it supplies from position 0x20000 on is read back  *)
(* as a run.  The other reader is right about what an encoder wrote.        *)
ReplaySorted ==
  ~aliased => stage # "wild" /\ (stage = "done" => placed = SuffixArray)

(* Nothing is refused: the arena has room for every run of every text and  *)
(* its store and no position is missing at the end (otherwise libsais does *)
(* the hash again, astrobwt.cpp:745), and a reader accepts what its own    *)
(* encoder wrote, or what describes a longer text in the same way.  The    *)
(* checking reader knows no literals and takes those of the compact form   *)
(* for a count of zero; the encoders take no text beyond the indices.      *)
NeverRefused ==
  /\ pc # "failed"
  /\ stage = "refused" =>
       altered \/ (path = "checked" /\ mode = "stream") \/ (L > IndexCount /\ records = <<>>)
=============================================================================
