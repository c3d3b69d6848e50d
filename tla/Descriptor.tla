----------------------------- MODULE Descriptor -----------------------------
(***************************************************************************)
(* The suffix array of a hash, built by the descriptor path                *)
(* (stage_v114_sa_build_compact_fused_raw and, streamed into SHA-256,      *)
(* stage_v114_hash_compact_fused_raw).  The text is cut into groups that   *)
(* mostly repeat each other.  Runs of groups are walked column by column   *)
(* from the right, keeping the groups in suffix order; each column emits   *)
(* runs of positions with an equal key; the runs are sorted by key and     *)
(* those of an equal key merged.  Positions count from 0.                  *)
(***************************************************************************)
EXTENDS Integers, FiniteSets, Sequences, SequencesExt, FiniteSetsExt

CONSTANTS
  SymbolMax,    \* 255
  Lengths,      \* lengths of the texts explored
  GroupLen,     \* 256
  KeyLen,       \* symbols of a key, 3
  PrefixLen,    \* symbols compared at once after the key, 8
  Wide,         \* positions copied by one unconditional store, 8
  Together,     \* runs written at once when all their keys differ, 4
  LiteralMax,   \* kMaxStackLiteralGroup, 32
  SinkLen,      \* FusedHashSink::kBufferWords, 2048
  Modes,        \* a subset of {"array", "stream", "singletons"}
  Junk          \* what a stale cell holds

ASSUME SymbolsAssumption == SymbolMax \in Nat \ {0}
ASSUME LengthsAssumption ==
  /\ {GroupLen, KeyLen, PrefixLen, Wide, Together, LiteralMax, SinkLen}
       \subseteq Nat \ {0}
  /\ KeyLen <= GroupLen /\ Lengths \subseteq Nat \ {0}
ASSUME ModesAssumption == Modes \subseteq {"array", "stream", "singletons"}

Symbols == 0 .. SymbolMax

VARIABLES
  text,       \* sData, 0 .. data_len - 1; zeros follow
  flags,      \* the groups that begin a run; any set, it is only a hint
  mode,       \* where the positions go, chosen by the environment once
  pc,
  runStart,   \* first group not yet emitted
  order,      \* the groups of the run being walked, by their first position
  rel,        \* the column
  runs, arena,
  pass,       \* radix passes left
  next,       \* first run not yet written
  lists,      \* positions of one key waiting to be merged
  outPos, out,      \* the array, with its slack
  hashed, buffered  \* the stream: given to SHA-256, and in the sink

input == <<text, flags, mode>>
walk  == <<runStart, order, rel>>
built == <<runs, arena>>
sink  == <<hashed, buffered>>
output == <<outPos, out, sink>>
vars == <<input, pc, walk, built, pass, next, lists, output>>

L == Cardinality(DOMAIN text)
FullGroups == L \div GroupLen
ArenaSize == L + Wide
Streamed == mode # "array"

\* A text of one of the lengths, with any flags and nothing built yet.
Begin(lengths) ==
  /\ \E n \in lengths :
       /\ text \in [0 .. n - 1 -> Symbols]
       /\ flags \in SUBSET (1 .. (n \div GroupLen) - 1)  \* the last means nothing
       /\ out = [i \in 0 .. n + Wide - 1 |-> Junk]
  /\ mode \in Modes
  /\ pc = "groups" /\ runStart = 0 /\ order = <<>> /\ rel = 0
  /\ runs = <<>> /\ arena = <<>>
  /\ pass = KeyLen /\ next = 1 /\ lists = <<>>
  /\ outPos = 0 /\ hashed = <<>> /\ buffered = <<>>

Init == Begin(Lengths) /\ text[L - 1] # 0   \* zeros are trimmed
-----------------------------------------------------------------------------
(* Suffixes and keys. *)
At(p) == IF p < L THEN text[p] ELSE 0

\* compare_suffixes(a, b) < 0
SuffixLess(a, b) ==
  \E n \in 0 .. L - 1 :
    /\ \A i \in 0 .. n - 1 : a + i < L /\ b + i < L /\ text[a + i] = text[b + i]
    /\ b + n < L
    /\ a + n = L \/ (a + n < L /\ text[a + n] < text[b + n])

\* load24_padded()
Key(p) == [i \in 1 .. KeyLen |-> At(p + i - 1)]

\* suffix_less_after_key(), for two suffixes of equal keys.
AfterKeyByPosition(a, b) == a < b
AfterKey(a, b) ==
  IF L - a <= KeyLen \/ L - b <= KeyLen THEN a > b   \* the shorter one
  ELSE SuffixLess(a + KeyLen, b + KeyLen)

\* suffix_prefix_after_key()
Prefix(p) == [i \in 1 .. PrefixLen |-> At(p + KeyLen + i - 1)]
TupleLess(u, v) ==
  \E n \in DOMAIN u : u[n] < v[n] /\ \A i \in 1 .. n - 1 : u[i] = v[i]
ByPrefix(a, b) ==
  TupleLess(Prefix(a), Prefix(b)) \/ (Prefix(a) = Prefix(b) /\ AfterKey(a, b))

\* A stable bucket sort: the buckets in the order of the symbols.
StableBy(s, SymbolOf(_)) ==
  FoldLeft(LAMBDA sorted, c : sorted \o SelectSeq(s, LAMBDA x : SymbolOf(x) = c),
           <<>>, [i \in 1 .. SymbolMax + 1 |-> i - 1])

\* The two-run merge into the array compares prefixes first.
RECURSIVE Merged(_, _, _)
Merged(u, v, prefixFirst) ==
  LET before == IF prefixFirst THEN ByPrefix(u[1], v[1]) ELSE AfterKey(u[1], v[1])
  IN CASE u = <<>> \/ v = <<>> -> u \o v
       [] OTHER -> IF before THEN <<u[1]>> \o Merged(Tail(u), v, prefixFirst)
                             ELSE <<v[1]>> \o Merged(u, Tail(v), prefixFirst)
-----------------------------------------------------------------------------
(* Emitting runs. *)

\* A literal run holds its position itself, any other points into the arena.
IsLiteral(positions) == mode = "stream" /\ Len(positions) = 1
Refused(positions) ==
  Len(arena) + Len(positions) + (IF Streamed THEN 0 ELSE Wide - 1) > ArenaSize

\* Append one run for each sequence of positions, all of them or none.
AppendRuns(blocks) ==
  LET kept == SelectSeq(blocks, LAMBDA b : ~IsLiteral(b))
      begin(i) == Len(arena) + Len(FlattenSeq(
                    SelectSeq(SubSeq(blocks, 1, i - 1), LAMBDA b : ~IsLiteral(b))))
  IN /\ runs' = runs \o [i \in DOMAIN blocks |->
                  [key     |-> Key(blocks[i][1]),
                   literal |-> IsLiteral(blocks[i]),
                   begin   |-> IF IsLiteral(blocks[i]) THEN blocks[i][1] ELSE begin(i),
                   count   |-> Len(blocks[i])]]
     /\ arena' = arena \o FlattenSeq(kept)

Singles(first, n) == [i \in 1 .. n |-> <<first + i - 1>>]

\* The next run of groups: up to the next flag or the last full group.
RunEnd == Min({g \in runStart + 1 .. FullGroups : g \in flags \/ g = FullGroups})

EmitGroupAlone ==
  /\ pc = "groups" /\ runStart < FullGroups /\ RunEnd = runStart + 1
  /\ AppendRuns(Singles(runStart * GroupLen, GroupLen))
  /\ runStart' = RunEnd
  /\ UNCHANGED <<input, pc, order, rel, pass, next, lists, output>>

BeginRun ==
  /\ pc = "groups" /\ runStart < FullGroups /\ RunEnd > runStart + 1
  /\ order' = SortSeq(
       [i \in 1 .. RunEnd - runStart |-> (runStart + i - 1) * GroupLen],
       LAMBDA a, b : SuffixLess(a + GroupLen - 1, b + GroupLen - 1))
  /\ rel' = GroupLen - 1
  /\ runStart' = RunEnd
  /\ pc' = "column"
  /\ UNCHANGED <<input, built, pass, next, lists, output>>

\* equal_columns: the groups of the run agree in column c.
ColumnIsEqual(c) == \A i \in DOMAIN order : At(order[i] + c) = At(order[1] + c)

\* All keys of the column are known to be equal: the key does not leave the
\* groups, and its columns are equal.
Shared(c) ==
  c <= GroupLen - KeyLen /\ \A k \in 0 .. KeyLen - 1 : ColumnIsEqual(c + k)

\* The positions of the column, cut where the key changes.
KeyBlocks(positions) ==
  FoldLeft(LAMBDA blocks, p :
             IF blocks # <<>> /\ Key(Last(blocks)[1]) = Key(p)
             THEN Front(blocks) \o <<Append(Last(blocks), p)>>
             ELSE Append(blocks, <<p>>),
           <<>>, positions)
ColumnPositions == [i \in DOMAIN order |-> order[i] + rel]
ColumnBlocks == IF Shared(rel) THEN <<ColumnPositions>> ELSE KeyBlocks(ColumnPositions)

\* The order one column to the left; an equal column does not change it.
Leftward(c) == StableBy(order, LAMBDA p : At(p + c))
Reordered(c) == IF ColumnIsEqual(c) THEN order ELSE Leftward(c)

\* The runs of a column, or the end of the path where the arena is full, and
\* the step to the column on its left.
EmitColumn(blocks, left(_)) ==
  /\ IF \E i \in DOMAIN blocks : Refused(FlattenSeq(SubSeq(blocks, 1, i)))
     THEN pc' = "failed" /\ UNCHANGED <<built, order, rel>>
     ELSE /\ AppendRuns(blocks)
          /\ IF rel > 0
             THEN order' = left(rel - 1) /\ rel' = rel - 1 /\ UNCHANGED pc
             ELSE pc' = "groups" /\ UNCHANGED <<order, rel>>
  /\ UNCHANGED <<input, runStart, pass, next, lists, output>>

\* Into the array: equal columns save the cutting and the sorting.
Column == pc = "column" /\ ~Streamed /\ EmitColumn(ColumnBlocks, Reordered)

\* Into the stream: two groups change places where the symbols to the left do
\* not ascend,
SwappedLeft(c) == IF At(order[1] + c) > At(order[2] + c) THEN Reverse(order) ELSE order
StreamColumnOfTwo ==
  /\ pc = "column" /\ Streamed /\ Len(order) = 2
  /\ LET p == order[1] + rel  q == order[2] + rel
     IN EmitColumn(IF Key(p) = Key(q) THEN <<<<p, q>>>> ELSE <<<<p>>, <<q>>>>, SwappedLeft)

\* and the columns of more are always cut and sorted.
StreamColumn ==
  /\ pc = "column" /\ Streamed /\ Len(order) > 2
  /\ EmitColumn(KeyBlocks(ColumnPositions), Leftward)

\* Behind the last full group every position is a run of its own.
EmitTail ==
  /\ pc = "groups" /\ runStart = FullGroups
  /\ AppendRuns(Singles(FullGroups * GroupLen, L % GroupLen))
  /\ pc' = "radix"
  /\ UNCHANGED <<input, walk, pass, next, lists, output>>
-----------------------------------------------------------------------------
(* Sorting and writing them. *)

\* One stable pass per symbol of the key, the last symbol first.
PassSymbol(n) == n

RadixPass ==
  /\ pc = "radix" /\ pass > 0
  /\ runs' = StableBy(runs, LAMBDA r : r.key[PassSymbol(pass)])
  /\ pass' = pass - 1
  /\ UNCHANGED <<input, pc, walk, arena, next, lists, output>>

\* The array is begun only if the arena holds every position.
BeginWriting ==
  /\ pc = "radix" /\ pass = 0
  /\ pc' = IF ~Streamed /\ Len(arena) # L THEN "failed" ELSE "write"
  /\ UNCHANGED <<input, walk, built, pass, next, lists, output>>

Positions(r) ==
  IF r.literal THEN <<r.begin>> ELSE SubSeq(arena, r.begin + 1, r.begin + r.count)

\* fused_hash_sink_write_pos() and _write_positions(): the sink is emptied
\* into SHA-256 whenever it is full.
SinkWrite(positions) ==
  LET all == buffered \o positions
      full == Len(all) - (Len(all) % SinkLen)
  IN /\ hashed' = hashed \o SubSeq(all, 1, full)
     /\ buffered' = SubSeq(all, full + 1, Len(all))

\* Copies of the runs in rs, one behind the other.  A short one is a store
\* of fixed width: what it writes beyond the run is overwritten by the next.
WidthDoubled(n) == IF n <= 2 * Wide THEN 2 * Wide ELSE n
Width(n) == IF n <= Wide THEN Wide ELSE n
CopiedRun(r, at, o) ==
  LET stored == at .. at + Width(r.count) - 1
      cell(i) == IF r.begin + i < Len(arena) THEN arena[r.begin + i + 1] ELSE Junk
  IN [i \in DOMAIN o \cup stored |-> IF i \in stored THEN cell(i - at) ELSE o[i]]
CopyRuns(rs) ==
  LET done == FoldLeft(LAMBDA s, r : [at  |-> s.at + r.count,
                                      out |-> CopiedRun(r, s.at, s.out)],
                       [at |-> outPos, out |-> out], rs)
  IN out' = done.out /\ outPos' = done.at

\* Exactly these positions, without overshoot.
CopyPositions(positions) ==
  /\ out' = [i \in DOMAIN out |-> IF i \in outPos .. outPos + Len(positions) - 1
                                  THEN positions[i - outPos + 1] ELSE out[i]]
  /\ outPos' = outPos + Len(positions)

Put(positions) ==
  IF Streamed THEN SinkWrite(positions) /\ UNCHANGED <<outPos, out>>
              ELSE CopyPositions(positions) /\ UNCHANGED sink

\* The runs from next on that have its key.
GroupEnd == Max({i \in next .. Len(runs) :
                   \A j \in next .. i : runs[j].key = runs[next].key})
Group == SubSeq(runs, next, GroupEnd)
Alone(i) == i < Len(runs) => runs[i].key # runs[i + 1].key
AloneTogether ==
  /\ ~Streamed /\ next + Together - 1 <= Len(runs)
  /\ \A i \in next .. next + Together - 1 : Alone(i)

WriteTogether ==
  /\ pc = "write" /\ AloneTogether
  /\ CopyRuns(SubSeq(runs, next, next + Together - 1))
  /\ next' = next + Together
  /\ UNCHANGED <<input, pc, walk, built, pass, lists, sink>>

WriteAlone ==
  /\ pc = "write" /\ next <= Len(runs) /\ Alone(next) /\ ~AloneTogether
  /\ IF Streamed THEN SinkWrite(Positions(runs[next])) /\ UNCHANGED <<outPos, out>>
                 ELSE CopyRuns(Group) /\ UNCHANGED sink
  /\ next' = next + 1
  /\ UNCHANGED <<input, pc, walk, built, pass, lists>>

\* A few literals of one key are sorted where they are.
FewLiterals ==
  /\ Streamed /\ Len(Group) <= LiteralMax
  /\ \A i \in DOMAIN Group : Group[i].literal

WriteLiterals ==
  /\ pc = "write" /\ next <= Len(runs) /\ ~Alone(next) /\ FewLiterals
  /\ SinkWrite(SortSeq([i \in DOMAIN Group |-> Group[i].begin], AfterKey))
  /\ next' = GroupEnd + 1
  /\ UNCHANGED <<input, pc, walk, built, pass, lists, outPos, out>>

\* Two runs are merged as they are written; into the array, symbols behind
\* the key are compared several at a time first.
IsPair == next <= Len(runs) /\ ~Alone(next) /\ ~FewLiterals /\ Len(Group) = 2

WriteTwo ==
  /\ pc = "write" /\ ~Streamed /\ IsPair
  /\ CopyPositions(Merged(Positions(Group[1]), Positions(Group[2]), TRUE))
  /\ next' = GroupEnd + 1
  /\ UNCHANGED <<input, pc, walk, built, pass, lists, sink>>

HashTwo ==
  /\ pc = "write" /\ Streamed /\ IsPair
  /\ SinkWrite(Merged(Positions(Group[1]), Positions(Group[2]), FALSE))
  /\ next' = GroupEnd + 1
  /\ UNCHANGED <<input, pc, walk, built, pass, lists, outPos, out>>

\* More are gathered and merged in pairs, pass after pass.
Gather ==
  /\ pc = "write" /\ next <= Len(runs) /\ ~Alone(next) /\ ~FewLiterals
  /\ Len(Group) > 2
  /\ lists' = [i \in DOMAIN Group |-> Positions(Group[i])]
  /\ next' = GroupEnd + 1
  /\ pc' = "merge"
  /\ UNCHANGED <<input, walk, built, pass, output>>

MergePass ==
  /\ pc = "merge" /\ Len(lists) > 1
  /\ lists' = [i \in 1 .. (Len(lists) + 1) \div 2 |->
                 IF 2 * i > Len(lists) THEN lists[2 * i - 1]
                 ELSE Merged(lists[2 * i - 1], lists[2 * i], FALSE)]
  /\ UNCHANGED <<input, pc, walk, built, pass, next, output>>

WriteMerged ==
  /\ pc = "merge" /\ Len(lists) = 1
  /\ Put(lists[1])
  /\ lists' = <<>>
  /\ pc' = "write"
  /\ UNCHANGED <<input, walk, built, pass, next>>

\* All runs are written: the count must be right, and the sink is emptied.
Complete == (IF Streamed THEN Len(hashed) + Len(buffered) ELSE outPos) = L
Finish ==
  /\ pc = "write" /\ next > Len(runs)
  /\ pc' = IF Complete THEN "done" ELSE "failed"
  /\ hashed' = IF Complete THEN hashed \o buffered ELSE hashed
  /\ buffered' = IF Complete THEN <<>> ELSE buffered
  /\ UNCHANGED <<input, walk, built, pass, next, lists, outPos, out>>

Next ==
  \/ EmitGroupAlone \/ BeginRun \/ Column \/ StreamColumnOfTwo
  \/ StreamColumn \/ EmitTail
  \/ RadixPass \/ BeginWriting
  \/ WriteTogether \/ WriteAlone \/ WriteLiterals \/ WriteTwo \/ HashTwo
  \/ Gather \/ MergePass \/ WriteMerged \/ Finish

Spec == Init /\ [][Next]_vars
-----------------------------------------------------------------------------
(* Types: no store leaves the buffers and their slack, whatever its width.  *)
TypeOK ==
  /\ pc \in {"groups", "column", "radix", "write", "merge", "done", "failed"}
  /\ runStart \in 0 .. FullGroups /\ rel \in 0 .. GroupLen - 1
  /\ order \in Seq(0 .. L - 1) /\ arena \in Seq(0 .. L - 1) /\ Len(arena) <= L
  /\ pass \in 0 .. KeyLen /\ next \in 1 .. Len(runs) + 1
  /\ outPos \in 0 .. L /\ DOMAIN out = 0 .. L + Wide - 1
  /\ hashed \in Seq(0 .. L - 1) /\ buffered \in Seq(0 .. L - 1)
  /\ Len(buffered) < SinkLen

(* What has been written, and in the end all of it, is the suffix array -   *)
(* for every set of flags, since they only say where repetition is likely.  *)
SuffixArray == SortSeq([i \in 1 .. L |-> i - 1], SuffixLess)
Written == IF Streamed THEN hashed \o buffered
           ELSE [i \in 1 .. outPos |-> out[i - 1]]
WrittenIsSorted ==
  pc \in {"write", "merge", "done"} =>
    /\ Written = SubSeq(SuffixArray, 1, Len(Written))
    /\ pc = "done" => Len(Written) = L
=============================================================================
