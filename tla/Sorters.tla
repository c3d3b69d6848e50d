------------------------------- MODULE Sorters -------------------------------
(***************************************************************************)
(* One thread hashing one text after another with the suffix sorters other *)
(* than the descriptor of module Descriptor: libsais, the two-byte radix   *)
(* sort of sa_2byte_radix.cpp, and the stamps of spsa_local.cpp, which do  *)
(* without the array and feed their positions to SHA-256 directly.  The    *)
(* environment of the process says which one is used.  The array w.sa is   *)
(* never cleared between hashes.                                           *)
(***************************************************************************)
EXTENDS Libsais, TLC, SequencesExt

CONSTANTS
  Capacity,     \* cells of w.sa
  Symbols,      \* symbols are 0 .. Symbols - 1, for 256
  Processes,    \* a sorter with the compile-time sizes of main_32s_recursion
  Texts,        \* Texts[s][h], the texts the h-th hash by sorter s may be of
  Templates,    \* Templates[T], what wolfCompute() may have recorded of T
  Chunk,        \* bytes of a chunk, 256
  RunLimit,     \* values of a marker's run length, 2^7
  KeyLength,    \* bytes of a sort key, 8
  FewEntries,   \* entries below which a bucket is sorted by insertion, 32
  MaxModified   \* MAX_MODIFIED_BYTES, 16384

ASSUME CapacityAssumption == Capacity \in Nat \ {0} /\ Symbols \in Nat \ {0}
ASSUME ProcessAssumption ==
  \A p \in Processes : /\ p.sorter \in {"libsais", "twobyte", "spsa"}
                       /\ p.local \in Nat /\ p.dense \in Nat \ {0}
ASSUME SpsaAssumption == /\ Chunk \in Nat \ {0} /\ KeyLength \in Nat \ {0}
                         /\ RunLimit \in Nat \ {0}
                         /\ FewEntries \in Nat /\ MaxModified \in Nat

VARIABLES
  process,  \* the sorter the environment names, and the sizes
  ctx,      \* libsais_ctx_tl has been allocated
  hashes,   \* hashes computed so far
  text,     \* the last text, a function on 0 .. data_len - 1
  sa,       \* w.sa
  hashed,   \* the positions that went into SHA-256
  dropped   \* history: the stamps ran out of room for modified bytes, or a
            \* run of the template outgrew its length

vars == <<process, ctx, hashes, text, sa, hashed, dropped>>

Length(T) == Cardinality(DOMAIN T)

Init ==
  /\ process \in Processes
  /\ ctx = FALSE
  /\ hashes = 0 /\ text = [i \in {} |-> 0]
  /\ sa = [i \in 0 .. Capacity - 1 |-> 0]
  /\ hashed = << >> /\ dropped = FALSE

\* SHA-256 over w.sa[0 .. data_len - 1].
FirstCells(array, n) == [i \in 1 .. n |-> array[i - 1]]

-----------------------------------------------------------------------------
(* libsais.  The context is allocated by a thread's first hash, and by later *)
(* ones as long as that fails; what libsais_ctx() returns is not looked at.  *)
LibsaisHash(T) ==
  /\ process.sorter = "libsais"
  /\ ctx' \in {TRUE, ctx}
  /\ sa' = libsais_ctx(ctx', T, sa, Length(T), Symbols, process)
  /\ hashed' = FirstCells(sa', Length(T))
  /\ UNCHANGED dropped

-----------------------------------------------------------------------------
(* The two-byte radix sort.                                                  *)
suffix_cmp(T, a, b) ==
  LET n       == Length(T)
      minlen  == IF a < b THEN n - b ELSE n - a
      differs == {j \in 0 .. minlen - 1 : T[a + j] # T[b + j]}
      at      == CHOOSE j \in differs : \A l \in differs : j <= l
  IN  IF differs = {} THEN b - a ELSE T[a + at] - T[b + at]

\* A pair as one number; the last symbol is paired with zero.
PairAt(T, i) == T[i] * Symbols + (IF i = Length(T) - 1 THEN 0 ELSE T[i + 1])

\* Positions by pair, ascending within each, then by suffix within each pair.
sa_construct_2byte(T, array) ==
  LET n == Length(T)
      scattered ==
        FlattenSeq([b \in 1 .. Symbols * Symbols |->
          SortSeq(SelectSeq([i \in 1 .. n |-> i - 1], LAMBDA i: PairAt(T, i) = b - 1),
                  LAMBDA x, y: suffix_cmp(T, x, y) < 0)])
  IN  IF n = 0 THEN array
      ELSE IF n = 1 THEN [array EXCEPT ![0] = 0]
      ELSE [i \in DOMAIN array |-> IF i < n THEN scattered[i + 1] ELSE array[i]]

TwoByteHash(T) ==
  /\ process.sorter = "twobyte"
  /\ sa' = sa_construct_2byte(T, sa)
  /\ hashed' = FirstCells(sa', Length(T))
  /\ UNCHANGED <<ctx, dropped>>

-----------------------------------------------------------------------------
(* The template of wolfCompute().  A marker stands for a run of chunks that   *)
(* begins with an encrypted one and of which only the bytes at p1 .. p2       *)
(* differ.  The first run has the bounds of a whole chunk and is counted one  *)
(* too long unless chunk 1 is encrypted: it overlaps the next.                *)

\* Of c chunks, counted from 1, those in "encrypted" were.
TemplateOf(encrypted, c, ranges) ==
  LET first == SetToSortSeq({0} \cup {t - 1 : t \in encrypted \ {1}}, <)
      After(i) == IF i < Len(first) THEN first[i + 1] ELSE c
      Early(i) == i = 1 /\ 1 \notin encrypted
      Count(i) == After(i) - first[i] + (IF Early(i) THEN 1 ELSE 0)
      Whole(i) == Early(i) \/ Count(i) = 1
  IN  [i \in 1 .. Len(first) |->
         [first |-> first[i], count |-> Count(i),
          p1 |-> IF Whole(i) THEN 0 ELSE ranges[i][1],
          p2 |-> IF Whole(i) THEN Chunk - 1 ELSE ranges[i][2]]]
TemplatesOf(c, bounds) ==
  UNION {{TemplateOf(e, c, ranges) : ranges \in [1 .. 1 + Cardinality(e) -> bounds]} :
          e \in SUBSET (1 .. c)}

\* What posData makes of a count of too many bits.
Unpacked(m) ==
  [m EXCEPT !.first = IF m.count >= RunLimit /\ @ % 2 = 0 THEN @ + 1 ELSE @,
            !.count = @ % RunLimit]
Outgrown(template) == \E i \in 1 .. Len(template) : template[i].count >= RunLimit

-----------------------------------------------------------------------------
(* Stamps.  The bytes at p1 .. p2 of a run's chunks, the last byte of each,   *)
(* and what no whole chunk covers are the modified bytes.                     *)

Unstamped == [stamps |-> << >>, modified |-> << >>, chunk |-> 0, until |-> 0,
              dropped |-> FALSE]

\* Modified bytes beyond MAX_MODIFIED_BYTES are dropped.
Noted(s, positions) ==
  LET all == s.modified \o positions
  IN  [s EXCEPT !.modified = SubSeq(all, 1, IF Len(all) > MaxModified
                                            THEN MaxModified ELSE Len(all)),
                !.dropped = @ \/ Len(all) > MaxModified]

\* add_chunk(): where a chunk of the stamp is modified.
ModifiedIn(chunk, m) ==
  [j \in 1 .. m.p2 - m.p1 + 1 |-> chunk * Chunk + m.p1 + j - 1]
  \o (IF m.p2 # Chunk - 1 THEN <<chunk * Chunk + Chunk - 1>> ELSE << >>)

\* start_stamp() and the chunks of the marker, up to one that does not fit.
Stamped(s, m, n) ==
  LET count == Cardinality({c \in 0 .. m.count - 1 : (m.first + c + 1) * Chunk <= n})
      until == (m.first + count) * Chunk
      noted == Noted(s, FlattenSeq([c \in 1 .. count |->
                                      ModifiedIn(s.chunk + c - 1, m)]))
  IN  [noted EXCEPT
         !.stamps = Append(@, [start |-> s.chunk, count |-> count,
                               p1 |-> m.p1, p2 |-> m.p2]),
         !.chunk = @ + count,
         !.until = IF count > 0 /\ until > @ THEN until ELSE @]

SpsaState(template, n) ==
  LET run == FoldLeft(LAMBDA s, m: Stamped(s, Unpacked(m), n), Unstamped, template)
  IN  Noted(run, [j \in 1 .. n - run.until |-> run.until + j - 1])

\* merge_stamps(): the entries, one for every chunk and unmodified place in it
\* but the last, and the modified bytes.
EntriesOf(s, n) ==
  LET places(stamp, c) ==
        SelectSeq([j \in 1 .. Chunk - 1 |-> (stamp.start + c) * Chunk + j - 1],
                  LAMBDA p: p < n /\ (p % Chunk) \notin stamp.p1 .. stamp.p2)
      stamped(stamp) ==
        FlattenSeq([c \in 1 .. stamp.count |-> places(stamp, c - 1)])
  IN  FlattenSeq([i \in 1 .. Len(s.stamps) |-> stamped(s.stamps[i])])
      \o SelectSeq(s.modified, LAMBDA p: p < n)

\* The first bytes of a suffix as a number, zeros behind the end of the text.
extract_sort_key_8bytes(T, p) ==
  LET key[j \in 0 .. KeyLength] ==
        IF j = 0 THEN 0
        ELSE key[j - 1] * Symbols
             + (IF p + j <= Length(T) THEN T[p + j - 1] ELSE 0)
  IN  key[KeyLength]

\* Few entries by key and position, many by key and suffix.
radix_sort_entries_by_key(T, bucket) ==
  SortSeq(bucket, LAMBDA p, q:
            LET k == extract_sort_key_8bytes(T, p)
                l == extract_sort_key_8bytes(T, q)
            IN  k < l \/ (k = l /\ p < q))
radix_sort_entries(T, bucket) ==
  LET key(p) == extract_sort_key_8bytes(T, p)
      few == Len(bucket) < FewEntries
  IN  SortSeq(bucket, LAMBDA p, q:
        \/ key(p) < key(q)
        \/ key(p) = key(q) /\ (IF few THEN p < q ELSE suffix_cmp(T, p, q) < 0))

BucketOf(T, entries, b) == SelectSeq(entries, LAMBDA p: T[p] = b)

merge_stamps(T, s) ==
  LET entries == EntriesOf(s, Length(T))
  IN  FlattenSeq([b \in 1 .. Symbols |->
                    radix_sort_entries(T, BucketOf(T, entries, b - 1))])

SpsaHash(T) ==
  /\ process.sorter = "spsa"
  /\ \E template \in Templates[T] :
       LET s == SpsaState(template, Length(T))
       IN  hashed' = merge_stamps(T, s) /\ dropped' = (s.dropped \/ Outgrown(template))
  /\ UNCHANGED <<ctx, sa>>

-----------------------------------------------------------------------------
Next ==
  /\ hashes < Len(Texts[process.sorter])
  /\ hashes' = hashes + 1
  /\ \E T \in Texts[process.sorter][hashes + 1] :
       /\ text' = T
       /\ LibsaisHash(T) \/ TwoByteHash(T) \/ SpsaHash(T)
  /\ UNCHANGED process

Spec == Init /\ [][Next]_vars

-----------------------------------------------------------------------------
(* What a suffix array is: every position, each suffix before the larger ones. *)
IsPrefixAt(T, a, b, len) == \A j \in 0 .. len - 1 : T[a + j] = T[b + j]
SmallerSuffix(T, a, b) ==
  \E len \in 0 .. Length(T) - 1 :
    /\ a + len <= Length(T) /\ b + len < Length(T)
    /\ IsPrefixAt(T, a, b, len)
    /\ a + len = Length(T) \/ T[a + len] < T[b + len]
IsSuffixArray(T, s) ==
  /\ Len(s) = Length(T) /\ {s[i] : i \in 1 .. Len(s)} = DOMAIN T
  /\ \A i \in 1 .. Len(s) - 1 : SmallerSuffix(T, s[i], s[i + 1])

\* libsais and the two-byte sort hash the suffix array of the text, whatever
\* longer or shorter text the array and the memory of the recursion held
\* before; no mark, name or length of the recursion is left in a cell.
SuffixArrayHashed ==
  hashes > 0 /\ (process.sorter = "twobyte" \/ ctx) => IsSuffixArray(text, hashed)

\* The stamps hash every position of the text, and in a bucket that is not small
\* the suffixes in their order, those that agree in more bytes than the key has
\* included.  A position can be missing only where MAX_MODIFIED_BYTES was reached
\* or a run outgrew its length, which nothing reports.  None is hashed three
\* times, and twice only what is behind the last whole chunk: the overlap of the
\* first run has the stamps run one chunk ahead of the template, so that they and
\* the remainder both cover it, although spsa.cpp:22 calls the path correct.
Times(p) == Cardinality({i \in 1 .. Len(hashed) : hashed[i] = p})
Behind == {p \in DOMAIN text : p \div Chunk = Length(text) \div Chunk}
SpsaHashesText ==
  hashes > 0 /\ process.sorter = "spsa" =>
    /\ ~dropped => \A p \in DOMAIN text : Times(p) >= 1
    /\ \A p \in DOMAIN text : Times(p) <= IF p \in Behind THEN 2 ELSE 1
    /\ Range(hashed) \subseteq DOMAIN text
    /\ \A b \in 0 .. Symbols - 1 :
         LET bucket == BucketOf(text, hashed, b)
         IN  Len(bucket) >= FewEntries =>
               \A i \in 1 .. Len(bucket) - 1 :
                 bucket[i] = bucket[i + 1] \/ SmallerSuffix(text, bucket[i], bucket[i + 1])
=============================================================================
