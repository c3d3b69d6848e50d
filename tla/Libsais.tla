------------------------------- MODULE Libsais -------------------------------
(***************************************************************************)
(* libsais_ctx, the suffix sorter a hash falls back on and the one the     *)
(* others are verified against: SA-IS.  The LMS suffixes are sorted by     *)
(* their LMS substrings and named; when names repeat, the string of names  *)
(* is sorted in the free cells of the same array, without the names that   *)
(* are unique, which need no further sorting; then the order of all        *)
(* suffixes is induced.  How a string of names is sorted depends on the    *)
(* room for counters: six, four, two or one for each name.                 *)
(***************************************************************************)
EXTENDS InducedSorting

-----------------------------------------------------------------------------
(* Naming: SA[0 .. m-1] holds the LMS suffixes in order, marked where their *)
(* substrings are distinct; the name of position p goes to SA[m + p/2].     *)

Named(SA, m, name0, mark(_, _)) ==
  Ascend(LAMBDA s, i:
           LET p == s.SA[i]
           IN  [SA   |-> [s.SA EXCEPT ![i] = Unmarked(p),
                            ![m + Unmarked(p) \div 2] =
                               MarkedIf(s.name, mark(p, s.previous))],
                name |-> s.name + Bit(p < 0), previous |-> p],
         [SA |-> SA, name |-> name0, previous |-> 0], 0, m - 1)

\* Names from 0, each marked so that it can be found again.
renumber_lms_suffixes_8u(SA, m) == Named(SA, m, 0, LAMBDA p, previous: TRUE)

\* Names from 1, marked when nothing else has them.
renumber_distinct_lms_suffixes_32s_4k(SA, m) ==
  Named(SA, m, 1, LAMBDA p, previous: p < 0 /\ previous < 0)

\* The marked names in text order, at the end of the memory.
gather_marked_lms_suffixes(SA, n, m, fs) ==
  Descend(LAMBDA s, i: IF s.SA[i] < 0
                       THEN [l |-> s.l - 1,
                             SA |-> [s.SA EXCEPT ![s.l - 1] = Unmarked(s.SA[i])]]
                       ELSE s,
          [l |-> n + fs, SA |-> SA], m + n \div 2 - 1, m).SA

\* Names of which none repeats are not gathered, and the marks go.
UnmarkedNames(SA, m) ==
  [i \in DOMAIN SA |-> IF i < m THEN Unmarked(SA[i]) ELSE SA[i]]
GatheredNames(named, n, m, fs) ==
  [names |-> named.name,
   SA |-> IF named.name < m THEN gather_marked_lms_suffixes(named.SA, n, m, fs)
          ELSE UnmarkedNames(named.SA, m)]
renumber_and_gather_lms_suffixes(SA, n, m, fs) ==
  GatheredNames(renumber_lms_suffixes_8u(Cleared(SA, m, m + n \div 2), m), n, m, fs)

mark_distinct_lms_suffixes_32s_always(SA, n, m) == SA
\* A name stays unique only behind another one: the suffix before it must be
\* told apart by it alone.
mark_distinct_lms_suffixes_32s(SA, n, m) ==
  Ascend(LAMBDA s, i:
           LET p == s.SA[i]
           IN  [SA |-> [s.SA EXCEPT ![i] = IF s.previous < 0 THEN p ELSE Unmarked(p)],
                previous |-> IF p = 0 THEN s.previous ELSE p],
         [SA |-> SA, previous |-> 0], m, m + n \div 2 - 1).SA

renumber_and_mark_distinct_lms_suffixes_32s_4k(SA, n, m) ==
  LET named == renumber_distinct_lms_suffixes_32s_4k(Cleared(SA, m, m + n \div 2), m)
  IN  [names |-> named.name - 1,
       SA |-> IF named.name - 1 < m
              THEN mark_distinct_lms_suffixes_32s(named.SA, n, m) ELSE named.SA]

\* Whatever is not a marked length becomes zero.
clamp_lms_suffixes_length_32s(SA, n, m) ==
  [i \in DOMAIN SA |->
     IF i \in m .. m + n \div 2 - 1
     THEN (IF SA[i] < 0 THEN Unmarked(SA[i]) ELSE 0) ELSE SA[i]]

\* Without marks from the partial sort, neighbours are compared: their lengths
\* are written over the gathered positions, each behind the one being read.
LengthsOf(gathered, n, m) ==
  Ascend(LAMBDA sa, i: [sa EXCEPT ![m + sa[i] \div 2] =
                          Marked(IF i = n - 1 THEN 1 ELSE sa[i + 1] - sa[i] + 1)],
         gathered, n - m, n - 1)
LengthsWritten(T, SA, n, m) ==
  clamp_lms_suffixes_length_32s(
    LengthsOf(Cleared(gather_lms_suffixes_32s(T, SA, n), m, n - m), n, m), n, m)

Differ(T, p, plen, q, qlen) ==
  plen # qlen \/ \E l \in 0 .. plen - 1 : T[p + l] # T[q + l]

\* The name of the suffix before i, known once it is compared with i; the last
\* is told apart when the one before it was.
NamedBefore(T, lengths, s, i, m) ==
  LET p == lengths[i - 1]
      differs == IF i = m THEN TRUE
                 ELSE Differ(T, p, lengths[m + p \div 2],
                             lengths[i], lengths[m + lengths[i] \div 2])
  IN  [SA |-> [s.SA EXCEPT ![m + p \div 2] = MarkedIf(s.name, s.differed /\ differs)],
       name |-> s.name + Bit(differs), differed |-> differs]
NamedByLength(T, lengths, m) ==
  Ascend(LAMBDA s, i: NamedBefore(T, lengths, s, i, m),
         [SA |-> lengths, name |-> 1, differed |-> TRUE], 1, m)
Distinct1k(s, n, m) ==
  [names |-> s.name - 1,
   SA |-> IF s.name - 1 < m THEN mark_distinct_lms_suffixes_32s(s.SA, n, m) ELSE s.SA]
renumber_and_mark_distinct_lms_suffixes_32s_1k(T, SA, n, m) ==
  Distinct1k(NamedByLength(T, LengthsWritten(T, SA, n, m), m), n, m)

-----------------------------------------------------------------------------
(* Compaction: suffixes with a unique name leave the string to be sorted.   *)

\* Their symbol in the text is marked and their place in the order kept; the
\* other names close the gaps.  f counts the unique ones.
renumber_unique_and_nonunique_lms_suffixes_32s(T, SA, m) ==
  Ascend(LAMBDA s, i:
           LET p == s.SA[i]
               name == s.SA[m + p \div 2]
           IN  IF name < 0
               THEN [T |-> [s.T EXCEPT ![p] = Marked(@)], f |-> s.f + 1,
                     SA |-> [s.SA EXCEPT ![m + p \div 2] = Marked(i)]]
               ELSE [s EXCEPT !.SA[m + p \div 2] = name - s.f],
         [T |-> T, SA |-> SA, f |-> 0], 0, m - 1)

\* Places before cell m, names (from 0) before the end, the places copied to
\* just below the names.
compact_unique_and_nonunique_lms_suffixes_32s(SA, n, m, fs, f) ==
  LET packed ==
        Descend(LAMBDA s, i:
                  LET p == s.SA[i]
                  IN  IF p < 0 THEN [s EXCEPT !.l = @ - 1,
                                              !.SA[s.l - 1] = Unmarked(p)]
                      ELSE IF p > 0 THEN [s EXCEPT !.r = @ - 1,
                                                   !.SA[s.r - 1] = p - 1]
                      ELSE s,
                [SA |-> SA, l |-> m, r |-> n + fs], m + n \div 2 - 1, m).SA
  IN  Moved(packed, n + fs - m, packed, m - f, f)

compact_lms_suffixes_32s(T, SA, n, m, fs) ==
  LET s == renumber_unique_and_nonunique_lms_suffixes_32s(T, SA, m)
  IN  [T |-> s.T, f |-> s.f,
       SA |-> compact_unique_and_nonunique_lms_suffixes_32s(s.SA, n, m, fs, s.f)]

\* Back again.  The cell read after the last place is read and not used.
CellAt(SA, at) == IF at \in DOMAIN SA THEN SA[at] ELSE 0
merge_unique_lms_suffixes_32s(T, SA, n, m) ==
  Ascend(LAMBDA s, i:
           IF i = s.skip \/ s.T[i] >= 0 THEN s
           ELSE [T |-> [s.T EXCEPT ![i] = Unmarked(@)],
                 SA |-> [s.SA EXCEPT ![s.tmp] = i],
                 at |-> s.at + 1, tmp |-> CellAt(s.SA, s.at), skip |-> i + 1],
         [T |-> T, SA |-> SA, tmp |-> SA[n - m - 1], at |-> n - m, skip |-> -1],
         0, n - 1)
merge_nonunique_lms_suffixes_32s(SA, n, m, f) ==
  Ascend(LAMBDA s, i:
           IF s.SA[i] # 0 THEN s
           ELSE [SA |-> [s.SA EXCEPT ![i] = s.tmp],
                 at |-> s.at + 1, tmp |-> CellAt(s.SA, s.at)],
         [SA |-> SA, tmp |-> SA[n - m - 1 + f], at |-> n - m + f], 0, m - 1).SA
merge_compacted_lms_suffixes_32s(T, SA, n, m, f) ==
  LET s == merge_unique_lms_suffixes_32s(T, SA, n, m)
  IN  [T |-> s.T, SA |-> merge_nonunique_lms_suffixes_32s(s.SA, n, m, f)]

\* SA[0 .. m-1] orders the LMS suffixes by number; SA[n-m .. n-1] names them.
reconstruct_lms_suffixes(SA, n, m) ==
  [i \in DOMAIN SA |-> IF i < m THEN SA[n - m + SA[i]] ELSE SA[i]]

\* Before the LMS suffixes are gathered anew, the places of the f unique ones
\* return to just below the names; afterwards the order of the others goes behind
\* them, and both are merged.
PlacesBack(SA, n, m, fs, f) == Moved(SA, n - m - 1, SA, n + fs - m, f)
OrderSaved(SA, n, m, f) == Moved(SA, n - m - 1 + f, SA, 0, m - f)
Merged(T, gathered, n, m, f) ==
  merge_compacted_lms_suffixes_32s(T,
    Cleared(OrderSaved(reconstruct_lms_suffixes(gathered, n, m - f), n, m, f), 0, m),
    n, m, f)

reconstruct_compacted_lms_suffixes_32s_2k(T, SA, n, k, m, fs, f) ==
  IF f > 0
  THEN Merged(T, count_and_gather_compacted_lms_suffixes_32s_2k(
                   T, PlacesBack(SA, n, m, fs, f), n, k).SA, n, m, f)
  ELSE [T |-> T, SA |-> reconstruct_lms_suffixes(
                          count_and_gather_lms_suffixes_32s_2k(T, SA, n, k).SA, n, m)]
reconstruct_compacted_lms_suffixes_32s_1k(T, SA, n, m, fs, f) ==
  IF f > 0
  THEN Merged(T, gather_compacted_lms_suffixes_32s(T, PlacesBack(SA, n, m, fs, f), n),
              n, m, f)
  ELSE [T |-> T, SA |-> reconstruct_lms_suffixes(gather_lms_suffixes_32s(T, SA, n), n, m)]

-----------------------------------------------------------------------------
(* Sorting a string of names.                                               *)

\* sizes.local stands for LIBSAIS_LOCAL_BUFFER_SIZE (2000), and sizes.dense for
\* 8192, the length of the string per name beyond which names are not compacted.
Room(sizes, fs, k, counters) ==
  fs \div k >= counters \/ sizes.local \div k >= counters

\* The string of names and the memory of the recursive call: what lies below
\* the string.  Its array comes back in the same cells.
RECURSIVE main_32s_recursion(_, _, _, _, _, _)

Overlaid(SA, sorted) == [i \in DOMAIN SA |-> IF i \in DOMAIN sorted THEN sorted[i]
                                             ELSE SA[i]]
Recurse(SA, n, m, names, fs, f, sizes) ==
  Overlaid(SA,
    main_32s_recursion([i \in 0 .. m - f - 1 |-> SA[n + fs - m + f + i]],
                       [i \in 0 .. n + fs - m - 1 |-> SA[i]],
                       m - f, names - f, fs + n - 2 * m + f, sizes))

\* c is the compacted string, names their number; sorted and reconstructed.
Reconstructed1k(c, names, n, m, fs, sizes) ==
  reconstruct_compacted_lms_suffixes_32s_1k(c.T,
    Recurse(c.SA, n, m, names, fs, c.f, sizes), n, m, fs, c.f)
Reconstructed2k(c, names, n, k, m, fs, sizes) ==
  reconstruct_compacted_lms_suffixes_32s_2k(c.T,
    Recurse(c.SA, n, m, names, fs, c.f, sizes), n, k, m, fs, c.f)

\* Compacts, recurses and reconstructs; named is what naming returned.
SortedNames1k(T, named, n, m, fs, sizes) ==
  IF named.names < m
  THEN Reconstructed1k(compact_lms_suffixes_32s(T, named.SA, n, m, fs),
                       named.names, n, m, fs, sizes)
  ELSE [T |-> T, SA |-> named.SA]
SortedNames2k(T, named, n, k, m, fs, sizes, compacts) ==
  IF named.names < m
  THEN Reconstructed2k(IF compacts THEN compact_lms_suffixes_32s(T, named.SA, n, m, fs)
                       ELSE [T |-> T, f |-> 0, SA |-> named.SA],
                       named.names, n, k, m, fs, sizes)
  ELSE [T |-> T, SA |-> named.SA]

\* The order induced from the m sorted LMS suffixes of s, or from the only one.
\* The counters of a level share memory with those of the next and with the
\* names, so a level counts anew once its names are sorted: while gathering, or
\* where no names repeat.
Alone(T, g, n) == [T |-> T, SA |-> [g.SA EXCEPT ![0] = g.SA[n - 1]]]
Induced4k(s, n, k, m, size) ==
  induce_final_order_32s(s.T,
    place_lms_suffixes_histogram_32s_4k(s.SA, n, k, m, Ends(Both(size)), size.lms),
    n, Starts(Both(size)), Ends(Both(size)))
Induced2k(s, n, k, m, size) ==
  induce_final_order_32s(s.T,
    place_lms_suffixes_histogram_32s_2k(s.SA, n, k, m, Ends(Both(size)), size.lms),
    n, Starts(Both(size)), Ends(Both(size)))
Induced6k(s, n, k, m, size) ==
  induce_final_order_32s(s.T,
    place_lms_suffixes_histogram_32s_6k(s.SA, n, k, m, Ends(size),
                                        Counts(s.T, n, k, 0, {LS})),
    n, Starts(size), Ends(size))

\* Six counters a name.  g is the gathered positions, b the buckets.
Marked6k(radix, k, compacts) ==
  IF compacts THEN radix_sort_set_markers_32s_6k(radix.SA, k, radix.at) ELSE radix.SA
Partial6k(T, g, n, k, b, compacts) ==
  induce_partial_order_32s_6k(T,
    Marked6k(radix_sort_lms_suffixes_32s_6k(T, Cleared(g.SA, 0, n - g.m), n, g.m, b.end),
             k, compacts),
    n, k, g.SA[n - g.m], b.left)
Names6k(SA, n, m, fs, compacts) ==
  IF compacts THEN renumber_and_mark_distinct_lms_suffixes_32s_4k(SA, n, m)
  ELSE renumber_and_gather_lms_suffixes(SA, n, m, fs)
Order6k(T, g, n, k, fs, sizes, compacts) ==
  SortedNames2k(T,
    Names6k(Partial6k(T, g, n, k,
                      initialize_buckets_for_lms_suffixes_radix_sort_32s_6k(
                        T, n, k, g.SA[n - g.m]), compacts),
            n, g.m, fs, compacts),
    n, k, g.m, fs, sizes, compacts)
Final6k(T, g, n, k, order) ==
  IF g.m > 1
  THEN Induced4k(order, n, k, g.m, count_lms_suffixes_32s_2k(order.T, n, k))
  ELSE Induced6k(Alone(T, g, n), n, k, g.m, count_suffixes_32s(T, n, k))
Sorted6k(T, g, n, k, fs, sizes) ==
  Final6k(T, g, n, k, Order6k(T, g, n, k, fs, sizes, n \div sizes.dense < k))
main_32s_6k(T, SA, n, k, fs, sizes) ==
  Sorted6k(T, count_and_gather_lms_suffixes_32s_4k(T, SA, n), n, k, fs, sizes)

\* Four counters a name.
Partial4k(T, radix, n, k, m, b) ==
  induce_partial_order_32s_4k(T,
    place_lms_suffixes_interval_32s_4k(
      radix_sort_set_markers_32s_4k(radix.SA, k, radix.at), n, k, m - 1, b.end, radix.at),
    n, k, b)
Order4k(T, g, n, k, fs, sizes, b) ==
  SortedNames2k(T,
    renumber_and_mark_distinct_lms_suffixes_32s_4k(
      Partial4k(T, radix_sort_lms_suffixes_32s_2k(T, g.SA, n, g.m, b.lms), n, k, g.m, b),
      n, g.m),
    n, k, g.m, fs, sizes, TRUE)
Final4k(s, n, k, m) == Induced4k(s, n, k, m, count_lms_suffixes_32s_2k(s.T, n, k))
Sorted4k(T, g, n, k, fs, sizes) ==
  Final4k(IF g.m > 1
          THEN Order4k(T, g, n, k, fs, sizes,
                 initialize_buckets_for_radix_and_partial_sorting_32s_4k(T, g.size,
                                                                         g.SA[n - g.m]))
          ELSE Alone(T, g, n),
          n, k, g.m)
main_32s_4k(T, SA, n, k, fs, sizes) ==
  Sorted4k(T, count_and_gather_lms_suffixes_32s_2k(T, SA, n, k), n, k, fs, sizes)

\* Two counters a name.  initialize_buckets_start_and_end_32s_2k: a bucket
\* starts where the one before it ends.
StartsFrom(end) == [c \in DOMAIN end |-> IF c = 0 THEN 0 ELSE end[c - 1]]
Partial2k(T, radix, n, k, m, b) ==
  induce_partial_order_32s_2k(T,
    place_lms_suffixes_interval_32s_2k(radix.SA, n, k, m - 1, b.end, radix.at),
    n, StartsFrom(b.end), b.end)
Order2k(T, g, n, k, fs, sizes, b) ==
  SortedNames2k(T,
    renumber_and_mark_distinct_lms_suffixes_32s_1k(T,
      Partial2k(T, radix_sort_lms_suffixes_32s_2k(T, g.SA, n, g.m, b.lms), n, k, g.m, b),
      n, g.m),
    n, k, g.m, fs, sizes, TRUE)
Final2k(s, n, k, m) == Induced2k(s, n, k, m, count_lms_suffixes_32s_2k(s.T, n, k))
Sorted2k(T, g, n, k, fs, sizes) ==
  Final2k(IF g.m > 1
          THEN Order2k(T, g, n, k, fs, sizes,
                 initialize_buckets_for_lms_suffixes_radix_sort_32s_2k(T, g.size,
                                                                       g.SA[n - g.m]))
          ELSE Alone(T, g, n),
          n, k, g.m)
main_32s_2k(T, SA, n, k, fs, sizes) ==
  Sorted2k(T, count_and_gather_lms_suffixes_32s_2k(T, SA, n, k), n, k, fs, sizes)

\* One counter a name.
Order1k(T, SA, n, k, m, fs, sizes) ==
  SortedNames1k(T,
    renumber_and_mark_distinct_lms_suffixes_32s_1k(T,
      induce_partial_order_32s_1k(T, SA, n, k), n, m),
    n, m, fs, sizes)
Placed1k(s, n, k, m) ==
  [s EXCEPT !.SA = place_lms_suffixes_interval_32s_1k(s.T, s.SA, k, m,
                     Ends(count_suffixes_32s(s.T, n, k)))]
Final1k(s, n, k) == induce_final_order_32s_1k(s.T, s.SA, n, k)
Sorted1k(T, radix, n, k, fs, sizes) ==
  Final1k(IF radix.m > 1
          THEN Placed1k(Order1k(T, radix.SA, n, k, radix.m, fs, sizes), n, k, radix.m)
          ELSE [T |-> T, SA |-> radix.SA],
          n, k)
main_32s_1k(T, SA, n, k, fs, sizes) ==
  Sorted1k(T, radix_sort_lms_suffixes_32s_1k(T, Cleared(SA, 0, n), n,
                                             Ends(count_suffixes_32s(T, n, k))),
           n, k, fs, sizes)

main_32s_recursion(T, SA, n, k, fs, sizes) ==
  CASE Room(sizes, fs, k, 6) -> main_32s_6k(T, SA, n, k, fs, sizes)
    [] ~Room(sizes, fs, k, 6) /\ Room(sizes, fs, k, 4) ->
         main_32s_4k(T, SA, n, k, fs, sizes)
    [] ~Room(sizes, fs, k, 4) /\ Room(sizes, fs, k, 2) ->
         main_32s_2k(T, SA, n, k, fs, sizes)
    [] OTHER -> main_32s_1k(T, SA, n, k, fs, sizes)

-----------------------------------------------------------------------------
(* Sorting a text of symbols 0 .. k - 1, in an array of its own length.     *)

Order8u(T, named, n, m, sizes) ==
  IF named.names < m
  THEN reconstruct_lms_suffixes(
         gather_lms_suffixes_8u(T, Recurse(named.SA, n, m, named.names, 0, 0, sizes), n),
         n, m)
  ELSE named.SA
Partial8u(T, g, n, k, b) ==
  induce_partial_order_8u(T,
    radix_sort_lms_suffixes_8u(T, g.SA, n, g.m, b.end).SA, n, k, b, g.SA[n - g.m])
Placed8u(T, partial, n, k, m, end, sizes) ==
  place_lms_suffixes_interval_8u(
    Order8u(T, renumber_and_gather_lms_suffixes(partial.SA, n, m, 0), n, m, sizes),
    n, k, m, end, [c \in 0 .. k - 1 |-> partial.at[<<c, 1>>]])
Sorted8u(T, g, n, k, size, sizes) ==
  induce_final_order_8u(T,
    IF g.m > 0
    THEN Placed8u(T, Partial8u(T, g, n, k,
                       initialize_buckets_for_lms_suffixes_radix_sort_8u(
                         T, n, k, g.SA[n - g.m])), n, k, g.m, Ends(size), sizes)
    ELSE Cleared(g.SA, 0, n),
    n, Starts(size), Ends(size))
main_8u(T, SA, n, k, sizes) ==
  Sorted8u(T, count_and_gather_lms_suffixes_8u(T, SA, n), n, k,
           count_suffixes_32s(T, n, k), sizes)

\* What the caller finds in its array.  Without a context, which is what a
\* failed allocation leaves, the array is not touched.
libsais_ctx(ctx, T, SA, n, k, sizes) ==
  IF ~ctx THEN SA
  ELSE IF n = 0 THEN SA
  ELSE IF n = 1 THEN [SA EXCEPT ![0] = 0]
  ELSE main_8u(T, SA, n, k, sizes)
=============================================================================
