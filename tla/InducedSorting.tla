--------------------------- MODULE InducedSorting ---------------------------
(***************************************************************************)
(* The stages of libsais.c, as one thread runs them: counting the suffixes *)
(* of each kind, sorting the LMS suffixes by their first symbol, and the   *)
(* scans that induce the order of all others from them.                    *)
(*                                                                         *)
(* A text T is a function on 0 .. n-1 and the array SA one on 0 .. n+fs-1, *)
(* fs being the free cells behind it; every stage takes the memory its     *)
(* predecessor left, stale cells included, and returns it updated.  The    *)
(* sign bit of a cell is its mark.  Loops unrolled by four or by two, and  *)
(* prefetches, are single loops here; the OpenMP variants are not built.   *)
(***************************************************************************)
EXTENDS Integers, FiniteSets

\* Stand-ins for the 32-bit masks; every position and name is below both.
SAINT_MIN == -1024
SUFFIX_GROUP_MARKER == 512

Unmarked(p) == IF p < 0 THEN p - SAINT_MIN ELSE p
Marked(p) == IF p < 0 THEN p ELSE p + SAINT_MIN
MarkedIf(p, mark) == IF mark THEN p + SAINT_MIN ELSE p
Flipped(p) == IF p < 0 THEN p - SAINT_MIN ELSE p + SAINT_MIN
InGroup(p) == (Unmarked(p) \div SUFFIX_GROUP_MARKER) % 2 = 1
Grouped(p) == IF InGroup(p) THEN p ELSE p + SUFFIX_GROUP_MARKER
Ungrouped(p) == IF InGroup(p) THEN p - SUFFIX_GROUP_MARKER ELSE p

Bit(b) == IF b THEN 1 ELSE 0

\* A loop over lo .. hi that turns state s into F(s, i), upwards or downwards.
\* The state it starts from is the one point of a function, so that a model
\* checker has it computed before the loop begins.
Ascend(F(_, _), s, lo, hi) ==
  LET after(t) == LET at[i \in (lo - 1) .. hi] ==
                        IF i < lo THEN t ELSE F(at[i - 1], i)
                  IN  at[hi]
  IN  IF hi < lo THEN s ELSE [t \in {s} |-> after(t)][s]
Descend(F(_, _), s, hi, lo) ==
  LET after(t) == LET at[i \in lo .. (hi + 1)] ==
                        IF i > hi THEN t ELSE F(at[i + 1], i)
                  IN  at[lo]
  IN  IF hi < lo THEN s ELSE [t \in {s} |-> after(t)][s]

\* The sum of f[0] .. f[c - 1].
Before(f, c) ==
  LET sum[i \in 0 .. c] == IF i = 0 THEN 0 ELSE sum[i - 1] + f[i - 1]
  IN  sum[c]

\* Cells lo .. hi - 1 become zero, or those of from beginning at cell at.
Cleared(SA, lo, hi) ==
  [i \in DOMAIN SA |-> IF i \in lo .. hi - 1 THEN 0 ELSE SA[i]]
Moved(SA, to, from, at, len) ==
  [i \in DOMAIN SA |->
     IF i \in to .. to + len - 1 THEN from[at + i - to] ELSE SA[i]]

-----------------------------------------------------------------------------
(* Kinds of suffix *)

\* A suffix is L when it is larger than the one behind it; the last is.  The
\* comparison is of signed cells, so that a marked symbol is smaller than all.
IsL(T, n) ==
  LET l[i \in 0 .. n - 1] ==
        IF i = n - 1 THEN TRUE
        ELSE T[i] > T[i + 1] \/ (T[i] = T[i + 1] /\ l[i + 1])
  IN  [i \in 0 .. n - 1 |-> l[i]]

\* A suffix with its left neighbour: both S, an LMS suffix, L behind an S,
\* both L.  What stands before position 0 counts as S.
SS == 0
LS == 1
SL == 2
LL == 3
KindOf(T, n) ==
  LET l == IsL(T, n)
  IN  [i \in 0 .. n - 1 |-> 2 * Bit(l[i]) + Bit(i > 0 /\ l[i - 1])]

LMS(T, n) == LET kind == KindOf(T, n)
             IN  {i \in 0 .. n - 1 : kind[i] = LS}
FirstLMS(T, n) == LET S == LMS(T, n) IN CHOOSE i \in S : \A j \in S : i <= j

\* How many suffixes of the given kinds each symbol below k begins, from a
\* position on.
Counts(T, n, k, from, kinds) ==
  LET kind == KindOf(T, n)
  IN  [c \in 0 .. k - 1 |->
         Cardinality({i \in from .. n - 1 :
                        Unmarked(T[i]) = c /\ kind[i] \in kinds})]

\* Where the bucket of a symbol starts and ends, given the bucket sizes.
Ends(size) == [c \in DOMAIN size |-> Before(size, c + 1)]
Starts(size) == [c \in DOMAIN size |-> Before(size, c)]

\* The positions of S, ascending, end at the end of the array; the cell before
\* them holds what the loop wrote for position 0.
Gathered(SA, n, S) ==
  LET m == Cardinality(S)
      nth(j) == CHOOSE x \in S : Cardinality({y \in S : y < x}) = j
  IN  [i \in DOMAIN SA |-> IF i \in n - m .. n - 1 THEN nth(i - (n - m))
                           ELSE IF i = n - m - 1 THEN 0
                           ELSE SA[i]]

gather_lms_suffixes_8u(T, SA, n) == Gathered(SA, n, LMS(T, n))
gather_lms_suffixes_32s(T, SA, n) == Gathered(SA, n, LMS(T, n))

\* Unique LMS suffixes carry a mark in the text and are left out.
gather_compacted_lms_suffixes_32s(T, SA, n) ==
  Gathered(SA, n, {i \in LMS(T, n) : T[i] >= 0})

count_suffixes_32s(T, n, k) == Counts(T, n, k, 0, SS .. LL)
count_lms_suffixes_32s_2k(T, n, k) ==
  [plain |-> Counts(T, n, k, 0, {SS, SL, LL}), lms |-> Counts(T, n, k, 0, {LS})]

count_and_gather_lms_suffixes_8u(T, SA, n) ==
  [m |-> Cardinality(LMS(T, n)), SA |-> Gathered(SA, n, LMS(T, n))]
count_and_gather_lms_suffixes_32s_4k(T, SA, n) ==
  [m |-> Cardinality(LMS(T, n)), SA |-> Gathered(SA, n, LMS(T, n))]
count_and_gather_lms_suffixes_32s_2k(T, SA, n, k) ==
  [m |-> Cardinality(LMS(T, n)), SA |-> Gathered(SA, n, LMS(T, n)),
   size |-> count_lms_suffixes_32s_2k(T, n, k)]
count_and_gather_compacted_lms_suffixes_32s_2k(T, SA, n, k) ==
  [SA |-> gather_compacted_lms_suffixes_32s(T, SA, n),
   size |-> count_lms_suffixes_32s_2k(T, n, k)]

-----------------------------------------------------------------------------
(* Radix sort of the LMS suffixes: all but the first, which lies left of     *)
(* every suffix they induce, go to the ends of their symbols' buckets.       *)

\* The suffixes right of the first LMS suffix that are LMS or L behind an L
\* share the zone on the left; its buckets, and how many there are.
initialize_buckets_for_lms_suffixes_radix_sort_8u(T, n, k, first) ==
  LET zone == Counts(T, n, k, first + 1, {LS, LL})
  IN  [start |-> Starts(zone), end |-> Ends(zone),
       left |-> Before(zone, k)]
initialize_buckets_for_lms_suffixes_radix_sort_32s_6k(T, n, k, first) ==
  LET zone == Counts(T, n, k, first + 1, {LS, LL})
  IN  [end |-> Ends(zone), left |-> Before(zone, k)]

\* The first LMS suffix is moved from the LMS suffixes of its symbol to the
\* others before the buckets are summed.
FirstSetAside(T, size, first) ==
  [plain |-> [size.plain EXCEPT ![T[first]] = @ + 1],
   lms   |-> [size.lms EXCEPT ![T[first]] = @ - 1]]
Both(size) == [c \in DOMAIN size.plain |-> size.plain[c] + size.lms[c]]

initialize_buckets_for_lms_suffixes_radix_sort_32s_2k(T, size, first) ==
  LET aside == FirstSetAside(T, size, first)
  IN  [end |-> Ends(Both(aside)), lms |-> Ends(aside.lms)]
initialize_buckets_for_radix_and_partial_sorting_32s_4k(T, size, first) ==
  LET aside == FirstSetAside(T, size, first)
  IN  [start |-> Starts(Both(aside)), end |-> Ends(Both(aside)),
       lms |-> Ends(aside.lms)]

\* s.SA[--s.at[c]] = p, and s.SA[s.at[c]++] = p.
PutBelow(s, c, p) == [s EXCEPT !.at[c] = @ - 1, !.SA[s.at[c] - 1] = p]
PutAbove(s, c, p) == [s EXCEPT !.at[c] = @ + 1, !.SA[s.at[c]] = p]

\* Each reads the gathered positions from the right and skips the first one.
radix_sort_lms_suffixes_8u(T, SA, n, m, end) ==
  Descend(LAMBDA s, i: PutBelow(s, T[s.SA[i]], s.SA[i]),
          [SA |-> SA, at |-> end], n - 1, n - m + 1)
radix_sort_lms_suffixes_32s_6k(T, SA, n, m, end) ==
  Descend(LAMBDA s, i: PutBelow(s, T[s.SA[i]], s.SA[i]),
          [SA |-> SA, at |-> end], n - 1, n - m + 1)
radix_sort_lms_suffixes_32s_2k(T, SA, n, m, lms) ==
  Descend(LAMBDA s, i: PutBelow(s, T[s.SA[i]], s.SA[i]),
          [SA |-> SA, at |-> lms], n - 1, n - m + 1)

\* Without a gathered list; the first LMS suffix, placed last, is taken out.
radix_sort_lms_suffixes_32s_1k(T, SA, n, end) ==
  LET lms == LMS(T, n)
      all == Descend(LAMBDA s, i: IF i \in lms THEN PutBelow(s, T[i], i) ELSE s,
                     [SA |-> SA, at |-> end], n - 1, 0)
      m   == Cardinality(lms)
  IN  [m |-> m,
       SA |-> IF m > 1 THEN [all.SA EXCEPT ![all.at[T[FirstLMS(T, n)]]] = 0]
              ELSE all.SA]

\* Every symbol but the last gets a mark where its LMS suffixes begin.
radix_sort_set_markers_32s_6k(SA, k, at) ==
  Ascend(LAMBDA sa, c: [sa EXCEPT ![at[c]] = Marked(@)], SA, 0, k - 2)
radix_sort_set_markers_32s_4k(SA, k, at) ==
  Ascend(LAMBDA sa, c: [sa EXCEPT ![at[c]] = Grouped(@)], SA, 0, k - 2)

-----------------------------------------------------------------------------
(* Partial sorting: the order of the LMS substrings is induced from that of  *)
(* the first symbols.  A mark says that the substring differs from the one   *)
(* before it; d counts the distinct ones, name[v] the last seen in bucket v. *)

\* The zone right of the left suffixes: L behind an S from the left and S
\* behind an S from the right; the LMS suffixes return to the beginning.
initialize_buckets_for_partial_sorting_8u(T, n, k, first, left) ==
  LET right == Counts(T, n, k, first + 1, {SS, SL})
      lms   == Counts(T, n, k, first, {LS})
  IN  [start |-> [c \in 0 .. k - 1 |-> left + 1 + Starts(right)[c]],
       end   |-> [c \in 0 .. k - 1 |-> left + 1 + Ends(right)[c]],
       lms   |-> Ends(lms)]

initialize_buckets_for_partial_sorting_32s_6k(T, n, k, first, left) ==
  LET right == Counts(T, n, k, first + 1, {SS, SL})
      zone  == Counts(T, n, k, first + 1, {LS, LL})
      lms   == Counts(T, n, k, first + 1, {LS})
  IN  [start |-> [c \in 0 .. k - 1 |-> left + 1 + Starts(right)[c]],
       end   |-> [c \in 0 .. k - 1 |-> left + 1 + Ends(right)[c]],
       zone  |-> Starts(zone),
       lms   |-> [c \in 0 .. k - 1 |-> Ends(lms)[c] + Bit(c >= T[first])]]

\* Buckets are pairs <<symbol, b>>: 1 is the left zone and, from the right,
\* the LMS suffixes; 0 the zone on the right.
Paired(zero, one) ==
  [v \in (DOMAIN zero) \X {0, 1} |-> IF v[2] = 1 THEN one[v[1]] ELSE zero[v[1]]]

InduceAbove(T, s, i) ==
  LET p == Unmarked(s.SA[i])
      d == s.d + Bit(s.SA[i] < 0)
      v == <<T[p - 1], Bit(T[p - 2] >= T[p - 1])>>
  IN  [PutAbove(s, v, MarkedIf(p - 1, s.name[v] # d))
         EXCEPT !.d = d, !.name[v] = d]
InduceBelow(T, s, i) ==
  LET p == Unmarked(s.SA[i])
      d == s.d + Bit(s.SA[i] < 0)
      v == <<T[p - 1], Bit(T[p - 2] > T[p - 1])>>
  IN  [PutBelow(s, v, MarkedIf(p - 1, s.name[v] # d))
         EXCEPT !.d = d, !.name[v] = d]

\* The last suffix is induced first, from the end of the text.
FromTheEnd(T, n, s) ==
  LET v == <<T[n - 1], Bit(T[n - 2] >= T[n - 1])>>
  IN  [PutAbove(s, v, Marked(n - 1)) EXCEPT !.d = s.d + 1, !.name[v] = s.d + 1]

partial_sorting_scan_left_to_right_8u(T, s, n, left) ==
  Ascend(LAMBDA t, i: InduceAbove(T, t, i), FromTheEnd(T, n, s), 0, left - 1)
partial_sorting_scan_left_to_right_32s_6k(T, s, n, left) ==
  Ascend(LAMBDA t, i: InduceAbove(T, t, i), FromTheEnd(T, n, s), 0, left - 1)

\* From "differs from the one before" to "differs from the one behind", in the
\* induced part of each bucket.
Shifted(SA, lo, hi) ==
  [i \in DOMAIN SA |->
     IF i \notin lo .. hi THEN SA[i]
     ELSE IF i = hi THEN Marked(SA[i])
     ELSE MarkedIf(Unmarked(SA[i]), SA[i + 1] < 0)]
partial_sorting_shift_markers_8u(SA, k, at, end) ==
  Descend(LAMBDA sa, c: Shifted(sa, end[c - 1], at[<<c, 0>>] - 1), SA, k - 1, 1)
partial_sorting_shift_markers_32s_6k(SA, k, at, end) ==
  Descend(LAMBDA sa, c: Shifted(sa, end[c - 1], at[<<c, 0>>] - 1), SA, k - 1, 1)

\* The ends of the buckets replace their starts.
partial_sorting_shift_buckets_32s_6k(s, end, lms) ==
  [s EXCEPT !.at = Paired(end, lms)]

partial_sorting_scan_right_to_left_8u(T, s, n, first, left) ==
  Descend(LAMBDA t, i: InduceBelow(T, t, i), s, n - first - 1, left + 1)
partial_sorting_scan_right_to_left_32s_6k(T, s, n, first, left) ==
  Descend(LAMBDA t, i: InduceBelow(T, t, i), s, n - first - 1, left + 1)

\* SA[0 .. m-1] becomes the LMS suffixes in the order of their substrings.
induce_partial_order_8u(T, SA, n, k, radix, first) ==
  LET b  == initialize_buckets_for_partial_sorting_8u(T, n, k, first, radix.left)
      s0 == [SA |-> SA, at |-> Paired(b.start, radix.start), d |-> 0,
             name |-> Paired([c \in 0 .. k - 1 |-> 0], [c \in 0 .. k - 1 |-> 0])]
      s1 == partial_sorting_scan_left_to_right_8u(T, s0, n, radix.left)
      s2 == [s1 EXCEPT
               !.SA = partial_sorting_shift_markers_8u(s1.SA, k, s1.at, b.end),
               !.at = Paired(b.end, b.lms)]
  IN  partial_sorting_scan_right_to_left_8u(T, s2, n, first, radix.left)
induce_partial_order_32s_6k(T, SA, n, k, first, left) ==
  LET b  == initialize_buckets_for_partial_sorting_32s_6k(T, n, k, first, left)
      s0 == [SA |-> SA, at |-> Paired(b.start, b.zone), d |-> 0,
             name |-> Paired([c \in 0 .. k - 1 |-> 0], [c \in 0 .. k - 1 |-> 0])]
      s1 == partial_sorting_scan_left_to_right_32s_6k(T, s0, n, left)
      s2 == [s1 EXCEPT
               !.SA = partial_sorting_shift_markers_32s_6k(s1.SA, k, s1.at, b.end)]
      s3 == partial_sorting_shift_buckets_32s_6k(s2, b.end, b.lms)
  IN  partial_sorting_scan_right_to_left_32s_6k(T, s3, n, first, left).SA

\* With room for two counters a symbol, the sign says instead that the suffix
\* waits for the other scan, and the group bit that the substring is distinct.
InduceWaitingAbove(T, s, i) ==
  LET p == Ungrouped(s.SA[i])
      d == s.d + Bit(InGroup(s.SA[i]))
      turns == T[p - 2] < T[p - 1]
      v == <<T[p - 1], Bit(turns)>>
      q == MarkedIf(IF s.name[v] # d THEN Grouped(p - 1) ELSE p - 1, turns)
  IN  IF s.SA[i] <= 0 THEN [s EXCEPT !.SA[i] = Unmarked(@)]
      ELSE [PutAbove([s EXCEPT !.SA[i] = 0], T[p - 1], q)
              EXCEPT !.d = d, !.name[v] = d]
InduceWaitingBelow(T, s, i) ==
  LET p == Ungrouped(s.SA[i])
      d == s.d + Bit(InGroup(s.SA[i]))
      turns == T[p - 2] > T[p - 1]
      v == <<T[p - 1], Bit(turns)>>
      q == MarkedIf(IF s.name[v] # d THEN Grouped(p - 1) ELSE p - 1, turns)
  IN  IF s.SA[i] <= 0 THEN s
      ELSE [PutBelow([s EXCEPT !.SA[i] = 0], T[p - 1], q)
              EXCEPT !.d = d, !.name[v] = d]

partial_sorting_scan_left_to_right_32s_4k(T, s, n) ==
  LET turns == T[n - 2] < T[n - 1]
      v     == <<T[n - 1], Bit(turns)>>
      begun == [PutAbove(s, T[n - 1], MarkedIf(Grouped(n - 1), turns))
                  EXCEPT !.d = s.d + 1, !.name[v] = s.d + 1]
  IN  Ascend(LAMBDA t, i: InduceWaitingAbove(T, t, i), begun, 0, n - 1)
partial_sorting_scan_right_to_left_32s_4k(T, s, n) ==
  Descend(LAMBDA t, i: InduceWaitingBelow(T, t, i), s, n - 1, 0)

\* The cells that wait pass their group bit to the right neighbour that waits.
partial_sorting_shift_markers_32s_4k(SA, n) ==
  Descend(LAMBDA s, i:
            IF s.SA[i] <= 0 THEN s
            ELSE [SA |-> [s.SA EXCEPT
                            ![i] = IF s.mark THEN Grouped(@) ELSE Ungrouped(@)],
                  mark |-> InGroup(s.SA[i])],
          [SA |-> SA, mark |-> TRUE], n - 1, 0).SA

\* What waits at the end is the LMS suffixes; they move to the front.
FrontOf(SA, n, keep(_)) ==
  Ascend(LAMBDA s, i: IF s.SA[i] < 0
                      THEN [l |-> s.l + 1, SA |-> [s.SA EXCEPT ![s.l] = keep(s.SA[i])]]
                      ELSE s,
         [l |-> 0, SA |-> SA], 0, n - 1).SA
partial_sorting_gather_lms_suffixes_32s_4k(SA, n) ==
  FrontOf(SA, n, LAMBDA p: MarkedIf(Unmarked(Ungrouped(p)), InGroup(p)))
partial_sorting_gather_lms_suffixes_32s_1k(SA, n) ==
  FrontOf(SA, n, LAMBDA p: Unmarked(p))

induce_partial_order_32s_4k(T, SA, n, k, b) ==
  LET none == [c \in 0 .. k - 1 |-> 0]
      s1 == partial_sorting_scan_left_to_right_32s_4k(T,
              [SA |-> SA, at |-> b.start, d |-> 0, name |-> Paired(none, none)], n)
      s2 == [s1 EXCEPT !.SA = partial_sorting_shift_markers_32s_4k(s1.SA, n),
                       !.at = b.end]
  IN  partial_sorting_gather_lms_suffixes_32s_4k(
        partial_sorting_scan_right_to_left_32s_4k(T, s2, n).SA, n)

\* With less room nothing is named here.
partial_sorting_scan_left_to_right_32s_1k(T, SA, n, start) ==
  Ascend(LAMBDA s, i:
           LET p == s.SA[i]
           IN  IF p <= 0 THEN [s EXCEPT !.SA[i] = Unmarked(p)]
               ELSE PutAbove([s EXCEPT !.SA[i] = 0], T[p - 1],
                             MarkedIf(p - 1, T[p - 2] < T[p - 1])),
         PutAbove([SA |-> SA, at |-> start], T[n - 1],
                  MarkedIf(n - 1, T[n - 2] < T[n - 1])),
         0, n - 1).SA
partial_sorting_scan_right_to_left_32s_1k(T, SA, n, end) ==
  Descend(LAMBDA s, i:
            LET p == s.SA[i]
            IN  IF p <= 0 THEN s
                ELSE PutBelow([s EXCEPT !.SA[i] = 0], T[p - 1],
                              MarkedIf(p - 1, T[p - 2] > T[p - 1])),
          [SA |-> SA, at |-> end], n - 1, 0).SA

induce_partial_order_32s_2k(T, SA, n, start, end) ==
  partial_sorting_gather_lms_suffixes_32s_1k(
    partial_sorting_scan_right_to_left_32s_1k(T,
      partial_sorting_scan_left_to_right_32s_1k(T, SA, n, start), n, end), n)
induce_partial_order_32s_1k(T, SA, n, k) ==
  LET size == count_suffixes_32s(T, n, k)
  IN  partial_sorting_gather_lms_suffixes_32s_1k(
        partial_sorting_scan_right_to_left_32s_1k(T,
          partial_sorting_scan_left_to_right_32s_1k(T, SA, n, Starts(size)),
          n, Ends(size)), n)

-----------------------------------------------------------------------------
(* The sorted LMS suffixes, SA[0 .. m-1], move to the ends of their buckets, *)
(* from the last symbol down; every other cell becomes zero.                 *)

PlacedAt(SA, n, k, m, end, count) ==
  LET placed ==
        Descend(LAMBDA s, c:
                  IF count[c] <= 0 THEN s
                  ELSE [SA |-> Moved(Cleared(s.SA, end[c], s.j), end[c] - count[c],
                                     Cleared(s.SA, end[c], s.j), s.m - count[c],
                                     count[c]),
                        j |-> end[c] - count[c], m |-> s.m - count[c]],
                [SA |-> SA, j |-> n, m |-> m], k - 2, 0)
  IN  Cleared(placed.SA, 0, placed.j)

\* By the intervals between the buckets' first LMS suffixes.
Intervals(lms, k) ==
  [c \in 0 .. k - 2 |-> lms[c + 1] - lms[c]]
place_lms_suffixes_interval_8u(SA, n, k, m, end, lms) ==
  PlacedAt(SA, n, k, m, end, Intervals(lms, k))
place_lms_suffixes_interval_32s_4k(SA, n, k, m, end, lms) ==
  PlacedAt(SA, n, k, m, end, Intervals(lms, k))
place_lms_suffixes_interval_32s_2k(SA, n, k, m, end, lms) ==
  PlacedAt(SA, n, k, m, end, Intervals(lms, k))

\* By the counts of LMS suffixes.
place_lms_suffixes_histogram_32s_6k(SA, n, k, m, end, count) ==
  PlacedAt(SA, n, k, m, end, count)
place_lms_suffixes_histogram_32s_4k(SA, n, k, m, end, count) ==
  PlacedAt(SA, n, k, m, end, count)
place_lms_suffixes_histogram_32s_2k(SA, n, k, m, end, count) ==
  PlacedAt(SA, n, k, m, end, count)

\* By looking at the symbol of each.
place_lms_suffixes_interval_32s_1k(T, SA, k, m, end) ==
  LET placed ==
        Descend(LAMBDA s, i:
                  LET p == s.SA[i]
                      c == T[p]
                      t == IF c = s.c THEN s
                           ELSE [c |-> c, l |-> end[c],
                                 SA |-> Cleared(s.SA, end[c], s.l)]
                  IN  [t EXCEPT !.l = @ - 1, !.SA[t.l - 1] = p],
                [SA |-> SA, c |-> k - 1, l |-> end[k - 1]], m - 1, 0)
  IN  Cleared(placed.SA, 0, placed.l)

-----------------------------------------------------------------------------
(* The final order, induced from the sorted LMS suffixes.                    *)

\* The suffix before p, waiting for the other scan unless it is of the kind
\* this scan induces from.
FinalAbove(T, s, i) ==
  LET p == s.SA[i]
      t == [s EXCEPT !.SA[i] = Flipped(@)]
      q == p - 1
  IN  IF p <= 0 THEN t
      ELSE PutAbove(t, T[q], MarkedIf(q, T[q - Bit(q > 0)] < T[q]))
FinalBelow(T, s, i) ==
  LET p == s.SA[i]
      t == [s EXCEPT !.SA[i] = Unmarked(@)]
      q == p - 1
  IN  IF p <= 0 THEN t
      ELSE PutBelow(t, T[q], MarkedIf(q, T[q - Bit(q > 0)] > T[q]))

LastAbove(T, SA, n, start) ==
  PutAbove([SA |-> SA, at |-> start], T[n - 1],
           MarkedIf(n - 1, T[n - 2] < T[n - 1]))

final_sorting_scan_left_to_right_8u(T, SA, n, start) ==
  Ascend(LAMBDA s, i: FinalAbove(T, s, i), LastAbove(T, SA, n, start), 0, n - 1).SA
final_sorting_scan_left_to_right_32s(T, SA, n, start) ==
  Ascend(LAMBDA s, i: FinalAbove(T, s, i), LastAbove(T, SA, n, start), 0, n - 1).SA
final_sorting_scan_right_to_left_8u(T, SA, n, end) ==
  Descend(LAMBDA s, i: FinalBelow(T, s, i), [SA |-> SA, at |-> end], n - 1, 0).SA
final_sorting_scan_right_to_left_32s(T, SA, n, end) ==
  Descend(LAMBDA s, i: FinalBelow(T, s, i), [SA |-> SA, at |-> end], n - 1, 0).SA

induce_final_order_8u(T, SA, n, start, end) ==
  final_sorting_scan_right_to_left_8u(T,
    final_sorting_scan_left_to_right_8u(T, SA, n, start), n, end)

\* Buckets for four or six counters, and for two; with one they are counted
\* anew before each scan.
induce_final_order_32s(T, SA, n, start, end) ==
  final_sorting_scan_right_to_left_32s(T,
    final_sorting_scan_left_to_right_32s(T, SA, n, start), n, end)
induce_final_order_32s_1k(T, SA, n, k) ==
  LET size == count_suffixes_32s(T, n, k)
  IN  induce_final_order_32s(T, SA, n, Starts(size), Ends(size))
=============================================================================
