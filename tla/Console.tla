------------------------------ MODULE Console ------------------------------
(***************************************************************************)
(* How the status row is laid out (console.cpp): of five layouts the       *)
(* widest that fits one row of the terminal, and the last one clamped      *)
(* where none does.  A layout is a sequence of pieces, each an escape,     *)
(* which takes bytes and no column, or a text, which takes as many of      *)
(* both.  What the texts say is left out: a field is its length.           *)
(***************************************************************************)
EXTENDS Integers, SequencesExt

CONSTANTS
  LineCap,      \* sizeof line: the bytes the row may take, its NUL included
  DefaultCols   \* DEFAULT_COLS: the width of a console that tells none

ASSUME ConsoleAssumption == LineCap \in Nat \ {0} /\ DefaultCols \in Nat \ {0}

Esc(bytes) == [kind |-> "esc", len |-> bytes]
Txt(cols) == [kind |-> "txt", len |-> cols]

ColourLen == 5          \* "\033[93m" and its like
Return == Esc(1)        \* "\r": a byte and no column
Reset == Esc(4)         \* "\033[0m"
EraseLine == Esc(3)     \* "\033[K", as on every console the row is drawn on

Tiers == <<"full", "medium", "narrow", "compact", "minimal">>

\* The texts of each layout, from the lengths of the fields it shows.
Full(f) ==
  <<14, f.rate + 5, 2, f.avg + 9, 4, 7 + f.height, 3, 11 + f.accepted, 3,
    7 + f.blocks, 3, 4 + f.rejected, 3, 5 + f.diff, 3, f.time>>
Medium(f) ==
  <<14, f.rate + 5, 2, f.avg + 4, 4, 2 + f.height, 3, 3 + f.accepted, 3,
    2 + f.blocks, 3, 2 + f.rejected, 3, 2 + f.diff, 3, f.time>>
Narrow(f) ==
  <<14, f.rate + 5, 3, 2 + f.height, 3, 3 + f.accepted, 3,
    2 + f.blocks, 3, 2 + f.rejected, 3, 2 + f.diff, 3, f.time>>
Compact(f) ==
  <<5, f.rate + 5, 3, 2 + f.height, 1, 3 + f.accepted, 1,
    2 + f.blocks, 1, 2 + f.rejected, 3, f.time>>
Minimal(f) == <<5, f.rate + 5, 1, 3 + f.accepted, 1, 2 + f.blocks>>

Texts(tier, f) ==
  CASE tier = "full" -> Full(f)
    [] tier = "medium" -> Medium(f)
    [] tier = "narrow" -> Narrow(f)
    [] tier = "compact" -> Compact(f)
    [] tier = "minimal" -> Minimal(f)

\* A layout's pieces: every text has its colour before it, and the colour is
\* reset and the rest of the row erased at the end.
Coloured(texts) ==
  [i \in 1 .. 2 * Len(texts) |->
     IF i % 2 = 1 THEN Esc(ColourLen) ELSE Txt(texts[i \div 2])]
Layout(tier, f) == <<Return>> \o Coloured(Texts(tier, f)) \o <<Reset, EraseLine>>

\* The append-only writer: bytes, columns, and whether a piece had no room,
\* after which nothing more is written.
Append1(line, piece) ==
  IF line.overflow \/ line.bytes + piece.len >= LineCap
  THEN [line EXCEPT !.overflow = TRUE]
  ELSE [line EXCEPT !.pieces = Append(@, piece), !.bytes = @ + piece.len,
                    !.cols = IF piece.kind = "txt" THEN @ + piece.len ELSE @]

EmptyLine == [pieces |-> <<>>, bytes |-> 0, cols |-> 0, overflow |-> FALSE]
Lines(pieces) ==
  LET line[n \in 0 .. Len(pieces)] ==
        IF n = 0 THEN EmptyLine ELSE Append1(line[n - 1], pieces[n])
  IN line
Rendered(tier, f) == Lines(Layout(tier, f))[Len(Layout(tier, f))]

\* The columns the first pieces of a row take, and those of all of it.
Columns(pieces) ==
  LET cols[n \in 0 .. Len(pieces)] ==
        IF n = 0 THEN 0
        ELSE cols[n - 1] + IF pieces[n].kind = "txt" THEN pieces[n].len ELSE 0
  IN cols
Visible(pieces) == Columns(pieces)[Len(pieces)]

\* ansi_clamp(): every escape whole, and of the texts what the budget allows.
Clamp1(kept, piece, budget) ==
  LET room == budget - Visible(kept)
  IN CASE piece.kind = "esc" -> Append(kept, piece)
       [] piece.kind = "txt" /\ room <= 0 -> kept
       [] piece.kind = "txt" /\ room > 0 ->
            Append(kept, Txt(IF piece.len < room THEN piece.len ELSE room))
Clamps(pieces, budget) ==
  LET kept[n \in 0 .. Len(pieces)] ==
        IF n = 0 THEN <<>> ELSE Clamp1(kept[n - 1], pieces[n], budget)
  IN kept
Clamped(pieces, budget) == Clamps(pieces, budget)[Len(pieces)]

\* One column is spared: a row that ends in the last one leaves the cursor in
\* a state terminals disagree about.
BudgetWhole(cols) == cols
Budget(cols) == cols - 1

\* dluna_format_status() for a console of that many columns.
FormatStatus(f, cols) ==
  LET fits(tier) == LET line == Rendered(tier, f)
                    IN ~line.overflow /\ line.cols <= Budget(cols)
      i == SelectInSeq(Tiers, fits)
  IN IF i # 0 THEN Rendered(Tiers[i], f).pieces
     ELSE Clamped(Rendered("minimal", f).pieces, Budget(cols))

\* dluna_term_cols(): the override wins; 0 stands for a size not to be had.
TermCols(override, reported) ==
  IF override # 0 THEN override
  ELSE IF reported # 0 THEN reported ELSE DefaultCols
=============================================================================
