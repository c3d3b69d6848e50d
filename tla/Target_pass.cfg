\* Three digits of base 3, every hash, difficulties up to past 3^3.
SPECIFICATION Spec
CONSTANTS
  Base = 3
  Width = 3
  Word = 128
  Difficulties = {0, 1, 2, 3, 4, 5, 7, 9, 10, 13, 14, 26, 27, 28, 40}
INVARIANTS TypeOK DivisionExact SharesMeetDifficulty
