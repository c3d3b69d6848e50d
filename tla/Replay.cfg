\* Three groups of three symbols and a tail of none or two, keys of two; what
\* is written out and read back has two groups and a tail of none or one, or
\* three groups; a text of ten is captured but too long for the encoders.
SPECIFICATION ReplaySpec
CONSTANTS
  SymbolMax = 1
  Lengths = {9, 11}
  ReplayLengths = {6, 7, 9, 10}
  AlterLength = 7
  GroupLen = 3
  KeyLen = 2
  PrefixLen = 2
  Wide = 2
  Together = 2
  LiteralMax = 2
  SinkLen = 4
  IndexCount = 9
  RadixBase = 2
  Modes = {"array", "stream", "singletons"}
  Junk = Junk
CHECK_DEADLOCK FALSE
INVARIANTS TypeOK WrittenIsSorted ReplaySorted NeverRefused
