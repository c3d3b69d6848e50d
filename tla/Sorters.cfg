\* Chunks of four bytes, keys of two, buckets of three entries no longer small,
\* run lengths below five, and room for twelve modified bytes.
SPECIFICATION Spec
CONSTANTS
  Capacity = 40
  Symbols = 4
  Texts <- MCTexts
  Processes <- MCProcesses
  Templates <- MCTemplates
  Chunk = 4
  RunLimit = 5
  KeyLength = 2
  FewEntries = 3
  MaxModified = 12
INVARIANTS SuffixArrayHashed SpsaHashesText
CHECK_DEADLOCK FALSE
