\* Texts of four or five chunks, a length field that five chunks can outgrow;
\* blocks of four words and a bit count whose lower half overflows.
SPECIFICATION DigestSpec
CONSTANTS
  Junk = Junk
  MinTries = 4
  MaxTries = 5
  RunLimit = 3
  Slots = 5
  BlockWords = 4
  WordBits = 8
  Half = 48
  One = One
  TextLengths = {0, 2, 8, 11}
  SinkWords = 4
INVARIANTS TypeOK RunsBeginAtEncryptions DigestOfItsInput DigestIsSha256
