\* Two workers, one or two nonces a round, polling every one or four nonces.
SPECIFICATION Spec
CONSTANTS
  Threads = 2
  Span = 4
  TidValues = 2
  LaneChoices = {1, 2}
  PollPeriods = {1, 4}
  FlushEvery = 4
  MaxEpoch = 2
  MaxRounds = 3
CHECK_DEADLOCK FALSE
INVARIANTS HashesReported NoWorkTwice StaleWorkBounded
