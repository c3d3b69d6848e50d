\* A daemon whose first frame shares a TLS record with the response.
SPECIFICATION Spec
CONSTANTS
  Streams <- OneJob
  ResponseLen = 2
  ResponseMax = 6
  ResponseAlone = FALSE
  FrameMax = 3
  ControlMax = 1
  MaxStallPolls = 2
CHECK_DEADLOCK FALSE
INVARIANT InStep
