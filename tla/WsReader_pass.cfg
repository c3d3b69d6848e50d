\* Six daemons, their streams cut anywhere, with stalls of three polls.
SPECIFICATION FairSpec
CONSTANTS
  Streams <- AllStreams
  ResponseLen = 2
  ResponseMax = 4
  ResponseAlone = TRUE
  FrameMax = 3
  ControlMax = 1
  MaxStallPolls = 3
CHECK_DEADLOCK FALSE
INVARIANTS InStep FramesHandledOnce
PROPERTIES NoSpuriousReconnect ReadEnds
