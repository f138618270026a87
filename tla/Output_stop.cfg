SPECIFICATION FairSpec
CONSTANTS
  GenMod = 4
  ResponseQueueMax = 1
  Frames = 2
  MaxResponses = 1
  MaxChunks = 1
  MaxBargeIns = 0
CHECK_DEADLOCK FALSE
PROPERTIES StopCompletes
