SPECIFICATION Spec
CONSTANTS
  GenMod = 4
  ResponseQueueMax = 1
  Frames = 2
  MaxResponses = 0
  MaxChunks = 2
  MaxBargeIns = 1
CHECK_DEADLOCK FALSE
PROPERTIES FlushAbortsSending
