SPECIFICATION FairSpec
CONSTANTS
  GenMod = 4
  ResponseQueueMax = 1
  Frames = 2
  MaxResponses = 3
  MaxChunks = 1
  MaxBargeIns = 2
CHECK_DEADLOCK FALSE
INVARIANTS TypeOK OneStraggler BacklogBounded NoOrphanTts
PROPERTIES ModeratorSilenced NoTalkOver DeliversResponses ResponsesSettle ComesToRest
