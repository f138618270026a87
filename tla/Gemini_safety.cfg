SPECIFICATION FairSpec
CONSTANTS
  conv = conv
  Sessions = {conv}
  Conns = {c1, c2}
  NoSession = NoSession
  NoConn = NoConn
  NoOne = NoOne
  MaxReconnectAttempts = 1
  MaxNoneWaits = 1
  MaxQueue = 1
INVARIANTS TypeOK OneConnection OneLoopInReach ClosedForGood SenderStays
PROPERTIES HoldsTheLine AbandonedGo TerminationReaches DeathAnswered LoopsEnd
CHECK_DEADLOCK FALSE
