SPECIFICATION Spec
CONSTANTS
  conv = conv
  Sessions = {conv}
  Conns = {c1}
  NoSession = NoSession
  NoConn = NoConn
  NoOne = NoOne
  MaxReconnectAttempts = 2
  MaxNoneWaits = 1
  MaxQueue = 1
INVARIANT AudioFlowsAgain
CHECK_DEADLOCK FALSE
