SPECIFICATION Spec
CONSTANTS
  GenMod = 4
  Window = 1
  Cooldown = 2
  Grace = 0
  Jitter = 1
  MaxAge = 1
  Speakers = {ellen}
  NoGen = NoGen
  MaxBargeIns = 4
  MaxSessions = 2
  MaxDown = 2
  MaxUp = 1
  MaxStops = 1
  MaxScheduled = 1
INVARIANTS TypeOK GenerationsAgree OneLateBuffer NothingFromTheFuture
PROPERTY EchoAloneNeverCancels
