SPECIFICATION Spec
CONSTANTS
  MaxTexts = 3
  MaxBargeIns = 2
  MaxSessions = 2
  MaxUnread = 2
INVARIANTS TypeOK OpenLineIsCurrent HistoryIsKept CommsCurrent
PROPERTY FinalsStay
CHECK_DEADLOCK FALSE
