SPECIFICATION Spec
CONSTANTS
  v1 = v1
  v2 = v2
  r1 = r1
  b1 = b1
  Tracks = {v1, v2, r1, b1}
  None = None
  Priority <- MCPriority
  Opened <- MCOpened
  MaxHistory = 1
  MaxMoves = 2
INVARIANTS TypeOK ResumedOnce AnnouncedIsNext
PROPERTIES RanksRespected StepMovesOne NobodyStarves
CHECK_DEADLOCK FALSE
