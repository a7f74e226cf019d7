CONSTANTS
  N = 2
  Cmd <- MCCmd
  Text = text
  Prlimits <- MCPrlimits
  StartTime = 1
  MaxLines = 2
  MaxTime = 1
SPECIFICATION LiveSpec
INVARIANTS TypeOK OneLineEach BlockedByHalfLine
PROPERTIES LostOnlyInRestart NoOrphanNoZombie RateRespected ClosedIsDrained
CHECK_DEADLOCK FALSE
