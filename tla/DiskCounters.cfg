CONSTANTS
  e1 = e1
  e2 = e2
  e3 = e3
  Event <- MCEvent
  Size <- MCSize
  Sz = 3
  DiskSize = 5
  MaxTime = 1
  MaxFails = 1
SPECIFICATION DqSpec
INVARIANT CountersExact
