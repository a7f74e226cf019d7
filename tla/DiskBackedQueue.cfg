CONSTANTS
  e1 = e1
  e2 = e2
  e3 = e3
  e4 = e4
  Event <- MCEvent
  Size <- MCSize
  Sz = 4
  MemSize = 3
  DiskSize = 4
  MaxTime = 1
  MaxFails = 1
  MaxKills = 1
SPECIFICATION DbqSpec
INVARIANTS HalvesKept NeverUndercounts DiskBounded DbqConserved NoSecondCopy
