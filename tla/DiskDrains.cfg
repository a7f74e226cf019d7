CONSTANTS
  e1 = e1
  e2 = e2
  e3 = e3
  e4 = e4
  Event <- BigEvent
  Size <- BigSize
  Sz = 3
  MemSize = 2
  DiskSize = 9
  MaxTime = 0
  MaxFails = 0
  MaxKills = 0
SPECIFICATION DbqLiveSpec
PROPERTY DiskDrains
