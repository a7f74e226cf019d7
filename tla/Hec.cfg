CONSTANTS
  e1 = e1
  e2 = e2
  e3 = e3
  e4 = e4
  Event <- MCEvent
  Size <- MCSize
  Filtered <- MCFiltered
  Sz = 5
  MemSize = 7
  MaxUnsure = 2
  MaxDeaths = 1
SPECIFICATION HecLiveSpec
INVARIANTS DuplicatesExplained InOrder
PROPERTIES FlushOkDrains ImplementsAtLeastOnce EventuallySettled
