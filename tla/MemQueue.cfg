CONSTANTS
  e1 = e1
  e2 = e2
  e3 = e3
  e4 = e4
  e5 = e5
  Event <- MCEvent
  Size <- MCSize
  MemSize = 6
  Sz = 5
SPECIFICATION MemSpec
INVARIANTS MemTypeOK Conserved MemBounded BatchLimit GetzProgress
PROPERTY ImplementsFifo
