CONSTANTS
  p1 = p1
  p2 = p2
  p3 = p3
  q1 = q1
  q2 = q2
  Paths <- MCPaths
  Queue <- MCQueue
  QueueOf <- MCQueueOf
  DiskBacked <- MCDiskBacked
  Capacity = 2
  OneStep = TRUE
  MaxInput <- MCMaxInput
  MaxFlushFails = 2
  MaxRaises = 1
SPECIFICATION LiveSpec
CHECK_DEADLOCK FALSE
INVARIANTS TypeOK EveryReaderServed ExitDrained
PROPERTIES BackoffExact QueuesDrain OneStepEnds
