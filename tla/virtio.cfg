SPECIFICATION MCSpec
CONSTANTS
  Procs = {p1, p2}
  Sectors <- MCSectors
  Data <- MCData
  QueueNum = 4
  IdxMod = 8
  MaxOutstanding = 1
  Pfns <- MCPfns
  PageSizes <- MCPageSizes
  QueueNums <- MCQueueNums
  Mod32 = 65536
INVARIANTS TypeOK DoneIsServed QueueWhereDriverPut
PROPERTIES RefinesDisk EveryRequestDone
