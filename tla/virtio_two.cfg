SPECIFICATION Spec
CONSTANTS
  Procs = {p1, p2}
  Sectors <- MCSectors
  Data <- MCData
  QueueNum = 8
  IdxMod = 8
  MaxOutstanding = 2
PROPERTY ServesRingEntry
