SPECIFICATION KSpec
CONSTANTS
  UserAddr <- UserCode
  KernelAddr <- KernelCode
  Succ <- MCSucc
  VBars <- MCVBars
  Vector <- MCVector
  Stacks <- MCStacks
  Imms <- MCImms
  TimerPeriod = 3
  RxEnabled = TRUE
  Procs = {p1, p2}
  Sched = sched
  Nobody = nobody
  MaxDepth = 2
INVARIANTS KTypeOK OwnStack RightIrq UserUnmasked
PROPERTIES ReturnsToInterrupted OneRequest SleeperWakes OnlyUartClobbers
