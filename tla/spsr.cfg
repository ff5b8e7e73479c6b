SPECIFICATION KSpec
CONSTANTS
  UserAddr <- UserCode
  KernelAddr <- KernelCode
  Succ <- MCSucc
  VBars <- MCVBars
  Vector <- MCVector
  Stacks <- MCStacks
  Imms <- MCImms
  TimerPeriod = 3
  RxEnabled = FALSE
  Procs = {p1, p2}
  Sched = sched
  Nobody = nobody
  MaxDepth = 3
INVARIANT SpsrRestored
