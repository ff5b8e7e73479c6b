SPECIFICATION Spec
CONSTANTS
  UserAddr <- MCUserAddr
  KernelAddr <- MCKernelAddr
  Succ <- MCSucc
  VBars <- MCVBars
  Vector <- MCVector
  Stacks = {s1, s2}
  Imms <- MCImms
  TimerPeriod = 3
  RxEnabled = TRUE
INVARIANTS TypeOK PreemptedInTime QuietBehindTick
PROPERTY RefinesBankedStack
CHECK_DEADLOCK FALSE
