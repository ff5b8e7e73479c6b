SPECIFICATION Spec
CONSTANTS
  Threads = {t1, t2, t3}
  MaxNested = 2
INVARIANT MutualExclusion
PROPERTIES ExclusiveStore HandlerEnds
