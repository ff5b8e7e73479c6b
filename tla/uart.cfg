SPECIFICATION FullSpec
CONSTANTS
  BuffLen = 9
  Chunk = 3
  IdxMod = 10
  PollPeriod = 2
  Lines <- MCLines
  NewLine = "nl"
  Nul = "nul"
  Stale = "stale"
  MaxTyped = 9
INVARIANTS TypeOK NoOverrunWhileItFits ReaderTargetLives
PROPERTIES StreamsWhileItFits AllDelivered
