SPECIFICATION MCSpec
CONSTANTS
  Half = 4
  CcmpFlags <- MCCcmpFlags
  LogDword = 3
  Registers <- MCRegisters
  ImmBits = 3
  PageBits = 2
  GicBase = 16
  GicSize = 16
  UartBase = 32
  UartSize = 4
  VirtioBase = 40
  VirtioSize = 4
  RamBase = 64
  RamSize = 64
  Mapped = 12
  Offset = 4
  Memories <- MCMemories
  Data <- MCData
  OffsetRegisters <- MCOffsets
  Bases <- MCBases
  GicRegisters <- MCGicRegisters
  GicValues <- MCGicValues
INVARIANTS Branch32 Branch64 ChainedEqual Agrees UpperHalfStaysClear AccessAgrees
  OutsideOnlyAtEnd ReadsBack
