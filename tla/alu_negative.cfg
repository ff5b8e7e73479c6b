SPECIFICATION Spec
CONSTANTS
  Half = 4
  CcmpFlags <- MCCcmpFlags
INVARIANT NegativeFlag
