SPECIFICATION SingleSpec
CONSTANTS
  Sites = {r1, r2}
  Resume = resume
  Frame = 3
  MaxCalls = 3
  Data = data
PROPERTY ReturnsToCaller
