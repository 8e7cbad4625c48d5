\* The driver is removed and loaded again.
CONSTANTS
  Modulus = 4
  SqDepth = 2
  Start = 0
  CqDepth = 2
  MaxOps = 2
  MaxOutstanding = 1
  MaxDrain = 1
  Timeouts = {"finite"}
  Signals = FALSE
  MaxLoads = 2
  Faults = {}
SPECIFICATION PSpec
INVARIANT ReloadPasses
