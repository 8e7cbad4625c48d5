\* The thread waits without a timeout.
CONSTANTS
  Modulus = 4
  SqDepth = 2
  Start = 0
  CqDepth = 2
  MaxOps = 4
  MaxOutstanding = 2
  MaxDrain = 2
  Timeouts = {"negative"}
  Signals = FALSE
SPECIFICATION Spec
PROPERTY NegativeWaitsForever
