\* Rings of equal depth and a thread that submits while completions are
\* undrained, as far as engine_submit lets it.
CONSTANTS
  Modulus = 4
  SqDepth = 2
  Start = 0
  CqDepth = 2
  MaxOps = 4
  MaxOutstanding = 4
  MaxDrain = 2
  Timeouts = {"finite"}
  Signals = TRUE
SPECIFICATION Spec
INVARIANT CqSpaceRespected
