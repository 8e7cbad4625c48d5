\* A CQ larger than the SQ, so that every outstanding SQE has a CQ slot; the
\* counters wrap at the third operation, and a CQ slot is reused at the fifth.
CONSTANTS
  Modulus = 8
  SqDepth = 2
  CqDepth = 4
  Start = 6
  MaxOps = 5
  MaxOutstanding = 3
  MaxDrain = 2
  Timeouts = {"finite", "negative"}
  Signals = TRUE
SPECIFICATION FairSpec
INVARIANTS TypeOK SqesIntact CompletionsIntact NoLostWakeup
PROPERTIES RungIsCompleted WaitReturns
