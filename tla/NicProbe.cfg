\* The driver is loaded three times; each engine_wait may time out, and each call whose
\* result engine_create and the probe ignore may fail.
CONSTANTS
  Modulus = 4
  SqDepth = 2
  Start = 0
  CqDepth = 2
  MaxOps = 2
  MaxOutstanding = 1
  MaxDrain = 1
  Timeouts = {"finite"}
  Signals = FALSE
  MaxLoads = 3
  Faults = {"kzalloc", "sq", "cq", "iomap", "request_irq", "kmalloc"}
SPECIFICATION PFairSpec
INVARIANTS RoundTrips DmaOnlyToMapped CleansUp EarlyWakeup
PROPERTY ProbeEnds
