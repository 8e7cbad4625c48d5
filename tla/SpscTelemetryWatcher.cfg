\* As SpscTelemetry.cfg, with a third thread that watches.
CONSTANTS
  Capacity = 2
  Modulus = 4
  MaxItems = 5
  MaxBatch = 3
SPECIFICATION WatchedSpec
INVARIANT WatchedSizeWasReal
