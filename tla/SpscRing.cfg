\* Four slots, counters modulo 8: both counters wrap at the ninth item, and a
\* batch may exceed the capacity.
CONSTANTS
  Capacity = 4
  Modulus = 8
  MaxItems = 9
  MaxBatch = 5
SPECIFICATION ConsumerFairSpec
INVARIANTS TypeOK NoRace NoOverwrite InOrder
PROPERTIES ImplementsFifo Delivered PublishedIsConsumed
