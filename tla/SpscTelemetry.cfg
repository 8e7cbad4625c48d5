\* Two slots, counters modulo 4: both counters wrap within 5 items.
CONSTANTS
  Capacity = 2
  Modulus = 4
  MaxItems = 5
  MaxBatch = 3
SPECIFICATION OwnersSpec
INVARIANT OwnerSizeIsSafe
PROPERTY SizeIsBinding
