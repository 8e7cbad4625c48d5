\* Sequentially consistent loads: no stale value is needed.
CONSTANTS
  Producers = {p1, p2}
  Capacity = 2
  Modulus = 8
  PerProducer = 2
  Start = 0
  StaleLoads = FALSE
SPECIFICATION Spec
PROPERTY FalseMeansFull
