\* Two producers, two cells; the counters start one short of their wrap.
CONSTANTS
  Producers = {p1, p2}
  Capacity = 2
  Modulus = 8
  PerProducer = 2
  Start = 7
  StaleLoads = TRUE
SPECIFICATION ConsumerFairSpec
INVARIANTS TypeOK NoRace
PROPERTIES ImplementsFifo Delivered OnlyUnfinishedBlocks
