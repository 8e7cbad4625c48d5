CONSTANTS
  WorldSize = 2
  NumThreads = 3
  Lens = {0, 1}
  WantLens = {1}
  MaxSends = 2
  None = None
SPECIFICATION FairSpec
INVARIANTS TypeOK NoLostWakeup
PROPERTIES ImplementsChannels NobodyForgotten
