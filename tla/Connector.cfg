SPECIFICATION FairSpec
CONSTANTS
  Reqs = {r1, r2, r3}
  PipeCap = 2
INVARIANTS TypeOK TimerWhileConnecting NothingStranded
PROPERTIES ImplementsFifo PipeDrains
CHECK_DEADLOCK FALSE
