SPECIFICATION FairSpec
CONSTANTS Threads = {t1, t2}
          Msgs = 2
          Cap = 3
          RbSize = 1
          Restarts = 2
INVARIANTS TypeOK WatchesAll KeptIsNotLost InOrder InFrame
PROPERTIES CallsReturn ClientsEnd
CHECK_DEADLOCK FALSE
