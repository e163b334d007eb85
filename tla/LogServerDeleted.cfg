SPECIFICATION Spec
CONSTANTS Threads = {t1, t2, t3}
          Msgs = 1
          Cap = 2
          RbSize = 1
          Restarts = 1
INVARIANT NoDeadHandler
CHECK_DEADLOCK FALSE
