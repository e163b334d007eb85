SPECIFICATION Spec
CONSTANTS
  Reqs = {r1, r2, r3}
  PipeCap = 2
INVARIANT StartsWithWhole
CHECK_DEADLOCK FALSE
