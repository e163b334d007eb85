SPECIFICATION Spec
CONSTANTS
  Socks = {c1, c2, c3}
  N = 3
  Users = {p1, p2}
  MaxSize = 3
  NodeNum = 2
  HeapNode = 2
  Mallocs = 2
  News = 3
  Workers = {w1, w2}
  Backlog = 2
  Crew = {w1, w2}
  Cap = 3
  AskCap = 1
  Sends = 5
  IdLen = 5
  IdMax = 4
  Width = 8
  Kilo = 2
  Limits = {0, 1, 2}
  Intervals = {1, 2}
INVARIANTS TypeOK IdleEnds ClearKeepsItsPlace RetriedWhereWanted EdgesSurviveSwaps
  NoOverlap CleanEnd BacklogWatched HeaderIsDecided InFrame
  IdIsDecoded
PROPERTIES DroppedWasIdle NothingAfterExit WaitEnds AcceptFollowsRate
CHECK_DEADLOCK FALSE
