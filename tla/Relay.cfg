SPECIFICATION Spec
CONSTANTS Low = 1
          High = 3
          Inbound = 1
          Room = 2
          Kept = 3
INVARIANTS TypeOK DeafForAReason EdgesAreKept DeviceQueueBounded
CHECK_DEADLOCK FALSE
