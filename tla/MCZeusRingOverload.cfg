CONSTANTS
  NTasks = 2
  Capacity = 2
  MaxRequests = 5
  MaxAbandoned = 1
SPECIFICATION Spec
INVARIANTS TypeOK NoLostWakeup HandlerReadsItsRequest
PROPERTIES ResponseKept
