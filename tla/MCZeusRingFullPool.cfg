CONSTANTS
  NTasks = 2
  Capacity = 2
  MaxRequests = 4
  MaxAbandoned = 0
SPECIFICATION Spec
INVARIANTS AckedIsAnswered
