CONSTANTS
  NTasks = 2
  Capacity = 4
  MaxRequests = 5
  MaxAbandoned = 0
SPECIFICATION FairSpec
INVARIANTS AckedIsAnswered AnswerIsOwn
PROPERTIES ImplementsService
