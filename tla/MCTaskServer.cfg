SPECIFICATION Spec
CONSTANTS
  NTasks = 2
  SqEntries = 2
  NFds = 3
  MaxConnections = 0
  Multishot = FALSE
  UseSendZc = FALSE
  Tls = FALSE
  MaxAccepted = 2
  TimeoutUd = 9
  IdleTimeout = TRUE
INVARIANTS IOEndsFirst WaitingHasOp ReadsOwnBytes SendsOwnBytes AcceptArmed BigIsOwn
CHECK_DEADLOCK FALSE
