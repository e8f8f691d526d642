SPECIFICATION Spec
CONSTANTS
  NTasks = 2
  SqEntries = 2
  NFds = 3
  MaxConnections = 2
  Multishot = TRUE
  UseSendZc = FALSE
  Tls = TRUE
  MaxAccepted = 3
  TimeoutUd = 3
  IdleTimeout = FALSE
INVARIANTS TypeOK ConnectionsCounted TlsFreed
CHECK_DEADLOCK FALSE
