SPECIFICATION Spec
CONSTANTS
  NTxns = 3
  CommittedCapacity = 1
  MaxIds = 4
INVARIANTS NoDirtyView NoFutureRead
PROPERTIES NothingVanishes
CHECK_DEADLOCK FALSE
