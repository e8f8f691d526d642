SPECIFICATION Spec
CONSTANTS
  Names = {"x", "y"}
  Param = "x"
  Places <- MCPlaces
  MaxSize = 5
  MaxTurns = 2
  LoneReowns = FALSE
  Shadowing = FALSE
  AllLeave = FALSE
INVARIANTS Sound Precise ConsumedOnce
CHECK_DEADLOCK FALSE
