SPECIFICATION Spec
CONSTANTS
  Names = {"x", "y"}
  Param = "x"
  Places <- MCPlaces
  MaxSize = 5
  MaxTurns = 2
  LoneReowns = TRUE
  Shadowing = FALSE
  AllLeave = FALSE
INVARIANT Sound
CHECK_DEADLOCK FALSE
