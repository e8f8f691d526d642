SPECIFICATION Spec
CONSTANTS
  p1 = p1
  p2 = p2
  Proc = {p1, p2}
  Output = {"o1", "o2", "o3"}
  Dir <- MCDir
  Path <- MCPath
  Source <- Sources
  Mode <- MCMode
  Invocations <- MCInvocations
  Rootable = {"near"}
  Up <- MCUp
  Texts <- MCTexts
  First <- MCFirst
  FirstMarked = {"top"}
  Imports <- MCImports
  Interface <- MCInterface
  MaxEdits = 2
  MaxCompiles = 3
  EditsAnytime = FALSE
  OldTimes = FALSE
  None = None
  Torn = Torn
INVARIANTS TypeOK SkippedIsFresh SigVouches SettledSkips
SYMMETRY Symmetry
CHECK_DEADLOCK FALSE
