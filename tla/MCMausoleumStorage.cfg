CONSTANTS
  NumFrames = 2
  BufferParts = 2
  TableSize = 2
  MaxPages = 3
  Budgets <- MCBudgets
SPECIFICATION Spec
INVARIANTS TypeOK PinnedStay OnlyCommittedRedone AckedAreRedone
PROPERTIES ImplementsPageStore
CHECK_DEADLOCK FALSE
