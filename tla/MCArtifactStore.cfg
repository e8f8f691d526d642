SPECIFICATION FairSpec
CONSTANTS
  Procs = {p1, p2, p3}
  Keys = {k1}
  Inodes = {i1, i2, i3, i4}
  MaxObjects = 0
  None = None
INVARIANTS SingleFlight NeverRewritten HitsAreReadable
PROPERTIES CallsReturn
