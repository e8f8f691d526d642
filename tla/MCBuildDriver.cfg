SPECIFICATION Spec
CONSTANTS
  b1 = b1
  b2 = b2
  t1 = t1
  t2 = t2
  Builders = {b1, b2}
  Trees = {t1, t2}
  Tree <- OwnTrees
  EditedTrees = {t1}
  N = 2
  Imports <- MCImports
  Contents <- MCContents
  First = "a"
  Broken = {"c"}
  Iface <- MCIface
  EditsAnytime = FALSE
  MaxEvents = 2
  None = None
  Torn = Torn
INVARIANTS TypeOK UpToDateIsFresh StoreSound KeysAreCurrent ReturnsFresh
