CONSTANTS
  main = main
  fin1 = fin1
  fin2 = fin2
  held = held
  Nil = Nil
  Obj <- MCObj
  Kind <- MCKind
  MainThread = main
  RootTables = {}
  Slots <- MCSlots
  MaxStack = 2
  MaxEntries = 1
  WeakModes <- MCWeakModes
  Finalizable = {fin1, fin2}
  Features = {"emergency", "close"}
SPECIFICATION Spec
INVARIANT SweepComplete
CHECK_DEADLOCK FALSE
