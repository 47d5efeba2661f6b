CONSTANTS
  main = main
  reg = reg
  tab = tab
  clo = clo
  Nil = Nil
  Obj <- MCObj
  Kind <- MCKind
  MainThread = main
  RootTables = {reg}
  Slots <- MCSlots
  MaxStack = 2
  MaxEntries = 1
  WeakModes <- MCWeakModes
  Finalizable = {tab}
  Features = {"emergency", "stop", "setmode"}
SPECIFICATION Spec
INVARIANTS
  TypeOK
  NoDangling
  TriColor
  GrayLists
  SweepComplete
  Partition
