CONSTANTS
  main = main
  co = co
  clo = clo
  upv = upv
  tab = tab
  Nil = Nil
  Obj <- MCObj
  Kind <- MCKind
  MainThread = main
  RootTables = {}
  Slots <- MCSlots
  MaxStack = 2
  MaxEntries = 2
  WeakModes <- MCWeakModes
  Finalizable = {}
  Features = {}
SPECIFICATION Spec
INVARIANTS
  NoDangling
