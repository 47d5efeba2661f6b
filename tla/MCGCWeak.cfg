CONSTANTS
  main = main
  weaktab = weaktab
  key1 = key1
  key2 = key2
  str = str
  Nil = Nil
  Obj <- MCObj
  Kind <- MCKind
  MainThread = main
  RootTables = {weaktab}
  Slots <- MCSlots
  MaxStack = 2
  MaxEntries = 2
  WeakModes <- MCWeakModes
  Finalizable = {key1}
  Features = {}
SPECIFICATION Spec
PROPERTIES
  ImplementsHeap
