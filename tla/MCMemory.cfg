CONSTANTS
  o1 = o1
  o2 = o2
  o3 = o3
  Slots = {o1, o2, o3}
  Null = Null
  MaxStack = 2
  MaxEntries = 1
  StackLimit = 10
  ErrorSpace = 4
  ExtraStack = 5
  MinStack = 2
  FrameSizes = {4}
  MaxCalls = 3
  Texts = {0, 1, 2, 3, 4}
  MemErrMsg = 0
  Hash <- StringHash
  MinStrTabSize = 16
  MaxStrTabSize = 16
  CacheM = 2
  MaxHeld = 1
SPECIFICATION MemSpec
SYMMETRY Symmetry
INVARIANTS
  NothingLost
  GenerationsApart
  StackAndStrings
