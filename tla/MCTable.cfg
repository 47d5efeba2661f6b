CONSTANTS
  v1 = v1
  s1 = s1
  o1 = o1
  Nil = Nil
  NoTraversal = NoTraversal
  IntKeys = {1, 2, 3}
  StrKeys = {s1}
  PtrKeys = {o1}
  Hash <- MCHash
  Values = {v1}
  Weak = FALSE
  IntBits = 4
  MaxASize = 4
  InitSizes <- MCSizes
SPECIFICATION MCSpec
VIEW NoAnswer
INVARIANTS
  SearchesEnd
  KeyIsFound
  SizesKnown
  LengthsAreBorders
PROPERTIES
  KeysImplementMap
