CONSTANTS
  f1 = f1
  f2 = f2
  u = u
  o1 = o1
  o2 = o2
  Slots = {f1, f2, u, o1, o2}
  Null = Null
  MaxStack = 3
  MaxEntries = 1
SPECIFICATION JoinSpec
INVARIANT OldRefersToNoYoung
