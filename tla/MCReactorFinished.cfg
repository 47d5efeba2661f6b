\* an instance that has aborted does nothing any more
CHECK_DEADLOCK FALSE
CONSTANTS
  p1 = p1
  p2 = p2
  p3 = p3
  Main = Main
  Nil = Nil
  Threads = {p1, p2, p3}
SPECIFICATION Spec
SYMMETRY Symmetry
INVARIANTS
  FinishedIsDead
