CONSTANTS
  IntBits = 5
  Mantissa = 3
  ListBits = 4
  IntMax = 3
  RanLimit = 4
  Imbalance = 1
  MaxCaptures = 2
  ByteBits = 2
  IntSize = 2
  SizeTSize = 2
  FloatSize = 2
  MaxIntSize = 3
  MaxSize = 7
  PosBits = 6
  SizeBits = 4
  MaxText = 7
  ChunkBits = 2
  IntLimit = 31
  SizeLimit = 63
  p1 = p1
  p2 = p2
  p3 = p3
  Main = Main
  Nil = Nil
  Threads = {p1, p2, p3}
  MaxArgC = 5
  MaxArgBx = 9
  MaxIndexRK = 1
  FieldsPerFlush = 2
  StackSize = 40
  Compiler <- Compile
  Reference <- Meaning
SPECIFICATION PartsSpec
SYMMETRY Symmetry
INVARIANTS
  NumbersExact
  ListsKept
  MatchingExact
  StringsExact
  RoundTrips
  MainBalanced
  ErrorReported
  StepTruthful
  CodeMeansProgram
  RefusesOnlyBad
  WithinFrame
PROPERTIES
  StartKeepsOrReplaces
\* a function returns once; an instance that has aborted does nothing any more
CHECK_DEADLOCK FALSE
