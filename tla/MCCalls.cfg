CONSTANTS
  main = main
  co1 = co1
  co2 = co2
  x = x
  y = y
  Threads = {main, co1}
  MainThread = main
  Variables = {x}
  LUAI_MAXCCALLS = 6
  ErrCcalls = 8
  MaxFrames <- Nested
  Functions = {"pcall", "call", "resume", "close", "wrap", "metamethod", "block"}
SYMMETRY Symmetry
SPECIFICATION MCSpec
INVARIANTS
  YieldSafe
  HandlerInForce
  CallsCounted
  StatusTrue
  ClosedOnce
  SameHandler
PROPERTIES
  ErrorsCaught
  ClosedOnExit
