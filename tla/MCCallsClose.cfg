CONSTANTS
  main = main
  co1 = co1
  x = x
  Threads = {main, co1}
  MainThread = main
  Variables = {x}
  LUAI_MAXCCALLS = 4
  ErrCcalls = 6
  MaxFrames <- Flat
  Functions = {"close", "close main"}
SPECIFICATION Spec
INVARIANT CallsCounted
