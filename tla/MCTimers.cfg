CONSTANTS
  Functions = {"lookupBlocks", "getBlocks", "lookupAdders", "getOnlinePeers"}
  Frequency = 2
  Threads = {t1, t2, t3}
  Callers = {c1}
  Drift = 1
  MayRaise = TRUE
SPECIFICATION LiveSpec
INVARIANTS RunningAreCounted OneAtATime NeverPassed
PROPERTY KeepsStarting
CHECK_DEADLOCK FALSE
