CONSTANTS
  Peers = {a, b}
  Bootstrap = {a}
  Timers = {t1}
  Users = {u1}
  MaxConnect = 1
  FewPeers = 2
  MinScore = 0
  Worst = 1
  Rated = {b}
  Best = 0
  Newcomers = {b}
  Lasting = {a}
  None = None
SPECIFICATION LiveSpec
INVARIANTS PoolBounded TriedOnce 
CHECK_DEADLOCK FALSE
PROPERTY PoolRefills
