SPECIFICATION GossipSpec
CONSTANTS
  None = None
  Nodes = {n1, n2, n3}
  Online = {n1, n2}
  Blocks = {b1}
  Minute = 2
  Spread = 1
  MinSend = 1
  MinBlock = 1
  Large = {}
  LargeWeight = 1
  Growing = {}
  MaxLuck = 1
  MaxTime = 2
  MaxEvents = 1
  MaxLookups = 1
INVARIANTS NothingMissed
PROPERTIES RefusedByFuller
SYMMETRY NodeSymmetry
CHECK_DEADLOCK FALSE
