CONSTANTS
  Blocks = {b1}
  Kinds = {"small", "badmeta"}
  Getters = {g1, g2}
  Importers = {}
  Cleaners = {}
  Banners = {k1}
  NoBlock = NoBlock
  SmallBytes = 1
  BigBytes = 1
  StrExtra = 0
  NoneBytes = 1
  Allocation = 3
  Slack = 1
  MaxCopies = 2
  MayCrash = TRUE
SPECIFICATION LiveSpec
INVARIANTS TypeOK ClaimsCounted
PROPERTIES BannedStayAway 
