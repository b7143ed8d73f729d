CONSTANTS
  Blocks = {b1}
  Kinds = {"small", "big", "badmeta", "badpow", "poison", "unparsable", "expiring"}
  Getters = {g1}
  Importers = {u1}
  Cleaners = {c1}
  Banners = {}
  NoBlock = NoBlock
  SmallBytes = 1
  BigBytes = 1
  StrExtra = 0
  NoneBytes = 1
  Allocation = 3
  Slack = 1
  MaxCopies = 2
  MayCrash = TRUE
SPECIFICATION Spec
INVARIANTS RowHasData RowsBounded
PROPERTIES BannedStayAway RemovedAreBanned ImplementsArchive
