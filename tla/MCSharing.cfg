CONSTANTS
  Blocks = {b1, b2}
  Peers = {p1}
  Handlers = {h1, h2}
  PeersPerBlock = 2
  NoBlock = NoBlock
  LoseRequests = TRUE
  MayRestart = TRUE
SPECIFICATION LiveSpec
INVARIANTS HiddenUntilUploaded NoneForgotten
PROPERTY QueuedIsUploaded
