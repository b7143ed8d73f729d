CONSTANTS
  Daemons = {d1, d2}
  Handlers = {h1, h2}
  First = h1
  Several = {d1}
  Kills = {k1}
  Uploads = {u1}
  HiddenService = TRUE
  None = None
SPECIFICATION LiveSpec
INVARIANTS OneCommunicator CommandsRunOnce 
PROPERTIES StopIsHeard EndsAsProcess
CHECK_DEADLOCK FALSE
