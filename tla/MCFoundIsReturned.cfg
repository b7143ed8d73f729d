CONSTANTS
  Workers = {w1, w2}
  Nothing = Nothing
  Pending = Pending
  Methods = {"processes"}
  Fits = {TRUE, FALSE}
SPECIFICATION LiveSpec
PROPERTY FoundIsReturned
CHECK_DEADLOCK FALSE
