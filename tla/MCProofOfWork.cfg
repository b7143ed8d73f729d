CONSTANTS
  Workers = {w1, w2, w3}
  Nothing = Nothing
  Pending = Pending
  Methods = {"threads", "processes"}
  Fits = {TRUE, FALSE}
SPECIFICATION LiveSpec
PROPERTIES ImplementsSearch CallerGoesOn
CHECK_DEADLOCK FALSE
