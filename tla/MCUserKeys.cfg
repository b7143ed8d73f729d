SPECIFICATION LiveSpec
CONSTANTS
  Users = {u, v}
  Importers = {i, j}
  KeyLife = 2
  MaxTime = 2
  MaxKeys = 3
  None = None
INVARIANTS MessagesCanBeRead 
PROPERTIES  PrivateKeysGo
