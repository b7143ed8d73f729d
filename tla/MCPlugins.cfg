SPECIFICATION Spec
CONSTANTS
  None = None
  Daemons = {d}
  Clients = {c1, c2}
  AtOnce = 2
  Names = {x}
  Default = {x}
  Signers = {s1}
SYMMETRY ClientSymmetry
INVARIANTS IdentityIsStored SameIdentity SettingIsKept RecordedAreThere EnabledAreThere
CHECK_DEADLOCK FALSE
