SPECIFICATION Spec
CONSTANTS
  User = {u1, u2}
  Limit = {slow}
  None = None
  PanelList <- NonEmptyList
  Refused = {}
  NoTag = NoTag
  MaxFault = 1
INVARIANTS UnchangedIsUnchanged
