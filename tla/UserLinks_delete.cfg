SPECIFICATION FairSpec
CONSTANTS
  Conn = {c1, c2}
  Stream = {c2}
  Reporter = {r1}
  None = None
  MaxBytes = 1
  MaxDel = 1
CHECK_DEADLOCK FALSE
PROPERTIES DeletionReturns
