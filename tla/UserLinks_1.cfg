SPECIFICATION Spec
CONSTANTS
  Conn = {c1, c2}
  Stream = {c2}
  Reporter = {r1, r2}
  None = None
  MaxBytes = 2
  MaxDel = 2
CHECK_DEADLOCK FALSE
INVARIANTS TypeOK NeverOverbilled NoLeakedWriter
