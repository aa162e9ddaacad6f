SPECIFICATION Spec
CONSTANTS
  u1 = u1
  u2 = u2
  i1 = i1
  i2 = i2
  User = {u1, u2}
  Ip = {i1, i2}
  Conn = {c1, c2}
  IpMap = {m1, m2}
  Source <- Devices
  Steady = {u2}
  None = None
SYMMETRY Symmetry
VIEW View
INVARIANTS TypeOK FreshReport DeletedOffline
PROPERTIES StrangersRefused
