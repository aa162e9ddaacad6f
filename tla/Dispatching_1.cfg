SPECIFICATION DispatchingSpec
CONSTANTS
  t1 = t1
  t2 = t2
  Node = {n1, n2}
  Dns = Dns
  Target = {t1, t2, Dns}
  Custom = {"proxy"}
  NoTag = ""
  Def = {d1, d2}
  Broken = Broken
  Match <- SomeMatch
  MaxRoutes = 3
  Content <- SomeContent
  Silent = Silent
  MaxPacket = 3
  Wait = 2
  Second = 3
  Address = t2
  Told = t1
  MaxFollowed = 1
SYMMETRY Symmetry
CHECK_DEADLOCK FALSE
INVARIANTS ConnTypeOK FirstRouteWins NeverDirect Recognised InTime RoutedByContent
PROPERTIES DecisionsStay ImplementsPipe
