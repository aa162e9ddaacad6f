SPECIFICATION FairSpec
CONSTANTS
  Node = {n1}
  NoNode = NoNode
  Kind = {"monitor"}
  Gen = {g1, g2}
  NoGen = NoGen
  Version = {v1, v2}
  Bad = Bad
  MaxFault = 1
INVARIANTS TypeOK NoLostReload InboundHasLimiter CloseFindsInbound
PROPERTIES Converges ClosedLoopsEnd ImplementsHandover
