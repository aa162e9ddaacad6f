SPECIFICATION Spec
CONSTANTS
  Node = {n1}
  NoNode = NoNode
  Kind = {"monitor", "report"}
  Gen = {g1, g2}
  NoGen = NoGen
  Version = {v1, v2}
  Bad = Bad
  MaxFault = 1
INVARIANT StoppedTaskLeavesCore
