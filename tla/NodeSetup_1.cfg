SPECIFICATION FairSpec
CONSTANTS
  Configs <- AllConfigs
  Renewal = {r1, r2}
  Main = main
  Pair = {old, p1, p2, p3, p4}
  Old = old
  Missing = missing
  Torn = torn
  None = none
  MaxFault = 2
CHECK_DEADLOCK FALSE
INVARIANTS TypeOK FilesMatch InboundAsConfigured AccountsFit
PROPERTIES NodeComesUp DueIsRenewed
