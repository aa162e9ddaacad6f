SPECIFICATION FairSpec
CONSTANTS
  User = {u1, u2, bad}
  Limit = {slow, fast}
  None = None
  PanelList <- AnyList
  Refused = {bad}
  NoTag = NoTag
  MaxFault = 1
INVARIANTS TypeOK BillableBeforeServed LimiterTracksList CleanSync
           AcknowledgedIsServed
PROPERTIES KeptUsersStay ListTakesEffect ImplementsService
