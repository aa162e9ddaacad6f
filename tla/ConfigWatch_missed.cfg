SPECIFICATION FairSpec
CONSTANTS
  Content = {v1, v2}
  Torn = Torn
  Debounce = 10
  Delay = 5
  MaxEvents = 2
PROPERTIES EveryEditLoaded
