SPECIFICATION Spec
CONSTANTS
  Ports = {p1, p2}
  Ids = {1, 2, 3}
  NoId = NoId
  MaxWrites = 5
  MaxCrashes = 1
INVARIANTS
  SettledMapMatchesConfig
  PortTableFollowsMap
  EntriesKeepTheirMeaning
PROPERTY EventuallyFollowsConfig
CHECK_DEADLOCK FALSE
