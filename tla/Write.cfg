SPECIFICATION RestartSpec
CONSTANTS
  Table <- MCTable
  Keys <- MCKeys
  GroupKeys <- MCGroupKeys
  Values <- MCValues
  Absent = Absent
  Untranslatable = Untranslatable
  UsesSumOfMembers = FALSE
  ProfileSize = 4
  MaxGroupSize = 0
  MaxWeightPerMember = 0
  RequestUpdates <- MixedUpdates
  MaxBatch = 3
  MaxPending = 0
INVARIANTS
  CacheMatchesSwitch
  ReportsFirstFailure
PROPERTIES
  ResponseTellsTheTruth
  ImplementsSequentialWrite
