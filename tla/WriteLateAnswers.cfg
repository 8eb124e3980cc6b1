SPECIFICATION FairSpec
CONSTANTS
  Table <- MCTable
  Keys <- MCKeys
  GroupKeys <- MCGroupKeys
  Values <- MCValues
  Absent = Absent
  Untranslatable = Untranslatable
  UsesSumOfMembers = FALSE
  ProfileSize = 0
  MaxGroupSize = 0
  MaxWeightPerMember = 0
  RequestUpdates <- RetryUpdates
  MaxBatch = 2
  MaxPending = 1
INVARIANTS
  UtilizationMatchesCache
PROPERTIES
  WriteReturns
