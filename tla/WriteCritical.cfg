SPECIFICATION Spec
CONSTANTS
  Table <- MCTable
  Keys <- MCKeys
  GroupKeys <- MCGroupKeys
  Values <- MCValues
  Absent = Absent
  Untranslatable = Untranslatable
  UsesSumOfMembers = FALSE
  ProfileSize = 0
  MaxGroupSize = 0
  MaxWeightPerMember = 0
  RequestUpdates <- RetryUpdates
  MaxBatch = 1
  MaxPending = 0
PROPERTIES
  RejectedWhenCritical
