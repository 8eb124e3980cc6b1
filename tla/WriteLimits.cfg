SPECIFICATION Spec
CONSTANTS
  Table <- MCTable
  Keys <- MCKeys
  GroupKeys <- MCGroupKeys
  Values <- LimitValues
  Absent = Absent
  Untranslatable = Untranslatable
  UsesSumOfMembers = TRUE
  ProfileSize = 3
  MaxGroupSize = 2
  MaxWeightPerMember = 2
  RequestUpdates <- GroupUpdates
  MaxBatch = 2
  MaxPending = 0
INVARIANTS
  HardwareWithinLimits
