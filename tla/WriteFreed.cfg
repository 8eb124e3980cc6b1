SPECIFICATION Spec
CONSTANTS
  Table <- MCTable
  Keys <- MCKeys
  GroupKeys <- MCGroupKeys
  Values <- MCValues
  Absent = Absent
  Untranslatable = Untranslatable
  UsesSumOfMembers = FALSE
  ProfileSize = 2
  MaxGroupSize = 0
  MaxWeightPerMember = 0
  RequestUpdates <- MixedUpdates
  MaxBatch = 2
  MaxPending = 0
INVARIANTS
  FreedResourcesNotReused
