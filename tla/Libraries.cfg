SPECIFICATION Spec
CONSTANTS
  Info <- MCInfo
  EntitySets <- MCEntitySets
  Writable <- MCWritable
  MaxUpdates = 3
  BatchSizes = {0, 2}
  kNumBitsInByte = 4
  kNumBitsInMac = 8
  kNumBitsInIpv4 = 8
  kNumBitsInIpv6 = 12
INVARIANTS
  
  UpdatesNeverDangle
  SwitchIsJudgedRightly
  
PROPERTIES
  
  EntriesReadBackTheSame
  
  TranslationsAreInverse
  PdSaysTheSame
  P4InfoIsConsistent
  VerifiedConfigsCommit
  
  SymbolicExecutionIsExact
  PacketsMeetTheirCriteria
