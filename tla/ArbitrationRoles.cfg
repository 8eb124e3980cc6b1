SPECIFICATION FairSpec
CONSTANTS
  Connections = {c1, c2}
  Roles = {sdn, other}
  PacketInRoles = {}
  ElectionIds = {0, 1}
  DeviceIds = {1, 2}
  None = None
PROPERTIES
  MutationsAreFenced
  ImplementsElection
  BackupsLearnOfLoss
