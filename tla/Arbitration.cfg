SPECIFICATION BothSpec
CONSTANTS
  Connections = {c1, c2, c3}
  Roles = {sdn}
  PacketInRoles = {sdn}
  ElectionIds = {0, 1}
  DeviceIds = {1}
  None = None
  Callers = {a, b}
  NoCaller = NoCaller
  MaxResponses = 2
  MaxCalls = 2
INVARIANTS
  AtMostOnePrimary
  ToldTheTruth
  MessagesAreTakenOnceInOrder
PROPERTIES
  PacketInToToldPrimaries
  CallsReturn
CHECK_DEADLOCK FALSE
