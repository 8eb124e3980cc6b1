SPECIFICATION Spec
CONSTANTS
  PortNames = {p1, p2}
  PortIds = {1, 2}
  IfIndexes = {1, 40000}
  Nobody = Nobody
  MaxPackets = 2
  MaxEvents = 3
INVARIANTS
  OneSocketPerPort
  PacketsAreAccountedFor
PROPERTIES
  PacketInNamesItsPort
  PacketOutLeavesByItsPort
  PacketsAreRead
CHECK_DEADLOCK FALSE
