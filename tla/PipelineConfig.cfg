SPECIFICATION Spec
CONSTANTS
  AclTables <- MCAclTables
  Definitions = {"small", "large", "egress"}
  Stage <- MCStage
  Nonessential = {"counting"}
  Reinstall = {"counting"}
  PreIngress = {"pre"}
  HashFields = {"ecmp", "lag"}
  LagHashFields = {"lag"}
  HashValues = {"h1", "h2"}
  P4Infos <- MCP4Infos
  Entries <- MCEntries
  e1 = e1
  e2 = e2
  e3 = e3
  None = None
SYMMETRY EntrySymmetry
INVARIANTS
  ConfigMatchesSwitch
  EssentialEntriesInForce
