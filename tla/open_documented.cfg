SPECIFICATION Spec
CONSTANTS
  Clients = {c1, c2, c3}
  MaxVersion = 2
  Calls = {"open", "delete"}
  Usage = {}
  Faults = {}
INVARIANTS SchemaReady NeverPanics NoOrphanedConnection
PROPERTIES CallsReturn
