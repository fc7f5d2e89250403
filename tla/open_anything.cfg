SPECIFICATION Spec
CONSTANTS
  Clients = {c1, c2, c3}
  MaxVersion = 2
  Calls = {"open", "latest", "delete"}
  Usage = {"leak", "cancel", "close", "misuse"}
  Faults = {"commit", "unknown"}
INVARIANTS TypeOK OpenedAsAsked AnswerMatchesUpgrade
SYMMETRY ClientSymmetry
PROPERTY RefinesVersioned
