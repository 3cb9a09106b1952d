CONSTANTS
  c1 = c1
  c2 = c2
  Clients <- TwoClients
  Pages = {1}
  Length = 2
  IntSpan = 2
  NoClient = NoClient
  MaxRestarts = 2
SYMMETRY Alike
SPECIFICATION RestartSpec
INVARIANTS
  ExclusionRestored
  AccountRestored
  ServiceRestored
PROPERTIES
  ReadyUnlessEarly
  ServesInOrder
CHECK_DEADLOCK FALSE
