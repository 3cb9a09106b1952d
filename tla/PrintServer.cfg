CONSTANTS
  c1 = c1
  c2 = c2
  c3 = c3
  Clients <- ThreeClients
  Pages = {0}
  Length = 2
  IntSpan = 3
  NoClient = NoClient
SPECIFICATION FairSpec
INVARIANTS
  TypeOK
  MutualExclusion
  SemaphoresAccount
  PrinterFindsItsJob
  ClientFindsRoom
  SomebodyAwake
PROPERTIES
  ImplementsQueue
  EveryJobPrinted
  ClientsReturn
