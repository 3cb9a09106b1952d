CONSTANTS
  c1 = c1
  c2 = c2
  Clients <- TwoClients
  Pages = {1}
  Length = 2
  IntSpan = 4
  NoClient = NoClient
SPECIFICATION StartupSpec
INVARIANTS
  JobIntact
