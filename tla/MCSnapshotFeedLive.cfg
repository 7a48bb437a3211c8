CONSTANTS
  c1 = c1
  c2 = c2
  c3 = c3
  NoClient = NoClient
  Clients <- TwoClients
  Buffer = 0
  MaxVersion = 3
SPECIFICATION Spec
PROPERTIES
  EventuallyCurrent
  ImplementsLatestFeed
