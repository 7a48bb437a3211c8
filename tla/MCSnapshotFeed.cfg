CONSTANTS
  c1 = c1
  c2 = c2
  c3 = c3
  NoClient = NoClient
  Clients <- ThreeClients
  Buffer = 2
  MaxVersion = 4
SPECIFICATION Spec
SYMMETRY ClientSymmetry
INVARIANTS
  TypeOK
  SendNeverBlocks
  LatestReachesSubscribers
  StreamInOrder
