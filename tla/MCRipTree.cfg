CONSTANTS
  A = A
  B = B
  C = C
  a1 = a1
  b1 = b1
  b2 = b2
  c1 = c1
  Node <- MCNode
  Addr <- MCAddr
  Owner <- MCOwner
  Peer <- MCPeer
  Index <- MCIndex
  Dest = {c1}
  Dist <- MCDist
  MaxCost = 16
  MayExpire = 1
  MustExpire = 2
  MaxQueued = 2
  NoEntry = NoEntry
SPECIFICATION TreeSpec
INVARIANTS
  TypeOK
  TreeRoutesExact
PROPERTIES
  RoutesComeBack
  LearntRoutesExpire
