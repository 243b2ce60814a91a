CONSTANTS
  A = A
  B = B
  C = C
  a1 = a1
  b1 = b1
  b2 = b2
  c1 = c1
  Node <- MCNode
  Addr <- MCAddr
  Owner <- MCOwner
  Peer <- MCPeer
  Index <- MCIndex
  Dest = {c1}
  Dist <- MCDist
  MaxCost = 3
  MayExpire = 1
  MustExpire = 1
  MaxQueued = 1
  NoEntry = NoEntry
  Packet = {p}
  Protocol = {17, 200}
  RipProto = 200
  MaxTtl = 16
SPECIFICATION SomeForwardingSpec
INVARIANTS
  PacketTypeOK
  FewestHops
