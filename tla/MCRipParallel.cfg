CONSTANTS
  A = A
  B = B
  C = C
  ab = ab
  ba = ba
  ab2 = ab2
  ba2 = ba2
  bc = bc
  cb = cb
  Node <- MCNode
  Addr <- MCAddr
  Owner <- MCOwner
  Peer <- MCPeer
  Index <- MCIndex
  Dest = {cb}
  Dist <- MCDist
  MaxCost = 4
  MayExpire = 1
  MustExpire = 1
  MaxQueued = 1
  NoEntry = NoEntry
SPECIFICATION ParallelSpec
INVARIANTS
  LocalEntries
  NeverTooShort
PROPERTIES
  ReplacedByCheaperOnly
  DeadCostsOnlyRise
  DeadRoutesDie
