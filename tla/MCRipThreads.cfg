CONSTANTS
  Ifc = {1}
  Remote = {2}
  MaxCost = 2
  Expiry = 1
  MaxWalk = 1
SPECIFICATION FairSpec
INVARIANTS
  TypeOK
  OwnEntriesKept
  IteratorsLive
  ForeignEntries
PROPERTIES
  DownStaysDown
  PhantomsGo
  RoutesViaDownVanish
CHECK_DEADLOCK FALSE
