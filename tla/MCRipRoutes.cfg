CONSTANTS
  Ifc = {1}
  Remote = {2}
  MaxCost = 2
  Expiry = 1
  MaxWalk = 1
SPECIFICATION Spec
INVARIANT EveryRouteLeadsSomewhere
CHECK_DEADLOCK FALSE
