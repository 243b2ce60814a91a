CONSTANTS
  Caller <- Callers
  Item = {1, 2}
  Nobody = Nobody
  Nothing = Nothing
  Host = {"in", "rip"}
  LastIfc = 1
  Commanded = {}
  Routed = {}
  MaxFires = 1
  MaxInputs = 0
SPECIFICATION FairSpec
PROPERTY TimersHandled
CHECK_DEADLOCK FALSE
