CONSTANTS
  Caller <- Callers
  Item = {1, 2}
  Nobody = Nobody
  Nothing = Nothing
  Host = {"in", "rip"}
  LastIfc = 2
  Commanded = {1}
  Routed = {1}
  MaxFires = 1
  MaxInputs = 1
SPECIFICATION FairSpec
INVARIANTS
  TypeOK
  NoLostWakeup
  WakeupOwed
PROPERTIES
  SlotsHandedOver
  OldestFirst
  TimerEventsHandled
  MessagesLeave
CHECK_DEADLOCK FALSE
