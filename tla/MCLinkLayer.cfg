CONSTANTS
  Fd = {0, 1}
  MaxFrame = 3
  MaxCommands = 3
  MaxInbox = 1
  Closed = Closed
  NoFrame = NoFrame
SPECIFICATION FairSpec
INVARIANTS
  TypeOK
  SlotExclusive
  SoundWhileUntouched
PROPERTIES
  HandedOver
  AcceptedFramesLeaveInOrder
  SlotIsSent
CHECK_DEADLOCK FALSE
