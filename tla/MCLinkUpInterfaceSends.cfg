CONSTANTS
  Fd = {0, 1}
  MaxFrame = 2
  MaxCommands = 2
  MaxInbox = 1
  Closed = Closed
  NoFrame = NoFrame
SPECIFICATION BusySpec
PROPERTY UpInterfaceSends
CHECK_DEADLOCK FALSE
