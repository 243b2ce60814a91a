CONSTANTS
  Fd = {0, 1}
  MaxFrame = 2
  MaxCommands = 2
  MaxInbox = 1
  Closed = Closed
  NoFrame = NoFrame
SPECIFICATION FairSpec
INVARIANT DownIsSurvived
CHECK_DEADLOCK FALSE
