\* Every operation ends.
SPECIFICATION FairStackSpec
CONSTANTS
  Callers = {c1}
  Bodies <- MCBodies
  UpBodies <- MCUpBodies
  NoBody = NoBody
  IdLimit = 9
  ResetClearsId = TRUE
  HelloInTime = TRUE
  WritesMayFail = FALSE
  Disciplined = FALSE
  MaxReplies = 3
  MaxCalls = 5
  MaxPosts = 0
  MaxTimeouts = 0
  MaxRestarts = 0
  MaxSessions = 1
  MaxUp = 3
  Chans = {"can", "kline"}
  Forms = {"short"}
  Others = {"ioctl", "init", "query"}
  MaxFilters = 2
  Mailboxes = 2
  HasKline = TRUE
  NullTextRestarts = FALSE
  SetupMayFail = TRUE
  FrameMayFail = TRUE
PROPERTIES
  OperationsEnd
CHECK_DEADLOCK FALSE
