\* On an A0, where an answer without text restarts the device: the stack implements the link.
SPECIFICATION StackSpec
CONSTANTS
  Callers = {c1}
  Bodies <- MCBodies
  UpBodies <- MCUpBodies
  NoBody = NoBody
  IdLimit = 4
  ResetClearsId = FALSE
  HelloInTime = TRUE
  WritesMayFail = FALSE
  Disciplined = FALSE
  MaxReplies = 3
  MaxCalls = 3
  MaxPosts = 1
  MaxTimeouts = 1
  MaxRestarts = 1
  MaxSessions = 1
  MaxUp = 3
  Chans = {"can"}
  Forms = {"short", "long", "flagged"}
  Others = {"ioctl", "init", "query"}
  MaxFilters = 1
  Mailboxes = 1
  HasKline = FALSE
  NullTextRestarts = TRUE
  SetupMayFail = TRUE
  FrameMayFail = TRUE
PROPERTIES
  LinkSpec
CHECK_DEADLOCK FALSE
