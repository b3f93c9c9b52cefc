\* Two threads on the CAN channel, two sessions, calls that time out, fewer mailboxes than slots.
SPECIFICATION StackSpec
CONSTANTS
  Callers = {c1, c2}
  Bodies <- MCBodies
  UpBodies <- MCUpBodies
  NoBody = NoBody
  IdLimit = 9
  ResetClearsId = TRUE
  HelloInTime = TRUE
  WritesMayFail = FALSE
  Disciplined = FALSE
  MaxReplies = 3
  MaxCalls = 5
  MaxPosts = 0
  MaxTimeouts = 2
  MaxRestarts = 0
  MaxSessions = 2
  MaxUp = 2
  Chans = {"can"}
  Forms = {"short"}
  Others = {}
  MaxFilters = 3
  Mailboxes = 2
  HasKline = TRUE
  NullTextRestarts = FALSE
  SetupMayFail = TRUE
  FrameMayFail = TRUE
SYMMETRY CallerSym
INVARIANTS
  StackTypeOK
  TablesAgree
  IdleAfterGoodbye
  DriverOpenIsDeviceOpen
CHECK_DEADLOCK FALSE
