\* Whose data a channel holds and a read returns, across connections and sessions.
SPECIFICATION RxSpec
CONSTANTS
  Callers = {c1}
  Readers = {r1}
  Bodies <- MCBodies
  UpBodies <- MCUpBodies
  NoBody = NoBody
  IdLimit = 5
  ResetClearsId = TRUE
  HelloInTime = TRUE
  WritesMayFail = FALSE
  Disciplined = FALSE
  MaxReplies = 2
  MaxCalls = 3
  MaxPosts = 0
  MaxTimeouts = 1
  MaxRestarts = 1
  MaxEvents = 3
  MaxSessions = 2
  MaxUp = 2
  MaxQueue = 2
  MaxSent = 3
INVARIANTS
  OnlyLeftovers
  OneStray
  StreamKept
CHECK_DEADLOCK FALSE
