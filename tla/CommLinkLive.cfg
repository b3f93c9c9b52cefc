\* One caller, handlers that answer every command once, nothing that times out: progress.
SPECIFICATION FairLinkSpec
CONSTANTS
  Callers = {c1}
  Bodies = {b}
  UpBodies = {b}
  NoBody = NoBody
  IdLimit = 3
  ResetClearsId = TRUE
  HelloInTime = TRUE
  WritesMayFail = FALSE
  Disciplined = TRUE
  MaxReplies = 0
  MaxCalls = 6
  MaxTimeouts = 0
  MaxRestarts = 0
  MaxSessions = 2
  MaxPosts = 1
  MaxUp = 2
INVARIANTS
  ReplyIsOwn
PROPERTIES
  PortFreed
  Answered
CHECK_DEADLOCK FALSE
