\* Two callers, ids that wrap after two, handlers that answer any number of times.
SPECIFICATION LinkSpec
CONSTANTS
  Callers = {c1, c2}
  Bodies = {b}
  UpBodies = {b}
  NoBody = NoBody
  IdLimit = 3
  ResetClearsId = TRUE
  HelloInTime = TRUE
  WritesMayFail = TRUE
  Disciplined = FALSE
  MaxReplies = 2
  MaxCalls = 4
  MaxTimeouts = 1
  MaxRestarts = 1
  MaxSessions = 2
  MaxPosts = 0
  MaxUp = 2
SYMMETRY CallerSym
INVARIANTS
  TypeOK
  IdsCarried
  ForeignReplyFar
  HelloFirst
CHECK_DEADLOCK FALSE
