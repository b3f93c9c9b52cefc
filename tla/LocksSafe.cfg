\* Two threads: of an application that calls everything, of one that does not
\* close, and of one that neither closes nor disconnects.
SPECIFICATION FairLocksSpec
CONSTANTS
  Callers = {c1, c2}
  NumChans = 2
  Apps <- MCApps
  MaxQueue = 1
  MaxFilters = 2
  MaxCalls = 6
  MaxSessions = 2
INVARIANTS
  LocksTypeOK
  ChannelOfSession
  OneDevice
  NoPanic
PROPERTIES
  EveryCallEnds
CHECK_DEADLOCK FALSE
