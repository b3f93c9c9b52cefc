\* A thread closes the device while another uses a channel.
SPECIFICATION FairLocksSpec
CONSTANTS
  Callers = {c1, c2}
  NumChans = 1
  Apps = {{"connect", "filter", "open", "close"}}
  MaxQueue = 1
  MaxFilters = 2
  MaxCalls = 5
  MaxSessions = 1
PROPERTIES
  CloseEnds
CHECK_DEADLOCK FALSE
