\* Three requests, two listeners that come and go, two failures of log or terminal.
CONSTANTS
  Requests = {r1, r2, r3}
  Clients = {c1, c2}
  Gone = Gone
  MaxFaults = 2
SPECIFICATION FairSpec
INVARIANTS LogTellsCalls EventsFollowLog
PROPERTIES ShutdownEnds
CHECK_DEADLOCK FALSE
