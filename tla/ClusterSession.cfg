\* One request followed in full; another session of the same user competes
\* for the one place.
SPECIFICATION FairProxySpec
CONSTANTS
  Self = self
  Others = {o1}
  MaxSessions = 1
  Idle = 2
CHECK_DEADLOCK FALSE
PROPERTIES
  SessionEnds
  SessionReclaimed
