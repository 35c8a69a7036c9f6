\* One tab after another, at most two shells, two sockets at a time.
SPECIFICATION FairSpec
CONSTANTS
  Client = {c1, c2}
  Sock = {s1, s2}
  None = None
  MaxTabs = 2
  MaxAttempts = 2
INVARIANTS
  SocketsAreTended
PROPERTIES
  DropsAreSettled
CHECK_DEADLOCK FALSE
