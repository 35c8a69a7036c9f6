\* One session of the app and one from outside, one operation of the user at a
\* time beside the keep-alive loop, one renewal, one lost request.
SPECIFICATION FairSpec
CONSTANTS
  Machine = {m1, m2}
  Foreign = {m2}
  User = {u1}
  KeepAlive = k
  Open = m1
  None = None
  MaxOps = 1
  MaxRenewals = 1
INVARIANTS
  
  StaleTokenIsHealedAlone
PROPERTIES
  DeadSessionIsForgotten
CHECK_DEADLOCK FALSE
