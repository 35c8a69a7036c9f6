\* A listing renews the record of the session that is executing.
SPECIFICATION Spec
CONSTANTS
  Machine = {m1, m2}
  Foreign = {m2}
  User = {u1}
  KeepAlive = k
  Open = m1
  None = None
  MaxOps = 1
  MaxRenewals = 1
INVARIANTS
  StaleTokenIsHealed
CHECK_DEADLOCK FALSE
