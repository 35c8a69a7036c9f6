\* Two turns share one ledger: interleaved holds, a sweep, a crash.
SPECIFICATION Spec
CONSTANTS
  Tx = {t1, t2}
  FreeCap = 2
  PremiumCap = 2
  TopUp = 1
  HoldTTL = 1
  MaxHold = 2
  MaxBalance = 2
  MaxDay = 1
  Candidates = 1
  MaxRounds = 1
SYMMETRY TxSymmetry
INVARIANTS
  HoldsBelongToRunningTurns
  FloorRule
CHECK_DEADLOCK FALSE
