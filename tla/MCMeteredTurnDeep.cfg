\* One turn, three candidates, a budget of two calls, a balance that runs out.
SPECIFICATION FairSpec
CONSTANTS
  Tx = {t1}
  FreeCap = 1
  PremiumCap = 3
  TopUp = 1
  HoldTTL = 1
  MaxHold = 3
  MaxBalance = 3
  MaxDay = 1
  Candidates = 3
  MaxRounds = 2
INVARIANTS
  BillWithinBudget
PROPERTIES
  TurnsEnd
CHECK_DEADLOCK FALSE
