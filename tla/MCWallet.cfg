\* Two overlapping transactions, two days, a crash at any point; one order with
\* its watcher, the hourly loop and the restore dialog, three events.
SPECIFICATION WalletSpec
CONSTANTS
  Tx = {t1, t2}
  FreeCap = 2
  PremiumCap = 3
  TopUp = 1
  HoldTTL = 2
  MaxHold = 2
  MaxBalance = 4
  MaxDay = 2
  MaxOrders = 1
  Hourly = hourly
  Dialog = dialog
  MaxEvents = 3
INVARIANTS
  VerdictHasToken
PROPERTIES
  ImplementsAccount
  HoldsAreReleased
  PaidOrderUnlocks
CHECK_DEADLOCK FALSE
