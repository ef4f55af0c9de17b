SPECIFICATION InsistingSpec
CONSTANTS
  GateTries = 3
  MaxMishaps = 4
INVARIANTS
  PaidFor
  BusyIsPending
  PurchaseKept
PROPERTIES UnlockedForGood RestoreWorks
