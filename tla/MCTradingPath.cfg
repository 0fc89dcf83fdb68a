SPECIFICATION Spec
CONSTANTS
  Workers = {w1, w2}
  Snapshots <- MCSnapshots
  NoSnapshot = NoSnapshot
  NotSettling = NotSettling
  NoFingerprint = NoFingerprint
  Idle = Idle
  None = None
  Off = Off
  CostSettle = 1
  PnlSettle = 1
  CostOverride = 2
  PnlOverride = 2
  AddDelta = 1
  ReduceDelta = 1
  InitialSize = 1
  AddSize = 1
  FingerprintExpiry = 1
  StartShares = {0, 2}
  MaxSnapshots = 2
  MaxTime = 1
  MaxUpsets = 1
  MaxTrades = 1
INVARIANTS
  TypeOK
  BookFollowsAccount
  ShortOnlyFromOverlap
  FailedNeverSent
  OneSettling
PROPERTIES
  OrdersSpaced
  LifeSpec
CHECK_DEADLOCK FALSE
