\* Deduplication under a clock that never steps back.
CONSTANTS
  g1 = g1
  g2 = g2
  e1 = e1
  e2 = e2
  e3 = e3
  f1 = f1
  f2 = f2
  Groups <- MCGroups
  Events <- MCEvents
  GroupOf <- MCGroupOf
  Fingerprints <- MCFingerprints
  Window = 2
  ClockSteps <- ForwardOnly
  MaxTime = 5
  MaxDeliveries = 5
SPECIFICATION Spec
SYMMETRY MCSymmetry
INVARIANTS
  TypeOK
  SecondAlertOnlyAfterWindow
  RetentionBounded
PROPERTY ImplementsContract
CHECK_DEADLOCK FALSE
