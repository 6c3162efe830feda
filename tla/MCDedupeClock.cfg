\* Deduplication under a clock that may step back.
CONSTANTS
  g1 = g1
  g2 = g2
  e1 = e1
  e2 = e2
  e3 = e3
  f1 = f1
  f2 = f2
  Groups <- MCGroups
  Events <- MCEvents
  GroupOf <- MCGroupOf
  Fingerprints <- MCFingerprints
  Window = 2
  ClockSteps <- BothWays
  MaxTime = 4
  MaxDeliveries = 4
SPECIFICATION Spec
SYMMETRY MCSymmetry
INVARIANTS
  GenerationsAreWindowRuns
  CountersMatchAudit
CHECK_DEADLOCK FALSE
