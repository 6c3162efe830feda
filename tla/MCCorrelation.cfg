\* Alerts arriving one by one, each correlated or lost: two on one day and the
\* others on the next, whose third context outgrows the padding.
CONSTANTS
  r1 = r1
  r2 = r2
  t = t
  u = u
  x = x
  y = y
  Kinds <- MCKinds
  Base = 3
  Width = 1
  Window = 2
  DayLength = 8
  StartTime = 5
  ClockSteps <- OneTick
  MaxAlerts = 9
SPECIFICATION Spec
INVARIANTS
  EvidenceStaysInside
  ContextsConnected
  RelatedAreTogether
  HistoryReconstructable
PROPERTY MergesKeepTheEarlier
SYMMETRY MCSymmetry
CHECK_DEADLOCK FALSE
