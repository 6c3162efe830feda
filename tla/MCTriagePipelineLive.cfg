\* Progress.
CONSTANTS
  g1 = g1
  MaxAlerts = 2
  Groups <- OneGroup
  GroupOf <- AllTogether
  LateSweepEnabled = TRUE
  BatchLimit = 2
  MaxRestarts = 1
SPECIFICATION Spec
PROPERTY NewsReachesRecord
CHECK_DEADLOCK FALSE
