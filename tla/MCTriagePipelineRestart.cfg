\* Alerts left behind by a restart are said to be assessed after it.
CONSTANTS
  g1 = g1
  MaxAlerts = 2
  Groups <- OneGroup
  GroupOf <- AllTogether
  LateSweepEnabled = TRUE
  BatchLimit = 2
  MaxRestarts = 1
SPECIFICATION Spec
PROPERTY BacklogAssessed
CHECK_DEADLOCK FALSE
