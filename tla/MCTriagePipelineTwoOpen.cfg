\* A group is said never to have two open incidents.
CONSTANTS
  g1 = g1
  MaxAlerts = 2
  Groups <- OneGroup
  GroupOf <- AllTogether
  LateSweepEnabled = TRUE
  BatchLimit = 2
  MaxRestarts = 0
SPECIFICATION Spec
INVARIANT OneOpenIncidentPerGroup
CHECK_DEADLOCK FALSE
