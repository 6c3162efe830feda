\* Requests and sweeper passes interleaved.
CONSTANTS
  TTL = 2
  BatchLimit = 1
  MaxIncidents = 2
  MaxUpdates = 2
  MaxTime = 4
SPECIFICATION Spec
INVARIANTS
  TimestampsWitnessStatus
  AuditTellsStatus
  AuditChain
PROPERTIES
  OnlyAutoCloseIsOverwritten
  ClosesOnlyStale
  StaleEventuallyClosed
CHECK_DEADLOCK FALSE
