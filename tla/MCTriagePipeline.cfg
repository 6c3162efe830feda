\* Ingest and the late-enrichment sweep.
CONSTANTS
  g1 = g1
  MaxAlerts = 3
  Groups <- OneGroup
  GroupOf <- AllTogether
  LateSweepEnabled = TRUE
  BatchLimit = 3
  MaxRestarts = 1
SPECIFICATION Spec
INVARIANTS
  RecordMatchesAudit
  EscalationHasIncident
  IncidentsHavePrimaries
  OpenIncidentsBounded
CHECK_DEADLOCK FALSE
