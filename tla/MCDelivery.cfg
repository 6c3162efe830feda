\* The script, its spool, the endpoint and n8n, each killed at any step.
CONSTANTS
  e1 = e1
  bad = bad
  low = low
  Events <- MCEvents
  Filtered <- MCFiltered
  Invalid <- MCInvalid
  MaxAttempts = 2
  FlushBatch = 1
  MaxEntries = 1
  MaxAge = 2
  Window = 1
  MaxRetries = 2
  MaxBacklog = 2
  MaxTime = 3
SPECIFICATION Spec
INVARIANTS
  NoSilentLoss
  NotifiedOncePerWindow
  DeliveredMeansReceived
PROPERTY InvocationEnds
CHECK_DEADLOCK FALSE
