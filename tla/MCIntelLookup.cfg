\* Two runs of the chain over shared buckets and a shared cache.
CONSTANTS
  ip = ip
  mail = mail
  Workers <- MCWorkers
  ingest = ingest
  sweep = sweep
  Indicators <- MCIndicators
  Batches <- MCBatches
  Providers <- MCProviders
  Handles <- MCHandles
  Limited <- MCLimited
  TTL <- MCTTL
  MaxEntries = 1
  Capacity = 1
  TokenTicks = 1
  MaxAttempts = 2
  Stored <- MCStored
  MaxRuns = 2
  MaxTime = 2
SPECIFICATION Spec
INVARIANTS
  LookupsWithinQuota
  ServedVerdictsAreFresh
  CacheBounded
  StatusTellsCoverage
PROPERTY RunsEnd
CHECK_DEADLOCK FALSE
