\* From events and policy files to stored assessments.
CONSTANTS
  Severity <- MCSeverity
  Groups <- MCGroups
  Criticality <- MCCriticality
  Recurrence <- MCRecurrence
  Evidence <- MCEvidence
  Coverage <- MCCoverage
  Intel <- MCIntel
  Subtract = 20
  Tiers <- MCTiers
  Actions <- MCActions
  AllowlistedAction = "suppress"
  Events <- MCEvents
  FieldType <- MCFieldType
  InCapitals <- MCInCapitals
  Inside <- MCInside
  TextPlace <- MCTextPlace
  Private = {0}
  IncludePrivate = FALSE
  IncludeFullLog = FALSE
  MaxIocs = 2
  AssetFile <- MCAssetFile
  AllowFile <- MCAllowFile
  MaxAssets = 3
  MaxEntries = 2
  VtRecords <- MCVtRecords
  MispRecords <- MCMispRecords
SPECIFICATION Spec
INVARIANTS
  ListedAssetsAnswer
  AllowlistedIsSuppressed
  StoredVerdictStands
PROPERTY
  ScoreFollowsIntelligence
CONSTRAINT ServedInventories
CHECK_DEADLOCK FALSE
