SPECIFICATION Spec
CONSTANTS
  Procs = {p1, p2}
  Messages = {m1, bad}
  Malformed = {bad}
  MaxGeneration = 4
  MaxCrashes = 1
  DeliveryModes = {"single", "business_batch"}
  MaxSequence = 2
  MaxOrdinal = 2
  BatchMembers = 2
  UnitItems = 2
  PendingMax = 2
  HistoryMax = 3
  DedupeMax = 2
  MaxRevisions = 1
  MaxAudits = 1
CHECK_DEADLOCK FALSE
INVARIANTS
  TypeOK
  AckAfterCustody
  StoppedMeansClosed
  CapacityPauseResumes
  LedgerMatches
  ShardOrder
  OwedRecoverable
PROPERTIES
  StopCompletes
  BacklogDrains
