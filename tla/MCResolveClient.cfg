SPECIFICATION FairSpec
CHECK_DEADLOCK FALSE
CONSTANTS
  MaxCalls = 3
  Retries <- MCRetries
  Kinds <- MCKinds
  MaxJobs = 4
INVARIANTS
  TypeOK
  OneJobAtATime
PROPERTIES
  NewestIsDelivered
  NothingLeftBehind
