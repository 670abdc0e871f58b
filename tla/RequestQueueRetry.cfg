SPECIFICATION FairSpec
CONSTANTS
  NRequests = 3
  NPids = 6
  MaxCrashes = 0
  PrepareBaseRetries = 1
  PromptChildren = TRUE
  PromptCallers = TRUE
  d1 = d1
  d2 = d2
  Domains = {d1, d2}
  NoDomain = NoDomain
  Args <- RetryArgs
  Limit <- OneEach
INVARIANTS
  TypeOK
PROPERTIES
  EventuallyDone
CHECK_DEADLOCK FALSE
