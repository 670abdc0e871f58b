SPECIFICATION FairSpec
CONSTANTS
  NRequests = 3
  NPids = 6
  MaxCrashes = 1
  PrepareBaseRetries = 1
  PromptChildren = TRUE
  PromptCallers = TRUE
  d1 = d1
  d2 = d2
  Domains = {d1, d2}
  NoDomain = NoDomain
  Args <- CrashArgs
  Limit <- OneEach
INVARIANTS
  WorkingIsTracked
PROPERTIES
  EventuallyDone
CHECK_DEADLOCK FALSE
