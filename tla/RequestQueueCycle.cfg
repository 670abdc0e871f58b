SPECIFICATION FairSpec
CONSTANTS
  NRequests = 2
  NPids = 4
  MaxCrashes = 0
  PrepareBaseRetries = 1
  PromptChildren = TRUE
  PromptCallers = FALSE
  d1 = d1
  d2 = d2
  Domains = {d1, d2}
  NoDomain = NoDomain
  Args <- CycleArgs
  Limit <- TwoEach
PROPERTIES
  EventuallyDone
CHECK_DEADLOCK FALSE
