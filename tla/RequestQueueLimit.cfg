SPECIFICATION Spec
CONSTANTS
  NRequests = 3
  NPids = 4
  MaxCrashes = 0
  PrepareBaseRetries = 1
  PromptChildren = FALSE
  PromptCallers = TRUE
  d1 = d1
  d2 = d2
  Domains = {d1, d2}
  NoDomain = NoDomain
  Args <- DiskArgs
  Limit <- OneEach
INVARIANTS
  LimitRespected
CHECK_DEADLOCK FALSE
