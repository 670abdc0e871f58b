SPECIFICATION Spec
CONSTANTS
  NRequests = 4
  NPids = 4
  MaxCrashes = 0
  PrepareBaseRetries = 1
  PromptChildren = TRUE
  PromptCallers = TRUE
  d1 = d1
  d2 = d2
  Domains = {d1, d2}
  NoDomain = NoDomain
  Args <- AutostartArgs
  Limit <- OneEach
INVARIANTS
  DependencyRespected
CHECK_DEADLOCK FALSE
