SPECIFICATION Spec
CONSTANTS
  NRequests = 2
  NPids = 4
  MaxCrashes = 0
  PrepareBaseRetries = 1
  PromptChildren = TRUE
  PromptCallers = TRUE
  d1 = d1
  d2 = d2
  Domains = {d1, d2}
  NoDomain = NoDomain
  Args <- AfterRetryArgs
  Limit <- TwoEach
INVARIANTS
  DependencyRespected
CHECK_DEADLOCK FALSE
