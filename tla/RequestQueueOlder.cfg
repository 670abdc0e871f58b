SPECIFICATION Spec
CONSTANTS
  NRequests = 4
  NPids = 5
  MaxCrashes = 0
  PrepareBaseRetries = 1
  PromptChildren = TRUE
  PromptCallers = TRUE
  d1 = d1
  d2 = d2
  Domains = {d1, d2}
  NoDomain = NoDomain
  Args <- OlderArgs
  Limit <- OneEach
INVARIANTS
  HardwareInLine
CHECK_DEADLOCK FALSE
