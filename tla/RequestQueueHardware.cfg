SPECIFICATION Spec
CONSTANTS
  NRequests = 4
  NPids = 5
  MaxCrashes = 0
  PrepareBaseRetries = 1
  PromptChildren = TRUE
  PromptCallers = TRUE
  d1 = d1
  d2 = d2
  Domains = {d1, d2}
  NoDomain = NoDomain
  Args <- HardwareArgs
  Limit <- OneEach
INVARIANTS
  HardwareInLine
  HardwareInOrder
CHECK_DEADLOCK FALSE
