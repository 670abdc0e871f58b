SPECIFICATION Spec
CONSTANTS
  NRequests = 5
  NPids = 5
  MaxCrashes = 0
  PrepareBaseRetries = 1
  PromptChildren = TRUE
  PromptCallers = TRUE
  d1 = d1
  d2 = d2
  Domains = {d1, d2}
  NoDomain = NoDomain
  Args <- CloneArgs
  Limit <- TwoEach
INVARIANTS
  LimitRespected
  OneProcessPerRequest
  SameCommandExclusive
  NotDoneEarly
  DependencyRespected
PROPERTIES
  KeepsPromises
CHECK_DEADLOCK FALSE
