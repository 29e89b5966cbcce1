SPECIFICATION FairSpec
CONSTANTS
  c1 = c1
  c2 = c2
  NumSteps = 6
  RetryLimit = 1
  Optional = {1, 6}
  StepType <- Production
  Callers = {c1}
  Controllers = {}
  Faults = {}
INVARIANTS
  RunsEndAsTheySay
PROPERTIES
  ImplementsContract
  CallsEnd
CHECK_DEADLOCK FALSE
