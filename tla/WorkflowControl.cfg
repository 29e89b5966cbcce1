SPECIFICATION Spec
CONSTANTS
  c1 = c1
  c2 = c2
  NumSteps = 2
  RetryLimit = 1
  Optional = {1}
  StepType <- Preparation
  Callers = {c1, c2}
  Controllers = {c2}
  Faults = {"crash", "preflight", "disable"}
INVARIANTS
  StepsStayLegal
CHECK_DEADLOCK FALSE
