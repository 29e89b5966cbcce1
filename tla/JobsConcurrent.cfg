SPECIFICATION FairSpec
CONSTANTS
  c1 = c1
  c2 = c2
  NumJobs = 1
  NumDeliveries = 2
  Clients = {c1, c2}
  Sweepers = {c2}
  MaxRetries = 1
  SweepLimit = 1
  Milestones = {50}
  Faults = {"worker", "client", "broker"}
INVARIANTS
  TypeOK
  RetryBudget
  WorkIsNotForgotten
PROPERTIES
  SettledIsFinal
  BrokerDrains
