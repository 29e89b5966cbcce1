SPECIFICATION FairSpec
CONSTANTS
  c1 = c1
  c2 = c2
  NumJobs = 1
  NumDeliveries = 3
  Clients = {c1}
  Sweepers = {c1}
  MaxRetries = 2
  SweepLimit = 1
  Milestones = {50}
  Faults = {"client", "broker"}
INVARIANTS
  RowsAndTasksAgree
PROPERTIES
  ImplementsExecution
  OnlyLateMarksStrand
