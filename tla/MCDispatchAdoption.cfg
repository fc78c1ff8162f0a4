\* A stage left by one attempt is adopted: may its commit pass the check at
\* the very moment its lease was anchored?
SPECIFICATION DispatchSpec
CONSTANTS
  r1 = r1 e1 = e1 w1 = w1 w2 = w2 d1 = d1 d2 = d2
  NoRun = NoRun NoEffect = NoEffect NoWorker = NoWorker NoEvidence = NoEvidence
  Runs <- OneRun
  Effects <- OneEffect
  Workers <- TwoWorkers
  Evidence <- References
  OfferedEvents = {"DISCOVER"}
  LeaseTTLs = {1, 3}
  ExecutionBudgets = {4}
  CommitBudgets = {2}
  MinimumTTLs = {0, 1, 2}
  Dispatchers <- TwoThreads
  Deployments <- OwnWorker
  Timeout = 1
  Grace = 1
  Termination = 1
  CommitBudget = 2
  MutationBudget = 1
  MaxTime = 1
  MaxRevision = 1
  MaxFence = 2
INVARIANTS
  AnchoredAdoptionMayCommit
SYMMETRY Interchangeable
CHECK_DEADLOCK FALSE
