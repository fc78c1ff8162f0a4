\* One run through every lifecycle path, planning an effect on the way; the
\* clock stands still and leases are dead on arrival, so effects stay planned.
SPECIFICATION Spec
CONSTANTS
  r1 = r1 r2 = r2 e1 = e1 e2 = e2 w1 = w1 w2 = w2 v1 = v1 v2 = v2
  NoRun = NoRun NoEffect = NoEffect NoWorker = NoWorker NoEvidence = NoEvidence
  Runs <- OneRun
  Effects <- OneEffect
  Workers <- OneWorker
  Evidence <- OneReference
  OfferedEvents <- AllEvents
  LeaseTTLs = {0}
  ExecutionBudgets = {1}
  CommitBudgets = {1}
  MinimumTTLs = {0}
  MaxTime = 0
  MaxRevision = 17
  MaxFence = 1
INVARIANTS
  LogExplainsRun
  ProductionNeedsEveryGate
CHECK_DEADLOCK FALSE
