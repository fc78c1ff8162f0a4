\* One effect, two workers and fences: takeover, adoption, reconciliation and
\* wall-clock steps in every order.
SPECIFICATION Spec
CONSTANTS
  r1 = r1 r2 = r2 e1 = e1 e2 = e2 w1 = w1 w2 = w2 v1 = v1 v2 = v2
  NoRun = NoRun NoEffect = NoEffect NoWorker = NoWorker NoEvidence = NoEvidence
  Runs <- TwoRuns
  Effects <- OneEffect
  Workers <- TwoWorkers
  Evidence <- TwoReferences
  OfferedEvents = {"DISCOVER"}
  LeaseTTLs = {0, 1}
  ExecutionBudgets = {2}
  CommitBudgets = {1}
  MinimumTTLs = {0, 1}
  MaxTime = 3
  MaxRevision = 1
  MaxFence = 3
INVARIANTS
  TypeOK
  EvidenceFollowsState
  RestartOnlyAfterAbsence
  AttemptInv
PROPERTIES
  TakeoverOnlyAfterExpiry
  ExpiredLeaseStaysDead
  ChangedOnlyUnderLiveLease
  CompletedIsFinal
  ImplementsEffectLifecycle
CHECK_DEADLOCK FALSE
