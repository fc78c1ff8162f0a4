\* Two processes open one file, new or left by any release, and work in it.
SPECIFICATION PersistentSpec
CONSTANTS
  r1 = r1 e1 = e1 w1 = w1 v1 = v1 o1 = o1 o2 = o2
  NoRun = NoRun NoEffect = NoEffect NoWorker = NoWorker NoEvidence = NoEvidence
  Runs <- OneRun
  Effects <- OneEffect
  Workers <- OneWorker
  Evidence <- OneReference
  OfferedEvents = {"DISCOVER"}
  LeaseTTLs = {1}
  ExecutionBudgets = {1}
  CommitBudgets = {1}
  MinimumTTLs = {0}
  MaxTime = 1
  MaxRevision = 1
  MaxFence = 2
  Openers <- TwoOpeners
  MaxFaults = 2
INVARIANTS
  NoMixedSchema OpenedIsSound RefusedForCause
PROPERTIES
  OpeningKeepsFacts NeverDowngraded PersistentOpenerGetsIn
CHECK_DEADLOCK FALSE
