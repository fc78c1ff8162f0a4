\* Two threads, two effects whose patches share a file, two attempts of one
\* and one of the other, one edit of the shared file at any time.
SPECIFICATION Spec
CONSTANTS
  t1 = t1 t2 = t2 e1 = e1 e2 = e2 a = a b = b
  Nobody = Nobody
  Threads <- TwoThreads
  Effects <- TwoEffects
  Files <- TwoFiles
  Declared <- Overlapping
  MaxFence <- Attempts
  Open <- SharedFile
  MaxEdits = 1
INVARIANTS
  CommittedStays
  RecordedStageLoads
PROPERTIES
  NoLostWork

SYMMETRY SwapThreads
CHECK_DEADLOCK FALSE
