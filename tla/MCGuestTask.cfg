\* Two tasks of one guest, so that one may remove the control directory under
\* the other; every task may be cancelled, the runner of one may be killed and its
\* model may leave members of its group behind.
SPECIFICATION Spec
CONSTANTS
  t1 = t1 t2 = t2
  Tasks <- TwoTasks
  Unruly <- OneTask
INVARIANTS
  CancelledIsSeen
  NothingLeftBehind
PROPERTIES
  CancelledStops
CHECK_DEADLOCK FALSE
