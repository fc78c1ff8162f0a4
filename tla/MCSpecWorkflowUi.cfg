\* A branch that changes UI files, judged by CI.
SPECIFICATION WorkflowSpec
CONSTANTS
  HasServers = TRUE
  CiHasServers = TRUE
  MaxEdits = 0
INVARIANT UiFilesNeedApproval
CHECK_DEADLOCK FALSE
