\* The assistant's machine lacks a language server, and so does CI.
SPECIFICATION WorkflowSpec
CONSTANTS
  HasServers = FALSE
  CiHasServers = FALSE
  MaxEdits = 1
INVARIANTS
  WorkflowTypeOK ImplementationNeedsHuman ReadyPassesCi
PROPERTIES
  DecisionsAreKept LoopReachesReady
CHECK_DEADLOCK FALSE
