\* Every thread and handler: monitor, heartbeat, diagnosis, agent reports, stop().
CONSTANTS
  NumWorkers = 1
  MaxNodeId = 1
  MaxRelaunch = 1
  MaxMemory = 1
  MaxFaults = 1
  MaxPlans = 1
  EventThreads <- AllThreads
  PodFailReasons = {"killed"}
  AllReduce = FALSE
  RelaunchAlways = FALSE
  WaitPendingRelaunch = FALSE
  RemoveExitedNode = TRUE
  TrainingFailureReports = TRUE
  ServiceAddrReports = TRUE
  StopEnabled = TRUE
  RestartEnabled = FALSE
  EventErrors = FALSE
  MasterCalls = {}
SPECIFICATION Spec
PROPERTY SucceededIsFinal
CHECK_DEADLOCK FALSE
