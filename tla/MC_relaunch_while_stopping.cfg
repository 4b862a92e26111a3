\* The monitor thread, agents reporting SUCCEEDED_EXITED and training
\* failures.
CONSTANTS
  NumWorkers = 1
  MaxNodeId = 2
  MaxRelaunch = 1
  MaxMemory = 1
  MaxFaults = 2
  MaxPlans = 1
  EventThreads <- MonitorOnly
  PodFailReasons = {"none"}
  AllReduce = FALSE
  RelaunchAlways = FALSE
  WaitPendingRelaunch = FALSE
  RemoveExitedNode = TRUE
  TrainingFailureReports = TRUE
  ServiceAddrReports = FALSE
  StopEnabled = FALSE
  RestartEnabled = FALSE
  EventErrors = FALSE
  MasterCalls = {}
SPECIFICATION Spec
PROPERTY NoRelaunchWhileStopping
CHECK_DEADLOCK FALSE
