\* The node monitor with agents that report their service address.
CONSTANTS
  NumWorkers = 1
  MaxNodeId = 2
  MaxRelaunch = 1
  MaxMemory = 1
  MaxFaults = 2
  MaxPlans = 1
  EventThreads <- MonitorOnly
  PodFailReasons = {"killed"}
  AllReduce = FALSE
  RelaunchAlways = FALSE
  WaitPendingRelaunch = FALSE
  RemoveExitedNode = FALSE
  TrainingFailureReports = FALSE
  ServiceAddrReports = TRUE
  StopEnabled = FALSE
  RestartEnabled = FALSE
  EventErrors = FALSE
  MasterCalls = {}
SPECIFICATION Spec
PROPERTY ExitedIsFinal
CHECK_DEADLOCK FALSE
