\* stop() runs between the relaunch decision and _relaunch_node.
CONSTANTS
  NumWorkers = 1
  MaxNodeId = 2
  MaxRelaunch = 1
  MaxMemory = 1
  MaxFaults = 2
  MaxPlans = 1
  EventThreads <- MonitorOnly
  PodFailReasons <- AllPodFailReasons
  AllReduce = FALSE
  RelaunchAlways = FALSE
  WaitPendingRelaunch = FALSE
  RemoveExitedNode = FALSE
  TrainingFailureReports = FALSE
  ServiceAddrReports = FALSE
  StopEnabled = TRUE
  RestartEnabled = FALSE
  EventErrors = FALSE
  MasterCalls = {}
SPECIFICATION Spec
PROPERTY NoLaunchAfterStop
CHECK_DEADLOCK FALSE
