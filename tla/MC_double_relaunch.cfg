\* An agent's failure report races the node monitor's relaunch of the same node.
CONSTANTS
  NumWorkers = 1
  MaxNodeId = 2
  MaxRelaunch = 1
  MaxMemory = 1
  MaxFaults = 2
  MaxPlans = 1
  EventThreads <- MonitorOnly
  PodFailReasons <- AllPodFailReasons
  AllReduce = FALSE
  RelaunchAlways = FALSE
  WaitPendingRelaunch = FALSE
  RemoveExitedNode = FALSE
  TrainingFailureReports = TRUE
  ServiceAddrReports = FALSE
  StopEnabled = FALSE
  RestartEnabled = FALSE
  EventErrors = FALSE
  MasterCalls = {}
SPECIFICATION Spec
INVARIANT NoDoubleRelaunch
CHECK_DEADLOCK FALSE
