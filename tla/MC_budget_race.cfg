\* The node monitor and the heartbeat monitor race on one node's relaunch_count.
CONSTANTS
  NumWorkers = 1
  MaxNodeId = 2
  MaxRelaunch = 1
  MaxMemory = 1
  MaxFaults = 2
  MaxPlans = 1
  EventThreads <- MonitorHeartbeat
  PodFailReasons <- AllPodFailReasons
  AllReduce = FALSE
  RelaunchAlways = FALSE
  WaitPendingRelaunch = FALSE
  RemoveExitedNode = FALSE
  TrainingFailureReports = FALSE
  ServiceAddrReports = FALSE
  StopEnabled = FALSE
  RestartEnabled = FALSE
  EventErrors = FALSE
  MasterCalls = {}
SPECIFICATION Spec
INVARIANT RelaunchBudget
CHECK_DEADLOCK FALSE
