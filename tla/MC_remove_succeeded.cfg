\* remove_training_nodes racing the node monitor: a worker's pod succeeds
\* between the teardown's status check and its writes.
CONSTANTS
  NumWorkers = 1
  MaxNodeId = 1
  MaxRelaunch = 0
  MaxMemory = 0
  MaxFaults = 0
  MaxPlans = 1
  EventThreads <- MonitorOnly
  PodFailReasons <- AllPodFailReasons
  AllReduce = FALSE
  RelaunchAlways = FALSE
  WaitPendingRelaunch = FALSE
  RemoveExitedNode = FALSE
  TrainingFailureReports = FALSE
  ServiceAddrReports = FALSE
  StopEnabled = FALSE
  RestartEnabled = FALSE
  EventErrors = FALSE
  MasterCalls = {"remove_training_nodes"}
SPECIFICATION Spec
PROPERTY SucceededIsFinal
CHECK_DEADLOCK FALSE
