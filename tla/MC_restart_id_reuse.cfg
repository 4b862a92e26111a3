\* The node monitor across one master restart, with failing pods.
CONSTANTS
  NumWorkers = 1
  MaxNodeId = 2
  MaxRelaunch = 2
  MaxMemory = 1
  MaxFaults = 3
  MaxPlans = 1
  EventThreads <- MonitorOnly
  PodFailReasons = {"none"}
  AllReduce = FALSE
  RelaunchAlways = FALSE
  WaitPendingRelaunch = FALSE
  RemoveExitedNode = TRUE
  TrainingFailureReports = FALSE
  ServiceAddrReports = FALSE
  StopEnabled = FALSE
  RestartEnabled = TRUE
  EventErrors = FALSE
  MasterCalls = {}
SPECIFICATION Spec
PROPERTY FreshReplicaIds
CHECK_DEADLOCK FALSE
