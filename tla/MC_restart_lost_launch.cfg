\* Two workers and the node monitor under the fairness of its loop; the
\* master may crash and restart once, with exited pods removed.
CONSTANTS
  NumWorkers = 2
  MaxNodeId = 2
  MaxRelaunch = 1
  MaxMemory = 1
  MaxFaults = 1
  MaxPlans = 1
  EventThreads <- MonitorOnly
  PodFailReasons = {"killed"}
  AllReduce = FALSE
  RelaunchAlways = FALSE
  WaitPendingRelaunch = FALSE
  RemoveExitedNode = TRUE
  TrainingFailureReports = FALSE
  ServiceAddrReports = FALSE
  StopEnabled = FALSE
  RestartEnabled = TRUE
  EventErrors = FALSE
  MasterCalls = {}
SPECIFICATION LiveSpec
PROPERTY InitialNodeEventuallyLaunched
CHECK_DEADLOCK FALSE
