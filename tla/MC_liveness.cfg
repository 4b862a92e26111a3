\* Monitor and heartbeat threads under the fairness of their loops; lost
\* watch events, one killed, lost or hung pod. MaxRelaunch = 0 keeps the
\* budget-limited relaunches (no_heartbeat) from using up the node ids.
CONSTANTS
  NumWorkers = 1
  MaxNodeId = 1
  MaxRelaunch = 0
  MaxMemory = 1
  MaxFaults = 1
  MaxPlans = 1
  EventThreads <- MonitorHeartbeat
  PodFailReasons = {"killed"}
  AllReduce = FALSE
  RelaunchAlways = FALSE
  WaitPendingRelaunch = FALSE
  RemoveExitedNode = TRUE
  TrainingFailureReports = FALSE
  ServiceAddrReports = FALSE
  StopEnabled = FALSE
  RestartEnabled = FALSE
  EventErrors = FALSE
  MasterCalls = {}
SPECIFICATION LiveSpec
 
PROPERTY KilledWorkerRelaunched
CHECK_DEADLOCK FALSE
