\* The node monitor across a master restart: pods are re-added from the list,
\* and a remove_training_nodes loop in progress dies with the master.
\* MaxRelaunch = 0: only killed workers are relaunched (they skip the budget),
\* which is enough for a relaunch before and after a restart.
CONSTANTS
  NumWorkers = 1
  MaxNodeId = 2
  MaxRelaunch = 0
  MaxMemory = 0
  MaxFaults = 2
  MaxPlans = 1
  EventThreads <- MonitorOnly
  PodFailReasons <- AllPodFailReasons
  AllReduce = FALSE
  RelaunchAlways = FALSE
  WaitPendingRelaunch = FALSE
  RemoveExitedNode = TRUE
  TrainingFailureReports = FALSE
  ServiceAddrReports = FALSE
  StopEnabled = FALSE
  RestartEnabled = TRUE
  EventErrors = FALSE
  MasterCalls = {"remove_training_nodes"}
SPECIFICATION Spec
INVARIANT TypeOK
CHECK_DEADLOCK FALSE
