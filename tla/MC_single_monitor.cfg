\* The node monitor with the master's teardown calls (stop, clear_all_nodes)
\* racing the event pipeline, and exceptions that _process_event_safely
\* swallows.  remove_training_nodes is left out: its unlocked writes break
\* the refinement (run remove_succeeded).
CONSTANTS
  NumWorkers = 1
  MaxNodeId = 2
  MaxRelaunch = 1
  MaxMemory = 1
  MaxFaults = 1
  MaxPlans = 1
  EventThreads <- MonitorOnly
  PodFailReasons <- AllPodFailReasons
  AllReduce = FALSE
  RelaunchAlways = FALSE
  WaitPendingRelaunch = TRUE
  RemoveExitedNode = TRUE
  TrainingFailureReports = FALSE
  ServiceAddrReports = FALSE
  StopEnabled = TRUE
  RestartEnabled = FALSE
  EventErrors = TRUE
  MasterCalls = {"clear_all_nodes"}
SPECIFICATION Spec
PROPERTY NodeLifecycleRefined
CHECK_DEADLOCK FALSE
