---------------------------- MODULE MCJobManager ----------------------------
(***************************************************************************)
(* Model-checking instances of JobManager.  The .cfg files pick the        *)
(* threads and handlers of each run; the values below are shared.          *)
(***************************************************************************)
EXTENDS JobManager

\* The event threads of a run.
MonitorOnly      == {"monitor"}
MonitorHeartbeat == {"monitor", "heartbeat"}
AllThreads       == {"monitor", "heartbeat", "diagnosis"}

\* Every exit reason the watcher can report for a failed worker pod.
AllPodFailReasons == {"killed", "oom", "fatal_error", "none"}
=============================================================================
