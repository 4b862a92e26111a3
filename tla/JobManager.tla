------------------------------ MODULE JobManager ------------------------------
(***************************************************************************)
(* DistributedJobManager (dlrover/python/master/node/dist_job_manager.py): *)
(* the node event pipeline, the relaunch policy and the manager's public   *)
(* mutations, for the workers of one job.                                  *)
(*                                                                         *)
(* Threads that run _process_event concurrently (the node monitor, the     *)
(* heartbeat monitor, the diagnosis caller) each go through three steps:   *)
(* the unlocked prologue (deletion filter and update_info), the section    *)
(* under self._lock (state flow, status, relaunch decision), and the       *)
(* unlocked _relaunch_node.  Every other handler that takes the lock is a  *)
(* single step.  The cluster (pods), the agents' RPCs and the scaler that  *)
(* actuates scale plans are the environment.                               *)
(***************************************************************************)
EXTENDS Integers, Sequences, FiniteSets, FiniteSetsExt, Functions, TLC, NodeStateFlow

CONSTANTS
  NumWorkers,             \* workers of the job; their ranks are 0..NumWorkers-1
  MaxNodeId,              \* bound on node ids (ids are never reused)
  MaxRelaunch,            \* node.max_relaunch_count = min(restart_count, 5)
  MaxMemory,              \* NodeResourceLimit.MAX_MEMORY, as a memory level
  MaxFaults,              \* bound on pod faults, diagnoses and failure reports
  MaxPlans,               \* bound on removal plans waiting for the scaler
  EventThreads,           \* threads calling _process_event
  PodFailReasons,         \* exit reasons the watcher reports for failed pods
  AllReduce,              \* distribution_strategy == ALLREDUCE
  RelaunchAlways,         \* _dlrover_context.relaunch_always
  WaitPendingRelaunch,    \* self._wait_pending_relaunch
  RemoveExitedNode,       \* job_args.remove_exited_node
  TrainingFailureReports, \* agents call handle_training_failure
  ServiceAddrReports,     \* agents call update_node_service_addr
  StopEnabled,            \* the master calls stop()
  RestartEnabled,         \* the master process crashes and is restarted
  EventErrors,            \* an exception escapes inside _process_event
  MasterCalls             \* calls the master's main loop makes

ASSUME NumWorkers \in Nat \ {0}
ASSUME MaxRelaunch \in 0..5
ASSUME EventThreads \subseteq {"monitor", "heartbeat", "diagnosis"}
ASSUME PodFailReasons \subseteq {"none", "killed", "oom", "fatal_error"}
ASSUME {AllReduce, RelaunchAlways, WaitPendingRelaunch, RemoveExitedNode,
        TrainingFailureReports, ServiceAddrReports, StopEnabled,
        RestartEnabled, EventErrors} \subseteq BOOLEAN
ASSUME MasterCalls \subseteq {"clear_all_nodes", "remove_training_nodes"}

Ranks == 0 .. NumWorkers - 1
Ids   == 0 .. MaxNodeId
Phases == {"pending", "running", "succeeded", "failed"}

VARIABLES
  store,        \* job_nodes[WORKER]: node id -> node record (job context)
  pods,         \* the cluster: node id -> pod of that node
  gone,         \* pods the cluster lost while alive: id -> the lost pod
  pc,           \* step of each event thread in _process_event
  ev,           \* the NodeEvent each event thread is processing
  hbQueue,      \* dead-node events of the heartbeat monitor's last scan
  watchDeleted, \* DELETED events the watch stream has yet to deliver
  reports,      \* training failures agents reported, not yet handled
  plans,        \* scale plans handed to the scaler, oldest first
  nextId,       \* the worker manager's node id iterator
  enableRelaunch, \* self._enable_relaunch_node
  stopped,      \* self._stopped
  jobStage,     \* job_ctx.get_job_stage()
  pendingRelaunchCount, \* self._pending_relaunch_count
  faults,       \* faults injected so far (bounded by MaxFaults)
  relaunches,   \* history: times each node was relaunched, any path
  budgetUsed,   \* history: relaunches per rank decided by _should_relaunch
                \* for an exit reason other than "killed"
  rtn           \* the loop of remove_training_nodes in progress

vars == <<store, pods, gone, pc, ev, hbQueue, watchDeleted, reports, plans, nextId, enableRelaunch,
          stopped, jobStage, pendingRelaunchCount, faults, relaunches,
          budgetUsed, rtn>>

NoEvent == [type |-> "none", id |-> 0, status |-> "none", reason |-> "none",
            count |-> 0, released |-> FALSE]

\* A worker Node as the manager stores it.
NewNode(rank, count, mem) ==
  [rank |-> rank, status |-> "initial", reason |-> "none", count |-> count,
   relaunchable |-> TRUE, released |-> FALSE, mem |-> mem,
   hb |-> FALSE, succeededExited |-> FALSE, recoveredOom |-> FALSE]

Event(type, id, status, reason, count, released) ==
  [type |-> type, id |-> id, status |-> status, reason |-> reason,
   count |-> count, released |-> released]

Plan(launch, remove) == [launch |-> launch, remove |-> remove]

\* A node the scaler is to launch: its rank and relaunch_count label.
Launch(rank, count) == [rank |-> rank, count |-> count]

\* The initial scale plan: one worker per rank, ids 0..NumWorkers-1.
InitialPlan == Plan([i \in Ranks |-> Launch(i, 0)], {})

NoLaunch == [i \in {} |-> 0]

\* remove_training_nodes not called: the nodes it has yet to visit, the
\* node it found pending or running and has yet to write, the nodes it put
\* into its plan.
RtnIdle == [phase |-> "idle", todo |-> {}, cur |-> {}, removed |-> {}]

PodRunning(i) == i \in DOMAIN pods /\ pods[i].phase = "running"

Beating(i) == i \in DOMAIN pods /\ pods[i].beating

\* The watcher's DELETED event for the pod of node i, about to be removed.
WatchEvent(i) ==
  Event("DELETED", i, "deleted", pods[i].reason, pods[i].count, FALSE)

-----------------------------------------------------------------------------
(* start(): the initial nodes are seeded and the initial scale plan is     *)
(* emitted (the master is new, no worker is running yet).                  *)

Init ==
  /\ store = [i \in Ranks |-> NewNode(i, 0, 0)]
  /\ pods = NoLaunch
  /\ gone = NoLaunch
  /\ pc = [t \in EventThreads |-> "idle"]
  /\ ev = [t \in EventThreads |-> NoEvent]
  /\ hbQueue = <<>>
  /\ watchDeleted = {}
  /\ reports = {}
  /\ plans = <<InitialPlan>>
  /\ nextId = NumWorkers
  /\ enableRelaunch = TRUE
  /\ stopped = FALSE
  /\ jobStage = "running"
  /\ pendingRelaunchCount = 0
  /\ faults = 0
  /\ relaunches = [i \in Ids |-> 0]
  /\ budgetUsed = [r \in Ranks |-> 0]
  /\ rtn = RtnIdle

-----------------------------------------------------------------------------
(* Event sources.                                                          *)

Begin(t, e) ==
  /\ pc' = [pc EXCEPT ![t] = "pre"]
  /\ ev' = [ev EXCEPT ![t] = e]

\* The Node the watcher builds from the pod of node i.
ListedNode(i) ==
  [NewNode(pods[i].rank, pods[i].count, 0) EXCEPT
     !.status = pods[i].phase, !.reason = pods[i].reason]

\* _monitor_nodes / _process_list_nodes: a listed (or watched) pod becomes
\* a MODIFIED event built from the pod; the watcher's node is not released.
\* A listed pod of a node the store does not know (after a master restart)
\* is first re-added as it is, without touching the id iterator.
ListedPodEvent(i) ==
  /\ "monitor" \in EventThreads
  /\ pc["monitor"] = "idle"
  /\ i \in DOMAIN pods
  /\ store' = IF i \in DOMAIN store THEN store
              ELSE store @@ (i :> ListedNode(i))
  /\ Begin("monitor", Event("MODIFIED", i, pods[i].phase, pods[i].reason,
                            pods[i].count, FALSE))
  /\ UNCHANGED <<pods, gone, hbQueue, watchDeleted, reports, plans, nextId, enableRelaunch,
                 stopped, jobStage, pendingRelaunchCount, faults, relaunches,
                 budgetUsed, rtn>>

\* _process_list_nodes: a known node past INITIAL, not released and absent
\* from the list is deleted without the event: a released copy, DELETED.
MissingNodeEvent(i) ==
  /\ "monitor" \in EventThreads
  /\ pc["monitor"] = "idle"
  /\ i \in DOMAIN store /\ i \notin DOMAIN pods
  /\ store[i].status # "initial" /\ ~store[i].released
  /\ Begin("monitor", Event("DELETED", i, "deleted", store[i].reason,
                            store[i].count, TRUE))
  /\ UNCHANGED <<store, pods, gone, hbQueue, watchDeleted, reports, plans, nextId, enableRelaunch,
                 stopped, jobStage, pendingRelaunchCount, faults, relaunches,
                 budgetUsed, rtn>>

\* _process_list_nodes: an INITIAL node, not released and not listed,
\* while a listed pod of the same rank has a larger id, was relaunched
\* without the event: a released copy, DELETED with reason relaunched.
SupersededInitialEvent(i) ==
  /\ "monitor" \in EventThreads
  /\ pc["monitor"] = "idle"
  /\ i \in DOMAIN store /\ i \notin DOMAIN pods
  /\ store[i].status = "initial" /\ ~store[i].released
  /\ \E j \in DOMAIN pods : pods[j].rank = store[i].rank /\ i < j
  /\ Begin("monitor", Event("DELETED", i, "deleted", "relaunched",
                            store[i].count, TRUE))
  /\ UNCHANGED <<store, pods, gone, hbQueue, watchDeleted, reports, plans,
                 nextId, enableRelaunch, stopped, jobStage,
                 pendingRelaunchCount, faults, relaunches, budgetUsed, rtn>>

\* _monitor_nodes: the watch stream delivers a pod's DELETED event.
WatchedDeletedEvent(e) ==
  /\ "monitor" \in EventThreads
  /\ pc["monitor"] = "idle"
  /\ e \in watchDeleted
  /\ Begin("monitor", e)
  /\ watchDeleted' = watchDeleted \ {e}
  /\ UNCHANGED <<store, pods, gone, hbQueue, reports, plans, nextId, enableRelaunch,
                 stopped, jobStage, pendingRelaunchCount, faults, relaunches,
                 budgetUsed, rtn>>

\* A watch stream that breaks loses its undelivered events (line 468); the
\* next list() makes up for them.
WatchLost(e) ==
  /\ e \in watchDeleted
  /\ watchDeleted' = watchDeleted \ {e}
  /\ UNCHANGED <<store, pods, gone, pc, ev, hbQueue, reports, plans, nextId,
                 enableRelaunch, stopped, jobStage, pendingRelaunchCount,
                 faults, relaunches, budgetUsed, rtn>>

\* _get_dead_node_event: a running node that has sent a heartbeat but no
\* longer does (the 600 s window is abstracted to "the pod stopped beating").
Dead(i) ==
  /\ store[i].hb
  /\ store[i].status = "running"
  /\ ~store[i].succeededExited
  /\ ~Beating(i)

\* _monitor_node_heart_beat, first half: under the lock, every dead node
\* yields a copy with status FAILED and reason no_heartbeat.
HeartbeatScan ==
  LET dead == {i \in DOMAIN store : Dead(i)}
      mk(i) == Event("DELETED", i, "failed", "no_heartbeat",
                     store[i].count, store[i].released)
  IN
  /\ "heartbeat" \in EventThreads
  /\ ~stopped
  /\ pc["heartbeat"] = "idle" /\ hbQueue = <<>>
  /\ dead # {}
  /\ hbQueue' = [k \in 1..Cardinality(dead) |->
                   mk(CHOOSE i \in dead :
                        Cardinality({j \in dead : j < i}) = k - 1)]
  /\ UNCHANGED <<store, pods, gone, pc, ev, watchDeleted, reports, plans, nextId, enableRelaunch,
                 stopped, jobStage, pendingRelaunchCount, faults, relaunches,
                 budgetUsed, rtn>>

\* _monitor_node_heart_beat, second half: the events are processed one by
\* one outside the lock.
HeartbeatNext ==
  /\ "heartbeat" \in EventThreads
  /\ pc["heartbeat"] = "idle" /\ hbQueue # <<>>
  /\ Begin("heartbeat", Head(hbQueue))
  /\ hbQueue' = Tail(hbQueue)
  /\ UNCHANGED <<store, pods, gone, watchDeleted, reports, plans, nextId,
                 enableRelaunch, stopped,
                 jobStage, pendingRelaunchCount, faults, relaunches,
                 budgetUsed, rtn>>

\* process_diagnosis_action -> _process_node_action: a node diagnosed as
\* abnormal becomes a copy with status FAILED and reason diag_fail.
ProcessNodeAction(i) ==
  /\ "diagnosis" \in EventThreads
  /\ pc["diagnosis"] = "idle"
  /\ faults < MaxFaults
  /\ i \in DOMAIN store
  /\ Begin("diagnosis", Event("DELETED", i, "failed", "diag_fail",
                              store[i].count, store[i].released))
  /\ faults' = faults + 1
  /\ UNCHANGED <<store, pods, gone, hbQueue, watchDeleted, reports, plans, nextId, enableRelaunch,
                 stopped, jobStage, pendingRelaunchCount, relaunches,
                 budgetUsed, rtn>>

-----------------------------------------------------------------------------
(* _process_event                                                           *)

SkipDeletedEvent(e) ==
  /\ e.type = "DELETED" \/ e.status = "deleted"
  /\ ~is_positive_exit(e.reason)
  /\ PodRunning(e.id)

\* Lines 758-821, outside the lock: the deletion filter, then an event of a
\* node the job context no longer has is dropped (lines 788-791), else
\* cur_node.update_info(...) copies the event's fields into the stored node.
ProcessEventPrologue(t) ==
  LET e == ev[t] IN
  /\ pc[t] = "pre"
  /\ IF e.id \notin DOMAIN store \/ SkipDeletedEvent(e)
     THEN /\ pc' = [pc EXCEPT ![t] = "idle"]
          /\ ev' = [ev EXCEPT ![t] = NoEvent]
          /\ UNCHANGED store
     ELSE /\ store' = [store EXCEPT ![e.id].count = e.count,
                                    ![e.id].released = e.released]
          /\ pc' = [pc EXCEPT ![t] = "locked"]
          /\ UNCHANGED ev
  /\ UNCHANGED <<pods, gone, hbQueue, watchDeleted, reports, plans, nextId, enableRelaunch, stopped,
                 jobStage, pendingRelaunchCount, faults, relaunches,
                 budgetUsed, rtn>>

\* Mutant of RelaunchVerdict: a killed exit is refused like a fatal error.
RelaunchVerdictKilledFatal(n, flow) ==
  /\ flow.should_relaunch /\ enableRelaunch /\ n.relaunchable
  /\ jobStage # "stopping"
  /\ ~(n.reason \in {"fatal_error", "killed"} /\ ~RelaunchAlways)
  /\ n.reason # "relaunched"
  /\ n.reason = "oom" =>
       ~AllReduce /\ n.mem < MaxMemory /\ n.count < MaxRelaunch
  /\ n.reason \notin {"oom", "killed"} => n.count < MaxRelaunch

\* _should_relaunch (lines 905-986): the decision for node n after flow.
RelaunchVerdict(n, flow) ==
  /\ flow.should_relaunch /\ enableRelaunch /\ n.relaunchable
  /\ jobStage # "stopping"
  /\ ~(n.reason = "fatal_error" /\ ~RelaunchAlways)
  /\ n.reason # "relaunched"
  /\ n.reason = "oom" =>
       ~AllReduce /\ n.mem < MaxMemory /\ n.count < MaxRelaunch
  /\ n.reason \notin {"oom", "killed"} => n.count < MaxRelaunch

\* Its effect on the node: an OOM node is marked recovered and its memory
\* raised by the optimizer; an allowed relaunch consumes one count.
RelaunchEffect(n, allow) ==
  IF ~allow THEN n
  ELSE [n EXCEPT !.count = @ + 1,
                 !.recoveredOom = IF n.reason = "oom" THEN TRUE ELSE @,
                 !.mem = IF n.reason = "oom" THEN @ + 1 ELSE @]

\* Mutant of Rejected: flows out of SUCCEEDED are not rejected.
RejectedNoFlowOnly(flow) == flow = NoFlow

\* Lines 840-845: no matching flow, or a flow out of SUCCEEDED, returns.
Rejected(flow) == flow = NoFlow \/ flow.from = "succeeded"

\* Lines 834-860, under the lock: look up the flow; without one, or out of
\* SUCCEEDED, return.  Otherwise take the event's status and exit reason,
\* run the callbacks and decide the relaunch.
ProcessEventLocked(t) ==
  LET e     == ev[t]
      cur   == store[e.id]
      flow  == GetNodeStateFlow(cur.status, e.type, e.status)
      upd   == [cur EXCEPT !.status = e.status, !.reason = e.reason]
      allow == RelaunchVerdict(upd, flow)
  IN
  /\ pc[t] = "locked"
  /\ IF Rejected(flow)
     THEN /\ pc' = [pc EXCEPT ![t] = "idle"]
          /\ ev' = [ev EXCEPT ![t] = NoEvent]
          /\ UNCHANGED <<store, pendingRelaunchCount, budgetUsed>>
     ELSE /\ store' = [store EXCEPT ![e.id] = RelaunchEffect(upd, allow)]
          /\ pendingRelaunchCount' =
               IF allow /\ WaitPendingRelaunch
               THEN pendingRelaunchCount + 1 ELSE pendingRelaunchCount
          /\ budgetUsed' =
               IF allow /\ upd.reason # "killed"
               THEN [budgetUsed EXCEPT ![cur.rank] = @ + 1] ELSE budgetUsed
          /\ pc' = [pc EXCEPT ![t] = IF allow THEN "relaunch" ELSE "idle"]
          /\ ev' = IF allow THEN ev ELSE [ev EXCEPT ![t] = NoEvent]
  /\ UNCHANGED <<pods, gone, hbQueue, watchDeleted, reports, plans, nextId, enableRelaunch, stopped,
                 jobStage, faults, relaunches, rtn>>

\* _process_node_events (lines 876-903): the flows whose callbacks run.
HasCallbacks(flow) ==
  \/ flow.to \in {"running", "succeeded", "failed"}
  \/ flow.to = "deleted" /\ flow.from \notin {"failed", "succeeded"}

\* _process_event_safely (lines 744-750) catches an exception from the
\* deletion filter's list_namespaced_pod (line 771): the event is dropped
\* before update_info.
ProcessEventFilterError(t) ==
  LET e == ev[t] IN
  /\ EventErrors /\ faults < MaxFaults
  /\ pc[t] = "pre"
  /\ e.type = "DELETED" \/ e.status = "deleted"
  /\ ~is_positive_exit(e.reason)
  /\ pc' = [pc EXCEPT ![t] = "idle"]
  /\ ev' = [ev EXCEPT ![t] = NoEvent]
  /\ faults' = faults + 1
  /\ UNCHANGED <<store, pods, gone, hbQueue, watchDeleted, reports, plans,
                 nextId, enableRelaunch, stopped, jobStage,
                 pendingRelaunchCount, relaunches, budgetUsed, rtn>>

\* A callback raises inside _process_node_events (line 854): the status and
\* exit reason were set at lines 849-852, _should_relaunch is never called,
\* the with-block releases the lock and _process_event_safely drops the
\* event.
ProcessEventCallbackError(t) ==
  LET e    == ev[t]
      flow == GetNodeStateFlow(store[e.id].status, e.type, e.status)
  IN
  /\ EventErrors /\ faults < MaxFaults
  /\ pc[t] = "locked"
  /\ ~Rejected(flow) /\ HasCallbacks(flow)
  /\ store' = [store EXCEPT ![e.id].status = e.status, ![e.id].reason = e.reason]
  /\ pc' = [pc EXCEPT ![t] = "idle"]
  /\ ev' = [ev EXCEPT ![t] = NoEvent]
  /\ faults' = faults + 1
  /\ UNCHANGED <<pods, gone, hbQueue, watchDeleted, reports, plans, nextId,
                 enableRelaunch, stopped, jobStage, pendingRelaunchCount,
                 relaunches, budgetUsed, rtn>>

\* Mutant of RelaunchNode: the id iterator is not advanced.
RelaunchNodeSameId(i) ==
  LET n == store[i] IN
  /\ nextId <= MaxNodeId
  /\ store' = (nextId :> NewNode(n.rank, n.count, n.mem))
                @@ [store EXCEPT ![i].relaunchable = FALSE]
  /\ plans' = Append(plans, Plan(nextId :> Launch(n.rank, n.count),
                                 IF RemoveExitedNode THEN {i} ELSE {}))
  /\ nextId' = nextId
  /\ relaunches' = [relaunches EXCEPT ![i] = @ + 1]

\* _relaunch_node (lines 988-1020): the worker manager makes a new node with
\* the next id, the same rank, the node's relaunch_count and resources; the
\* old node goes to remove_nodes when exited nodes are removed; the old node
\* is made non-relaunchable and the plan goes to the scaler.
RelaunchNode(i) ==
  LET n == store[i] IN
  /\ nextId <= MaxNodeId
  /\ store' = (nextId :> NewNode(n.rank, n.count, n.mem))
                @@ [store EXCEPT ![i].relaunchable = FALSE]
  /\ plans' = Append(plans, Plan(nextId :> Launch(n.rank, n.count),
                                 IF RemoveExitedNode THEN {i} ELSE {}))
  /\ nextId' = nextId + 1
  /\ relaunches' = [relaunches EXCEPT ![i] = @ + 1]

\* Line 873-874: after the lock is released the thread relaunches.
ProcessEventRelaunch(t) ==
  /\ pc[t] = "relaunch"
  /\ RelaunchNode(ev[t].id)
  /\ pc' = [pc EXCEPT ![t] = "idle"]
  /\ ev' = [ev EXCEPT ![t] = NoEvent]
  /\ UNCHANGED <<pods, gone, hbQueue, watchDeleted, reports, enableRelaunch, stopped, jobStage,
                 pendingRelaunchCount, faults, budgetUsed, rtn>>

-----------------------------------------------------------------------------
(* Handlers called by the agents and by the master.                        *)

\* collect_node_heart_beat: under the lock, record the heartbeat.
CollectNodeHeartBeat(i) ==
  /\ i \in DOMAIN store /\ PodRunning(i) /\ Beating(i)
  /\ ~store[i].hb
  /\ store' = [store EXCEPT ![i].hb = TRUE]
  /\ UNCHANGED <<pods, gone, pc, ev, hbQueue, watchDeleted, reports, plans, nextId, enableRelaunch,
                 stopped, jobStage, pendingRelaunchCount, faults, relaunches,
                 budgetUsed, rtn>>

\* process_reported_node_event with SUCCEEDED_EXITED: under the lock, the
\* node's reported status is recorded and the job stage becomes stopping.
ProcessReportedSucceededExited(i) ==
  /\ i \in DOMAIN store /\ PodRunning(i)
  /\ ~store[i].succeededExited
  /\ store' = [store EXCEPT ![i].succeededExited = TRUE]
  /\ jobStage' = "stopping"
  /\ UNCHANGED <<pods, gone, pc, ev, hbQueue, watchDeleted, reports, plans, nextId, enableRelaunch,
                 stopped, pendingRelaunchCount, faults, relaunches,
                 budgetUsed, rtn>>

\* update_node_service_addr: without the lock, the node is set RUNNING and
\* not released, whatever its status.
UpdateNodeServiceAddr(i) ==
  /\ ServiceAddrReports
  /\ i \in DOMAIN store /\ PodRunning(i) /\ Beating(i)
  /\ store[i].status # "running" \/ store[i].released
  /\ store' = [store EXCEPT ![i].status = "running", ![i].released = FALSE]
  /\ UNCHANGED <<pods, gone, pc, ev, hbQueue, watchDeleted, reports, plans, nextId, enableRelaunch,
                 stopped, jobStage, pendingRelaunchCount, faults, relaunches,
                 budgetUsed, rtn>>

\* An agent reports a NODE_ERROR training failure of its node; the RPC is
\* handled later by a servicer thread.
ReportTrainingFailure(i) ==
  /\ TrainingFailureReports
  /\ faults < MaxFaults
  /\ i \in DOMAIN store /\ PodRunning(i)
  /\ i \notin reports
  /\ reports' = reports \cup {i}
  /\ faults' = faults + 1
  /\ UNCHANGED <<store, pods, gone, pc, ev, hbQueue, watchDeleted, plans,
                 nextId, enableRelaunch, stopped, jobStage,
                 pendingRelaunchCount, relaunches, budgetUsed, rtn>>

\* handle_training_failure: a released node is left alone; otherwise
\* process_error answers TRUE for a NODE_ERROR (_handle_node_error), and a
\* relaunchable node is relaunched at once, outside the lock and without
\* _should_relaunch.
HandleTrainingFailure(i) ==
  /\ i \in reports
  /\ reports' = reports \ {i}
  /\ IF ~store[i].released /\ store[i].relaunchable
     THEN RelaunchNode(i)
     ELSE UNCHANGED <<store, plans, nextId, relaunches>>
  /\ UNCHANGED <<pods, gone, pc, ev, hbQueue, watchDeleted, enableRelaunch,
                 stopped, jobStage, pendingRelaunchCount, faults, budgetUsed, rtn>>

Exited(n) == n.status \in {"succeeded", "failed", "deleted"}

\* clear_exited_nodes: under the lock, exited nodes not yet released are
\* released and put into one removal plan.
ClearExitedNodes ==
  LET exited == {i \in DOMAIN store : ~store[i].released /\ Exited(store[i])}
  IN
  /\ RemoveExitedNode
  /\ exited # {}
  /\ Len(plans) < MaxPlans
  /\ store' = [i \in DOMAIN store |->
                 IF i \in exited THEN [store[i] EXCEPT !.released = TRUE]
                 ELSE store[i]]
  /\ plans' = Append(plans, Plan(NoLaunch, exited))
  /\ UNCHANGED <<pods, gone, pc, ev, hbQueue, watchDeleted, reports, nextId, enableRelaunch,
                 stopped, jobStage, pendingRelaunchCount, faults, relaunches,
                 budgetUsed, rtn>>

\* The master hands the scaler one plan removing the pods of nodes "removed"
\* (empty plans are not modelled: scaling one changes nothing).
RemovalCall(call, removed) ==
  /\ call \in MasterCalls
  /\ removed # {}
  /\ Len(plans) < MaxPlans
  /\ plans' = Append(plans, Plan(NoLaunch, removed))
  /\ UNCHANGED <<pods, gone, pc, ev, hbQueue, watchDeleted, reports, nextId,
                 enableRelaunch, stopped, jobStage, pendingRelaunchCount,
                 faults, relaunches, budgetUsed, rtn>>

\* Lines 1203-1206: pending or running nodes not yet released.
TrainingNodesToRemove ==
  {i \in DOMAIN store : ~store[i].released
                       /\ store[i].status \in {"pending", "running"}}

\* remove_training_nodes (lines 1194-1213) runs without the lock.  It takes
\* the job's nodes (get_job_nodes) and visits them one by one; the master's
\* main loop calls it once, when it ends the job.
RemoveTrainingNodesCall ==
  /\ "remove_training_nodes" \in MasterCalls
  /\ rtn.phase = "idle"
  /\ rtn' = [RtnIdle EXCEPT !.phase = "loop", !.todo = DOMAIN store]
  /\ UNCHANGED <<store, pods, gone, pc, ev, hbQueue, watchDeleted, reports,
                 plans, nextId, enableRelaunch, stopped, jobStage,
                 pendingRelaunchCount, faults, relaunches, budgetUsed>>

\* Lines 1203-1206: the next node of the list (job_nodes keeps insertion
\* order, which is id order) has its status and is_released read.
RemoveTrainingNodesCheck ==
  LET i == Min(rtn.todo) IN
  /\ rtn.phase = "loop" /\ rtn.cur = {} /\ rtn.todo # {}
  /\ rtn' = [rtn EXCEPT !.todo = @ \ {i},
                        !.cur = IF i \in TrainingNodesToRemove THEN {i} ELSE {}]
  /\ UNCHANGED <<store, pods, gone, pc, ev, hbQueue, watchDeleted, reports,
                 plans, nextId, enableRelaunch, stopped, jobStage,
                 pendingRelaunchCount, faults, relaunches, budgetUsed>>

\* Lines 1207-1212: the node checked is made non-relaunchable, released and
\* DELETED, whatever an event thread recorded since the check.
RemoveTrainingNodesWrite ==
  \E i \in rtn.cur :
    /\ store' = [store EXCEPT ![i].relaunchable = FALSE, ![i].released = TRUE,
                              ![i].status = "deleted"]
    /\ rtn' = [rtn EXCEPT !.cur = {}, !.removed = @ \cup {i}]
    /\ UNCHANGED <<pods, gone, pc, ev, hbQueue, watchDeleted, reports,
                   plans, nextId, enableRelaunch, stopped, jobStage,
                   pendingRelaunchCount, faults, relaunches, budgetUsed>>

\* Line 1213: the removal plan goes to the scaler (an empty plan changes
\* nothing and is not modelled).
RemoveTrainingNodesScale ==
  /\ rtn.phase = "loop" /\ rtn.todo = {} /\ rtn.cur = {}
  /\ IF rtn.removed = {} THEN UNCHANGED plans
     ELSE /\ Len(plans) < MaxPlans
          /\ plans' = Append(plans, Plan(NoLaunch, rtn.removed))
  /\ rtn' = [RtnIdle EXCEPT !.phase = "done"]
  /\ UNCHANGED <<store, pods, gone, pc, ev, hbQueue, watchDeleted, reports,
                 nextId, enableRelaunch, stopped, jobStage,
                 pendingRelaunchCount, faults, relaunches, budgetUsed>>

\* clear_all_nodes (lines 1038-1048): under the lock every node not yet
\* released is released; the removal plan is scaled after the lock.  Plans
\* other threads append in between launch nodes created after the lock,
\* which are not in this plan, so the order of the two plans does not
\* change which pods exist: the call is one step.
ClearAllNodes ==
  LET removed == {i \in DOMAIN store : ~store[i].released} IN
  /\ RemovalCall("clear_all_nodes", removed)
  /\ store' = [i \in DOMAIN store |->
                 IF i \in removed THEN [store[i] EXCEPT !.released = TRUE]
                 ELSE store[i]]

\* stop(): relaunch is disabled, and under the lock every node is made
\* non-critical, released and non-relaunchable.
Stop ==
  /\ StopEnabled
  /\ ~stopped
  /\ enableRelaunch' = FALSE
  /\ store' = [i \in DOMAIN store |->
                 [store[i] EXCEPT !.released = TRUE, !.relaunchable = FALSE]]
  /\ stopped' = TRUE
  /\ UNCHANGED <<pods, gone, pc, ev, hbQueue, watchDeleted, reports, plans, nextId, jobStage,
                 pendingRelaunchCount, faults, relaunches, budgetUsed, rtn>>

\* Mutant of MasterRestart: the restarted master's id iterator starts from
\* zero (update_nodes_iter not called).
MasterRestartIterFromZero ==
  /\ RestartEnabled
  /\ faults < MaxFaults
  /\ store' = [r \in Ranks |-> NewNode(r, 0, 0)]
  /\ pc' = [t \in EventThreads |-> "idle"]
  /\ ev' = [t \in EventThreads |-> NoEvent]
  /\ hbQueue' = <<>> /\ watchDeleted' = {} /\ reports' = {}
  /\ plans' = IF \E i \in DOMAIN pods : pods[i].phase \in {"pending", "running"}
             THEN <<>> ELSE <<InitialPlan>>
  /\ nextId' = 0
  /\ enableRelaunch' = TRUE /\ stopped' = FALSE
  /\ jobStage' = "running" /\ pendingRelaunchCount' = 0
  /\ faults' = faults + 1
  /\ UNCHANGED <<pods, gone, relaunches, budgetUsed>>
  /\ rtn' = RtnIdle

\* The master process dies and a new one runs start(): the job context is
\* rebuilt from the job's initial node metadata (ids 0..NumWorkers-1), the
\* id iterator restarts after them, threads, undelivered watch events,
\* RPCs and unapplied plans are lost, and the initial plan is emitted only
\* when no worker pod is pending or running (_has_running_workers).
MasterRestart ==
  /\ RestartEnabled
  /\ faults < MaxFaults
  /\ store' = [r \in Ranks |-> NewNode(r, 0, 0)]
  /\ pc' = [t \in EventThreads |-> "idle"]
  /\ ev' = [t \in EventThreads |-> NoEvent]
  /\ hbQueue' = <<>> /\ watchDeleted' = {} /\ reports' = {}
  /\ plans' = IF \E i \in DOMAIN pods : pods[i].phase \in {"pending", "running"}
             THEN <<>> ELSE <<InitialPlan>>
  /\ nextId' = NumWorkers
  /\ enableRelaunch' = TRUE /\ stopped' = FALSE
  /\ jobStage' = "running" /\ pendingRelaunchCount' = 0
  /\ faults' = faults + 1
  /\ UNCHANGED <<pods, gone, relaunches, budgetUsed>>
  /\ rtn' = RtnIdle

-----------------------------------------------------------------------------
(* Environment: the scaler and the cluster.                                *)

\* Scaler.scale(plan), in plan order: pods of launched nodes are created
\* pending with the node's rank and relaunch_count labels, unless a pod of
\* that name exists; removed pods are deleted.
ScalerApply ==
  LET p == Head(plans)
      new == DOMAIN p.launch \ DOMAIN pods
  IN
  /\ plans # <<>>
  /\ pods' = [i \in ((DOMAIN pods) \ p.remove) \cup new |->
                IF i \in new
                THEN [phase |-> "pending", reason |-> "none",
                      rank |-> p.launch[i].rank, count |-> p.launch[i].count,
                      beating |-> FALSE]
                ELSE pods[i]]
  /\ watchDeleted' = watchDeleted \cup
                      {WatchEvent(i) : i \in DOMAIN pods \cap p.remove}
  /\ plans' = Tail(plans)
  /\ UNCHANGED <<store, gone, pc, ev, hbQueue, reports, nextId, enableRelaunch,
                 stopped, jobStage, pendingRelaunchCount, faults, relaunches,
                 budgetUsed, rtn>>

PodStep(i, p) ==
  /\ pods' = [pods EXCEPT ![i] = p]
  /\ UNCHANGED <<store, gone, pc, ev, hbQueue, watchDeleted, reports, plans, nextId,
                 enableRelaunch, stopped, jobStage, pendingRelaunchCount,
                 relaunches, budgetUsed, rtn>>

PodRun(i) ==
  /\ i \in DOMAIN pods /\ pods[i].phase = "pending"
  /\ PodStep(i, [pods[i] EXCEPT !.phase = "running", !.beating = TRUE])
  /\ UNCHANGED faults

PodSucceed(i) ==
  /\ PodRunning(i)
  /\ PodStep(i, [pods[i] EXCEPT !.phase = "succeeded", !.beating = FALSE])
  /\ UNCHANGED faults

PodFail(i, r) ==
  /\ faults < MaxFaults
  /\ i \in DOMAIN pods /\ pods[i].phase \in {"pending", "running"}
  /\ PodStep(i, [pods[i] EXCEPT !.phase = "failed", !.reason = r,
                                !.beating = FALSE])
  /\ faults' = faults + 1

\* The training process hangs: the pod runs but heartbeats stop.
PodHang(i) ==
  /\ faults < MaxFaults
  /\ PodRunning(i) /\ Beating(i)
  /\ PodStep(i, [pods[i] EXCEPT !.beating = FALSE])
  /\ faults' = faults + 1

\* The cluster loses an alive pod (eviction, node loss) without an event.
PodVanish(i) ==
  /\ faults < MaxFaults
  /\ i \in DOMAIN pods /\ pods[i].phase \in {"pending", "running"}
  /\ pods' = Restrict(pods, DOMAIN pods \ {i})
  /\ gone' = gone @@ (i :> pods[i])
  /\ watchDeleted' = watchDeleted \cup {WatchEvent(i)}
  /\ faults' = faults + 1
  /\ UNCHANGED <<store, pc, ev, hbQueue, reports, plans, nextId, enableRelaunch,
                 stopped, jobStage, pendingRelaunchCount, relaunches,
                 budgetUsed, rtn>>

\* The cluster recreates a lost pod with the same labels, running.
PodRecreate(i) ==
  /\ faults < MaxFaults
  /\ i \in DOMAIN gone /\ i \notin DOMAIN pods
  /\ pods' = pods @@ (i :> [gone[i] EXCEPT !.phase = "running",
                                         !.beating = TRUE])
  /\ gone' = Restrict(gone, DOMAIN gone \ {i})
  /\ faults' = faults + 1
  /\ UNCHANGED <<store, pc, ev, hbQueue, watchDeleted, reports, plans, nextId, enableRelaunch,
                 stopped, jobStage, pendingRelaunchCount, relaunches,
                 budgetUsed, rtn>>

-----------------------------------------------------------------------------

Next ==
  \/ \E i \in Ids : ListedPodEvent(i) \/ MissingNodeEvent(i)
                     \/ SupersededInitialEvent(i)
  \/ \E e \in watchDeleted : WatchedDeletedEvent(e) \/ WatchLost(e)
  \/ HeartbeatScan \/ HeartbeatNext
  \/ \E i \in Ids : ProcessNodeAction(i)
  \/ \E t \in EventThreads :
       ProcessEventPrologue(t) \/ ProcessEventLocked(t)
       \/ ProcessEventRelaunch(t)
       \/ ProcessEventFilterError(t) \/ ProcessEventCallbackError(t)
  \/ \E i \in Ids :
       \/ CollectNodeHeartBeat(i) \/ ProcessReportedSucceededExited(i)
       \/ UpdateNodeServiceAddr(i) \/ ReportTrainingFailure(i)
       \/ HandleTrainingFailure(i)
  \/ ClearExitedNodes \/ Stop \/ MasterRestart
  \/ ClearAllNodes
  \/ RemoveTrainingNodesCall \/ RemoveTrainingNodesWrite
  \/ RemoveTrainingNodesCheck \/ RemoveTrainingNodesScale
  \/ ScalerApply
  \/ \E i \in Ids :
       \/ PodRun(i) \/ PodSucceed(i) \/ PodHang(i) \/ PodVanish(i)
       \/ PodRecreate(i)
       \/ \E r \in PodFailReasons : PodFail(i, r)

Spec == Init /\ [][Next]_vars

\* The scheduling the code guarantees.  _monitor_nodes lists every 5 s and
\* visits every listed pod and every missing node in each cycle, but only
\* between the events it processes: strong fairness.  A thread inside
\* _process_event runs on; the heartbeat loop rescans every 15 s; the
\* scaler applies the plans it is given.  Pods, agents, the master's main
\* loop (clear_exited_nodes, stop) are not assumed to do anything.
Fairness ==
  /\ \A i \in Ids : SF_vars(ListedPodEvent(i)) /\ SF_vars(MissingNodeEvent(i))
  /\ \A t \in EventThreads :
       /\ WF_vars(ProcessEventPrologue(t))
       /\ WF_vars(ProcessEventLocked(t))
       /\ WF_vars(ProcessEventRelaunch(t))
  /\ WF_vars(HeartbeatScan) /\ WF_vars(HeartbeatNext)
  /\ WF_vars(ScalerApply)

LiveSpec == Spec /\ Fairness

-----------------------------------------------------------------------------
(* Properties                                                              *)

NodeRec ==
  [rank : Ranks, status : Statuses, reason : ExitReasons, count : Nat,
   relaunchable : BOOLEAN, released : BOOLEAN, mem : Nat, hb : BOOLEAN,
   succeededExited : BOOLEAN, recoveredOom : BOOLEAN]

TypeOK ==
  /\ DOMAIN store \subseteq Ids /\ \A i \in DOMAIN store : store[i] \in NodeRec
  /\ DOMAIN pods \subseteq Ids
  /\ \A i \in DOMAIN pods : pods[i].phase \in Phases /\ pods[i].rank \in Ranks
  /\ pc \in [EventThreads -> {"idle", "pre", "locked", "relaunch"}]
  /\ nextId \in NumWorkers .. MaxNodeId + 1
  /\ stopped \in BOOLEAN /\ enableRelaunch \in BOOLEAN
  /\ jobStage \in {"running", "stopping"}
  /\ faults \in 0..MaxFaults
  /\ rtn.phase \in {"idle", "loop", "done"}
  /\ rtn.todo \cup rtn.cur \cup rtn.removed \subseteq DOMAIN store

\* The relaunch budget: every rank is relaunched by _should_relaunch for a
\* reason other than "killed" at most max_relaunch_count times, although
\* each replacement inherits relaunch_count from the node it replaces and
\* update_info overwrites it from events.
RelaunchBudget == \A r \in Ranks : budgetUsed[r] <= MaxRelaunch

\* "Avoid repeatedly relaunching the node" (line 1016): no node is the
\* origin of two replacements, whichever handlers race to relaunch it.
NoDoubleRelaunch == \A i \in Ids : relaunches[i] <= 1

\* No transition out of SUCCEEDED (spec 4.1, line 844): once the store
\* says a node succeeded, no event, report or handler changes that.
SucceededIsFinal ==
  [][\A i \in DOMAIN store :
       store[i].status = "succeeded" => store'[i].status = "succeeded"]_store

\* After stop() the manager emits no plan that launches a node (spec 8.3):
\* a relaunch decided before stop() must not reach the scaler after it.
NoLaunchAfterStop ==
  [][stopped /\ Len(plans') > Len(plans) =>
       plans'[Len(plans')].launch = NoLaunch]_<<plans, stopped>>

\* "At most one terminal status is recorded" (spec 8.1): a node the store
\* has as exited (succeeded, failed or deleted) never becomes alive again,
\* whichever event, report or handler touches it.
ExitedIsFinal ==
  [][\A i \in DOMAIN store : Exited(store[i]) => Exited(store'[i])]_store

\* The refinement mapping onto NodeLifecycle: initial, pending and running
\* nodes are alive, failed and deleted ones exited; a node is replaced once
\* a relaunch made a new node from it.
AbsState(n) ==
  CASE n.status \in Alive        -> "alive"
    [] n.status = "succeeded"    -> "succeeded"
    [] OTHER                     -> "exited"

AbsNodes ==
  [i \in DOMAIN store |-> [rank |-> store[i].rank,
                           state |-> AbsState(store[i]),
                           replaced |-> relaunches[i] > 0]]

Lifecycle == INSTANCE NodeLifecycle WITH nodes <- AbsNodes

\* The manager implements NodeLifecycle: node statuses only move forward,
\* a relaunch replaces only a node the store has recorded as exited, at
\* most once, with a fresh larger id, so a rank never has two alive nodes.
NodeLifecycleRefined == Lifecycle!Spec

\* "A relaunched replica's id is strictly greater than all prior ids of
\* that type" (spec 8.5): when the id iterator hands out an id, no node the
\* store knows and no pod in the cluster has an id as large.
FreshReplicaIds ==
  [][nextId' = nextId + 1 =>
       \A j \in DOMAIN store \cup DOMAIN pods : j < nextId]_<<nextId, store, pods>>

\* The cluster lost the pod of node i without the manager being told.
Lost(i) == i \in DOMAIN gone /\ i \notin DOMAIN pods

\* Node i is alive in the store, in one of statuses S, not released, and
\* its pod has failed, is lost, or has hung after the first heartbeat.
Unnoticed(i, S) ==
  /\ i \in DOMAIN store /\ ~store[i].released /\ store[i].status \in S
  /\ \/ i \in DOMAIN pods /\ pods[i].phase = "failed"
     \/ Lost(i)
     \/ store[i].hb /\ ~store[i].succeededExited /\ PodRunning(i) /\ ~Beating(i)

NoRelaunchWhileStopping ==
  [][jobStage = "stopping" => relaunches' = relaunches]_<<jobStage, relaunches>>

\* A worker the store records as FAILED with exit reason killed is
\* relaunched (spec 4.5: a killed exit is replaced whatever the budget),
\* unless the job is stopping meanwhile: the decision under the lock and
\* the relaunch after it (lines 856-874) both happen, even though the
\* status is recorded before the callbacks run.
KilledWorkerRelaunched ==
  \A i \in Ids :
    (i \in DOMAIN store /\ store[i].status = "failed"
       /\ store[i].reason = "killed")
      ~> (relaunches[i] > 0 \/ jobStage = "stopping")

\* A node the manager holds as INITIAL and not released, for which no pod
\* exists and none was lost: it waits for a scale plan to launch it.
AwaitedNode(i) ==
  /\ i \in DOMAIN store /\ store[i].status = "initial" /\ ~store[i].released
  /\ i \notin DOMAIN pods /\ i \notin DOMAIN gone

\* Every node the manager waits for is eventually launched by the initial
\* plan of start() (line 206) or a relaunch plan, leaves INITIAL or is
\* released: the manager never waits forever for a pod nobody creates.
InitialNodeEventuallyLaunched == \A i \in Ids : AwaitedNode(i) ~> ~AwaitedNode(i)

=============================================================================
