---------------------------- MODULE NodeStateFlow ----------------------------
(***************************************************************************)
(* The node status table that DistributedJobManager._process_event        *)
(* consults (get_node_state_flow, status_flow.py).  status_flow.py is not  *)
(* part of this repository's sources, so the table is taken from the      *)
(* specification (section 4.1) and from what dist_job_manager.py relies   *)
(* on: _process_node_events distinguishes deletions out of FAILED and     *)
(* SUCCEEDED (lines 895-898), _process_event rejects flows out of         *)
(* SUCCEEDED (line 844), and _process_list_nodes deletes INITIAL nodes    *)
(* (lines 660-681), so those flows exist.                                  *)
(***************************************************************************)

Statuses == {"initial", "pending", "running", "succeeded", "failed", "deleted"}

EventTypes == {"ADDED", "MODIFIED", "DELETED"}

\* Exit reasons of a node (NodeExitReason); "none" is the empty reason.
ExitReasons ==
  {"none", "killed", "oom", "fatal_error", "no_heartbeat", "diag_fail",
   "relaunched"}

\* is_positive_exit: the reasons the master induced itself and trusts.
is_positive_exit(reason) == reason \in {"diag_fail", "no_heartbeat"}

\* Statuses a node can leave by failing or being deleted.
Alive == {"initial", "pending", "running"}

\* Flows driven by ADDED/MODIFIED events: <<from, to, should_relaunch>>.
UpdateFlows ==
  { <<"initial", "pending", FALSE>>, <<"initial", "running", FALSE>>,
    <<"pending", "running", FALSE>>, <<"pending", "succeeded", FALSE>>,
    <<"running", "succeeded", FALSE>>, <<"pending", "failed", TRUE>>,
    <<"running", "failed", TRUE>> }

\* Flows driven by DELETED events.  A DELETED event carrying status FAILED
\* (the no_heartbeat and diag_fail events) ends in "failed"; any other
\* DELETED event ends in "deleted".  Losing an alive node is relaunch
\* eligible; deleting an exited node is not.
DeleteFlows ==
  { <<s, "deleted", TRUE>> : s \in Alive } \cup
  { <<s, "failed", TRUE>> : s \in Alive } \cup
  { <<"failed", "deleted", FALSE>>, <<"succeeded", "deleted", FALSE>> }

NoFlow == [from |-> "none", to |-> "none", should_relaunch |-> FALSE]

\* get_node_state_flow(old_status, event_type, new_status): the matching
\* flow, or NoFlow when the change is not a legal transition.
GetNodeStateFlow(old, eventType, new) ==
  LET target == IF eventType = "DELETED" /\ new # "failed"
                THEN "deleted" ELSE new
      table  == IF eventType = "DELETED" THEN DeleteFlows ELSE UpdateFlows
      hits   == {f \in table : f[1] = old /\ f[2] = target}
  IN  IF hits = {} THEN NoFlow
      ELSE LET f == CHOOSE h \in hits : TRUE
           IN  [from |-> f[1], to |-> f[2], should_relaunch |-> f[3]]
=============================================================================
