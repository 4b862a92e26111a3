---------------------------- MODULE NodeLifecycle ----------------------------
(***************************************************************************)
(* What the job manager promises about the nodes of a job, without        *)
(* threads, events or pods: every node is alive until it succeeds or      *)
(* exits (spec 3, 4.1: initial -> pending -> running -> {succeeded |      *)
(* failed | deleted}); an exited node may be replaced, once, by a new     *)
(* node of the same rank whose id is larger than every id before it       *)
(* (spec 8.5).  Neither a succeeded nor an exited node comes back.        *)
(***************************************************************************)
EXTENDS Naturals

CONSTANTS Ranks, Ids

VARIABLE nodes  \* node id -> [rank, state, replaced]

States == {"alive", "succeeded", "exited"}

Init == nodes = [r \in Ranks |-> [rank |-> r, state |-> "alive",
                                  replaced |-> FALSE]]

Succeed(i) ==
  /\ nodes[i].state = "alive"
  /\ nodes' = [nodes EXCEPT ![i].state = "succeeded"]

Exit(i) ==
  /\ nodes[i].state = "alive"
  /\ nodes' = [nodes EXCEPT ![i].state = "exited"]

\* Node j replaces the exited node i.
Replace(i, j) ==
  /\ nodes[i].state = "exited" /\ ~nodes[i].replaced
  /\ \A k \in DOMAIN nodes : k < j
  /\ nodes' = [k \in DOMAIN nodes \cup {j} |->
                 IF k = j THEN [rank |-> nodes[i].rank, state |-> "alive",
                                replaced |-> FALSE]
                 ELSE IF k = i THEN [nodes[i] EXCEPT !.replaced = TRUE]
                 ELSE nodes[k]]

Next ==
  \E i \in DOMAIN nodes :
    \/ Succeed(i) \/ Exit(i)
    \/ \E j \in Ids : Replace(i, j)

Spec == Init /\ [][Next]_nodes

=============================================================================
