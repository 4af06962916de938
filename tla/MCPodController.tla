---------------------------- MODULE MCPodController ----------------------------
(* PodController with a DaemonSet, a Deployment and an agent pod. *)
EXTENDS PodController

Complete   == [desired |-> 2, updated |-> 2, unavailable |-> 0, available |-> 2, observed |-> 1]
Updating   == [desired |-> 2, updated |-> 1, unavailable |-> 0, available |-> 2, observed |-> 1]
Restarting == [desired |-> 2, updated |-> 2, unavailable |-> 1, available |-> 1, observed |-> 1]
Up         == [unavailable |-> 0, available |-> 1, observed |-> 1]
Down       == [unavailable |-> 1, available |-> 0, observed |-> 1]

MCDsStatuses == {Complete, Updating, Restarting}
MCDepStatuses == {Up, Down}

\* The Deployment is up, the DaemonSet is missing or being rolled out.
MCInit ==
    /\ Init
    /\ work["nsx-ncp"] = [gen |-> 1, since |-> 0, status |-> Up]
    /\ work["nsx-node-agent"] \in {None, [gen |-> 1, since |-> 0, status |-> Updating]}

MCSpec == MCInit /\ [][Next]_vars
================================================================================
