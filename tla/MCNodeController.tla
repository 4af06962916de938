---------------------------- MODULE MCNodeController ----------------------------
(* NodeController with one node to begin with, and a second that may join. *)
EXTENDS NodeController

CONSTANTS n1, n2, a1, a2, p1, p2

Sets == {{a1}, {a2}, {a1, a2}}

\* The first port is n1's; the second is of either node and may have the address of either node.
\* Or the first node has both addresses, one on each port.
MCInit ==
    /\ Init
    /\ node \in {[n \in Nodes |-> IF n = n1 THEN A ELSE B] :
                   A \in {{a1}, {a1, a2}}, B \in {{a2}, None}}
    /\ owner[p1] = n1 /\ owner[p2] \in Nodes /\ bound[p1] = {a1} /\ bound[p2] \in {{a1}, {a2}}
    /\ node[n1] = {a1, a2} => node[n2] = None /\ owner[p2] = n1 /\ bound[p2] = {a2}

MCSpec == MCInit /\ [][Next]_vars

MCFairSpec == MCSpec /\ Fairness
================================================================================
