---------------------------- MODULE MCStatusManager ----------------------------
(* StatusManager on small instances. *)
EXTENDS StatusManager, TLC

\* One reason for each of the levels of the configuration; the nodes have both.
MCConfigReasons == (ClusterConfig :> {"r1"}) @@ (OperatorConfig :> {"r2"})

MCAnyReason == [l \in {ClusterConfig, OperatorConfig} |-> Reasons]
================================================================================
