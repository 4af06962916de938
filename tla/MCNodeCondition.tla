---------------------------- MODULE MCNodeCondition ----------------------------
(* NodeCondition with all agent pods on one node. *)
EXTENDS NodeCondition

OneNode == {"n1"}
AllOnOneNode == [p \in Pods |-> "n1"]
================================================================================
