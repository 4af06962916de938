--------------------------- MODULE MCCanaryWorkaround ---------------------------
(* CanaryWorkaround with an address of each family and a Service with a target port
   and a plain port, both TCP. *)
EXTENDS CanaryWorkaround

CONSTANTS v4, v6

Both == {v4, v6}
OnlyV6 == {v6}
Entries == {[tcp |-> TRUE, port |-> 80, target |-> 8080], [tcp |-> TRUE, port |-> 443, target |-> 0]}
================================================================================
