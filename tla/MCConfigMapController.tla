------------------------- MODULE MCConfigMapController -------------------------
(* ConfigMapController with users who write five configurations. *)
EXTENDS ConfigMapController, TLC

With(c, s, k, v) ==
    [c EXCEPT ![s] = [x \in DOMAIN c[s] \cup {k} |-> IF x = k THEN v ELSE c[s][x]]]

Base ==
    "DEFAULT" :> [debug |-> "False"] @@ "ha" :> [enable |-> "True"] @@
    "coe" :> [cluster |-> "c1"] @@
    "nsx_v3" :> [nsx_api_managers |-> "m", external_ip_pools |-> "p",
                 tier0_gateway |-> "t", container_ip_blocks |-> "b"] @@
    "nsx_node_agent" :> [mtu |-> "1500"]

\* A change for NCP and (through one option) the agent, for the agent and the
\* bootstrap; an immutable option; an invalid configuration.
MCUserConfigs ==
    {Base,
     With(Base, "coe", "connect_retry_timeout", "9"),
     With(Base, "nsx_node_agent", "mtu", "9000"),
     With(Base, "coe", "cluster", "c2"),
     With(Base, "nsx_v3", "nsx_api_managers", "")}

MCFirstConfigs == {Base}
MCFewConfigs == {Base, With(Base, "nsx_node_agent", "mtu", "9000"),
                 With(Base, "coe", "cluster", "c2"), With(Base, "nsx_v3", "nsx_api_managers", "")}

MCSymmetry == Permutations(Templates) \cup Permutations(Networks) \cup Permutations(Secrets \ {NoSecret})

\* News comes just before it is read: before a reconcile joins the applied
\* configuration, and before it compares.
MCLateNews ==
    cache' # cache /\ crashes' = crashes =>
        \/ /\ Idle /\ queued /\ appliedConfigMap = None
           /\ UNCHANGED <<cache.secret, cache.ncp, cache.agent, cache.bootstrap>>
        \/ Step = "compare" /\ UNCHANGED <<cache.ncpConfig, cache.agentConfig>>
================================================================================
