---------------------------- MODULE MCConfigOptions ----------------------------
(***************************************************************************)
(* ConfigOptions over every configuration a user reaches with a few edits  *)
(* of a typical ncp.ini, each compared with the configuration before.      *)
(***************************************************************************)
EXTENDS ConfigOptions, TLC

CONSTANTS MaxEdits

VARIABLES adaptor, \* the platform
          user,    \* the configuration the user has written
          prev,    \* the one that was applied
          edits

vars == <<adaptor, user, prev, edits>>

\* Options of every kind: shared, NCP's only, the agent's only, the bootstrap's,
\* immutable, unsupported, unknown to the operator.
Editable ==
    {Option("DEFAULT", "log_dir"), Option("DEFAULT", "debug"),
     Option("k8s", "ca_file"), Option("k8s", "ingress_mode"),
     Option("coe", "cluster"), Option("coe", "connect_retry_timeout"),
     Option("coe", "enable_snat"), Option("nsx_v3", "external_ip_pools"),
     Option("nsx_v3", "multi_t0"), Option("nsx_node_agent", "mtu"),
     Option("nsx_node_agent", "ovs_bridge"), Option("extra", "option")}

Base ==
    "DEFAULT" :> [k \in {} |-> ""] @@ "ha" :> [k \in {} |-> ""] @@
    "coe" :> [cluster |-> "c1"] @@
    "nsx_v3" :> [nsx_api_managers |-> "m", external_ip_pools |-> "p",
                 tier0_gateway |-> "t", container_ip_blocks |-> "b"] @@
    "nsx_node_agent" :> [ovs_bridge |-> "br"]

SetOption(c, s, k, v) ==
    LET d == WithSection(c, s)
    IN  [d EXCEPT ![s] = [x \in DOMAIN d[s] \cup {k} |-> IF x = k THEN v ELSE d[s][x]]]

RemoveOption(c, s, k) ==
    [c EXCEPT ![s] = [x \in DOMAIN c[s] \ {k} |-> c[s][x]]]

RemoveSection(c, s) == [t \in DOMAIN c \ {s} |-> c[t]]

Edit == /\ edits < MaxEdits /\ edits' = edits + 1 /\ UNCHANGED <<adaptor, prev>>
        /\ \/ \E o \in Editable, v \in {"", "1500", "x"} :
                 user' = SetOption(user, o.section, o.key, v)
           \/ \E o \in Editable : /\ HasKey(user, o.section, o.key)
                                  /\ user' = RemoveOption(user, o.section, o.key)
           \/ \E s \in DOMAIN user \ {"DEFAULT"} : user' = RemoveSection(user, s)

\* What the operator makes of the configuration before it compares it.
Blocks    == IF adaptor = "openshift4" THEN "cidr" ELSE ""
Filled(c) == DropUnsupported(FillDefaults(c, adaptor, Blocks))
Acceptable(c) == ~FillDefaultsFails(c) /\ Valid(Filled(c), adaptor, {"1500"})

\* The edited configuration is applied.
Apply == /\ Acceptable(user) /\ ~ImmutableFieldChanged(Filled(user), Filled(prev))
         /\ prev # user /\ prev' = user /\ UNCHANGED <<adaptor, user, edits>>

Init == adaptor \in {"kubernetes", "openshift4"} /\ user = Base /\ prev = Base /\ edits = 0
Next == Edit \/ Apply
Spec == Init /\ [][Next]_vars
--------------------------------------------------------------------------------
\* Every change of an option that a kind of pod depends on restarts these pods
\* (NeedApplyChange against the tables of types/defaults.go).
ChangesFound ==
    Acceptable(user) /\ ~ImmutableFieldChanged(Filled(user), Filled(prev)) =>
        \A pod \in Pods : ~SameFor(pod, Filled(user), Filled(prev)) =>
                             NeedApplyChange(Filled(user), Filled(prev))[pod]

\* An operator that is restarted after everything was applied finds nothing to
\* change in the configuration it joins from the cluster's two ConfigMaps.
RestartFindsNoChange ==
    Acceptable(user) =>
        LET c == Filled(user)
        IN  /\ ~ImmutableFieldChanged(c, Joined(c))
            /\ \A pod \in Pods : ~NeedApplyChange(c, Joined(c))[pod]

\* The options that the operator infers, whatever the user writes.
Inferred ==
    {Option("coe", "adaptor"), Option("nsx_v3", "policy_nsxapi")} \cup
    IF adaptor # "openshift4" THEN {}
    ELSE {Option("nsx_v3", "single_tier_topology"), Option("nsx_v3", "container_ip_blocks")}

\* FillDefaults keeps what a user sets, unless the operator infers it, and puts every
\* default in its place: there is nothing left for a second pass to fill in.
DefaultsYieldToUser ==
    ~FillDefaultsFails(user) =>
        LET c == FillDefaults(user, adaptor, Blocks)
        IN  /\ \A s \in DOMAIN user : \A k \in DOMAIN user[s] :
                  c[s][k] # user[s][k] =>
                      user[s][k] = "" \/ Option(s, k) \in Inferred
            /\ FillDefaults(c, adaptor, Blocks) = c
================================================================================
