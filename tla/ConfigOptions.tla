----------------------------- MODULE ConfigOptions -----------------------------
(***************************************************************************)
(* pkg/controller/configmap/config.go and pkg/types/defaults.go: the pure  *)
(* algorithms on ncp.ini, the text of the operator's ConfigMap: filling    *)
(* in defaults, validating, splitting it into the configurations of NCP    *)
(* and of nsx-node-agent, joining them again after a restart, and finding  *)
(* out which pods a change concerns.                                       *)
(*                                                                         *)
(* A configuration maps the sections that are present to functions from    *)
(* the keys that are present to values.  Text, comments and the order of   *)
(* sections and keys are left out: go-ini parses what it has written.      *)
(***************************************************************************)
EXTENDS Integers

IsConfig(c) ==
    /\ c = [s \in DOMAIN c |-> c[s]]
    /\ \A s \in DOMAIN c : c[s] = [k \in DOMAIN c[s] |-> c[s][k]]

\* go-ini: every file has a section DEFAULT.
EmptyConfig == [s \in {"DEFAULT"} |-> [k \in {} |-> ""]]

Option(s, k) == [section |-> s, key |-> k]
Options(s, keys) == {Option(s, k) : k \in keys}

HasSection(c, s) == s \in DOMAIN c
KeysOf(c, s) == IF HasSection(c, s) THEN DOMAIN c[s] ELSE {}
HasKey(c, s, k) == s \in DOMAIN c /\ k \in DOMAIN c[s]

\* Section(s).Key(k).Value(): the empty string if there is no such key.
Value(c, s, k) == IF HasKey(c, s, k) THEN c[s][k] ELSE ""
--------------------------------------------------------------------------------
(* pkg/types/defaults.go *)

NcpSections   == {"DEFAULT", "ha", "k8s", "coe", "nsx_v3", "vc"}
AgentSections == {"DEFAULT", "k8s", "coe", "nsx_node_agent", "nsx_kube_proxy"}
OperatorSections ==
    {"DEFAULT", "ha", "k8s", "coe", "nsx_v3", "vc", "nsx_node_agent", "nsx_kube_proxy"}

\* Sections whose every option concerns nsx-node-agent ...
AgentRestartSections == {"DEFAULT", "nsx_node_agent", "nsx_kube_proxy"}

\* ... and the options of other sections that do.
AgentRestartOptionKeys ==
    Options("k8s", {"apiserver_host_ip", "apiserver_host_port", "client_token_file",
                    "ca_file", "enable_hostport_snat"})
      \cup Options("coe", {"connect_retry_timeout"})

BootstrapRestartOptionKeys ==
    Options("DEFAULT", {"log_dir", "log_file", "log_rotation_file_max_mb",
                        "log_rotation_backup_count"})
      \cup Options("nsx_node_agent", {"enable_ipv6", "use_nsx_ovs_kernel_module",
                                      "ovs_uplink_port", "mtu"})

\* var immutableFields
ImmutableFields == Options("coe", {"cluster"}) \cup Options("nsx_v3", {"l4_lb_auto_scaling"})

\* Options that validateUnSupportedOptions drops: MPOptions and WCPOptions.
UnsupportedOptions ==
    Options("nsx_v3", {"top_firewall_section_marker", "bottom_firewall_section_marker",
                       "dlb_l4_persistence", "single_tier_sr_topology",
                       "enforcement_point", "search_node_tag_on", "vif_app_id_type",
                       "configure_t0_redistribution", "multi_t0"})
      \cup Options("k8s", {"enable_vnet_crd", "enable_lb_monitor_crd",
                           "enable_nsxnetworkconfig_crd", "enable_routeset_crd",
                           "enable_ip_pool_crd", "enable_vm_crd",
                           "lb_statistic_monitor_interval",
                           "enable_lb_vs_statistics_monitor",
                           "network_info_resync_period", "ip_usage_alarm_threshold"})
      \cup Options("coe", {"node_type"})
      \cup Options("vc", {"vc_endpoint", "sso_domain", "https_port"})
TASSection == "cf"
--------------------------------------------------------------------------------
(* Filling in *)

\* d: set of defaults, each with a section, a key, a value and whether it is
\* forced on the user.  fillDefault for every one of them.
DefaultFor(d, s, k) == CHOOSE x \in d : x.section = s /\ x.key = k

\* Mutant: every default is forced on the user.
FillForced(c, d) ==
    [s \in DOMAIN c |->
        LET filled == {x.key : x \in {y \in d : y.section = s}}
        IN  [k \in DOMAIN c[s] \cup filled |->
                IF k \in filled THEN DefaultFor(d, s, k).value ELSE c[s][k]]]

Fill(c, d) ==
    [s \in DOMAIN c |->
        LET filled == {x.key : x \in {y \in d : y.section = s}}
        IN  [k \in DOMAIN c[s] \cup filled |->
                IF /\ k \in filled
                   /\ DefaultFor(d, s, k).force \/ Value(c, s, k) = ""
                THEN DefaultFor(d, s, k).value
                ELSE c[s][k]]]

Default(s, k, v, force) == [section |-> s, key |-> k, value |-> v, force |-> force]

\* blocks: the CIDRs of the cluster network, which fillClusterNetwork copies.
Defaults(adaptor, blocks) ==
    {Default("coe", "adaptor", adaptor, TRUE),
     Default("nsx_v3", "policy_nsxapi", "True", TRUE),
     Default("coe", "enable_snat", "True", FALSE),
     Default("ha", "enable", "True", FALSE),
     Default("nsx_node_agent", "mtu", "1500", FALSE)}
      \cup IF adaptor # "openshift4" THEN {} ELSE
           {Default("nsx_v3", "single_tier_topology", "True", TRUE),
            Default("nsx_node_agent", "waiting_before_cni_response", "3", FALSE),
            Default("nsx_node_agent", "enable_ovs_mcast_snooping", "false", FALSE),
            Default("nsx_v3", "container_ip_blocks", blocks, TRUE)}

\* Looking at cfg.Section("coe") creates it; the other sections must be there.
WithSection(c, s) ==
    [t \in DOMAIN c \cup {s} |-> IF t \in DOMAIN c THEN c[t] ELSE [k \in {} |-> ""]]

FillDefaultsFails(c) == \E s \in {"nsx_v3", "ha", "nsx_node_agent"} : ~HasSection(c, s)

FillDefaults(c, adaptor, blocks) == Fill(WithSection(c, "coe"), Defaults(adaptor, blocks))

\* FillNsxAuthCfg and FillLbCertCfg: parts are the non-empty entries of a secret.
NsxAuth(parts) ==
    {Default("nsx_v3", "nsx_api_cert_file", "/etc/nsx-ujo/nsx-cert/tls.crt", TRUE) :
        p \in parts \cap {"tls.crt"}}
      \cup {Default("nsx_v3", "nsx_api_private_key_file",
                    "/etc/nsx-ujo/nsx-cert/tls.key", TRUE) : p \in parts \cap {"tls.key"}}
      \cup {Default("nsx_v3", "ca_file", "/etc/nsx-ujo/nsx-cert/tls.ca", TRUE) :
                p \in parts \cap {"tls.ca"}}

LbCert(parts) ==
    {Default("nsx_v3", "lb_default_cert_path", "/etc/nsx-ujo/lb-cert/tls.crt", TRUE) :
        p \in parts \cap {"tls.crt"}}
      \cup {Default("nsx_v3", "lb_priv_key_path", "/etc/nsx-ujo/lb-cert/tls.key", TRUE) :
                p \in parts \cap {"tls.key"}}

FillNsxAuthCfg(c, parts) == Fill(c, NsxAuth(parts))
FillLbCertCfg(c, parts)  == Fill(c, LbCert(parts))
--------------------------------------------------------------------------------
(* Validation *)

\* validateConfig
Given(c, s, k) == Value(c, s, k) # ""

\* validateConfigMap without the options it drops; numbers are the values that
\* strconv.Atoi accepts.
Valid(c, adaptor, numbers) ==
    /\ Given(c, "coe", "cluster")
    /\ Given(c, "nsx_v3", "nsx_api_managers")
    /\ Value(c, "coe", "enable_snat") = "True" => Given(c, "nsx_v3", "external_ip_pools")
    /\ adaptor = "kubernetes" => Given(c, "nsx_v3", "container_ip_blocks")
    /\ Given(c, "nsx_v3", "tier0_gateway") \/ Given(c, "nsx_v3", "top_tier_router")
    /\ Value(c, "nsx_node_agent", "mtu") \in numbers
    /\ ~Given(c, "DEFAULT", "log_file")

\* validateUnSupportedOptions: drops the options that have a value, and section cf.
DropUnsupported(c) ==
    [s \in DOMAIN c \ {TASSection} |->
        [k \in {k \in DOMAIN c[s] : Option(s, k) \in UnsupportedOptions => c[s][k] = ""}
            |-> c[s][k]]]
\* Render fails on a value of ha.enable that strconv.ParseBool does not accept.
Booleans == {"1", "t", "T", "TRUE", "true", "True", "0", "f", "F", "FALSE", "false", "False"}
RenderFails(c) == HasKey(c, "ha", "enable") /\ Value(c, "ha", "enable") \notin Booleans
--------------------------------------------------------------------------------
(* Splitting and joining *)

generateConfigMap(c, sections) == [s \in (DOMAIN c \cap sections) \cup {"DEFAULT"} |->
                                     IF HasSection(c, s) THEN c[s] ELSE EmptyConfig[s]]

\* Mutant: the agent's ConfigMap is not looked at.
GenerateOperatorConfigMapNcpOnly(ncp, agent) ==
    [s \in DOMAIN ncp \cap OperatorSections |-> ncp[s]]

\* After a restart the applied configuration is joined from the cluster's two
\* ConfigMaps; a section of both is taken from NCP's.
GenerateOperatorConfigMap(ncp, agent) ==
    [s \in (DOMAIN ncp \cup DOMAIN agent) \cap OperatorSections |->
        IF HasSection(ncp, s) THEN ncp[s] ELSE agent[s]]

\* What a restarted operator reads back after c was applied.
Joined(c) == GenerateOperatorConfigMap(generateConfigMap(c, NcpSections),
                                       generateConfigMap(c, AgentSections))
--------------------------------------------------------------------------------
(* What a change concerns *)

ImmutableFieldChanged(cur, prev) ==
    \E o \in ImmutableFields : Value(cur, o.section, o.key) # Value(prev, o.section, o.key)

\* Looking at the immutable fields creates their sections and keys (go-ini), so
\* the comparisons below see them.
Touched(c) ==
    [s \in DOMAIN c \cup {o.section : o \in ImmutableFields} |->
        [k \in KeysOf(c, s) \cup {o.key : o \in {p \in ImmutableFields : p.section = s}}
            |-> Value(c, s, k)]]

\* Sections that differ; one that is only in one configuration counts if it has
\* keys there.
DiffSections(cur, prev) ==
    {s \in DOMAIN cur \cap DOMAIN prev : cur[s] # prev[s]}
      \cup {s \in DOMAIN cur \ DOMAIN prev : DOMAIN cur[s] # {}}
      \cup {s \in DOMAIN prev \ DOMAIN cur : DOMAIN prev[s] # {}}

OptionsChanged(options, s, prev, cur) ==
    /\ \E o \in options : o.section = s
    /\ \/ HasSection(prev, s) # HasSection(cur, s)
       \/ \E o \in options :
             /\ o.section = s
             /\ \/ HasKey(prev, s, o.key) # HasKey(cur, s, o.key)
                \/ Value(prev, s, o.key) # Value(cur, s, o.key)

PodNeedChange == [ncp : BOOLEAN, agent : BOOLEAN, bootstrap : BOOLEAN]
AllNeedChange == [ncp |-> TRUE, agent |-> TRUE, bootstrap |-> TRUE]

\* Mutant: only whole sections are looked at.
NeedApplyChangeBySection(cur, prev) ==
    LET c == Touched(cur)
        p == Touched(prev)
        diff == DiffSections(c, p)
    IN  [ncp |-> \E s \in diff : s \in NcpSections,
         agent |-> \E s \in diff : s \in AgentRestartSections,
         bootstrap |-> \E s \in diff : OptionsChanged(BootstrapRestartOptionKeys, s, p, c)]

\* NeedApplyChange, for an applied configuration prev whose immutable fields
\* are those of cur.
NeedApplyChange(cur, prev) ==
    LET c == Touched(cur)
        p == Touched(prev)
        diff == DiffSections(c, p)
    IN  [ncp |-> \E s \in diff : s \in NcpSections,
         agent |-> \E s \in diff : \/ s \in AgentRestartSections
                                   \/ OptionsChanged(AgentRestartOptionKeys, s, p, c),
         bootstrap |-> \E s \in diff : OptionsChanged(BootstrapRestartOptionKeys, s, p, c)]

IsMTUChanged(cur, prev) ==
    Value(cur, "nsx_node_agent", "mtu") # Value(prev, "nsx_node_agent", "mtu")
--------------------------------------------------------------------------------
(* Which options each kind of pod depends on: what the tables above say, not how *)
(* NeedApplyChange compares.                                                     *)

Pods == {"ncp", "agent", "bootstrap"}

DependsOn(pod, s, k) ==
    \/ pod = "ncp" /\ s \in NcpSections
    \/ pod = "agent" /\ s \in AgentRestartSections
    \/ pod = "agent" /\ Option(s, k) \in AgentRestartOptionKeys
    \/ pod = "bootstrap" /\ Option(s, k) \in BootstrapRestartOptionKeys

\* Two configurations that mean the same to a pod.
SameFor(pod, c, d) ==
    \A s \in DOMAIN c \cup DOMAIN d : \A k \in KeysOf(c, s) \cup KeysOf(d, s) :
        DependsOn(pod, s, k) => Value(c, s, k) = Value(d, s, k)
================================================================================
