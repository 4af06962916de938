---------------------------- MODULE CanaryWorkaround ----------------------------
(***************************************************************************)
(* pkg/controller/canaryworkaround (OpenShift only): next to the           *)
(* ingress-canary NetworkPolicy, which admits host-network namespaces, the *)
(* operator keeps a companion policy that admits the addresses of the      *)
(* nodes to the ports of the ingress-canary Service.                       *)
(*                                                                         *)
(* Abstracted: of the nodes all their Internal and External addresses      *)
(* together; a policy's rules but for the host-network selector.  The      *)
(* cache of NetworkPolicies may tell of the two policies in any order.     *)
(***************************************************************************)
EXTENDS Integers

CONSTANTS IPs, IPv6,    \* addresses of nodes, and those that are not IPv4
          ServicePorts, \* the entries a Service may have: [tcp, port, target]
          None,
          MaxChanges,   \* bound on changes of the cluster
          MaxFaults     \* bound on failed calls and restarts

ASSUME PortsAssumption == ServicePorts \subseteq [tcp : BOOLEAN, port : Nat \ {0}, target : Nat]
ASSUME BoundAssumption == MaxChanges \in Nat /\ MaxFaults \in Nat

VARIABLES
    canaryNetPol, \* the upstream policy
    ips,          \* the addresses of all nodes
    svc,          \* the ingress-canary Service
    companion,    \* the policy canary-workaround
    cached,       \* the first three in the informer caches
    news,         \* what the informers have yet to tell of
    queued,       \* whether the one request is in the work queue
    step, seen,   \* the worker: where it is, what it has read
    changes, faults

inputs == <<canaryNetPol, ips, svc>>
worker == <<step, seen>>
vars == <<inputs, companion, cached, news, queued, worker, changes, faults>>

Kinds == {"canaryNetPol", "ips", "svc", "companion"}

World == [canaryNetPol |-> canaryNetPol, ips |-> ips, svc |-> svc]

Fault == faults < MaxFaults /\ faults' = faults + 1
--------------------------------------------------------------------------------
(* The companion policy *)

\* hasHostNetworkNamespaceSelector, of a policy that exists.
Needed(netpol) == netpol # None /\ netpol.host

\* canaryServicePorts: TCP only, the target port where there is one.
CanaryServicePorts(s) ==
    IF s = None THEN {}
    ELSE {IF p.target # 0 THEN p.target ELSE p.port : p \in {q \in s : q.tcp}}

\* buildWorkaroundPolicy: owned by the upstream policy, without IPv6 addresses.  No peers
\* at all admit everyone.
WorkaroundPolicy(netpol, A, ports) ==
    [owner |-> netpol.uid, peers |-> A \ IPv6, ports |-> ports]

Policies == [owner : 0 .. MaxChanges, peers : SUBSET IPs, ports : SUBSET Nat]

\* Mutant: every write is an event, as an update that always changes something would be.
WriteAlways(policy) == companion' = policy /\ news' = news \cup {"companion"}

\* The policy is written, or deleted; its watch tells of it if that changed anything.
Write(policy) ==
    /\ companion' = policy
    /\ news' = IF policy = companion THEN news ELSE news \cup {"companion"}
--------------------------------------------------------------------------------
(* Reconcile, whatever the request was *)

\* Mutant: the upstream policy is not looked at.
StartAlways ==
    /\ step = "idle" /\ queued /\ queued' = FALSE /\ step' = "nodes"
    /\ seen' = [seen EXCEPT !.canaryNetPol = cached.canaryNetPol]
    /\ UNCHANGED <<inputs, companion, cached, news, changes, faults>>

Start ==
    /\ step = "idle" /\ queued /\ queued' = FALSE
    /\ step' = IF Needed(cached.canaryNetPol) THEN "nodes" ELSE "delete"
    /\ seen' = [seen EXCEPT !.canaryNetPol = cached.canaryNetPol]
    /\ UNCHANGED <<inputs, companion, cached, news, changes, faults>>

\* The policy is absent, or does not select host-network namespaces.
DeleteWorkaroundPolicy ==
    /\ step = "delete" /\ step' = "idle"
    /\ Write(None)
    /\ UNCHANGED <<inputs, cached, queued, seen, changes, faults>>

\* Without addresses the companion is left as it is.
ListNodeIPs ==
    /\ step = "nodes" /\ step' = IF cached.ips = {} THEN "idle" ELSE "ports"
    /\ seen' = [seen EXCEPT !.ips = cached.ips]
    /\ UNCHANGED <<inputs, companion, cached, news, queued, changes, faults>>

\* Nor without ports.
ReadPorts ==
    /\ step = "ports" /\ step' = IF CanaryServicePorts(cached.svc) = {} THEN "idle" ELSE "apply"
    /\ seen' = [seen EXCEPT !.svc = cached.svc]
    /\ UNCHANGED <<inputs, companion, cached, news, queued, changes, faults>>

Apply ==
    /\ step = "apply" /\ step' = "idle"
    /\ Write(WorkaroundPolicy(seen.canaryNetPol, seen.ips, CanaryServicePorts(seen.svc)))
    /\ UNCHANGED <<inputs, cached, queued, seen, changes, faults>>

\* Any call fails: the request comes back.
Fails ==
    /\ step # "idle" /\ Fault
    /\ step' = "idle" /\ queued' = TRUE
    /\ UNCHANGED <<inputs, companion, cached, news, seen, changes>>

Reconcile == Start \/ DeleteWorkaroundPolicy \/ ListNodeIPs \/ ReadPorts \/ Apply \/ Fails
--------------------------------------------------------------------------------
(* Watches and process *)

\* Mutant: changes of the companion by others are not watched.
WatchedInputs(k) == k # "companion"

\* All events of policies of the namespace and of the Service; of nodes those that change
\* addresses.
Watched(k) == k \in Kinds

Informed(k) ==
    /\ k \in news /\ news' = news \ {k}
    /\ cached' = IF k = "companion" THEN cached ELSE [cached EXCEPT ![k] = World[k]]
    /\ queued' = (queued \/ Watched(k))
    /\ UNCHANGED <<inputs, companion, worker, changes, faults>>

\* Every object that is there is an event for a new process.
Restart ==
    /\ Fault /\ step' = "idle" /\ cached' = World /\ news' = {}
    /\ queued' = (canaryNetPol # None \/ ips # {} \/ svc # None \/ companion # None)
    /\ UNCHANGED <<inputs, companion, seen, changes>>
--------------------------------------------------------------------------------
(* The cluster *)

Changed(k) ==
    /\ changes < MaxChanges /\ changes' = changes + 1
    /\ news' = news \cup {k}
    /\ UNCHANGED <<cached, queued, worker, faults>>

\* The upstream policy is created or replaced under a new UID, ...
CreatePolicy(host) ==
    /\ Changed("canaryNetPol") /\ canaryNetPol' = [uid |-> changes', host |-> host]
    /\ UNCHANGED <<ips, svc, companion>>

\* ... loses or gains its selector, ...
EditPolicy ==
    /\ canaryNetPol # None /\ Changed("canaryNetPol")
    /\ canaryNetPol' = [canaryNetPol EXCEPT !.host = ~@]
    /\ UNCHANGED <<ips, svc, companion>>

\* ... or is deleted.
DeletePolicy ==
    /\ canaryNetPol # None /\ Changed("canaryNetPol") /\ canaryNetPol' = None
    /\ UNCHANGED <<ips, svc, companion>>

ChangeNodes(A) == ips # A /\ Changed("ips") /\ ips' = A /\ UNCHANGED <<canaryNetPol, svc, companion>>

ChangeService(s) == svc # s /\ Changed("svc") /\ svc' = s /\ UNCHANGED <<canaryNetPol, ips, companion>>

\* Somebody else deletes the companion or edits its rules.
Tamper ==
    /\ companion # None /\ Changed("companion")
    /\ \/ companion' = None
       \/ \E A \in SUBSET IPs : companion' = [companion EXCEPT !.peers = A]
    /\ UNCHANGED inputs

\* The garbage collector deletes what belongs to a policy that is gone.
CollectGarbage ==
    /\ companion # None
    /\ canaryNetPol # None => canaryNetPol.uid # companion.owner
    /\ Write(None)
    /\ UNCHANGED <<inputs, cached, queued, worker, changes, faults>>

Cluster == \/ \E host \in BOOLEAN : CreatePolicy(host)
           \/ EditPolicy \/ DeletePolicy
           \/ \E A \in SUBSET IPs : ChangeNodes(A)
           \/ \E s \in (SUBSET ServicePorts) \cup {None} : ChangeService(s)
           \/ Tamper \/ CollectGarbage
--------------------------------------------------------------------------------
\* The operator starts in a cluster in any state, after an earlier one or without.
Init ==
    /\ canaryNetPol \in {None} \cup [uid : {0}, host : BOOLEAN]
    /\ ips \in SUBSET IPs /\ svc \in (SUBSET ServicePorts) \cup {None}
    /\ companion \in {None} \cup [owner : {0}, peers : SUBSET IPs, ports : {CanaryServicePorts(svc)}]
    /\ cached = World /\ news = {}
    /\ queued = (canaryNetPol # None \/ ips # {} \/ svc # None \/ companion # None)
    /\ step = "idle" /\ seen = World
    /\ changes = 0 /\ faults = 0

Next == Reconcile \/ (\E k \in Kinds : Informed(k)) \/ Restart \/ Cluster

Spec == Init /\ [][Next]_vars

\* The worker and the informers run on.
Fairness == WF_vars(Reconcile) /\ \A k \in Kinds : WF_vars(Informed(k))

FairSpec == Spec /\ Fairness
--------------------------------------------------------------------------------
(* Properties *)

InputType ==
    [canaryNetPol : {None} \cup [uid : 0 .. MaxChanges, host : BOOLEAN],
     ips : SUBSET IPs,
     svc : (SUBSET ServicePorts) \cup {None}]

TypeOK ==
    /\ World \in InputType /\ cached \in InputType /\ seen \in InputType
    /\ companion \in Policies \cup {None}
    /\ news \subseteq Kinds /\ queued \in BOOLEAN
    /\ step \in {"idle", "delete", "nodes", "ports", "apply"}
    /\ (step \in {"nodes", "ports", "apply"} => Needed(seen.canaryNetPol))
    /\ changes \in 0 .. MaxChanges /\ faults \in 0 .. MaxFaults

\* The companion is what the present inputs ask for.  Without addresses or ports nothing is
\* asked for (Reconcile leaves it as it is).
InStep ==
    IF ~Needed(canaryNetPol) THEN companion = None
    ELSE ips # {} /\ CanaryServicePorts(svc) # {} =>
            companion = WorkaroundPolicy(canaryNetPol, ips, CanaryServicePorts(svc))

\* With nothing queued, nothing under way and nothing left to tell, the companion is in step
\* with its three inputs, although Reconcile reads them one after the other from caches
\* that lag behind, and others edit, delete and collect the companion meanwhile.
RestInStep == news = {} /\ ~queued /\ step = "idle" => InStep

\* And it comes to rest: in the end the companion is in step for good.  (No write of the
\* operator keeps waking it.)
EventuallyInStep == <>[](news = {} /\ ~queued /\ step = "idle" /\ InStep)
================================================================================
