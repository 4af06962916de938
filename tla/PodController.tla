------------------------------ MODULE PodController ------------------------------
(***************************************************************************)
(* pkg/controller/pod and SetFromPodsForOverall of the status manager: the *)
(* requests of the workloads (two DaemonSets and a Deployment), which      *)
(* repeat every DefaultResyncPeriod.  Each one looks for rollouts that     *)
(* make no progress, recreates its workload if it is gone and, for         *)
(* nsx-node-agent, deletes agent pods that crash because of their          *)
(* resolv.conf.  Requests of agent pods and the full sync at first boot,   *)
(* which a request waits for, are in NodeCondition, the publication of     *)
(* conditions in StatusManager.                                            *)
(*                                                                         *)
(* Time passes in units; informers and the worker keep up within one.      *)
(***************************************************************************)
EXTENDS Integers

CONSTANTS DaemonSets, Deployments, NodeAgentDs, Pods, None,
          Resync,          \* DefaultResyncPeriod
          ProgressTimeout,
          DsStatuses, DepStatuses, \* the statuses that workloads take on
          Generations,
          MaxTime,         \* bound on time
          MaxChanges,      \* bound on changes of workloads and pods
          MaxFaults        \* bound on failed calls and restarts

Workloads == DaemonSets \cup Deployments

ASSUME WorkloadAssumption == NodeAgentDs \in DaemonSets /\ DaemonSets \cap Deployments = {}
ASSUME NoneAssumption == None \notin Workloads
ASSUME TimeAssumption == Resync \in Nat \ {0} /\ ProgressTimeout \in Nat
ASSUME BoundAssumption == MaxTime \in Nat \ {0} /\ MaxChanges \in Nat /\ MaxFaults \in Nat
ASSUME StatusAssumption ==
    /\ DsStatuses \subseteq [desired : Nat, updated : Nat, unavailable : Nat, available : Nat,
                             observed : Nat]
    /\ DepStatuses \subseteq [unavailable : Nat, available : Nat, observed : Nat]
    /\ Generations \subseteq Nat

VARIABLES
    openshift,  \* whether last-seen states are kept, as an annotation of the ClusterOperator
    now,
    work,       \* the workloads in the API server (since: auxiliary), None: missing
    workCache,  \* ... and in the informer cache
    lastSeen,   \* the annotation: the progressing status last seen, and since when
    lastCache,  \* ... in the informer cache
    hung,       \* the level RolloutHung
    shared,     \* whether the ConfigMap controller has shared the objects to recreate
    due,        \* when the request of a workload is due, None: not at all
    step, req,  \* the worker: where it is, whose request it has
    pod,        \* the agent pods: how nsx-node-agent runs (since: auxiliary, of its resolv.conf)
    podCache,   \* ... in the informer cache
    excused,    \* (auxiliary) workloads whose history the operator cannot know
    changes, faults

caches == <<workCache, lastCache, podCache>>
worker == <<step, req>>
vars == <<openshift, now, work, lastSeen, caches, hung, shared, due, worker, pod, excused,
          changes, faults>>

\* The statuses of workloads that have just been created.
NewDs  == [desired |-> 0, updated |-> 0, unavailable |-> 0, available |-> 0, observed |-> 0]
NewDep == [unavailable |-> 0, available |-> 0, observed |-> 0]

RollsTo(w) == IF w \in DaemonSets THEN DsStatuses ELSE DepStatuses
StatusesOf(w) == RollsTo(w) \cup (IF w \in DaemonSets THEN {NewDs} ELSE {NewDep})

Fault == faults < MaxFaults /\ faults' = faults + 1
--------------------------------------------------------------------------------
(* SetFromPodsForOverall *)

DsProgressing(s, gen) ==
    \/ s.updated < s.desired
    \/ s.unavailable > 0
    \/ s.available = 0
    \/ gen > s.observed

DepProgressing(s, gen) ==
    \/ s.unavailable > 0
    \/ s.available = 0
    \/ s.observed < gen

Progressing(w, c) ==
    IF w \in DaemonSets THEN DsProgressing(c.status, c.gen) ELSE DepProgressing(c.status, c.gen)

\* getLastPodState: on Kubernetes nothing is remembered.
LastPodState(w) == IF openshift THEN lastCache[w] ELSE None

Seen(s) == [status |-> s, time |-> now]

\* Mutant: a status that has changed does not start the time anew.
PodStateSticky(w) ==
    LET c == workCache[w] IN
    IF c = None THEN LastPodState(w)
    ELSE IF ~Progressing(w, c) THEN None
    ELSE IF LastPodState(w) = None THEN Seen(c.status) ELSE LastPodState(w)

\* Mutant: the time starts anew whenever the rollout is looked at.
PodStateAnew(w) ==
    LET c == workCache[w] IN
    IF c = None THEN LastPodState(w)
    ELSE IF ~Progressing(w, c) THEN None ELSE Seen(c.status)

\* The state of a workload that is kept: of a missing one the old one.
PodState(w) ==
    LET c == workCache[w] IN
    IF c = None THEN LastPodState(w)
    ELSE IF ~Progressing(w, c) THEN None
    ELSE IF LastPodState(w) = None THEN Seen(c.status)
    ELSE IF LastPodState(w).status # c.status THEN Seen(c.status) ELSE LastPodState(w)

IsHung(w) ==
    /\ workCache[w] # None /\ Progressing(w, workCache[w])
    /\ LastPodState(w) # None /\ now - PodState(w).time > ProgressTimeout

Kept == [w \in Workloads |-> PodState(w)]

\* setLastPodState patches the annotation.  The patch is the difference to the cached
\* ClusterOperator, which may be older: it can be empty although the annotation differs.
\* An error is logged only.
SetLastPodState ==
    \/ /\ lastSeen' = IF openshift THEN Kept ELSE lastSeen
       /\ UNCHANGED <<excused, faults>>
    \/ /\ openshift /\ Kept = lastCache
       /\ UNCHANGED <<lastSeen, excused, faults>>
    \/ /\ openshift /\ Fault
       /\ excused' = Workloads /\ UNCHANGED lastSeen

SetFromPods(w) ==
    /\ step = "idle" /\ due[w] # None /\ due[w] <= now
    /\ due' = [due EXCEPT ![w] = None]
    /\ SetLastPodState
    /\ hung' = \E v \in Workloads : IsHung(v)
    /\ step' = "recreate" /\ req' = w
    /\ UNCHANGED <<openshift, now, work, caches, shared, pod, changes>>
--------------------------------------------------------------------------------
(* The rest of Reconcile *)

\* A request is added for time t, unless one is due earlier.
Earlier(w, t) == [due EXCEPT ![w] = IF @ = None THEN t ELSE IF t < @ THEN t ELSE @]

\* Mutant: no RequeueAfter.
DoneForGood == step' = "idle" /\ req' = None /\ due' = due

Done == step' = "idle" /\ req' = None /\ due' = Earlier(req, now + Resync)

\* An error: the request comes back at once, after the same error later and later.
Retry(t) == step' = "idle" /\ req' = None /\ due' = Earlier(req, t)

\* Mutant: after the request of any workload.
RecreatedAnyway == step' = "pods" /\ UNCHANGED <<req, due>>

\* Of nsx-node-agent the pods are looked at as well.
Recreated == IF req = NodeAgentDs THEN step' = "pods" /\ UNCHANGED <<req, due>> ELSE Done

Missing == workCache[req] = None

\* It exists, or is being created by somebody else: applying it again changes nothing here.
NotRecreate ==
    /\ step = "recreate" /\ (Missing => shared /\ work[req] # None)
    /\ Recreated
    /\ UNCHANGED <<openshift, now, work, lastSeen, caches, hung, shared, pod, excused, changes, faults>>

Fresh(w) ==
    [gen |-> 1, since |-> now, status |-> IF w \in DaemonSets THEN NewDs ELSE NewDep]

Recreate ==
    /\ step = "recreate" /\ Missing /\ shared /\ work[req] = None
    /\ work' = [work EXCEPT ![req] = Fresh(req)] /\ excused' = excused \cup {req}
    /\ Recreated
    /\ UNCHANGED <<openshift, now, lastSeen, caches, hung, shared, pod, changes, faults>>

\* There is nothing to recreate it from yet, ...
RecreateWaits ==
    /\ step = "recreate" /\ Missing /\ ~shared
    /\ Retry(now + 1)
    /\ UNCHANGED <<openshift, now, work, lastSeen, caches, hung, shared, pod, excused, changes, faults>>

\* ... or a call fails.
RecreateFails ==
    /\ step = "recreate" /\ Fault
    /\ Retry(now)
    /\ UNCHANGED <<openshift, now, work, lastSeen, caches, hung, shared, pod, excused, changes>>

\* isNodeAgentContainerInCLB, of the pods as they are listed.
InCLB == {p \in Pods : podCache[p].state \in {"crashing", "resolvconf"}}

\* The log of the last run, read from the pod itself, tells why.
PodsInCLB == {p \in InCLB : pod[p].state = "resolvconf"}

\* The DaemonSet replaces a deleted pod.
Deleted(P) == pod' = [p \in Pods |-> IF p \in P THEN [state |-> "up", since |-> 0] ELSE pod[p]]

RecreatePods ==
    /\ step = "pods"
    /\ Deleted(PodsInCLB) /\ Done
    /\ UNCHANGED <<openshift, now, work, lastSeen, caches, hung, shared, excused, changes, faults>>

\* A call fails, or a listed pod is gone: none, or not all, are deleted.
RecreatePodsFails ==
    /\ step = "pods"
    /\ IF \E p \in InCLB : pod[p].state = "up" THEN UNCHANGED faults ELSE Fault
    /\ \E P \in SUBSET PodsInCLB : Deleted(P)
    /\ Retry(now)
    /\ UNCHANGED <<openshift, now, work, lastSeen, caches, hung, shared, excused, changes>>

Reconcile == \/ \E w \in Workloads : SetFromPods(w)
             \/ NotRecreate \/ Recreate \/ RecreateWaits \/ RecreateFails
             \/ RecreatePods \/ RecreatePodsFails
--------------------------------------------------------------------------------
(* Informers and process *)

WorkInformed(w) ==
    /\ workCache[w] # work[w]
    /\ workCache' = [workCache EXCEPT ![w] = work[w]]
    /\ due' = Earlier(w, now)
    /\ UNCHANGED <<openshift, now, work, lastSeen, lastCache, podCache, hung, shared, worker, pod,
                   excused, changes, faults>>

LastInformed ==
    /\ lastCache # lastSeen /\ lastCache' = lastSeen
    /\ UNCHANGED <<openshift, now, work, lastSeen, workCache, podCache, hung, shared, due, worker,
                   pod, excused, changes, faults>>

PodInformed(p) ==
    /\ podCache[p] # pod[p] /\ podCache' = [podCache EXCEPT ![p] = pod[p]]
    /\ UNCHANGED <<openshift, now, work, lastSeen, workCache, lastCache, hung, shared, due, worker,
                   pod, excused, changes, faults>>

\* Every workload that is there is an event for a new process.
Events == [w \in Workloads |-> IF work[w] = None THEN None ELSE now]

Restart ==
    /\ Fault
    /\ workCache' = work /\ lastCache' = lastSeen /\ podCache' = pod
    /\ due' = Events /\ step' = "idle" /\ req' = None /\ hung' = FALSE /\ shared' = FALSE
    /\ UNCHANGED <<openshift, now, work, lastSeen, pod, excused, changes>>
--------------------------------------------------------------------------------
(* The cluster *)

Change == /\ changes < MaxChanges /\ changes' = changes + 1
          /\ UNCHANGED <<openshift, now, lastSeen, caches, hung, shared, due, worker, faults>>

\* A rollout: a new generation of the workload or a new status; its time starts with its
\* status, or when it starts.
Roll(w, gen, s) ==
    /\ work[w] # None /\ gen >= work[w].gen
    /\ LET moved == \/ s # work[w].status
                    \/ Progressing(w, [gen |-> gen, status |-> s]) # Progressing(w, work[w])
       IN  /\ moved \/ gen # work[w].gen
           /\ work' = [work EXCEPT ![w] = [gen |-> gen, status |-> s,
                                           since |-> IF moved THEN now ELSE @.since]]
           /\ excused' = IF moved /\ work[w].since = now THEN excused \cup {w} ELSE excused
    /\ Change /\ UNCHANGED pod

Delete(w) ==
    /\ work[w] # None /\ work' = [work EXCEPT ![w] = None]
    /\ Change /\ UNCHANGED <<pod, excused>>

\* The ConfigMap controller creates the workload, with what it shares first.
Share == /\ ~shared /\ shared' = TRUE
         /\ UNCHANGED <<openshift, now, work, lastSeen, caches, hung, due, worker, pod, excused,
                        changes, faults>>

Create(w) ==
    /\ shared /\ work[w] = None
    /\ work' = [work EXCEPT ![w] = Fresh(w)] /\ excused' = excused \cup {w}
    /\ UNCHANGED <<openshift, now, lastSeen, caches, hung, shared, due, worker, pod, changes, faults>>

PodStates == {"up", "crashing", "resolvconf"}

PodChanges(p, s) ==
    /\ pod[p].state # s /\ pod' = [pod EXCEPT ![p] = [state |-> s, since |-> IF s = "resolvconf" THEN now ELSE 0]]
    /\ Change /\ UNCHANGED <<work, excused>>

Cluster == \/ \E w \in Workloads : \/ Delete(w) \/ Create(w)
                                   \/ \E gen \in Generations, s \in RollsTo(w) : Roll(w, gen, s)
           \/ \E p \in Pods, s \in PodStates : PodChanges(p, s)
           \/ Share

\* Everything that was to be done by now is done.
Settled ==
    /\ step = "idle" /\ workCache = work /\ lastCache = lastSeen /\ podCache = pod
    /\ \A w \in Workloads : due[w] # None => due[w] > now

Tick ==
    /\ Settled /\ now < MaxTime /\ now' = now + 1
    /\ UNCHANGED <<openshift, work, lastSeen, caches, hung, shared, due, worker, pod, excused,
                   changes, faults>>
--------------------------------------------------------------------------------
WorkStates(w) == [gen : Generations \cup {1}, since : 0 .. MaxTime, status : StatusesOf(w)]

\* The operator starts in a cluster with some of its workloads, or none.
Init ==
    /\ openshift \in BOOLEAN /\ now = 1
    /\ work \in [Workloads -> {None} \cup UNION {WorkStates(w) : w \in Workloads}]
    /\ \A w \in Workloads : work[w] # None => work[w] \in WorkStates(w) /\ work[w].since = 0
    /\ workCache = work
    /\ lastSeen = [w \in Workloads |-> None] /\ lastCache = lastSeen
    /\ hung = FALSE /\ shared = FALSE /\ due = Events
    /\ step = "idle" /\ req = None
    /\ pod = [p \in Pods |-> [state |-> "up", since |-> 0]] /\ podCache = pod
    /\ excused = {} /\ changes = 0 /\ faults = 0

Next == \/ Reconcile
        \/ \E w \in Workloads : WorkInformed(w)
        \/ LastInformed \/ (\E p \in Pods : PodInformed(p))
        \/ Restart \/ Cluster \/ Tick

Spec == Init /\ [][Next]_vars
--------------------------------------------------------------------------------
(* Properties *)

Entries == [status : UNION {StatusesOf(w) : w \in Workloads}, time : 0 .. MaxTime]
PodRecords == [state : PodStates, since : 0 .. MaxTime]

ASSUME EntryAssumption == None \notin Nat \cup Entries

TypeOK ==
    /\ openshift \in BOOLEAN /\ now \in 0 .. MaxTime
    /\ DOMAIN work = Workloads /\ DOMAIN workCache = Workloads
    /\ \A w \in Workloads : {work[w], workCache[w]} \subseteq WorkStates(w) \cup {None}
    /\ lastSeen \in [Workloads -> Entries \cup {None}]
    /\ lastCache \in [Workloads -> Entries \cup {None}]
    /\ (~openshift => \A w \in Workloads : lastSeen[w] = None)
    /\ hung \in BOOLEAN /\ shared \in BOOLEAN
    /\ due \in [Workloads -> (0 .. MaxTime + Resync) \cup {None}]
    /\ step \in {"idle", "recreate", "pods"} /\ req \in Workloads \cup {None}
    /\ (req = None <=> step = "idle") /\ (step = "pods" => req = NodeAgentDs)
    /\ pod \in [Pods -> PodRecords] /\ podCache \in [Pods -> PodRecords]
    /\ excused \subseteq Workloads
    /\ changes \in 0 .. MaxChanges /\ faults \in 0 .. MaxFaults

Rolling(w) == work[w] # None /\ Progressing(w, work[w])

\* Once a moment's work is done, RolloutHung is raised only on OpenShift and only if there
\* is a rollout whose status has not changed for ProgressTimeout ("Catch hung rollouts"),
\* across restarts; because the annotation is read from a cache and patched against it, a
\* rollout that comes back to its status may be found hung a resync period early.  Not
\* known to the operator: workloads deleted and created again, changes and their reversal
\* at one moment, and what was not written because of an error.
HungHonest ==
    Settled /\ hung =>
        /\ openshift
        /\ \E w \in Workloads :
              \/ w \in excused
              \/ Rolling(w) /\ now - work[w].since > ProgressTimeout - Resync

\* "if a rollout has not made any progress by this time, mark ourselves as Degraded": on
\* OpenShift RolloutHung is raised at the next resync after ProgressTimeout, however many
\* restarts there are; a failed write of the annotation costs one period more, and so does
\* a patch that is empty although the annotation differs (SetLastPodState).
HungInTime ==
    openshift /\ Settled =>
        \A w \in Workloads :
            Rolling(w) /\ now - work[w].since > ProgressTimeout + Resync * (2 + faults) => hung

\* An agent pod that crashes because of its resolv.conf is deleted within a resync period
\* as long as the DaemonSet is there (recreateNodeAgentPodsIfInvalidResolvConf): events of
\* pods do not lead to it, so it is the request of the DaemonSet that must go on.
RestartedInTime ==
    Settled /\ work[NodeAgentDs] # None =>
        \A p \in Pods : pod[p].state = "resolvconf" => now - pod[p].since < Resync
================================================================================
