----------------------------- MODULE StatusManager -----------------------------
(***************************************************************************)
(* pkg/controller/statusmanager: how the operator publishes its status.    *)
(*                                                                         *)
(* The controllers raise and clear faults at status levels; the pod        *)
(* controller also reports the rollout of the NCP workloads.  Every call   *)
(* takes the manager's mutex and then runs one or more calls of set, each  *)
(* a retried read-modify-write of an API object: of the ncp-install        *)
(* resource ("crd") on Kubernetes, of the ClusterOperator ("co") and then  *)
(* of ncp-install on OpenShift.  Reads come from the informer cache, so    *)
(* they may lag behind the API server; a write based on an old version is  *)
(* refused with a conflict.                                                *)
(*                                                                         *)
(* Abstracted: a condition is its status, with the reason (and message) of *)
(* a True Degraded; LastTransitionTime, versions and Upgradeable, which    *)
(* are written only together with a condition, are left out.               *)
(***************************************************************************)
EXTENDS Integers

CONSTANTS Reasons,    \* reasons of a Degraded condition
          ConfigReasons, \* those that the configmap controller gives, by level
          NoReason,   \* a nil entry of StatusManager.failing
          MaxAttempts,\* retry.DefaultBackoff.Steps, 4 in the library
          MaxCalls,   \* bound on calls by controllers and rollout changes
          MaxFaults   \* bound on crashes, API errors and foreign writes

ASSUME ReasonsAssumption == /\ NoReason \notin Reasons /\ Reasons # {}
                            /\ Reasons \cap {"Absent", "False"} = {}
ASSUME AttemptsAssumption == MaxAttempts \in Nat \ {0}
ASSUME BoundsAssumption == MaxCalls \in Nat /\ MaxFaults \in Nat

\* type StatusLevel
ClusterConfig  == 0
OperatorConfig == 1
PodDeployment  == 2
RolloutHung    == 3
ClusterNode    == 4
Levels == 0 .. 4

ASSUME ConfigReasonsAssumption ==
    ConfigReasons \in [{ClusterConfig, OperatorConfig} -> SUBSET Reasons]

Adaptors == {"kubernetes", "openshift4"}
Objects  == {"co", "crd"}

VARIABLES
    adaptor,   \* the platform, read once at start-up
    failing,   \* StatusManager.failing
    phase,     \* where the holder of the mutex is: idle, set, crd, lastPodState
    todo,      \* what SetFromPodsForOverall still does after this set
    seen,      \* the rollout it observed
    pending,   \* the conditions handed to set
    coStatus,  \* co.Status.Conditions as updated, to be copied to ncp-install
    attempt,   \* of retry.RetryOnConflict
    api,       \* the objects in the API server
    cache,     \* the objects in the informer cache
    fresh,     \* whether the cache holds the latest version of an object
    rollout,   \* the rollout of the workloads in the cluster
    calls, faults

region  == <<phase, todo, seen, pending, coStatus, attempt>>
objects == <<api, cache, fresh>>
vars == <<adaptor, failing, region, objects, rollout, calls, faults>>

Conditions == [Degraded    : {"Absent", "False"} \cup Reasons,
               Progressing : {"Absent", "False", "True"},
               Available   : {"Absent", "False", "True"}]

NoConditions ==
    [Degraded |-> "Absent", Progressing |-> "Absent", Available |-> "Absent"]

ApiObject == [exists : BOOLEAN, conds : Conditions, lastSeen : BOOLEAN]
NoObject  == [exists |-> FALSE, conds |-> NoConditions, lastSeen |-> FALSE]
NewObject == [NoObject EXCEPT !.exists = TRUE]

\* What the loops of SetFromPodsForOverall can conclude; on Kubernetes
\* getLastPodState remembers nothing, so no rollout is ever found hung.
Rollouts == IF adaptor = "openshift4" THEN {"available", "progressing", "hung"}
                                      ELSE {"available", "progressing"}
--------------------------------------------------------------------------------
(* The conditions *)

\* Mutant: an existing condition is never replaced.
OverrideIfAbsent(old, new) == IF old = "Absent" THEN new ELSE old

Override(old, new) == IF new = "Absent" THEN old ELSE new

CombineConditions(old, new) ==
    [Degraded    |-> Override(old.Degraded, new.Degraded),
     Progressing |-> Override(old.Progressing, new.Progressing),
     Available   |-> Override(old.Available, new.Available)]

\* Progressing without a word on Available: "The network is starting up".
WithStartup(c) ==
    IF c.Available = "Absent" /\ c.Progressing = "True"
    THEN [c EXCEPT !.Available = "False"] ELSE c

\* Mutant: the loop does not stop at the first fault.
syncDegradedLast(f) ==
    IF \A l \in Levels : f[l] = NoReason
    THEN "False"
    ELSE f[CHOOSE l \in Levels : /\ f[l] # NoReason
                                 /\ \A k \in l + 1 .. 4 : f[k] = NoReason]

\* syncDegraded publishes the fault of the lowest level that has one.
syncDegraded(f) ==
    IF \A l \in Levels : f[l] = NoReason
    THEN "False"
    ELSE f[CHOOSE l \in Levels : /\ f[l] # NoReason
                                 /\ \A k \in 0 .. l - 1 : f[k] = NoReason]

Degraded(f) == [NoConditions EXCEPT !.Degraded = syncDegraded(f)]

\* setConditions: what the observed rollout says.
RolloutConditions(r) ==
    IF r = "available"
    THEN [NoConditions EXCEPT !.Progressing = "False", !.Available = "True"]
    ELSE [NoConditions EXCEPT !.Progressing = "True"]

\* The object set works on, and the conditions it wants it to have.  On
\* Kubernetes the conditions are completed before they meet the existing ones,
\* on OpenShift after.
Target == IF adaptor = "kubernetes" THEN "crd" ELSE "co"

\* Mutant: the start-up rule looks at the existing conditions, as on OpenShift.
K8sStatusLate(old, new) == WithStartup(CombineConditions(old, new))

K8sStatus(old, new) == CombineConditions(old, WithStartup(new))
OcStatus(old, new)  == WithStartup(CombineConditions(old, new))

NextStatus ==
    IF adaptor = "kubernetes" THEN K8sStatus(cache["crd"].conds, pending)
                              ELSE OcStatus(cache["co"].conds, pending)
--------------------------------------------------------------------------------
(* Taking the mutex and calling set *)

CallSet(conds, next) ==
    /\ phase' = "set" /\ pending' = conds /\ todo' = next /\ attempt' = 1

Count == calls < MaxCalls /\ calls' = calls + 1
Fault == faults < MaxFaults /\ faults' = faults + 1

setDegraded(l, r, next) ==
    /\ failing' = [failing EXCEPT ![l] = r]
    /\ CallSet(Degraded(failing'), next)

\* Mutant: nothing is published when the level had no fault.
setNotDegradedEarlyReturn(l, next) ==
    /\ failing' = [failing EXCEPT ![l] = NoReason]
    /\ IF failing[l] # NoReason
       THEN CallSet(Degraded(failing'), next)
       ELSE /\ phase' = IF next = "return" THEN "idle" ELSE next
            /\ pending' = NoConditions /\ todo' = next /\ attempt' = 1

\* Published even when the level had no fault.
setNotDegraded(l, next) ==
    /\ failing' = [failing EXCEPT ![l] = NoReason]
    /\ CallSet(Degraded(failing'), next)

SetDegraded(l, r) ==
    /\ phase = "idle" /\ Count
    /\ setDegraded(l, r, "return")
    /\ UNCHANGED <<adaptor, seen, coStatus, objects, rollout, faults>>

SetNotDegraded(l) ==
    /\ phase = "idle" /\ Count
    /\ setNotDegraded(l, "return")
    /\ UNCHANGED <<adaptor, seen, coStatus, objects, rollout, faults>>

\* The node controller's entry point: message is what the failed nodes say.
SetFromNodes(message) == IF message = NoReason THEN SetNotDegraded(ClusterNode)
                                               ELSE SetDegraded(ClusterNode, message)

\* SetFromPodsForOverall observes the rollout, then publishes three times:
\* PodDeployment cleared, the rollout conditions, the RolloutHung level.
SetFromPodsForOverall ==
    /\ phase = "idle"
    /\ seen' = rollout
    /\ setNotDegraded(PodDeployment, "lastPodState")
    /\ UNCHANGED <<adaptor, coStatus, objects, rollout, calls, faults>>

\* The reason is always the same; the message is, as long as the same workloads hang.
HungReason == CHOOSE r \in Reasons : TRUE

\* set returns, with or without an error: the caller unlocks or goes on.
SetReturns ==
    \/ /\ todo = "return" /\ phase' = "idle"
       /\ pending' = NoConditions /\ attempt' = 1
       /\ UNCHANGED <<failing, todo, seen>>
    \/ /\ todo = "lastPodState" /\ phase' = "lastPodState"
       /\ pending' = NoConditions /\ attempt' = 1
       /\ UNCHANGED <<failing, todo, seen>>
    \/ /\ todo = "hung"
       /\ IF seen = "hung"
          THEN setDegraded(RolloutHung, HungReason, "return")
          ELSE setNotDegraded(RolloutHung, "return")
       /\ seen' = "available"

\* setLastPodState: the progressing workloads are remembered in an annotation of
\* the ClusterOperator (a merge patch, so no conflict), then setConditions runs.
\* The order of the entries, and so the patch, may differ between two calls; an
\* error is only logged.
SetLastPodState ==
    /\ phase = "lastPodState"
    /\ \E reordered, failed \in BOOLEAN :
         LET last == seen # "available"
             write == /\ adaptor = "openshift4" /\ api["co"].exists /\ ~failed
                      /\ \/ cache["co"].lastSeen # last /\ api["co"].lastSeen # last
                         \/ last /\ reordered
         IN  /\ IF failed THEN Fault ELSE UNCHANGED faults
             /\ api'   = IF write THEN [api EXCEPT !["co"].lastSeen = last] ELSE api
             /\ fresh' = IF write THEN [fresh EXCEPT !["co"] = FALSE] ELSE fresh
    /\ CallSet(RolloutConditions(seen), "hung")
    /\ UNCHANGED <<adaptor, failing, seen, coStatus, cache, rollout, calls>>
--------------------------------------------------------------------------------
(* set: one attempt of RetryOnConflict *)

\* The part every outcome of set leaves alone.
OutsideSet == <<adaptor, cache, rollout, calls>>

InSet == phase = "set"

\* Mutant: one attempt too many.
RetryOnceMore == IF attempt <= MaxAttempts
                 THEN /\ attempt' = attempt + 1 /\ phase' = "set"
                      /\ UNCHANGED <<failing, todo, seen, pending>>
                 ELSE SetReturns

\* A conflict: try again with what the cache holds then, or give up.
Retry == IF attempt < MaxAttempts
         THEN /\ attempt' = attempt + 1 /\ phase' = "set"
              /\ UNCHANGED <<failing, todo, seen, pending>>
         ELSE SetReturns

Write(o, conds) == /\ api' = [api EXCEPT ![o].conds = conds]
                   /\ fresh' = [fresh EXCEPT ![o] = FALSE]

\* Nothing to change according to the cache.
SetUnchanged ==
    /\ InSet /\ cache[Target].exists
    /\ NextStatus = cache[Target].conds
    /\ SetReturns
    /\ UNCHANGED <<OutsideSet, coStatus, api, fresh, faults>>

\* Kubernetes: no ncp-install, no status.
K8sSetNotFound ==
    /\ InSet /\ adaptor = "kubernetes" /\ ~cache["crd"].exists
    /\ SetReturns
    /\ UNCHANGED <<OutsideSet, coStatus, api, fresh, faults>>

\* OpenShift: the ClusterOperator is created, without its status subresource;
\* the call fails if it exists already.
OcSetCreate ==
    /\ InSet /\ adaptor = "openshift4" /\ ~cache["co"].exists
    /\ IF api["co"].exists
       THEN UNCHANGED <<api, fresh>>
       ELSE /\ api' = [api EXCEPT !["co"] = NewObject]
            /\ fresh' = [fresh EXCEPT !["co"] = FALSE]
    /\ SetReturns
    /\ UNCHANGED <<OutsideSet, coStatus, faults>>

\* The status is written; OpenShift goes on to copy it to ncp-install.
SetWritten ==
    /\ InSet /\ cache[Target].exists /\ fresh[Target]
    /\ NextStatus # cache[Target].conds
    /\ Write(Target, NextStatus)
    /\ IF adaptor = "kubernetes"
       THEN SetReturns /\ UNCHANGED coStatus
       ELSE /\ phase' = "crd" /\ coStatus' = NextStatus
            /\ UNCHANGED <<failing, todo, seen, pending, attempt>>
    /\ UNCHANGED <<OutsideSet, faults>>

\* The cached version is not the latest one: conflict, or not found any more.
SetRefused ==
    /\ InSet /\ cache[Target].exists /\ ~fresh[Target]
    /\ NextStatus # cache[Target].conds
    /\ IF api[Target].exists THEN Retry ELSE SetReturns
    /\ UNCHANGED <<OutsideSet, coStatus, api, fresh, faults>>

\* setNcpInstallCrdStatus on OpenShift, still inside the retried function.
OcCrdStatus == CombineConditions(cache["crd"].conds, coStatus)

OcCrdSkipped ==
    /\ phase = "crd"
    /\ ~cache["crd"].exists \/ OcCrdStatus = cache["crd"].conds
    /\ SetReturns
    /\ coStatus' = NoConditions
    /\ UNCHANGED <<OutsideSet, api, fresh, faults>>

OcCrdWritten ==
    /\ phase = "crd" /\ cache["crd"].exists /\ fresh["crd"]
    /\ OcCrdStatus # cache["crd"].conds
    /\ Write("crd", OcCrdStatus)
    /\ SetReturns
    /\ coStatus' = NoConditions
    /\ UNCHANGED <<OutsideSet, faults>>

OcCrdRefused ==
    /\ phase = "crd" /\ cache["crd"].exists /\ ~fresh["crd"]
    /\ OcCrdStatus # cache["crd"].conds
    /\ IF api["crd"].exists THEN Retry ELSE SetReturns
    /\ coStatus' = NoConditions
    /\ UNCHANGED <<OutsideSet, api, fresh, faults>>

\* Any other error of an API call ends set; it is only logged.
SetFails ==
    /\ phase \in {"set", "crd"} /\ Fault
    /\ SetReturns
    /\ coStatus' = NoConditions
    /\ UNCHANGED <<OutsideSet, api, fresh>>

set == \/ SetUnchanged \/ K8sSetNotFound \/ OcSetCreate \/ SetWritten
       \/ SetRefused \/ OcCrdSkipped \/ OcCrdWritten \/ OcCrdRefused
--------------------------------------------------------------------------------
(* The environment *)

CacheSync(o) ==
    /\ ~fresh[o]
    /\ cache' = [cache EXCEPT ![o] = api[o]]
    /\ fresh' = [fresh EXCEPT ![o] = TRUE]
    /\ UNCHANGED <<adaptor, failing, region, api, rollout, calls, faults>>

\* Somebody else writes the object: its metadata or spec, or its existence.  Kubernetes
\* has no ClusterOperator.
ForeignWrite(o) ==
    /\ Fault /\ (o = "crd" \/ adaptor = "openshift4")
    /\ \/ api[o].exists /\ UNCHANGED api
       \/ api[o].exists /\ api' = [api EXCEPT ![o] = NoObject]
       \/ ~api[o].exists /\ api' = [api EXCEPT ![o] = NewObject]
    /\ fresh' = [fresh EXCEPT ![o] = FALSE]
    /\ UNCHANGED <<adaptor, failing, region, cache, rollout, calls>>

RolloutChanges ==
    /\ Count
    /\ \E r \in Rollouts \ {rollout} : rollout' = r
    /\ UNCHANGED <<adaptor, failing, region, objects, faults>>

\* The operator process dies and is started again, with a new cache.
Restart ==
    /\ Fault
    /\ failing' = [l \in Levels |-> NoReason]
    /\ phase' = "idle" /\ todo' = "return" /\ seen' = "available" /\ attempt' = 1
    /\ pending' = NoConditions /\ coStatus' = NoConditions
    /\ cache' = api /\ fresh' = [o \in Objects |-> TRUE]
    /\ UNCHANGED <<adaptor, api, rollout, calls>>
--------------------------------------------------------------------------------
Init ==
    /\ adaptor \in Adaptors
    /\ failing = [l \in Levels |-> NoReason]
    /\ phase = "idle" /\ todo = "return" /\ attempt = 1
    /\ seen = "available" /\ pending = NoConditions /\ coStatus = NoConditions
    /\ api = [o \in Objects |-> IF o = "crd" THEN NewObject ELSE NoObject]
    /\ cache = api
    /\ fresh = [o \in Objects |-> TRUE]
    /\ rollout = "progressing"
    /\ calls = 0 /\ faults = 0

\* The levels the controllers use: the configmap controller reports
\* ClusterConfig and OperatorConfig, the node controller ClusterNode.
Next ==
    \/ \E l \in {ClusterConfig, OperatorConfig} :
          SetNotDegraded(l) \/ \E r \in ConfigReasons[l] : SetDegraded(l, r)
    \/ \E m \in Reasons \cup {NoReason} : SetFromNodes(m)
    \/ SetFromPodsForOverall
    \/ SetLastPodState
    \/ set
    \/ SetFails
    \/ \E o \in Objects : CacheSync(o) \/ ForeignWrite(o)
    \/ RolloutChanges
    \/ Restart

Spec == Init /\ [][Next]_vars

\* The mutex holder runs on.  The pod controller reports the rollout every two
\* minutes (RequeueAfter), for a far shorter time: informers catch up while the
\* mutex is free, and again and again the report starts when they have.
Resync == SetFromPodsForOverall /\ fresh[Target]

Fairness == /\ WF_vars(set) /\ WF_vars(SetLastPodState)
            /\ \A o \in Objects : SF_vars(CacheSync(o) /\ phase = "idle")
            /\ SF_vars(Resync)

FairSpec == Spec /\ Fairness
--------------------------------------------------------------------------------
(* Properties *)

\* The variables stay in their domains; the mutex holder's local state too.
TypeOK ==
    /\ adaptor \in Adaptors
    /\ failing \in [Levels -> Reasons \cup {NoReason}]
    /\ phase \in {"idle", "set", "crd", "lastPodState"}
    /\ todo \in {"return", "lastPodState", "hung"}
    /\ seen \in {"available", "progressing", "hung"}
    /\ pending \in Conditions /\ coStatus \in Conditions
    /\ attempt \in 1 .. MaxAttempts
    /\ api \in [Objects -> ApiObject] /\ cache \in [Objects -> ApiObject]
    /\ fresh \in [Objects -> BOOLEAN]
    /\ rollout \in {"available", "progressing", "hung"}
    /\ calls \in 0 .. MaxCalls /\ faults \in 0 .. MaxFaults

\* On Kubernetes ncp-install never claims that the network is Available while a
\* rollout is Progressing, whatever was lost, refused or repeated between the
\* writes (StatusK8s.set completes the conditions before combining them).
K8sNotAvailableWhileProgressing ==
    adaptor = "kubernetes" =>
        \A o \in {api["crd"], cache["crd"]} :
            o.conds.Progressing = "True" => o.conds.Available = "False"

\* The Degraded condition a reader sees: in ncp-install on Kubernetes, in the
\* ClusterOperator on OpenShift.
PublishedDegraded == api[Target].conds.Degraded

\* Every published Degraded condition is the summary of the faults known at the
\* moment it is written: the mutex, the conflict retries and the cached reads of
\* set never publish an outdated or a partial summary.
Summary == INSTANCE DegradedSummary WITH published <- PublishedDegraded
SummarySpec == Summary!Spec

\* Once the calls and faults have ended, the published Degraded condition is and
\* stays the summary of the faults: a lost, refused or skipped write, a stale
\* cache and a restart are made up for by the periodic resync.
EventuallyPublished ==
    <>[](api[Target].exists => PublishedDegraded = syncDegraded(failing))

\* A finished rollout is eventually reported as Available and not Progressing.
EventuallyAvailable ==
    <>[](api[Target].exists /\ rollout = "available" =>
            /\ api[Target].conds.Available = "True"
            /\ api[Target].conds.Progressing = "False")

\* "Set status to ncp-install CRD" (StatusOc.set): on OpenShift ncp-install
\* eventually says the same about Degraded as the ClusterOperator.
EventuallyCopied ==
    <>[](adaptor = "openshift4" /\ api["co"].exists /\ api["crd"].exists =>
            api["crd"].conds.Degraded = api["co"].conds.Degraded)
================================================================================
