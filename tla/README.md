# Verification of the NSX container plugin operator

TLA+ models of the operator, the TLC runs that check them on small instances,
and TLAPS proofs about them. Paths are relative to the repository; "CC", "CF"
and "SM" stand for `pkg/controller/configmap/configmap_controller.go`,
`pkg/controller/configmap/config.go` and
`pkg/controller/statusmanager/status_manager.go`.

## The system

The operator deploys NCP (a Deployment) and nsx-node-agent and nsx-ncp-bootstrap
(two DaemonSets) on Kubernetes or OpenShift 4. One process runs four
controllers, each with one worker and a work queue of its own. They share a
status manager and the structure `sharedinfo`. All state that outlives the
process is in the API server, which the controllers read through an informer
cache; leader election is off.

| Part | State | Operations |
|---|---|---|
| ConfigMap controller (CC) | global `appliedConfigMap` | `Reconcile`: read ncp-install, the operator's ConfigMap, the Network, the secrets; fill defaults, validate, render; compare with what is applied; apply the objects; update the Network's status |
| Configuration algorithms (CF) | none | `FillDefaults`, `Validate`, `NeedApplyChange`, `generateConfigMap`, `GenerateOperatorConfigMap`, `Render` |
| Status manager (SM, `pod_status.go`, `node_status.go`) | `failing` per level, a mutex | `SetDegraded`, `SetNotDegraded`, `SetFromNodes`, `SetFromPodsForOverall`, node conditions |
| Pod controller | `firstBoot` | resync every two minutes: rollout status, recreation of deleted workloads, agent pods with an invalid resolv.conf; node conditions from agent pods |
| Node controller | `cachedNodeSet` | tag the NSX segment ports of every node |
| Canary workaround controller | none | keep a companion of a host-network NetworkPolicy |
| sharedinfo | rendered workloads, configuration, Network, `AddNodeTag`, start times | written by the ConfigMap controller, read by the others |

How they meet:

* every controller calls the status manager; its mutex serialises the calls,
  but what it publishes goes through a stale cache, conflicts and retries;
* the ConfigMap controller fills `sharedinfo`; the pod controller recreates
  workloads from it, the node controller takes the cluster name and the NSX
  credentials from it; there is no lock on it;
* both the ConfigMap and the pod controller apply workloads;
* users edit the inputs, and delete objects, at any time.

Hard behaviours: lost updates of the status; an apply that stops halfway and is
retried on other inputs; a new process that has to find out what was applied;
restarts of pods triggered only by a comparison; rollouts and agents judged by
time; events that arrive out of order. `PROJECT.json` lists them under `hazards`,
each at its line.

What makes each part correct:

* status manager: a published Degraded condition summarises the faults of that
  moment; every fault and every recovery is published in the end; Available and
  Progressing do not contradict each other;
* configuration algorithms: no relevant change is missed, none is invented by a
  restart, the user's options survive;
* ConfigMap controller: after a successful reconcile the pods run on the present
  options; immutable options never change; the controller keeps trying or says
  why not;
* node conditions: NetworkUnavailable is cleared after 180 s of a healthy agent
  and never by an outdated pod;
* pod controller: a deleted workload comes back as the ConfigMap controller last
  rendered it; a rollout that makes no progress is told in time, and no other;
  agents that crash because of resolv.conf are restarted;
* node controller: every node's port gets both tags once; ClusterNode is degraded
  exactly while a present node fails;
* canary workaround: the companion exists exactly for a policy that needs it.

## Modules

* `DegradedSummary`: abstract specification of the Degraded condition.
* `StatusManager`: the status manager; `StatusManagerProofs`: its theorems;
  `MCStatusManager`: its instances.
* `ConfigOptions`: the configuration algorithms as operators; `MCConfigOptions`:
  a small state machine of edits and applies that drives them;
  `ConfigOptionsLemmas`: facts about the operators, which two modules of proofs
  use; `ConfigOptionsProofs`: its theorems.
* `ConfigMapController`: the controller's reconcile loop, on top of
  `ConfigOptions`, with the pods, the users and the pod controller's recreation
  of workloads as environment; `ConfigMapControllerProofs`: its theorems;
  `MCConfigMapController`: its instances.
* `NodeCondition`: the node conditions that the pod controller derives from
  nsx-node-agent pods, with a clock; `NodeConditionProofs`, `MCNodeCondition`.
* `PodController`: the pod controller's requests of the workloads and the
  judgement of their rollouts, with a clock; `PodControllerProofs`, `MCPodController`.
* `NodeController`: the node controller, with NSX and with the switch `AddNodeTag`
  of the ConfigMap controller; `NodeControllerProofs`, `MCNodeController`.
* `CanaryWorkaround`: the canary workaround controller, with the other writers of
  its objects; `CanaryWorkaroundProofs`, `MCCanaryWorkaround`.

The pod controller is in three modules, by what its requests are about:
`NodeCondition` (agent pods), `PodController` (workloads) and, where the race with
an apply matters, the recreation in `ConfigMapController`. What all of them publish
is in `StatusManager`.

### StatusManager

A call takes the mutex (`phase # "idle"`) and runs `set` one or more times. An
attempt of `set` is one step (read from the cache, combine, write); on OpenShift
the copy to ncp-install is a second one (`phase = "crd"`). `SetWritten`,
`SetRefused`, `SetUnchanged`, `OcSetCreate`, `K8sSetNotFound`, `OcCrdWritten`,
`OcCrdRefused`, `OcCrdSkipped` and `SetFails` are the outcomes in the code;
`Retry` is `retry.RetryOnConflict`. `SetFromPodsForOverall` publishes three
times and patches an annotation in between; `todo` says what is left. A condition
is its status together with the reason of a Degraded; transition times, versions
and Upgradeable are written only together with a condition and are left out.
`api` is the API server and `cache` the informer's view, `fresh` whether they
agree on the version. A restart clears the memory and fills the cache anew.
RolloutHung is raised with one reason (`HungReason`), as in the code, so that a
rollout that stays hung is no change.

The observed rollout is available, progressing or, on OpenShift only, hung: on
Kubernetes `getLastPodState` remembers nothing, so the code never finds one hung.

### ConfigOptions

A configuration is a function from sections to functions from keys to values; the
text, its order and comments are abstracted away. `FillDefaults`, `Valid`,
`DropUnsupported`, `generateConfigMap`, `GenerateOperatorConfigMap`,
`NeedApplyChange`, `OptionsChanged` and `ImmutableFieldChanged` are the functions
of CF; `Touched` is the side effect of go-ini that reading an absent key creates
it. The tables of `pkg/types/defaults.go` are constants. `DependsOn` and `SameFor`
say independently of the comparison which options a kind of pod depends on.
`MCConfigOptions` runs them on both platforms: the adaptors differ in the defaults they
fill in, in those they force on the user, and in one option they demand. The operator fills
them into the ConfigMap it has just read and never writes them back, so each reconcile
starts from what the user wrote.

### ConfigMapController

`Steps` are the steps of a reconcile once it has read its inputs: compare, apply
six objects in the order of the manifest, finish. The early exits are
`ReconcileMissing` (ncp-install, the ConfigMap or, on OpenShift, the Network is missing:
a level is raised and nothing is requeued), `ReadFails` (one of them or a secret cannot
be read) and `ReconcileInvalid`; `ReconcileRead` reads and shares the
inputs and joins the applied configuration, or goes on without it when a read
fails; `CompareFails`, `CompareEqual` and `CompareDifferent` are the three ends
of the comparison; `ApplyObject`, `ApplyFails` and `Finish` are the loop and what
follows it. Between any two steps users may edit inputs (the CIDRs of the Network among
them), workloads may be deleted or recreated, and the process may restart.

Reconcile reads with the manager's client, that is, from the informers' cache (CC
157-158). `cache` is what the cache shows of the objects the operator itself writes:
the copy of the secret, the two ConfigMaps, the workloads. It may be older than the
operator's own last apply; `InformerTells` brings it up to date, one kind of object at a
time, in any order, and a new process fills it anew. The join, `isSecretChanged`,
`isNcpDeploymentChanged` and `isNsxNodeAgentDsChanged` read `cache`, never the objects
themselves. For the users' objects `inputs` is what the cache shows: an edit
is the moment its event arrives, which is also when the request is queued.

A pod is the configuration and the secret it started with. A workload restarts
its pods when its template or its `updateTimeStamp` changes; pods whose ConfigMap
does not exist yet wait for it. nsx-secret and lb-secret are one secret; of the
roughly twenty objects of a manifest the six with a state that matters are
applied. Two stamps of one workload always differ.

Auxiliary variables record history and influence nothing:

* `done`: the last reconcile succeeded on the present inputs;
* `blind`: the apply under way, or the memory it left, started from something else than
  what is deployed, because the join met an error or a cache that does not show the
  ConfigMaps as they are. `ImmutableKept` is about the other applies;
* `tried`: the configurations that applies which were broken off have written, or may have
  written, since a workload's pods were last restarted. `ConfigPickedUp` excuses outdated
  pods only if one of these differs from the present configuration in an option of
  theirs, so that an apply that fails and is retried as it was is not excused;
* `unsure`: since NCP was last restarted a secret was written by an apply that broke off
  before NCP's turn, or was found equal to an outdated copy in the cache. `SecretPickedUp`
  is about the other cases.

What the excuses leave out is not shown to be right: it is wrong, and `configmap_pickedup`
and `configmap_immutable` show it. The counters of edits, errors and restarts, and
`MaxEvents` for their sum, bound the runs.

### NodeCondition

`pod` is the status of each agent pod (its containers' starts, whether they run),
`podCache` and `condCache` are what the informers have told, in any order, and
`queue` and `due` the requests of pods, at once and after a RequeueAfter. `Take`
starts a request; at first boot `CheckExistingAgentPods` goes over all pods
(`SyncPod`, or `SyncNode` without any, then `SyncDone`); `SetNodeCondition` judges a
pod (`Judge`: ready only if every container has run for the grace time), unless it
is `Outdated` by `LastNodeAgentStartTime`, and updates the node, and
`AssertNodeStatus` checks it, both with the node as the cache has it. The first full sync discards
every RequeueAfter, as the code does.

Time passes only when informers and worker have done everything that was due:
they are assumed to keep up within one unit, in any order. Between `Crash` and
`Boot` the operator is off and the cluster goes on. Three variables are auxiliary:
`restarts`, `stable` (the pods that have run through a grace time) and `blurred`,
the nodes with agents the operator could not tell apart: several when it started,
or, as a unit of time ended, some whose start times do not say which is newer.

### PodController

A request of a workload is `SetFromPods` (the whole of `SetFromPodsForOverall`,
under the mutex; its publications are in `StatusManager`), then the look-up and
recreation of the workload (`NotRecreate`, `Recreate`, `RecreateWaits`,
`RecreateFails`), then, for nsx-node-agent, the pods (`RecreatePods`,
`RecreatePodsFails`), and it leaves the next request behind (`Done`, `Retry`). `due`
is the queue; a request that comes earlier replaces a later one, which in the
code would only look once more. `lastSeen` is the annotation of the
ClusterOperator, `lastCache` what the informer shows of it; since the patch is
computed against the cache it can be empty although the annotation is not what is
to be written (`SetLastPodState`). The statuses of workloads are records of the
counts the code looks at; the annotation's are compared as a whole. `since` and
`excused` are auxiliary: how long a status has been so, and for which workloads
the operator cannot know it.

### NodeController

`Reconcile(n)` checks `AddNodeTag` (`ReconcileOff`), looks for the node
(`ReconcileGone`), skips one that was processed with the same addresses
(`ReconcileSkip`) or goes on (`ReconcileStart`); `Locate` chooses the port from NSX
(`Candidates`: those whose bindings match the node's addresses) and `Tag` replaces
it; `LocateFails` and `TagFails` are the errors, and each end is a `SetFromNodes`.
A port may move or change its addresses in between. The
ConfigMap controller switches off in its two steps, clearing the level first
(`SwitchOff`) and the switch after it (`SwitchedOff`). A kubelet's heartbeat is an
event of its node.

### CanaryWorkaround

`Start`, `ListNodeIPs`, `ReadPorts` and `Apply` are the steps of `Reconcile`, each
with its own read of a cache that lags; `DeleteWorkaroundPolicy` is the other way
out. `Watched` is the four watches with their predicates. The ingress operator
changes the policy and the Service, nodes change addresses, users edit or delete
the companion, and the garbage collector takes a companion whose owner is gone.

## Runs

| Run | Bounds | Shows |
|---|---|---|
| `status` | 2 reasons, 2 calls or rollout changes, 1 fault, 2 attempts | type invariant; Degraded is always a summary of the present faults (refinement of `DegradedSummary`); on Kubernetes Available and Progressing do not contradict each other; every fault or recovery and every finished rollout is published in the end |
| `status_copied` | 1 call, no fault, 4 attempts | violation: ncp-install may stay outdated on OpenShift |
| `config_options` | both platforms, 3 edits of a typical ncp.ini, 12 options of every kind, 3 values | changes found; join after split finds none; defaults yield to the user and none is left out |
| `configmap_safety` | both platforms, 5 configurations, no secret or one of 2, 2 templates, 2 Networks; edits and deletions, 1 failed call, 1 restart, two of these in all; the cache lags | type invariant; options and secret picked up, MTU published, immutable options kept; never at rest unreported |
| `configmap_live` | both platforms, 4 configurations; 1 edit or deletion, 1 failed call, 1 restart, two of these in all; the cache lags | the controller succeeds and the workloads run |
| `configmap_pickedup` | 4 configurations, 2 edits, 1 failed call | violation: a broken-off apply can leave pods on outdated content for good |
| `configmap_immutable` | 1 edit, 1 failed read, 1 restart | violation: a failed read lets an immutable option change |
| `node_condition` | 1 node, 2 agent pods of 2 containers, grace 2, 7 units of time, 3 changes up to time 4, 1 fault, 1 restart | a node becomes available only after a whole grace time; without a restart it is as its newest agent is whenever nothing is left to do, if its agents could be told apart |
| `pod_controller` | a DaemonSet with 3 statuses, a Deployment with 2, 2 generations, 1 agent pod, ProgressTimeout of 1 resync, 5 units of time, 2 changes, 1 failed call or restart | hung rollouts are told after ProgressTimeout and two resyncs, one more per failure, and no others are; agents with an invalid resolv.conf are restarted within a resync |
| `node_controller` | 2 nodes, 2 ports, 2 addresses, 2 changes, 1 fault | a node's tag is on a port of its VM only, the one with its addresses; it gets there in the end; the ClusterNode level is cleared in the end |
| `node_controller_off` | the same, 1 change | violation: the level may be raised after tagging was switched off |
| `canary` | 2 node addresses (IPv4, IPv6), 2 Service entries, 2 changes, 1 fault | the companion is in step with its inputs at rest, and comes to rest |

Why the bounds are enough. Two reasons make two faults distinguishable, two
calls make them overlap at two levels, and two attempts make one conflict and one
exhaustion of the retries; the proofs lift them for safety. Two edits of the
configuration are an edit and its withdrawal, or an edit in the middle of an
apply and one after it; two of three secrets are a rotation and its withdrawal. The
five configurations contain a change for every kind of pod, one through a section, one
through a single option, an immutable one and an invalid one. One failed call and one
restart give every place where an apply can break off. The platform is a variable in
`StatusManager`, `PodController`, `ConfigMapController` and `MCConfigOptions`, so that their
runs cover both; the other modules do not depend on it.

The installation is not counted among the two events of `configmap_safety` and
`configmap_live`: the first thing that happens to a new operator is a full apply, and an
edit, a failure or a restart may already fall into it. Two events are two edits, or an
edit and the place where its apply breaks off, or a failure and a restart. Three
would be an edit, the place where its apply breaks off, and its withdrawal, which the
bounds of `configmap_pickedup` include; the theorems hold for any number. Templates, Networks and the two secrets are
interchangeable, which `MCSymmetry` uses in `configmap_safety`; the run with fairness
uses no symmetry.

One action constraint, `MCLateNews`, says when the cache tells its news: just before it is
read, that is, before a join and before a comparison, and it is read nowhere else. A read
may then be as old as the one before it or as new as can be; what the two runs leave out is
a read of something that came and went between the two, such as a workload that was
recreated and then applied. The theorems and the two violations do without it.

`ConfigReasons` gives the levels ClusterConfig and OperatorConfig one reason
each and ClusterNode both, so that faults of different levels can be told apart
and one level can change its reason. In `node_condition` two pods are the old and
the new agent of a node, three changes a start, a failure and a recovery, and seven
units leave time for a grace after the last change. In `pod_controller` five units
leave time for one ProgressTimeout and the three periods of a rollout whose first
write fails or is empty, for one that began before the operator or in the first unit. In `node_controller` a port may have one node's address, the other's
or both, and in one initial state a node has two addresses, each on a port of its own, so
that neither may be tagged. In `canary` two changes replace or edit an input under a running request.

`CHECK_DEADLOCK FALSE` is set where the system may stop: a controller with its
queue empty and the edits used up, and the clock at its bound. The status manager
resyncs for ever, and its runs check deadlock.

### Fairness

`StatusManager`: the holder of the mutex goes on (weak fairness of `set` and
`SetLastPodState`: client calls return). The pod controller reports every two
minutes because `Reconcile` returns `RequeueAfter`; a publication takes far less,
so informers catch up between two reports: strong fairness of `CacheSync` while
the mutex is free, and of a report that starts with an up-to-date cache. Nothing
is assumed of controllers' calls, rollouts, faults or foreign writes.

`ConfigMapController`: weak fairness of `Reconcile` (controller-runtime hands out
queued requests and retries errors) and of the recreation of a deleted workload
(the pod controller's resync). Failures are bounded, not excluded.

`NodeController`: weak fairness of its worker and of the ConfigMap controller's
switch, of informers and of the kubelets' heartbeats, which update every node
again and again; strong fairness of `Reconcile(n)`: the work queue passes nobody
over. Without heartbeats a node that was dropped while tagging was off would not
come back, as nothing queues it.

`CanaryWorkaround`: weak fairness of `Reconcile` and of every informer.

`NodeCondition` and `PodController` state in time what must happen: with a clock
that waits until everything due is done, "within a resync" is an invariant, and
says more than that it happens in the end. What the clock assumes is that
informers and the worker keep up within one unit.

## What the violations show

* `status_copied`: `StatusOc.set` retries as a whole. When the ClusterOperator is
  written and ncp-install then conflicts, the second attempt finds the
  ClusterOperator unchanged and returns. The resync does not help, for the same
  reason; ncp-install is repaired only when the ClusterOperator changes again.
* `configmap_pickedup`: `appliedConfigMap` is assigned after the last object. TLC's
  shortest example is a first install that fails after NCP's Deployment, followed
  by an edit: the retry has no applied configuration, so it stamps no workload,
  and NCP keeps running on the first version. The same invariant fails when an
  edit is applied halfway and then taken back (nothing seems to differ from
  memory) and when only the secret was copied (it is equal by then). It needs no
  failure at all: with three secrets and `MaxErrors` 0 TLC finds a secret that goes from s1
  to s2 and, while s2 is being applied, back to s1. The queued reconcile wants s1, and the
  cache still shows NCP's copy as it was before the operator wrote s2: `isSecretChanged`
  finds no difference, success is reported, and NCP keeps running with s2 until something
  else changes.
* `configmap_immutable`: an error that is not "not found" while joining the applied
  configuration is treated like absence, which also skips the immutable fields. So does a
  "not found" from a cache that has not yet seen the ConfigMaps.
* `node_controller_off`: the ConfigMap controller clears the ClusterNode level and then
  sets `AddNodeTag` to false, while a request that has passed the check still
  reports its failure; every later request is dropped at that check.

Met while modelling, and not the subject of a run:

* `RestHonest` is stated for operators that have not been restarted. With a restart
  TLC finds a node that stays available: the full sync writes
  NetworkUnavailable=False for an older agent pod; the request of the newer pod,
  whose failure is what the node's cache entry still shows, is skipped as
  unchanged, and `assertNodeStatus` (`pod_status.go:148`), which reads the same
  entry, is satisfied, so that nothing is requeued. Only the ten-hour resync of
  controller-runtime, which is not modelled, would repair it.
* The same can happen without a restart, and was found by the proof of `RestHonest`,
  not by a run: it takes three agents of a node. At the first boot the full sync
  writes ready for the first, which the cache then shows, and not ready for the
  second; the third, which is ready, is skipped as unchanged against the cache, and
  so is its own request, so that the node stays unavailable. Two agents and a retry
  of the full sync do as well. With equal start times the outdated-pod check takes
  both agents, and a pod without a start time is not checked: when such agents have
  been there across a unit of time and one is deleted, the other's verdict may be
  the older one. `RestHonest` therefore leaves the nodes in `blurred` out.
* `pod_status.go:36-37` says "if a rollout has not made any progress by this time,
  mark ourselves as Degraded". On Kubernetes `getLastPodState` returns empty maps, so
  `exists` is false and no rollout is ever hung; `HungInTime` is stated for
  OpenShift.
* The annotation is patched against a cached ClusterOperator. A rollout that ends
  and comes back to its status within a period can keep its old time, and be found
  hung up to one resync period early: `HungHonest` allows for that, and fails
  without. For the same reason a patch may be empty when it should not be, which
  costs one period without any failure; `HungInTime` allows ProgressTimeout and two
  periods, and one more per failure. (An earlier bound, with one period less, held
  in the run, where a period is one unit of time, and not for longer ones: its proof
  failed on this step.)
* A port that matches two addresses of its node is counted twice by
  `filterPortsByNodeAddresses` and not tagged (`node_controller.go:235`); `Candidates`
  does the same. `OwnTagOnly` does not say that a node must be tagged, and
  `EventuallyTagged` only of nodes whose port the code can tell.
* Two things about ports are taken from outside or exempt: NSX refuses to replace a
  port that has changed since it was read, and a port that moves to another VM after it
  was tagged keeps the old tag, since `Reconcile` skips a processed node (see the TODO
  there); both properties leave such nodes (`moved`) out.
* A failed node that is deleted while tagging is off stays in `cachedNodeSet` and
  keeps the level raised afterwards (`Lingering` in `EventuallyCleared`).
* On clusters with IPv6 nodes only `buildWorkaroundPolicy` leaves all addresses out
  after it has counted them: a rule without peers admits every source, where the
  comment at `canaryworkaround_controller.go:370-373` wants the nodes only. The
  model writes what the code writes.

A mutant worth knowing: `NetworkChangedCorrected` repairs `HasNetworkConfigChange`,
which compares the Network with itself and has its result inverted. With it
`NetworkMTUPublished` fails: today the retry of a failed Network update works only
because of that inversion.

## Proofs

`StatusManagerProofs` proves, for all reasons and all bounds, from the assumptions
on the constants in `StatusManager` alone:

* `TypeCorrect`: `Spec => []TypeOK`;
* `K8sAvailabilityCorrect`: `Spec => []K8sNotAvailableWhileProgressing`;
* `ImplementsSummary`: `Spec => SummarySpec`, that is, every step of the status
  manager is a step of `DegradedSummary` or leaves its variables unchanged;
* `InvariantHolds`: the inductive invariant `IInv` they rest on.

`IInv` strengthens `TypeOK` with what a publication relies on between its steps.
`PendingInv`: while `set` runs, the conditions it will write are either those of
the rollout, which say nothing about Degraded and after which RolloutHung is still
to be published, or the summary of `failing`; and only a finished rollout comes
with a word on Available, which is what keeps Available and Progressing apart on
Kubernetes. `CopyInv`: only OpenShift copies to ncp-install. `CacheInv`: a cache
entry of the latest version is the API server's object, and a missing object has
no conditions. Without them the refinement does not follow: the written value is
combined from a cache that may be old, and it takes `PendingInv` to see that its
Degraded is replaced, and `CacheInv` that a write of rollout conditions, which
succeeds on the latest version only, repeats the Degraded that is there. The proof
has a lemma per group of actions (what `SetReturns`, `Retry`, a write, a quiet
outcome do) and one case per action for the step; the last step of each theorem is
temporal.

`ConfigOptionsProofs` proves, on both platforms, for every configuration whatever its
sections, keys and values, and for any number of edits:

* `EveryChangeFound`: `Spec => []ChangesFound`. The tables of `defaults.go` are the
  reference, `NeedApplyChange` the algorithm: `DifferenceFound` shows that a
  differing value puts its section among the differing ones, `OptionFound` that
  the comparison of options then sees it, `TouchedKeepsValues` that the keys that
  go-ini creates while the immutable fields are looked at hide nothing.
* `RestartIsQuiet`: `Spec => []RestartFindsNoChange`. `JoinedAsApplied` shows that
  splitting a configuration and joining it keeps every section of the operator's
  (an empty DEFAULT may appear), `NothingDiffers` that such a section is not among
  the differing ones; sections the operator does not know concern no pod.

* `DefaultsYield`: `Spec => []DefaultsYieldToUser`. A default goes only
  where the user's value is empty, except for the options the operator always
  sets (`Inferred`; two, and two more on OpenShift; `FillSays`); in the filled configuration every default is in its place, so
  that filling again changes nothing (`FillTwice`).

The three hold of the operators in every state, so their invariance needs no
induction; the content is in the lemmas (`ConfigOptionsLemmas`).

`ConfigMapControllerProofs` proves, for all configurations, secrets, Networks,
templates and bounds:

* `TypeCorrect`: `Spec => []TypeOK`;
* `PickedUpCorrect`: `Spec => []ConfigPickedUp`;
* `SecretCorrect`: `Spec => []SecretPickedUp`;
* `MTUCorrect`: `Spec => []NetworkMTUPublished`;
* `RestIsTold`: `Spec => []NeverRestsSilently`;
* `ImmutableOptionsKept`: `Spec => ImmutableKept`, an action property.

The inductive invariant has a part for each thing a reconcile relies on between its
steps. `InputsInv`: unless it is queued again, its job is what the inputs say now.
`StepInv`: the objects before the next step are those of the job. `ImmutableInv`: job,
applied and deployed configuration agree on the immutable options as far as they
are known, which is what `ImmutableOptionsKept` needs when the memory is lost and
joined again from what is deployed. `NeedInv`: a workload that is not to be stamped
needs no restart, which rests on `EveryChangeFound`'s lemmas. `KnownInv` keeps account,
for each workload, of where the options of its pods can come from (`KnownFor`): the
applied configuration, what broken-off applies have tried since the pods' last restart, the
job once its ConfigMap is written, and for a new process what it will join. Its parts
say that the pods that run, and those that would be started now, are the same as one of
these as far as they depend on options (`StartedInv`); that a workload whose turn has
passed has the job's or stays with what was tried (`TurnInv`); and that what is
remembered is to every pod what a new process would join (`JoinInv`), which is what makes a
restart harmless. `DoneInv`: after a success the applied configuration is to every pod
the present one; with `StartedInv` this is `ConfigPickedUp`. No part says
that the cache is up to date: what it hides of workloads costs an apply too many or
too few of a template, never an option. The copy of the secret is another matter:
`SecretInv` follows it from the write through NCP's turn, and holds as long as `unsure` does
not; a first apply, or one after a restart in the middle of the first, needs no stamp
because NCP still waits for its ConfigMap.

`NodeConditionProofs` proves, for all nodes, pods, containers, periods, bounds:

* `TypeCorrect`: `Spec => []TypeOK`;
* `AvailableAfterGrace`: `Spec => NeverTooEarly`. The invariant `AgedInv` says that
  whatever pod the API server, the cache of a running operator or the list of the
  full sync show as having run for the grace time really has (`stable`), whatever
  happened to it since; a ready verdict is passed only on such a status (`JudgeReady`).
* `NodesRestHonest`: `Spec => []RestHonest`. The difficulty is that the operator
  compares its verdict with a stale copy of the node. `StaleInv` says that the copy
  of a node never hides a change that the newest agent (`Current`) needs: it does not
  accuse that agent while the node is ready, nor show ready while it has to become
  so. This holds only if no other agent of the node writes, which is `OthersInv`: from
  the unit of time on that follows the start of the newest agent all copies of the
  others are outdated; and it rests on `NotedInv`, that an agent named by a message
  has had its start noted. `AskedInv` says that a request for the agent is pending or
  due, or else the node is as the operator's copy of the agent is, and that a
  request waits for the end of its grace time if it is young. At rest the copies
  are up to date, and the theorem follows.

`NodeControllerProofs` proves, for all nodes, ports and addresses: `TypeCorrect`, and
`TagsOnOwnPort`: `Spec => []OwnTagOnly`. Its invariant follows a request from the
addresses it read to the port it chose: as long as neither the node nor a port
has changed, that port is the only candidate (`Candidates`, what the code computes);
`OnlyOwn` and `CandidateIsOwned` show that an only candidate is what the property asks for,
which is stated without `Candidates`.

`CanaryWorkaroundProofs` proves `TypeCorrect` and `InStepAtRest`:
`Spec => []RestInStep`. `CacheInv` says that a cache that differs from the world
has something to tell, `SeenInv` that what a request has read is present unless
something will queue another one; both are needed because a request reads its
inputs at different times.

`PodControllerProofs` proves, for all workloads, statuses, pods, periods and bounds:

* `TypeCorrect`: `Spec => []TypeOK`, which is inductive as it stands, because it says
  which requests the worker may have where, which times may be in `due`, and that on
  Kubernetes nothing is remembered;
* `RestartedCorrect`: `Spec => []RestartedInTime`;
* `HungIsHonest`: `Spec => []HungHonest`;
* `HungIsInTime`: `Spec => []HungInTime`.

The last three rest on one invariant, `TimingInv`, that ties what is remembered to the
queue: `RequestInv`, that the request of a workload goes on, and never further off
than a period; `PodInv`, that a bad pod will be looked at by it; `CacheInv` and
`HistoryInv`, that what a cache has not seen has happened in this unit of time and
that no workload goes back in its history unless it is `excused`; `HonestInv`, that an
entry of the annotation that stands for another status than the present one is
healed before it is a period old; `RaisedInv`, that a raised level has a reason or
is about to be taken back; `EntryInv`, that a rollout without progress has an entry
by its deadline, and keeps it; and `HungInv`, that an entry that is old enough is found
hung or a request is due that will find it.

The assumptions on constants are those of the modules: sorts of values are apart
(`None` is no status, no configuration, no number), periods are positive, bounds that
a proof counts with are natural numbers. TLC evaluates them in the runs.

Every invariant and every action property of a passing run, and the refinement, is
stated by a theorem. Only model-checked are the liveness properties
(`EventuallyPublished`, `EventuallyAvailable`, `EventuallyDeployed`, `EventuallyTagged`,
`EventuallyCleared`, `EventuallyInStep`), since liveness under fairness is outside what
TLAPS proves here; the violations are counterexamples that TLC finds.

## Not modelled

* `validateClusterNetwork` and prefix arithmetic, the template data of `Render`,
  manifest expansion: pure text and address computations.
* Failures of `SetDegraded` itself as seen by the ConfigMap controller: its levels
  are recorded as raised, the publication is the status manager's model.
* Deletion of the Network: it owns what is applied (`setControllerReference`), so the
  garbage collector would take all of it. A Network that is missing at first and one that
  changes are modelled.
* `ConfigMapController` compares templates through the lagging cache, but no property
  says that the template of a workload is that of ncp-install after a success: a change
  that is taken back in the middle of its apply can be overlooked as a secret's can.
* News of the users' objects and of the operator's own come in any order, also where both
  are Secrets; one informer would keep their order. What the lag
  does to a secret (see `configmap_pickedup`) needs no such order.
* Objects of the manifest without state (namespaces, roles, service accounts,
  CRDs, PodSecurityPolicy); edits of nsx-ncp-config or of workload templates by
  others than the operator.
* Overlap of the pod controller's check with an apply of the ConfigMap controller:
  `ConfigMapController` recreates a workload in one step; `PodController` separates
  the look-up in the cache from the apply, but its workloads have no template.
* The ten-hour resync of controller-runtime; nodes that are added or removed in
  `NodeCondition`; the backoff of retries, which is "at once" or "a unit later".
* NSX beyond the attachments, addresses, tags and revisions of ports; building its
  clients is one of the ways to fail. The name of the cluster is constant.
* The order in which the cache of NetworkPolicies tells of the two policies: the
  model allows any. Named target ports fall back to the Service's port, as in
  the code.
* Start-up code, generated code, the NSX mock.

## Plan

1. Templates in the race between the pod controller's recreation and an apply of the
   ConfigMap controller.
2. Safety that the liveness properties rest on, as theorems: that a request is queued
   whenever a node's tag or a level is not as it should be (`NodeController`), and
   that a publication which is lost leaves the resync due (`StatusManager`).
3. `RestHonest` after a restart: which nodes can stay wrong, stated as exactly as
   `blurred` states it for the first process.
