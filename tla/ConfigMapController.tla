-------------------------- MODULE ConfigMapController --------------------------
(***************************************************************************)
(* pkg/controller/configmap/configmap_controller.go: the controller that   *)
(* turns the operator's ConfigMap, its secrets and the ncp-install         *)
(* resource into the objects NCP is deployed with, and restarts the pods   *)
(* that depend on what has changed.                                        *)
(*                                                                         *)
(* A reconcile reads its inputs and what is deployed, decides, and then    *)
(* applies the rendered objects one by one; any of these calls may fail,   *)
(* which ends the reconcile and has it retried, and the operator may be    *)
(* restarted between any two.  The applied configuration lives in memory   *)
(* only; a new process joins it from the cluster's two ConfigMaps.         *)
(*                                                                         *)
(* Reads come from the informers' cache.  It may lag behind what the       *)
(* operator itself has written, and is filled anew by a new process.       *)
(* "inputs" is what the cache shows of the users' objects: an edit is the  *)
(* moment when the informer tells it and its watch queues the request.     *)
(*                                                                         *)
(* Abstracted: nsx-secret and lb-secret are one secret, the template       *)
(* fields of ncp-install one value per kind of pod; of the rendered        *)
(* objects only those with a state of their own are applied; two           *)
(* updateTimeStamps of one workload differ (they are a second apart).      *)
(***************************************************************************)
EXTENDS ConfigOptions, Sequences

CONSTANTS UserConfigs,  \* the configurations users write
          FirstConfigs, \* the ones they may install with
          Secrets,      \* contents of the secret; NoSecret: none, or empty
          NoSecret,
          Templates,    \* what ncp-install says of a workload's pod template
          Networks,     \* CIDRs of the cluster network, on OpenShift
          Numbers,      \* option values that are numbers
          None,
          MaxEdits,     \* bound on changes of the inputs and deletions
          MaxErrors,    \* bound on failed API calls
          MaxCrashes,   \* bound on restarts of the operator
          MaxEvents     \* bound on all of these together

ASSUME NoneAssumption == /\ None \notin UserConfigs \cup Templates
                         /\ None \notin Networks
                         /\ NoSecret \in Secrets /\ FirstConfigs \subseteq UserConfigs
ASSUME BoundsAssumption == MaxEdits \in Nat /\ MaxErrors \in Nat /\ MaxCrashes \in Nat
                           /\ MaxEvents \in Nat

VARIABLES
    adaptor,          \* the platform
    inputs,           \* what the users have written, in the operator's namespace
    deployed,         \* nsx-secret, nsx-ncp-config, nsx-node-agent-config in nsx-system
    workload,         \* nsx-ncp, nsx-node-agent, nsx-ncp-bootstrap: template and stamp
    running,          \* what the pods of each workload started with
    networkMTU,       \* ClusterNetworkMTU in the status of the cluster's Network
    cache,            \* what the informers show of deployed and of workload
    appliedConfigMap, \* the global of that name
    shared,           \* sharedInfo: the pod templates of the workloads
    job,              \* the reconcile under way: what it read and decided
    next,             \* its next step; 0: no reconcile
    queued,           \* a request waits in the work queue
    degraded,         \* levels OperatorConfig and ClusterConfig of the status
    done,             \* (auxiliary) the last reconcile succeeded on these inputs
    blind,            \* (auxiliary) appliedConfigMap is not what was deployed
    tried,            \* (auxiliary) what broken-off applies have tried since the
                      \* pods of a workload were last restarted
    unsure,           \* (auxiliary) NCP may not have the deployed secret
    edits, errors, crashes

memory  == <<next, job, appliedConfigMap, shared, cache>>
cluster == <<deployed, workload, running, networkMTU>>
history == <<blind, tried, unsure>>
aux     == <<done, history>>
counts  == <<edits, errors, crashes>>
vars    == <<memory, queued, adaptor, inputs, cluster, degraded, aux, counts>>

\* A reconcile that has read its inputs; the objects in the order of the manifests.
Steps == <<"compare", "secret", "ncpConfig", "ncp", "agentConfig", "bootstrap", "agent",
           "finish">>

\* The template field of ncp-install behind each workload.
TemplateOf(spec, w) == IF w = "ncp" THEN spec.ncp ELSE spec.agent

NotRun  == [config |-> None, secret |-> NoSecret]
NoStamp == "none"
Stamps  == {NoStamp, "t0", "t1"}

\* A time stamp that differs from the one the workload has.
NewStamp(w) == IF workload[w] # None /\ workload[w].stamp = "t0" THEN "t1" ELSE "t0"
Room == edits + errors + crashes < MaxEvents

CountEdit  == Room /\ edits < MaxEdits /\ edits' = edits + 1
CountError == Room /\ errors < MaxErrors /\ errors' = errors + 1
CountCrash == Room /\ crashes < MaxCrashes /\ crashes' = crashes + 1
--------------------------------------------------------------------------------
(* Reading the inputs *)

SecretParts(s) == IF s = NoSecret THEN {} ELSE {"tls.crt", "tls.key"}

\* FillDefaults, what Validate drops, FillNsxAuthCfg and FillLbCertCfg.
Instance(a, c, n, s) ==
    FillLbCertCfg(FillNsxAuthCfg(DropUnsupported(FillDefaults(c, a, n)), SecretParts(s)),
                  SecretParts(s))

\* The configurations that FillDefaults and Validate take, and of them those that
\* Render takes.
Accepts(a, c, n) == /\ ~FillDefaultsFails(c)
                    /\ Valid(FillDefaults(c, a, n), a, Numbers)
Takes(a, c, n) == Accepts(a, c, n) /\ ~RenderFails(FillDefaults(c, a, n))

Adaptors == {"kubernetes", "openshift4"}
Taken    == {t \in Adaptors \X UserConfigs \X (Networks \cup {None}) : Takes(t[1], t[2], t[3])}

InputsMissing  == inputs.config = None \/ inputs.spec = None
NetworkMissing == adaptor = "openshift4" /\ inputs.network = None

Invalid == <<adaptor, inputs.config, inputs.network>> \notin Taken
Desired == Instance(adaptor, inputs.config, inputs.network, inputs.secret)

\* Mutant: a new process starts from nothing.
AppliedForgotten == appliedConfigMap

Joinable(d) == d.ncpConfig # None /\ d.agentConfig # None
JoinOf(d)   == GenerateOperatorConfigMap(d.ncpConfig, d.agentConfig)

\* The applied configuration: remembered, or joined from what the cache shows.
Applied == IF appliedConfigMap = None /\ Joinable(cache) THEN JoinOf(cache)
           ELSE appliedConfigMap

\* What it shows of the two ConfigMaps is what is deployed.
JoinIsPresent == /\ cache.ncpConfig = deployed.ncpConfig
                 /\ cache.agentConfig = deployed.agentConfig

Refused(config, applied) == applied # None /\ ImmutableFieldChanged(config, applied)

\* Mutant: the secrets are not compared.
NeedChangeNoSecret ==
    IF appliedConfigMap = None THEN AllNeedChange
    ELSE NeedApplyChange(job.config, appliedConfigMap)

\* NeedApplyChange, and isSecretChanged for NCP.
NeedChange ==
    LET need == IF appliedConfigMap = None THEN AllNeedChange
                ELSE NeedApplyChange(job.config, appliedConfigMap)
    IN  [need EXCEPT !.ncp = need.ncp \/ job.secret # cache.secret]

\* isNsxNodeAgentDsChanged; isAnyMonitoredNCPResDeleted or isNcpDeploymentChanged.
AgentDsChanged == cache.agent # job.spec.agent
NcpChanged     == (\E w \in Pods : cache[w] = None) \/ cache.ncp # job.spec.ncp

NothingToApply ==
    /\ ~AgentDsChanged /\ ~NcpChanged
    /\ NeedChange = [ncp |-> FALSE, agent |-> FALSE, bootstrap |-> FALSE]

\* Mutant: HasNetworkConfigChange says what its name says.
NetworkChangedCorrected ==
    appliedConfigMap = None \/ IsMTUChanged(job.config, appliedConfigMap)

\* HasNetworkConfigChange compares the Network with itself: never different on
\* Kubernetes, always on OpenShift.  Otherwise the MTU decides.
NetworkChanged ==
    \/ adaptor = "openshift4" \/ appliedConfigMap = None
    \/ IsMTUChanged(job.config, appliedConfigMap)
--------------------------------------------------------------------------------
(* Reconcile, up to the first object *)

Idle == next = 0
Step == IF Idle THEN "idle" ELSE Steps[next]

\* Mutant: a failed reconcile is not queued again.
LeaveOnce(error) == /\ next' = 0 /\ job' = None /\ UNCHANGED queued

\* Mutant: what the reconcile has read outlives it.
LeaveJob(error) == /\ next' = 0 /\ UNCHANGED job /\ queued' = (queued \/ error)

\* Leave the reconcile; on an error the request is queued again.
Leave(error) == /\ next' = 0 /\ job' = None /\ queued' = (queued \/ error)

SetDegraded(levels) == degraded' = degraded \cup levels
SetNotDegraded == degraded' = {}

Begin == Idle /\ queued

\* Mutant: waiting for the Network is not reported.
ReconcileMissingQuietly ==
    /\ Begin /\ queued' = FALSE
    /\ \/ InputsMissing /\ SetDegraded({"OperatorConfig"})
       \/ ~InputsMissing /\ NetworkMissing /\ UNCHANGED degraded
    /\ UNCHANGED <<adaptor, inputs, cluster, memory, aux, counts>>

\* ncp-install, the ConfigMap or the Network is missing: wait until it is created.
ReconcileMissing ==
    /\ Begin /\ queued' = FALSE
    /\ \/ InputsMissing /\ SetDegraded({"OperatorConfig"})
       \/ ~InputsMissing /\ NetworkMissing /\ SetDegraded({"ClusterConfig"})
    /\ UNCHANGED <<adaptor, inputs, cluster, memory, aux, counts>>

\* One of them cannot be read: retried, with the fault reported; or a secret cannot be:
\* retried, unreported.
ReadFails ==
    /\ Begin /\ CountError
    /\ \/ SetDegraded({"OperatorConfig"})
       \/ adaptor = "openshift4" /\ ~InputsMissing /\ SetDegraded({"ClusterConfig"})
       \/ /\ ~InputsMissing /\ ~NetworkMissing
          /\ Accepts(adaptor, inputs.config, inputs.network) /\ UNCHANGED degraded
    /\ UNCHANGED <<adaptor, inputs, cluster, memory, queued, aux, edits, crashes>>

\* FillDefaults, Validate or Render fails: retried, with the fault reported.
ReconcileInvalid ==
    /\ Begin /\ ~InputsMissing /\ ~NetworkMissing /\ Invalid
    /\ SetDegraded({"OperatorConfig"})
    /\ UNCHANGED <<adaptor, inputs, cluster, memory, queued, aux, counts>>

\* (auxiliary) The apply starts from what is deployed, or without knowing it.
StartsFrom(known) ==
    /\ blind' = IF appliedConfigMap = None THEN ~known ELSE blind
    /\ IF known \/ appliedConfigMap # None THEN UNCHANGED <<tried, unsure>>
       ELSE /\ tried' = [w \in Pods |-> tried[w] \cup
                            IF Joinable(deployed) THEN {JoinOf(deployed)} ELSE {}]
            /\ unsure' = TRUE

\* The inputs are read, rendered and shared, and the applied configuration is
\* joined.  If its ConfigMaps cannot be read the reconcile goes on without it.
ReconcileRead ==
    /\ Begin /\ ~InputsMissing /\ ~NetworkMissing /\ ~Invalid
    /\ queued' = FALSE /\ next' = 1
    /\ job' = [config |-> Desired, secret |-> inputs.secret, spec |-> inputs.spec,
               need |-> AllNeedChange, network |-> TRUE]
    /\ shared' = [w \in Pods |-> TemplateOf(inputs.spec, w)]
    /\ \/ /\ appliedConfigMap' = Applied /\ StartsFrom(JoinIsPresent)
          /\ UNCHANGED errors
       \/ /\ appliedConfigMap = None /\ UNCHANGED appliedConfigMap /\ StartsFrom(FALSE)
          /\ CountError
    /\ UNCHANGED <<adaptor, inputs, cluster, cache, degraded, done, edits, crashes>>

\* The comparison with the cluster fails, or NeedApplyChange refuses a change of
\* an immutable field: retried, unreported.
CompareFails ==
    /\ Step = "compare"
    /\ IF Refused(job.config, appliedConfigMap)
       THEN UNCHANGED errors
       ELSE CountError
    /\ Leave(TRUE)
    /\ UNCHANGED <<adaptor, inputs, cluster, appliedConfigMap, shared, cache, degraded,
                   aux, edits, crashes>>

\* updateNetworkStatus: on Kubernetes there is no Network to update, the call fails.
NetworkStatusWorks == adaptor = "openshift4"

NetworkStatusSucceeds(changed) ==
    /\ changed => NetworkStatusWorks
    /\ networkMTU' = IF changed THEN Value(job.config, "nsx_node_agent", "mtu") ELSE networkMTU
    /\ SetNotDegraded /\ Leave(FALSE) /\ done' = ~queued
    /\ UNCHANGED errors

NetworkStatusFails(changed) ==
    /\ changed
    /\ IF NetworkStatusWorks THEN CountError
                             ELSE UNCHANGED errors
    /\ SetDegraded({"ClusterConfig"}) /\ Leave(TRUE)
    /\ UNCHANGED <<networkMTU, done>>

\* (auxiliary) The copy of the secret that NCP's need is judged by is an old one.
MisjudgesSecret ==
    unsure' = (unsure \/ (job.secret = cache.secret /\ cache.secret # deployed.secret))

\* There is nothing to apply.
CompareEqual ==
    /\ Step = "compare" /\ ~Refused(job.config, appliedConfigMap) /\ NothingToApply
    /\ NetworkStatusSucceeds(NetworkChanged) \/ NetworkStatusFails(NetworkChanged)
    /\ MisjudgesSecret
    /\ UNCHANGED <<adaptor, inputs, deployed, workload, running, appliedConfigMap, shared,
                   cache, blind, tried, edits, crashes>>

CompareDifferent ==
    /\ Step = "compare" /\ ~Refused(job.config, appliedConfigMap) /\ ~NothingToApply
    /\ job' = [job EXCEPT !.need = NeedChange, !.network = NetworkChanged]
    /\ next' = next + 1
    /\ MisjudgesSecret
    /\ UNCHANGED <<adaptor, inputs, cluster, appliedConfigMap, shared, cache, queued, degraded,
                   done, blind, tried, counts>>
--------------------------------------------------------------------------------
(* Applying the objects *)

\* What a pod of w finds when it starts; it waits for its ConfigMap to exist.
Content(w, d) == IF w = "ncp" THEN [config |-> d.ncpConfig, secret |-> d.secret]
                              ELSE [config |-> d.agentConfig, secret |-> NoSecret]

WaitingPodsStart(d) ==
    running' = [w \in Pods |-> IF workload[w] # None /\ running[w].config = None
                               THEN Content(w, d) ELSE running[w]]

ApplyData(o, content) ==
    /\ Step = o
    /\ deployed' = [deployed EXCEPT ![o] = content]
    /\ WaitingPodsStart(deployed')
    /\ UNCHANGED <<workload, tried, unsure>>

\* The pods of a workload are restarted if its template or its stamp changes.
PutWorkload(w, object) ==
    /\ Step = w
    /\ workload' = [workload EXCEPT ![w] = object]
    /\ IF workload[w] = object THEN UNCHANGED <<running, tried, unsure>>
       ELSE /\ running' = [running EXCEPT ![w] = Content(w, deployed)]
            /\ tried' = [tried EXCEPT ![w] = {}]
            /\ unsure' = (unsure /\ w # "ncp")
    /\ UNCHANGED deployed

\* Mutant: the pods' restart is left to somebody else.
ApplyWorkloadUnstamped(w) ==
    PutWorkload(w, [template |-> TemplateOf(job.spec, w), stamp |-> NoStamp])

\* An object without a stamp takes the stamp of an earlier apply away.
ApplyWorkload(w) ==
    LET stamp == IF appliedConfigMap # None /\ job.need[w] THEN NewStamp(w) ELSE NoStamp
    IN  PutWorkload(w, [template |-> TemplateOf(job.spec, w), stamp |-> stamp])

ApplyObject ==
    /\ \/ ApplyData("secret", job.secret)
       \/ ApplyData("ncpConfig", generateConfigMap(job.config, NcpSections))
       \/ ApplyData("agentConfig", generateConfigMap(job.config, AgentSections))
       \/ \E w \in Pods : ApplyWorkload(w)
    /\ next' = next + 1
    /\ UNCHANGED <<adaptor, inputs, networkMTU, appliedConfigMap, shared, cache, job,
                   queued, degraded, done, blind, counts>>

\* (auxiliary) What an apply that is broken off has written of its configuration, and
\* what is forgotten of the one before if w's pods have not been restarted since.
Attempted == IF next > 3 THEN {job.config} ELSE {}
Forgotten(w) ==
    IF /\ appliedConfigMap # None
       /\ tried[w] # {} \/ (next > 3 /\ \E i \in next .. Len(Steps) : Steps[i] = w)
    THEN {appliedConfigMap} ELSE {}

\* (auxiliary) The secret is written, but NCP is not restarted, or may never be.
LeavesSecret ==
    unsure' = (\/ unsure \/ Step \in {"ncpConfig", "ncp"}
               \/ (next > 4 /\ appliedConfigMap = None))

ApplyFails ==
    /\ Step \in DOMAIN deployed \cup Pods
    /\ CountError
    /\ SetDegraded({"OperatorConfig"}) /\ Leave(TRUE)
    /\ tried' = [w \in Pods |-> tried[w] \cup Attempted] /\ LeavesSecret
    /\ UNCHANGED <<adaptor, inputs, cluster, appliedConfigMap, shared, cache, done, blind,
                   edits, crashes>>

\* All objects are applied: remember the configuration, then the Network's status.
Finish ==
    /\ Step = "finish"
    /\ appliedConfigMap' = job.config /\ blind' = FALSE
    /\ NetworkStatusSucceeds(job.network) \/ NetworkStatusFails(job.network)
    /\ UNCHANGED <<adaptor, inputs, deployed, workload, running, shared, cache, tried, unsure,
                   edits, crashes>>
--------------------------------------------------------------------------------
(* The environment *)

\* A user changes an input; the watch queues a request.
EditInputs ==
    /\ CountEdit
    /\ \/ \E c \in UserConfigs \cup {None} : inputs' = [inputs EXCEPT !.config = c]
       \/ \E s \in Secrets : inputs' = [inputs EXCEPT !.secret = s]
       \/ \E n, a \in Templates : inputs' = [inputs EXCEPT !.spec = [ncp |-> n, agent |-> a]]
       \/ inputs' = [inputs EXCEPT !.spec = None]
       \/ /\ adaptor = "openshift4"
          /\ \E n \in Networks : inputs' = [inputs EXCEPT !.network = n]
    /\ inputs' # inputs
    /\ queued' = TRUE /\ done' = FALSE
    /\ UNCHANGED <<adaptor, cluster, memory, degraded, history, errors, crashes>>

\* Somebody deletes a workload ...
DeleteWorkload(w) ==
    /\ CountEdit /\ workload[w] # None
    /\ workload' = [workload EXCEPT ![w] = None]
    /\ running' = [running EXCEPT ![w] = NotRun]
    /\ UNCHANGED <<adaptor, inputs, deployed, networkMTU, memory, queued, degraded, aux,
                   errors, crashes>>

\* ... and the pod controller recreates it from what the controllers share.
RecreateWorkload(w) ==
    /\ workload[w] = None /\ shared # None
    /\ workload' = [workload EXCEPT ![w] = [template |-> shared[w], stamp |-> NoStamp]]
    /\ running' = [running EXCEPT ![w] = Content(w, deployed)]
    /\ UNCHANGED <<adaptor, inputs, deployed, networkMTU, memory, queued, degraded, aux, counts>>

Present(w) == workload[w] # None
Shown == [o \in DOMAIN deployed \cup Pods |->
             IF o \notin Pods THEN deployed[o]
             ELSE IF Present(o) THEN workload[o].template ELSE None]

\* The informer of Secrets, of ConfigMaps, of Deployments or of DaemonSets shows what
\* there is now.
InformerTells ==
    /\ \E kind \in {{"secret"}, {"ncpConfig", "agentConfig"}, {"ncp"}, {"agent", "bootstrap"}} :
          cache' = [o \in DOMAIN cache |-> IF o \in kind THEN Shown[o] ELSE cache[o]]
    /\ cache' # cache
    /\ UNCHANGED <<adaptor, inputs, cluster, next, job, appliedConfigMap, shared, queued,
                   degraded, aux, counts>>

\* The operator is restarted: it forgets what it remembered and reconciles.
Restart ==
    /\ CountCrash
    /\ appliedConfigMap' = None /\ shared' = None /\ job' = None /\ next' = 0
    /\ cache' = Shown
    /\ queued' = TRUE /\ degraded' = {} /\ done' = FALSE
    /\ blind' = FALSE /\ LeavesSecret
    /\ tried' = [w \in Pods |-> tried[w] \cup Attempted \cup Forgotten(w)]
    /\ UNCHANGED <<adaptor, inputs, cluster, edits, errors>>
--------------------------------------------------------------------------------
Init ==
    /\ adaptor \in Adaptors
    /\ \E c \in FirstConfigs, s \in Secrets, t \in Templates, n \in Networks \cup {None} :
          /\ adaptor # "openshift4" => n = None
          /\ inputs = [config |-> c, secret |-> s, spec |-> [ncp |-> t, agent |-> t],
                       network |-> n]
    /\ deployed = [secret |-> NoSecret, ncpConfig |-> None, agentConfig |-> None]
    /\ workload = [w \in Pods |-> None] /\ running = [w \in Pods |-> NotRun]
    /\ networkMTU = ""
    /\ appliedConfigMap = None /\ shared = None /\ job = None /\ next = 0
    /\ cache = Shown
    /\ queued = TRUE /\ degraded = {}
    /\ done = FALSE /\ blind = FALSE /\ tried = [w \in Pods |-> {}] /\ unsure = FALSE
    /\ edits = 0 /\ errors = 0 /\ crashes = 0

Reconcile == \/ ReconcileMissing \/ ReadFails \/ ReconcileInvalid \/ ReconcileRead
             \/ CompareFails \/ CompareEqual \/ CompareDifferent
             \/ ApplyObject \/ ApplyFails \/ Finish

Next == \/ Reconcile \/ EditInputs \/ InformerTells \/ Restart
        \/ \E w \in Pods : DeleteWorkload(w) \/ RecreateWorkload(w)

Spec == Init /\ [][Next]_vars

\* The work queue hands out requests, and the pod controller looks for deleted
\* workloads every two minutes.
FairSpec == Spec /\ WF_vars(Reconcile) /\ \A w \in Pods : WF_vars(RecreateWorkload(w))
--------------------------------------------------------------------------------
(* Properties *)

\* What comes of the configurations that are taken, what is deployed of it, and what
\* the operator knows of that: what it has applied or what it has read back.
Instances      == {Instance(t[1], t[2], t[3], s) : t \in Taken, s \in Secrets}
NcpConfigs     == {generateConfigMap(c, NcpSections) : c \in Instances}
AgentConfigs   == {generateConfigMap(c, AgentSections) : c \in Instances}
AppliedConfigs == Instances \cup {GenerateOperatorConfigMap(n, a) :
                                      n \in NcpConfigs, a \in AgentConfigs}

Specs == [ncp : Templates, agent : Templates]
Jobs  == [config : Instances, secret : Secrets, spec : Specs, need : PodNeedChange,
          network : BOOLEAN]
Objects == [template : Templates, stamp : Stamps]
InputsType == [config : UserConfigs \cup {None}, secret : Secrets, spec : Specs \cup {None},
               network : Networks \cup {None}]

ASSUME ConfigAssumption ==
    None \notin NcpConfigs \cup AgentConfigs \cup AppliedConfigs \cup Jobs \cup Objects

\* The variables stay in their domains, and a reconcile has a job as long as it runs.
TypeOK ==
    /\ adaptor \in Adaptors /\ inputs \in InputsType
    /\ DOMAIN deployed = {"secret", "ncpConfig", "agentConfig"} /\ deployed.secret \in Secrets
    /\ DOMAIN cache = DOMAIN deployed \cup Pods /\ cache.secret \in Secrets
    /\ \A c \in {deployed.ncpConfig, deployed.agentConfig, cache.ncpConfig, cache.agentConfig,
               appliedConfigMap} : c = None \/ IsConfig(c)
    /\ workload \in [Pods -> Objects \cup {None}]
    /\ DOMAIN running = Pods
    /\ \A w \in Pods : ~Present(w) => running[w] = NotRun
    /\ next \in 0 .. Len(Steps) /\ (next = 0 <=> job = None)
    /\ degraded \subseteq {"OperatorConfig", "ClusterConfig"}
    /\ queued \in BOOLEAN /\ done \in BOOLEAN /\ blind \in BOOLEAN /\ unsure \in BOOLEAN
    /\ DOMAIN tried = Pods

OptionsPickedUp(w) == SameFor(w, running[w].config, Desired)
NcpHasSecret == Present("ncp") => running["ncp"].secret = inputs.secret

\* After a successful reconcile every pod that runs has started with the present
\* value of every option it depends on: through edits in the middle of an apply,
\* deleted workloads, refused configurations, and restarts; and although applies were
\* broken off, if what they have tried since the pods' last restart was the same to
\* these pods, so that it is the retry that has succeeded.
ConfigPickedUp ==
    done => \A w \in Pods : Present(w) =>
        OptionsPickedUp(w) \/ \E c \in tried[w] : ~SameFor(w, c, Desired)

\* NCP has started with the present secret, unless it was written by an apply that was
\* broken off before NCP's turn, or compared with an old copy.
SecretPickedUp == done /\ ~unsure => NcpHasSecret

\* "creates/restarts the relevant pods so that the relevant configuration changes
\* are picked up" (README.md): options and secret, whatever happened before.
ChangesPickedUp ==
    done => NcpHasSecret /\ \A w \in Pods : Present(w) => OptionsPickedUp(w)

ImmutableFieldsKept ==
    deployed.ncpConfig # None /\ deployed.agentConfig # None =>
        ~ImmutableFieldChanged(deployed'.ncpConfig, deployed.ncpConfig)

\* Once NCP and nsx-node-agent are configured the immutable options of the
\* deployed configuration never change, through restarts and repeated applies, if
\* the applied configuration was read as it is, without an error and not too early.
ImmutableKept == [][~blind => ImmutableFieldsKept]_vars

\* "This check should return an error to make sure that reconcile could be
\* terminated" (NeedApplyChange): they never change at all.
ImmutableAlwaysKept == [][ImmutableFieldsKept]_vars

\* The status of the cluster's Network shows the MTU that nsx-node-agent uses.
NetworkMTUPublished ==
    done /\ adaptor = "openshift4" =>
        networkMTU = Value(Desired, "nsx_node_agent", "mtu")

\* The controller comes to rest only when it has succeeded or says why not.
NeverRestsSilently == Idle /\ ~queued => done \/ degraded # {}

\* When the users, the failures and the restarts have ended the controller
\* succeeds and every workload runs, unless the inputs are missing, invalid or
\* refused.
EventuallyDeployed ==
    <>[](\/ done /\ \A w \in Pods : Present(w)
         \/ InputsMissing \/ NetworkMissing \/ Invalid \/ Refused(Desired, Applied))
================================================================================
