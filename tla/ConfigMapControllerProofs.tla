----------------------- MODULE ConfigMapControllerProofs -----------------------
(***************************************************************************)
(* Theorems about ConfigMapController, for all configurations, secrets,    *)
(* Networks, templates and bounds, and however far the cache lags: types,  *)
(* the options and the secret that the pods have started with, what is     *)
(* published of the network, and that immutable options stay.              *)
(***************************************************************************)
EXTENDS ConfigMapController, ConfigOptionsLemmas

(* The inductive invariant *)

\* What is deployed, seen and remembered comes of configurations that were taken.
TypeInv ==
    /\ adaptor \in Adaptors /\ inputs \in InputsType
    /\ deployed \in [secret : Secrets, ncpConfig : NcpConfigs \cup {None},
                     agentConfig : AgentConfigs \cup {None}]
    /\ DOMAIN cache = {"secret", "ncpConfig", "agentConfig"} \cup Pods
    /\ cache.secret \in Secrets /\ cache.ncpConfig \in NcpConfigs \cup {None}
    /\ cache.agentConfig \in AgentConfigs \cup {None}
    /\ workload \in [Pods -> Objects \cup {None}]
    /\ DOMAIN running = Pods /\ \A w \in Pods : ~Present(w) => running[w] = NotRun
    /\ appliedConfigMap \in AppliedConfigs \cup {None}
    /\ shared = None \/ \A w \in Pods : shared[w] \in Templates
    /\ job \in Jobs \cup {None} /\ next \in 0 .. 8 /\ (next = 0 <=> job = None)
    /\ degraded \subseteq {"OperatorConfig", "ClusterConfig"}
    /\ queued \in BOOLEAN /\ done \in BOOLEAN /\ blind \in BOOLEAN /\ unsure \in BOOLEAN
    /\ DOMAIN tried = Pods

\* The two ConfigMaps, once deployed, stay, and the cache shows none that is not.
CacheInv ==
    /\ cache.ncpConfig # None => deployed.ncpConfig # None
    /\ cache.agentConfig # None => deployed.agentConfig # None
    /\ appliedConfigMap # None => Joinable(deployed)

\* A reconcile nobody has overtaken works on the present inputs; after a success
\* nothing is left to do, and the Network shows the MTU.
InputsInv ==
    /\ next # 0 /\ ~queued => job.config = Desired /\ job.secret = inputs.secret
    /\ next # 0 /\ adaptor = "openshift4" => job.network
    /\ done => next = 0 /\ ~queued

\* What has been applied so far is what the job says.
StepInv ==
    /\ next >= 3 => deployed.secret = job.secret
    /\ next >= 4 => deployed.ncpConfig = ForNcp(job.config)
    /\ next >= 6 => deployed.agentConfig = ForAgent(job.config)

\* The immutable options of the job, the applied and the deployed configuration agree
\* as far as they are known.
ImmutableInv ==
    /\ appliedConfigMap # None /\ ~blind =>
          Joinable(deployed) /\ ~ImmutableFieldChanged(appliedConfigMap, deployed.ncpConfig)
    /\ next >= 2 /\ appliedConfigMap # None => ~ImmutableFieldChanged(job.config, appliedConfigMap)
    /\ next \in 1 .. 3 /\ ~blind /\ Joinable(deployed) => appliedConfigMap # None

\* A pod that is not restarted needs no restart.
NeedInv ==
    next >= 2 /\ appliedConfigMap # None => \A w \in Pods : ~job.need[w] =>
        SameFor(w, job.config, appliedConfigMap)

\* The steps that apply a workload, and the ConfigMap its pods read.
WorkloadTurn == [ncp |-> 4, bootstrap |-> 6, agent |-> 7]
ConfigTurn   == [ncp |-> 3, bootstrap |-> 5, agent |-> 5]

\* Where the configuration that the pods of w have, or find, can come from: the
\* applied one, those that were tried, the one that is being applied, and for a new
\* process the one it will join.
KnownFor(w) ==
    ({appliedConfigMap} \ {None}) \cup tried[w] \cup
    (IF next > ConfigTurn[w] THEN {job.config} ELSE {}) \cup
    (IF next = 0 /\ appliedConfigMap = None /\ Joinable(deployed) THEN {JoinOf(deployed)} ELSE {})

ComesOf(w, c, known) == \E b \in known : SameFor(w, c, b)

\* The pods of w have one of these, and so would new ones.
StartedInv(w) ==
    LET content == Content(w, deployed).config
    IN  /\ content = None \/ ComesOf(w, content, KnownFor(w))
        /\ Present(w) => running[w].config = None \/ ComesOf(w, running[w].config, KnownFor(w))
        /\ Present(w) /\ content # None => running[w].config # None

\* Once applied w has the job's, unless its pods stay with what was tried.
TurnInv(w) ==
    next > WorkloadTurn[w] /\ Present(w) => ComesOf(w, running[w].config, {job.config} \cup tried[w])

\* Before an apply writes, the applied configuration is what a new process will join.
JoinInv(w) ==
    next <= 3 /\ appliedConfigMap # None /\ tried[w] = {} =>
        SameFor(w, appliedConfigMap, JoinOf(deployed))

KnownInv == \A w \in Pods : StartedInv(w) /\ TurnInv(w) /\ JoinInv(w)

\* NCP's pods, once started, have this secret.
NcpHas(secret) ==
    Present("ncp") /\ running["ncp"].config # None => running["ncp"].secret = secret

\* NCP has the deployed secret, but for the steps between the secret and NCP: there it has
\* the job's already, or will be restarted, or waits for its ConfigMap.
SecretInv ==
    /\ deployed.ncpConfig = None /\ Present("ncp") => running["ncp"].config = None
    /\ ~unsure =>
          /\ next \notin {3, 4} => NcpHas(deployed.secret)
          /\ next \in {3, 4} /\ appliedConfigMap # None /\ ~job.need.ncp => NcpHas(job.secret)
          /\ next = 4 /\ appliedConfigMap = None => NcpHas(job.secret)
          /\ next = 2 /\ appliedConfigMap # None /\ ~job.need.ncp => job.secret = deployed.secret
          /\ next \in 1 .. 3 /\ appliedConfigMap = None => deployed.ncpConfig = None
          /\ next <= 3 /\ deployed.ncpConfig # None => deployed.agentConfig # None
          /\ done => deployed.secret = inputs.secret

\* Success means that the applied configuration is the present one to every pod.
DoneInv == done => appliedConfigMap # None /\ \A w \in Pods : SameFor(w, appliedConfigMap, Desired)

IInv == /\ TypeInv /\ CacheInv /\ InputsInv /\ StepInv
        /\ NeedInv /\ KnownInv /\ SecretInv /\ DoneInv
--------------------------------------------------------------------------------
(* Facts about the configurations *)

\* A configuration that is taken has the sections of the immutable options.
LEMMA InstanceShape ==
    ASSUME NEW c \in Instances
    PROVE  IsConfig(c) /\ "coe" \in DOMAIN c /\ "nsx_v3" \in DOMAIN c
<1>1. PICK t \in Taken, s \in Secrets : c = Instance(t[1], t[2], t[3], s)
  BY DEF Instances
<1>2. ~FillDefaultsFails(t[2])
  BY DEF Taken, Takes, Accepts
<1> DEFINE f == FillDefaults(t[2], t[1], t[3])
<1>3. "coe" \in DOMAIN f /\ "nsx_v3" \in DOMAIN f
  BY <1>2, FillShape DEF FillDefaults, FillDefaultsFails, HasSection, WithSection
<1>4. "coe" \in DOMAIN DropUnsupported(f) /\ "nsx_v3" \in DOMAIN DropUnsupported(f)
  BY <1>3 DEF DropUnsupported, TASSection
<1> QED
  BY <1>1, <1>4, FillShape DEF Instance, FillLbCertCfg, FillNsxAuthCfg

LEMMA NcpConfigShape ==
    ASSUME NEW n \in NcpConfigs
    PROVE  IsConfig(n) /\ "coe" \in DOMAIN n /\ "nsx_v3" \in DOMAIN n
BY InstanceShape, PartShape DEF NcpConfigs, NcpSections

LEMMA AgentConfigShape ==
    ASSUME NEW a \in AgentConfigs
    PROVE  IsConfig(a)
BY InstanceShape, PartShape DEF AgentConfigs

LEMMA AppliedConfigShape ==
    ASSUME NEW c \in AppliedConfigs
    PROVE  IsConfig(c)
BY InstanceShape, NcpConfigShape, AgentConfigShape, JoinShape DEF AppliedConfigs

\* What can be deployed of a job is there.
LEMMA PartsTyped ==
    ASSUME NEW c \in Instances
    PROVE  /\ ForNcp(c) \in NcpConfigs /\ ForAgent(c) \in AgentConfigs
           /\ ForNcp(c) # None /\ ForAgent(c) # None
           /\ c \in AppliedConfigs /\ c # None
           /\ Joined(c) \in AppliedConfigs /\ Joined(c) # None
<1>1. ForNcp(c) \in NcpConfigs /\ ForAgent(c) \in AgentConfigs
  BY DEF ForNcp, ForAgent, NcpConfigs, AgentConfigs
<1>2. c \in AppliedConfigs /\ Joined(c) \in AppliedConfigs
  BY <1>1 DEF AppliedConfigs, Joined, ForNcp, ForAgent
<1> QED
  BY <1>1, <1>2, ConfigAssumption

\* The present inputs, if they are taken, give an instance.
LEMMA DesiredTyped ==
    ASSUME TypeInv, ~InputsMissing, ~Invalid
    PROVE  Desired \in Instances
<1>1. <<adaptor, inputs.config, inputs.network>> \in Taken /\ inputs.secret \in Secrets
  BY DEF TypeInv, Invalid, InputsType
<1> QED
  BY <1>1 DEF Desired, Instances
--------------------------------------------------------------------------------
(* The steps of a reconcile, by name and by number *)

LEMMA StepNumbers ==
    ASSUME TypeInv
    PROVE  /\ (Step = "compare" <=> next = 1)
           /\ (Step = "secret" <=> next = 2)
           /\ (Step = "ncpConfig" <=> next = 3)
           /\ (Step = "ncp" <=> next = 4)
           /\ (Step = "agentConfig" <=> next = 5)
           /\ (Step = "bootstrap" <=> next = 6)
           /\ (Step = "agent" <=> next = 7)
           /\ (Step = "finish" <=> next = 8)
<1>1. next \in 0 .. 8
  BY DEF TypeInv
<1>2. /\ Steps[1] = "compare" /\ Steps[2] = "secret" /\ Steps[3] = "ncpConfig"
      /\ Steps[4] = "ncp" /\ Steps[5] = "agentConfig" /\ Steps[6] = "bootstrap"
      /\ Steps[7] = "agent" /\ Steps[8] = "finish"
  BY DEF Steps
<1>3. next \in {0, 1, 2, 3, 4, 5, 6, 7, 8}
  BY <1>1
<1> QED
  BY <1>2, <1>3 DEF Step, Idle

\* Every action of the applying phase works on the objects of the manifest.
LEMMA ObjectNumbers ==
    ASSUME TypeInv
    PROVE  Step \in DOMAIN deployed \cup Pods <=> next \in 2 .. 7
<1>1. DOMAIN deployed = {"secret", "ncpConfig", "agentConfig"}
  BY DEF TypeInv
<1>2. Step \in DOMAIN deployed \cup Pods <=>
         Step \in {"secret", "ncpConfig", "agentConfig", "ncp", "bootstrap", "agent"}
  BY <1>1 DEF Pods
<1>3. next \in {0, 1, 2, 3, 4, 5, 6, 7, 8}
  BY DEF TypeInv
<1>4. next = 0 => Step = "idle"
  BY DEF Step, Idle
<1> QED
  BY <1>2, <1>3, <1>4, StepNumbers

\* A job's parts have their types.
LEMMA JobTyped ==
    ASSUME TypeInv, next # 0
    PROVE  /\ job \in Jobs /\ job # None
           /\ job.config \in Instances /\ job.secret \in Secrets
           /\ \A w \in Pods : TemplateOf(job.spec, w) \in Templates /\ job.need[w] \in BOOLEAN
<1>1. job \in Jobs /\ job # None
  BY DEF TypeInv
<1> QED
  BY <1>1 DEF Jobs, Specs, TemplateOf, PodNeedChange, Pods

\* How a reconcile ends.
LEMMA LeaveType ==
    ASSUME TypeInv, NEW error \in BOOLEAN, Leave(error)
    PROVE  next' = 0 /\ job' = None /\ queued' \in BOOLEAN /\ (error => queued')
BY DEF Leave, TypeInv
--------------------------------------------------------------------------------
(* Types *)

\* What there is to be seen.
LEMMA ShownIs ==
    ASSUME DOMAIN deployed = {"secret", "ncpConfig", "agentConfig"}
    PROVE  /\ DOMAIN Shown = {"secret", "ncpConfig", "agentConfig"} \cup Pods
           /\ Shown.secret = deployed.secret /\ Shown.ncpConfig = deployed.ncpConfig
           /\ Shown.agentConfig = deployed.agentConfig
BY DEF Shown, Pods

LEMMA InitTyped == Init => TypeInv
<1> SUFFICES ASSUME Init PROVE TypeInv
  OBVIOUS
<1>1. inputs \in InputsType
  <2>1. PICK c \in FirstConfigs, s \in Secrets, t \in Templates, n \in Networks \cup {None} :
            inputs = [config |-> c, secret |-> s, spec |-> [ncp |-> t, agent |-> t],
                      network |-> n]
    BY DEF Init
  <2>2. c \in UserConfigs /\ [ncp |-> t, agent |-> t] \in Specs
    BY NoneAssumption DEF Specs
  <2> QED BY <2>1, <2>2 DEF InputsType
<1>2. deployed \in [secret : Secrets, ncpConfig : NcpConfigs \cup {None},
                    agentConfig : AgentConfigs \cup {None}]
  BY NoneAssumption DEF Init
<1>3. /\ workload \in [Pods -> Objects \cup {None}]
      /\ DOMAIN running = Pods /\ \A w \in Pods : running[w] = NotRun
  BY DEF Init
<1>4. /\ adaptor \in Adaptors /\ next = 0 /\ job = None /\ shared = None
      /\ appliedConfigMap = None /\ queued = TRUE /\ done = FALSE /\ blind = FALSE
      /\ unsure = FALSE /\ degraded = {} /\ DOMAIN tried = Pods
  BY DEF Init
<1>5. next \in 0 .. 8 /\ (next = 0 <=> job = None)
  BY <1>4
<1>6. queued \in BOOLEAN /\ done \in BOOLEAN /\ blind \in BOOLEAN /\ unsure \in BOOLEAN
  BY <1>4
<1>7. /\ DOMAIN cache = {"secret", "ncpConfig", "agentConfig"} \cup Pods
      /\ cache.secret \in Secrets /\ cache.ncpConfig = None /\ cache.agentConfig = None
  <2>1. cache = Shown /\ deployed = [secret |-> NoSecret, ncpConfig |-> None, agentConfig |-> None]
    BY DEF Init
  <2> QED BY <2>1, NoneAssumption, ShownIs
<1> QED
  BY <1>1, <1>2, <1>3, <1>4, <1>5, <1>6, <1>7 DEF TypeInv

LEMMA ReadTyped ==
    ASSUME TypeInv, ReconcileRead
    PROVE  TypeInv'
<1>1. Desired \in Instances /\ inputs.spec \in Specs /\ inputs.secret \in Secrets
  BY DesiredTyped DEF ReconcileRead, InputsMissing, TypeInv, InputsType
<1>2. job' = [config |-> Desired, secret |-> inputs.secret, spec |-> inputs.spec,
              need |-> AllNeedChange, network |-> TRUE]
  BY DEF ReconcileRead
<1>3. job' \in Jobs
  BY <1>1, <1>2 DEF Jobs, AllNeedChange, PodNeedChange
<1>4. job' # None
  BY <1>3, ConfigAssumption
<1>5. \A w \in Pods : shared'[w] \in Templates
  BY <1>1 DEF ReconcileRead, TemplateOf, Specs
<1>6. Applied \in AppliedConfigs \cup {None}
  BY DEF Applied, TypeInv, AppliedConfigs, Joinable, JoinOf
<1>7. appliedConfigMap' \in AppliedConfigs \cup {None}
  BY <1>6 DEF ReconcileRead, TypeInv
<1>8. blind' \in BOOLEAN /\ unsure' \in BOOLEAN /\ DOMAIN tried' = Pods
  BY DEF ReconcileRead, StartsFrom, JoinIsPresent, TypeInv
<1>9. /\ next' = 1 /\ queued' = FALSE
      /\ UNCHANGED <<adaptor, inputs, deployed, cache, workload, running, degraded, done>>
  BY DEF ReconcileRead, cluster
<1>10. next' \in 0 .. 8 /\ next' # 0
  BY <1>9
<1> QED
  BY <1>3, <1>4, <1>5, <1>7, <1>9, <1>10, <1>8 DEF TypeInv, Present

\* The status of the Network, at the end of a reconcile.
LEMMA NetworkStatusTyped ==
    ASSUME TypeInv, NEW changed \in BOOLEAN,
           NetworkStatusSucceeds(changed) \/ NetworkStatusFails(changed)
    PROVE  /\ next' = 0 /\ job' = None /\ queued' \in BOOLEAN /\ done' \in BOOLEAN
           /\ degraded' \subseteq {"OperatorConfig", "ClusterConfig"}
BY DEF TypeInv, NetworkStatusSucceeds, NetworkStatusFails, Leave, SetNotDegraded, SetDegraded

LEMMA CompareTyped ==
    ASSUME TypeInv, CompareFails \/ CompareEqual \/ CompareDifferent
    PROVE  TypeInv'
<1>1. CASE CompareFails
  <2>1. next' = 0 /\ job' = None /\ queued' \in BOOLEAN
    BY <1>1, LeaveType DEF CompareFails
  <2> QED BY <1>1, <2>1 DEF CompareFails, TypeInv, Present, cluster, aux, history
<1>2. CASE CompareEqual
  <2>1. NetworkChanged \in BOOLEAN
    BY DEF NetworkChanged, IsMTUChanged
  <2>2. /\ next' = 0 /\ job' = None /\ queued' \in BOOLEAN /\ done' \in BOOLEAN
        /\ degraded' \subseteq {"OperatorConfig", "ClusterConfig"}
    BY <1>2, <2>1, NetworkStatusTyped DEF CompareEqual
  <2> QED BY <1>2, <2>2 DEF CompareEqual, TypeInv, Present, MisjudgesSecret
<1>3. CASE CompareDifferent
  <2>1. next = 1
    BY <1>3, StepNumbers DEF CompareDifferent
  <2>2. NeedChange \in PodNeedChange
    <3>1. AllNeedChange \in PodNeedChange
      BY DEF AllNeedChange, PodNeedChange
    <3>2. NeedApplyChange(job.config, appliedConfigMap) \in PodNeedChange
      BY NeedApplyChangeSays
    <3> QED BY <3>1, <3>2 DEF NeedChange, PodNeedChange
  <2>3. NetworkChanged \in BOOLEAN
    BY DEF NetworkChanged, IsMTUChanged
  <2>4. job' \in Jobs
    <3>1. job' = [job EXCEPT !.need = NeedChange, !.network = NetworkChanged]
      BY <1>3 DEF CompareDifferent
    <3>2. job \in Jobs
      BY <2>1, JobTyped
    <3> QED BY <2>2, <2>3, <3>1, <3>2 DEF Jobs
  <2>5. job' # None
    BY <2>4, ConfigAssumption
  <2>6. next' = 2
    BY <1>3, <2>1 DEF CompareDifferent
  <2> QED BY <1>3, <2>4, <2>5, <2>6 DEF CompareDifferent, TypeInv, Present, cluster, MisjudgesSecret
<1> QED BY <1>1, <1>2, <1>3

\* Which object a step applies: a ConfigMap or the secret, whose contents follow the job, ...
LEMMA ApplyDataEffect ==
    ASSUME TypeInv, ApplyObject, next \in {2, 3, 5}
    PROVE  /\ workload' = workload /\ tried' = tried /\ unsure' = unsure
           /\ WaitingPodsStart(deployed')
           /\ \/ next = 2 /\ deployed' = [deployed EXCEPT !["secret"] = job.secret]
              \/ next = 3 /\ deployed' = [deployed EXCEPT !["ncpConfig"] = ForNcp(job.config)]
              \/ next = 5 /\ deployed' = [deployed EXCEPT !["agentConfig"] = ForAgent(job.config)]
<1>1. \A w \in Pods : Step # w
  BY StepNumbers DEF Pods
<1>2. \/ next = 2 /\ ApplyData("secret", job.secret)
      \/ next = 3 /\ ApplyData("ncpConfig", ForNcp(job.config))
      \/ next = 5 /\ ApplyData("agentConfig", ForAgent(job.config))
  BY <1>1, StepNumbers DEF ApplyObject, ApplyData, ApplyWorkload, PutWorkload, ForNcp, ForAgent
<1> QED BY <1>2 DEF ApplyData

LEMMA ApplyDataFields ==
    ASSUME TypeInv, ApplyObject, next \in {2, 3, 5}
    PROVE  /\ deployed'.secret = IF next = 2 THEN job.secret ELSE deployed.secret
           /\ deployed'.ncpConfig = IF next = 3 THEN ForNcp(job.config) ELSE deployed.ncpConfig
           /\ deployed'.agentConfig = IF next = 5 THEN ForAgent(job.config) ELSE deployed.agentConfig
BY ApplyDataEffect DEF TypeInv

\* ... or the workload whose turn it is.
LEMMA ApplyWorkloadEffect ==
    ASSUME TypeInv, ApplyObject, next \notin {2, 3, 5}
    PROVE  /\ \E w \in Pods : next = WorkloadTurn[w] /\ ApplyWorkload(w)
           /\ deployed' = deployed
<1>1. ~\E x : ApplyData("secret", x) \/ ApplyData("ncpConfig", x) \/ ApplyData("agentConfig", x)
  BY StepNumbers DEF ApplyData
<1>2. PICK w \in Pods : ApplyWorkload(w)
  BY <1>1 DEF ApplyObject
<1>3. next = WorkloadTurn[w]
  BY <1>2, StepNumbers DEF ApplyWorkload, PutWorkload, WorkloadTurn, Pods
<1> QED BY <1>2, <1>3 DEF ApplyWorkload, PutWorkload

LEMMA ApplyNext ==
    ASSUME TypeInv, ApplyObject
    PROVE  next \in 2 .. 7 /\ next' = next + 1 /\ next' \in 3 .. 8
<1>1. CASE next \in {2, 3, 5}
  BY <1>1 DEF ApplyObject
<1>2. CASE next \notin {2, 3, 5}
  <2>1. \A w \in Pods : WorkloadTurn[w] \in {4, 6, 7}
    BY DEF WorkloadTurn, Pods
  <2> QED BY <1>2, <2>1, ApplyWorkloadEffect DEF ApplyObject
<1> QED BY <1>1, <1>2

\* What the object of a workload is.
StampOf(w)  == IF appliedConfigMap # None /\ job.need[w] THEN NewStamp(w) ELSE NoStamp
ObjectOf(w) == [template |-> TemplateOf(job.spec, w), stamp |-> StampOf(w)]

LEMMA ApplyWorkloadIs ==
    ASSUME NEW w \in Pods, ApplyWorkload(w)
    PROVE  /\ workload' = [workload EXCEPT ![w] = ObjectOf(w)]
           /\ running' = IF workload[w] = ObjectOf(w) THEN running
                         ELSE [running EXCEPT ![w] = Content(w, deployed)]
           /\ tried' = IF workload[w] = ObjectOf(w) THEN tried ELSE [tried EXCEPT ![w] = {}]
           /\ unsure' = IF workload[w] = ObjectOf(w) THEN unsure ELSE unsure /\ w # "ncp"
           /\ deployed' = deployed
<1>1. PutWorkload(w, ObjectOf(w))
  BY DEF ApplyWorkload, ObjectOf, StampOf
<1>2. CASE workload[w] = ObjectOf(w)
  BY <1>1, <1>2 DEF PutWorkload
<1>3. CASE workload[w] # ObjectOf(w)
  BY <1>1, <1>3 DEF PutWorkload
<1> QED BY <1>2, <1>3

LEMMA ApplyTyped ==
    ASSUME TypeInv, ApplyObject
    PROVE  TypeInv'
<1>1. UNCHANGED <<adaptor, inputs, appliedConfigMap, shared, cache, job, queued, degraded, done,
                  blind>>
  BY DEF ApplyObject
<1>2. next' \in 0 .. 8 /\ next # 0 /\ next' # 0
  BY ApplyNext
<1>3. CASE next \in {2, 3, 5}
  <2>1. /\ job.secret \in Secrets /\ ForNcp(job.config) \in NcpConfigs
        /\ ForAgent(job.config) \in AgentConfigs
    BY <1>2, JobTyped, PartsTyped
  <2>3. deployed' \in [secret : Secrets, ncpConfig : NcpConfigs \cup {None},
                       agentConfig : AgentConfigs \cup {None}]
    BY <1>3, <2>1, ApplyDataEffect DEF TypeInv
  <2>4. /\ workload' = workload /\ DOMAIN running' = Pods
        /\ \A w \in Pods : ~Present(w) => running'[w] = NotRun
        /\ unsure' \in BOOLEAN /\ DOMAIN tried' = Pods
    BY <1>3, ApplyDataEffect DEF WaitingPodsStart, TypeInv, Present
  <2> QED BY <1>1, <1>2, <2>3, <2>4 DEF TypeInv, Present
<1>4. CASE next \notin {2, 3, 5}
  <2>1. PICK w \in Pods : ApplyWorkload(w)
    BY <1>4, ApplyWorkloadEffect
  <2>2. ObjectOf(w) \in Objects
    <3>1. TemplateOf(job.spec, w) \in Templates
      BY <1>2, JobTyped
    <3>2. StampOf(w) \in Stamps
      BY DEF StampOf, Stamps, NewStamp, NoStamp
    <3> QED BY <3>1, <3>2 DEF ObjectOf, Objects
  <2>3. /\ workload' = [workload EXCEPT ![w] = ObjectOf(w)]
        /\ deployed' = deployed
        /\ running' = IF workload[w] = ObjectOf(w) THEN running
                         ELSE [running EXCEPT ![w] = Content(w, deployed)]
        /\ unsure' \in BOOLEAN /\ DOMAIN tried' = Pods
    BY <2>1, ApplyWorkloadIs DEF TypeInv
  <2>4. workload' \in [Pods -> Objects \cup {None}]
    BY <2>2, <2>3 DEF TypeInv
  <2>5. DOMAIN running' = Pods
    BY <2>3 DEF TypeInv
  <2>6. \A v \in Pods : ~Present(v)' => running'[v] = NotRun
    <3>1. ASSUME NEW v \in Pods, v # w, ~Present(v)' PROVE running'[v] = NotRun
      BY <2>3, <3>1 DEF TypeInv, Present
    <3>2. ~Present(w)' => running'[w] = NotRun
      BY <2>2, <2>3, ConfigAssumption DEF Present, TypeInv
    <3> QED BY <3>1, <3>2
  <2> QED BY <1>1, <1>2, <2>3, <2>4, <2>5, <2>6 DEF TypeInv, Present
<1> QED BY <1>3, <1>4

LEMMA EndTyped ==
    ASSUME TypeInv, ApplyFails \/ Finish
    PROVE  TypeInv'
<1>1. CASE ApplyFails
  <2>1. next' = 0 /\ job' = None /\ queued' \in BOOLEAN
    BY <1>1, LeaveType DEF ApplyFails
  <2>2. /\ unsure' \in BOOLEAN /\ DOMAIN tried' = Pods
        /\ degraded' \subseteq {"OperatorConfig", "ClusterConfig"}
    BY <1>1 DEF ApplyFails, LeavesSecret, SetDegraded, TypeInv
  <2> QED BY <1>1, <2>1, <2>2 DEF ApplyFails, TypeInv, Present, cluster
<1>2. CASE Finish
  <2>1. next = 8
    BY <1>2, StepNumbers DEF Finish
  <2>2. job.network \in BOOLEAN /\ job.config \in AppliedConfigs
    BY <2>1, JobTyped DEF Jobs, AppliedConfigs
  <2>3. /\ next' = 0 /\ job' = None /\ queued' \in BOOLEAN /\ done' \in BOOLEAN
        /\ degraded' \subseteq {"OperatorConfig", "ClusterConfig"}
    BY <1>2, <2>2, NetworkStatusTyped DEF Finish
  <2>4. /\ appliedConfigMap' = job.config /\ blind' = FALSE
        /\ UNCHANGED <<adaptor, inputs, deployed, cache, workload, running, shared, unsure, tried>>
    BY <1>2 DEF Finish
  <2>5. next' \in 0 .. 8 /\ appliedConfigMap' \in AppliedConfigs \cup {None}
    BY <2>2, <2>3, <2>4
  <2>6. blind' \in BOOLEAN
    BY <2>4
  <2> QED BY <2>3, <2>4, <2>5, <2>6 DEF TypeInv, Present
<1> QED BY <1>1, <1>2

LEMMA WaitTyped ==
    ASSUME TypeInv, ReconcileMissing \/ ReadFails \/ ReconcileInvalid
    PROVE  TypeInv'
<1>1. degraded' \subseteq {"OperatorConfig", "ClusterConfig"} /\ queued' \in BOOLEAN
  BY DEF ReconcileMissing, ReadFails, ReconcileInvalid, SetDegraded, TypeInv
<1>2. UNCHANGED <<adaptor, inputs, deployed, cache, workload, running, next, job,
                  appliedConfigMap, shared, done, blind, unsure, tried>>
  BY DEF ReconcileMissing, ReadFails, ReconcileInvalid, cluster, memory, aux, history
<1> QED BY <1>1, <1>2 DEF TypeInv, Present

LEMMA EditTyped ==
    ASSUME TypeInv, EditInputs
    PROVE  TypeInv'
<1>1. inputs' \in InputsType
  BY DEF EditInputs, TypeInv, InputsType, Specs
<1>2. /\ queued' = TRUE /\ done' = FALSE
      /\ UNCHANGED <<adaptor, deployed, cache, workload, running, next, job, appliedConfigMap,
                     shared, degraded, blind, unsure, tried>>
  BY DEF EditInputs, cluster, memory, history
<1> QED BY <1>1, <1>2 DEF TypeInv, Present

\* An informer catches up.
LEMMA InformerEffect ==
    ASSUME TypeInv, InformerTells
    PROVE  /\ DOMAIN cache' = DOMAIN cache
           /\ cache'.secret \in {cache.secret, deployed.secret}
           /\ cache'.ncpConfig \in {cache.ncpConfig, deployed.ncpConfig}
           /\ cache'.agentConfig \in {cache.agentConfig, deployed.agentConfig}
<1>1. PICK kind : cache' = [o \in DOMAIN cache |-> IF o \in kind THEN Shown[o] ELSE cache[o]]
  BY DEF InformerTells
<1>2. DOMAIN deployed = {"secret", "ncpConfig", "agentConfig"}
  BY DEF TypeInv
<1>3. "secret" \in DOMAIN cache /\ "ncpConfig" \in DOMAIN cache /\ "agentConfig" \in DOMAIN cache
  BY DEF TypeInv
<1> QED BY <1>1, <1>2, <1>3, ShownIs

LEMMA InformerTyped ==
    ASSUME TypeInv, InformerTells
    PROVE  TypeInv'
<1>1. UNCHANGED <<adaptor, inputs, deployed, workload, running, next, job, appliedConfigMap,
                  shared, queued, degraded, done, blind, unsure, tried>>
  BY DEF InformerTells, cluster, aux, history
<1> QED BY <1>1, InformerEffect DEF TypeInv, Present

LEMMA WorkloadTyped ==
    ASSUME TypeInv, NEW w \in Pods, DeleteWorkload(w) \/ RecreateWorkload(w)
    PROVE  TypeInv'
<1>1. UNCHANGED <<adaptor, inputs, deployed, cache, next, job, appliedConfigMap, shared, queued,
                  degraded, done, blind, unsure, tried>>
  BY DEF DeleteWorkload, RecreateWorkload, memory, aux, history
<1>2. CASE DeleteWorkload(w)
  <2>1. /\ workload' \in [Pods -> Objects \cup {None}] /\ DOMAIN running' = Pods
        /\ \A v \in Pods : ~Present(v)' => running'[v] = NotRun
    BY <1>2 DEF DeleteWorkload, TypeInv, Present
  <2> QED BY <1>1, <2>1 DEF TypeInv
<1>3. CASE RecreateWorkload(w)
  <2>1. [template |-> shared[w], stamp |-> NoStamp] \in Objects
    BY <1>3 DEF RecreateWorkload, TypeInv, Objects, Stamps, NoStamp
  <2>2. /\ workload' \in [Pods -> Objects \cup {None}] /\ DOMAIN running' = Pods
        /\ \A v \in Pods : ~Present(v)' => running'[v] = NotRun
    BY <1>3, <2>1, ConfigAssumption DEF RecreateWorkload, TypeInv, Present
  <2> QED BY <1>1, <2>2 DEF TypeInv
<1> QED BY <1>2, <1>3

LEMMA RestartTyped ==
    ASSUME TypeInv, Restart
    PROVE  TypeInv'
<1>1. unsure' \in BOOLEAN /\ DOMAIN tried' = Pods
  BY DEF Restart, LeavesSecret, TypeInv
<1>2. /\ next' = 0 /\ job' = None /\ appliedConfigMap' = None /\ shared' = None
      /\ queued' = TRUE /\ degraded' = {} /\ done' = FALSE /\ blind' = FALSE
      /\ UNCHANGED <<adaptor, inputs, deployed, workload, running>>
  BY DEF Restart, cluster
<1>3. next' \in 0 .. 8
  BY <1>2
<1>4. /\ DOMAIN cache' = {"secret", "ncpConfig", "agentConfig"} \cup Pods
      /\ cache'.secret = deployed.secret /\ cache'.ncpConfig = deployed.ncpConfig
      /\ cache'.agentConfig = deployed.agentConfig
  <2>1. cache' = Shown
    BY DEF Restart
  <2> QED BY <2>1, ShownIs DEF TypeInv
<1> QED BY <1>1, <1>2, <1>3, <1>4 DEF TypeInv, Present

LEMMA StepTyped ==
    ASSUME TypeInv, [Next]_vars
    PROVE  TypeInv'
<1>1. CASE Reconcile
  BY <1>1, WaitTyped, ReadTyped, CompareTyped, ApplyTyped, EndTyped DEF Reconcile
<1>2. CASE \E w \in Pods : DeleteWorkload(w) \/ RecreateWorkload(w)
  BY <1>2, WorkloadTyped
<1>3. CASE UNCHANGED vars
  BY <1>3 DEF vars, TypeInv, Present, memory, cluster, aux, history
<1> QED
  BY <1>1, <1>2, <1>3, EditTyped, InformerTyped, RestartTyped DEF Next

LEMMA TypeInvCorrect == Spec => []TypeInv
BY InitTyped, StepTyped, PTL DEF Spec

\* For all inputs: the variables keep their types, configurations stay functions of
\* functions however they are filled in, split and joined, and a job lives exactly as long
\* as its reconcile.
THEOREM TypeCorrect == Spec => []TypeOK
<1>1. TypeInv => TypeOK
  <2> SUFFICES ASSUME TypeInv PROVE TypeOK
    OBVIOUS
  <2>1. \A c \in {deployed.ncpConfig, deployed.agentConfig, cache.ncpConfig, cache.agentConfig,
                   appliedConfigMap} : c = None \/ IsConfig(c)
    BY NcpConfigShape, AgentConfigShape, AppliedConfigShape DEF TypeInv
  <2>2. Len(Steps) = 8
    BY DEF Steps
  <2> QED BY <2>1, <2>2 DEF TypeInv, TypeOK, Present
<1> QED BY <1>1, TypeInvCorrect, PTL
--------------------------------------------------------------------------------
(* Present inputs *)

LEMMA SameDesired ==
    ASSUME UNCHANGED <<adaptor, inputs>>
    PROVE  Desired' = Desired
BY DEF Desired

\* The ways a reconcile goes on: it has the job it had, but for what it has to do.
LEMMA GoesOn ==
    ASSUME TypeInv, CompareDifferent \/ ApplyObject
    PROVE  /\ next # 0 /\ next' # 0
           /\ job'.config = job.config /\ job'.secret = job.secret
           /\ UNCHANGED <<adaptor, inputs, networkMTU, appliedConfigMap, shared, cache, queued,
                          degraded, done, blind>>
<1>1. CASE CompareDifferent
  <2>1. next = 1 /\ job \in Jobs
    BY <1>1, StepNumbers, JobTyped DEF CompareDifferent
  <2> QED BY <1>1, <2>1 DEF CompareDifferent, Jobs, cluster
<1>2. CASE ApplyObject
  BY <1>2, ApplyNext DEF ApplyObject
<1> QED BY <1>1, <1>2

LEMMA InputsStep ==
    ASSUME TypeInv, InputsInv, [Next]_vars
    PROVE  InputsInv'
<1>1. CASE ReconcileMissing \/ ReadFails \/ ReconcileInvalid
  <2>1. next = 0 /\ ~done
    BY <1>1 DEF ReconcileMissing, ReadFails, ReconcileInvalid, Begin, Idle, InputsInv
  <2>2. next' = 0 /\ done' = done
    BY <1>1, <2>1 DEF ReconcileMissing, ReadFails, ReconcileInvalid, memory, aux
  <2> QED BY <2>1, <2>2 DEF InputsInv
<1>2. CASE ReconcileRead
  <2>1. ~done /\ done' = done /\ UNCHANGED <<adaptor, inputs>>
    BY <1>2 DEF ReconcileRead, Begin, Idle, InputsInv
  <2>2. /\ job'.config = Desired /\ job'.secret = inputs.secret /\ job'.network = TRUE
    BY <1>2 DEF ReconcileRead
  <2> QED BY <2>1, <2>2, SameDesired DEF InputsInv
<1>3. CASE CompareFails \/ ApplyFails
  <2>1. ~done /\ done' = done /\ next' = 0
    <3>1. CompareFails => next = 1
      BY StepNumbers DEF CompareFails
    <3>2. ApplyFails => next \in 2 .. 7
      BY ObjectNumbers DEF ApplyFails
    <3>3. ~done
      BY <1>3, <3>1, <3>2 DEF InputsInv
    <3> QED BY <1>3, <3>3 DEF CompareFails, ApplyFails, Leave, aux
  <2> QED BY <2>1 DEF InputsInv
<1>4. CASE CompareEqual \/ Finish
  <2>1. next # 0
    BY <1>4, StepNumbers DEF CompareEqual, Finish
  <2>2. PICK changed : NetworkStatusSucceeds(changed) \/ NetworkStatusFails(changed)
    BY <1>4 DEF CompareEqual, Finish
  <2>3. CASE NetworkStatusSucceeds(changed)
    BY <2>3 DEF NetworkStatusSucceeds, Leave, InputsInv
  <2>4. CASE NetworkStatusFails(changed)
    BY <2>1, <2>4 DEF NetworkStatusFails, Leave, InputsInv
  <2> QED BY <2>2, <2>3, <2>4
<1>5. CASE CompareDifferent \/ ApplyObject
  <2>1. adaptor = "openshift4" => job'.network
    <3>1. CASE CompareDifferent
      <4>1. job \in Jobs
        BY <3>1, StepNumbers, JobTyped DEF CompareDifferent
      <4>2. adaptor = "openshift4" => NetworkChanged
        BY DEF NetworkChanged
      <4>3. job'.network = NetworkChanged
        BY <3>1, <4>1 DEF CompareDifferent, Jobs
      <4> QED BY <4>2, <4>3
    <3>2. CASE ApplyObject
      BY <3>2, GoesOn DEF ApplyObject, InputsInv
    <3> QED BY <1>5, <3>1, <3>2
  <2> QED BY <1>5, <2>1, GoesOn, SameDesired DEF InputsInv
<1>6. CASE EditInputs
  <2>1. queued' = TRUE /\ done' = FALSE /\ UNCHANGED <<adaptor, next, job>>
    BY <1>6 DEF EditInputs, memory
  <2> QED BY <2>1 DEF InputsInv
<1>7. CASE Restart
  BY <1>7 DEF Restart, InputsInv
<1>8. CASE \/ \E w \in Pods : DeleteWorkload(w) \/ RecreateWorkload(w)
           \/ InformerTells \/ UNCHANGED vars
  <2>1. UNCHANGED <<adaptor, inputs, next, job, queued, done>>
    BY <1>8 DEF DeleteWorkload, RecreateWorkload, InformerTells, memory, aux, vars
  <2> QED BY <2>1, SameDesired DEF InputsInv
<1> QED
  BY <1>1, <1>2, <1>3, <1>4, <1>5, <1>6, <1>7, <1>8 DEF Next, Reconcile

\* A reconcile that succeeds without having been overtaken worked on the present inputs.
LEMMA SuccessIsPresent ==
    ASSUME TypeInv, InputsInv, CompareEqual \/ Finish, done'
    PROVE  job.config = Desired' /\ job.secret = inputs'.secret
<1>1. next # 0
  BY StepNumbers DEF CompareEqual, Finish
<1>2. PICK changed : NetworkStatusSucceeds(changed) \/ NetworkStatusFails(changed)
  BY DEF CompareEqual, Finish
<1>3. ~queued
  BY <1>1, <1>2 DEF NetworkStatusSucceeds, NetworkStatusFails, InputsInv
<1>4. UNCHANGED <<adaptor, inputs>>
  BY DEF CompareEqual, Finish
<1> QED BY <1>1, <1>3, <1>4, SameDesired DEF InputsInv
--------------------------------------------------------------------------------
(* What is published *)

LEMMA InputsInvCorrect == Spec => [](TypeInv /\ InputsInv)
<1>1. Init => TypeInv /\ InputsInv
  BY InitTyped DEF Init, InputsInv
<1>2. TypeInv /\ InputsInv /\ [Next]_vars => (TypeInv /\ InputsInv)'
  BY StepTyped, InputsStep
<1> QED BY <1>1, <1>2, PTL DEF Spec

\* On OpenShift, whatever was edited and however often a reconcile failed in between: once
\* one has succeeded on the present inputs the Network shows their MTU.
THEOREM MTUCorrect == Spec => []NetworkMTUPublished
<1>1. Init => NetworkMTUPublished
  BY DEF Init, NetworkMTUPublished
<1>2. TypeInv /\ InputsInv /\ NetworkMTUPublished /\ [Next]_vars => NetworkMTUPublished'
  <2> SUFFICES ASSUME TypeInv, InputsInv, NetworkMTUPublished, [Next]_vars,
                      done', adaptor' = "openshift4"
               PROVE  networkMTU' = Value(Desired', "nsx_node_agent", "mtu")
    BY DEF NetworkMTUPublished
  <2>1. CASE CompareEqual \/ Finish
    <3>1. next # 0 /\ adaptor = "openshift4" /\ ~done
      BY <2>1, StepNumbers DEF CompareEqual, Finish, InputsInv
    <3>2. NetworkChanged /\ job.network
      BY <3>1 DEF NetworkChanged, InputsInv
    <3>3. networkMTU' = Value(job.config, "nsx_node_agent", "mtu")
      BY <2>1, <3>1, <3>2 DEF CompareEqual, Finish, NetworkStatusSucceeds, NetworkStatusFails
    <3> QED BY <2>1, <3>3, SuccessIsPresent
  <2>2. CASE ~(CompareEqual \/ Finish)
    <3>1. done /\ UNCHANGED <<adaptor, inputs, networkMTU>>
      <4>1. CASE Reconcile
        BY <2>2, <4>1, StepNumbers, ObjectNumbers
           DEF Reconcile, ReconcileMissing, ReadFails, ReconcileInvalid, ReconcileRead,
               CompareFails, CompareDifferent, ApplyObject, ApplyFails, Begin, cluster, aux
      <4>2. CASE ~Reconcile
        BY <4>2 DEF Next, EditInputs, InformerTells, Restart, DeleteWorkload, RecreateWorkload,
                    vars, cluster, aux
      <4> QED BY <4>1, <4>2
    <3> QED BY <3>1, SameDesired DEF NetworkMTUPublished
  <2> QED BY <2>1, <2>2
<1> QED BY <1>1, <1>2, InputsInvCorrect, PTL DEF Spec

\* The controller never comes to rest without success and without a word: what ends a
\* reconcile without success either raises a level or queues another one.
THEOREM RestIsTold == Spec => []NeverRestsSilently
<1>1. Init => NeverRestsSilently
  BY DEF Init, NeverRestsSilently
<1>2. TypeInv /\ NeverRestsSilently /\ [Next]_vars => NeverRestsSilently'
  <2> SUFFICES ASSUME TypeInv, NeverRestsSilently, [Next]_vars
               PROVE  NeverRestsSilently'
    OBVIOUS
  <2>1. CASE ReconcileMissing \/ ReconcileInvalid
    <3>1. degraded' # {}
      BY <2>1 DEF ReconcileMissing, ReconcileInvalid, SetDegraded
    <3> QED BY <3>1 DEF NeverRestsSilently
  <2>2. CASE ReadFails
    <3>1. queued'
      BY <2>2 DEF ReadFails, Begin
    <3> QED BY <3>1 DEF NeverRestsSilently
  <2>3. CASE ReconcileRead \/ CompareDifferent \/ ApplyObject
    <3>1. next' # 0
      <4>1. ReconcileRead => next' = 1
        BY DEF ReconcileRead
      <4> QED BY <2>3, <4>1, GoesOn
    <3> QED BY <3>1 DEF NeverRestsSilently, Idle
  <2>4. CASE CompareFails \/ ApplyFails \/ EditInputs \/ Restart
    <3>1. queued'
      BY <2>4 DEF CompareFails, ApplyFails, EditInputs, Restart, Leave
    <3> QED BY <3>1 DEF NeverRestsSilently
  <2>5. CASE CompareEqual \/ Finish
    <3>1. PICK changed : NetworkStatusSucceeds(changed) \/ NetworkStatusFails(changed)
      BY <2>5 DEF CompareEqual, Finish
    <3>2. ~queued' => done'
      BY <3>1 DEF NetworkStatusSucceeds, NetworkStatusFails, Leave, TypeInv
    <3> QED BY <3>2 DEF NeverRestsSilently
  <2>6. CASE \/ \E w \in Pods : DeleteWorkload(w) \/ RecreateWorkload(w)
             \/ InformerTells \/ UNCHANGED vars
    <3>1. UNCHANGED <<next, queued, done, degraded>>
      BY <2>6 DEF DeleteWorkload, RecreateWorkload, InformerTells, memory, aux, vars
    <3> QED BY <3>1 DEF NeverRestsSilently, Idle
  <2> QED BY <2>1, <2>2, <2>3, <2>4, <2>5, <2>6 DEF Next, Reconcile
<1> QED BY <1>1, <1>2, TypeInvCorrect, PTL DEF Spec
--------------------------------------------------------------------------------
(* What is deployed *)

\* Steps that touch neither what is deployed nor the reconcile.
Elsewhere == \/ ReconcileMissing \/ ReadFails \/ ReconcileInvalid
             \/ EditInputs \/ InformerTells
             \/ \E w \in Pods : DeleteWorkload(w) \/ RecreateWorkload(w)
             \/ UNCHANGED vars

\* Steps that end a reconcile, and apply nothing.
GivesUp == CompareFails \/ ApplyFails

LEMMA StepKinds ==
    ASSUME [Next]_vars
    PROVE  \/ ReconcileRead \/ CompareDifferent \/ ApplyObject
           \/ CompareEqual \/ Finish \/ GivesUp \/ Restart \/ Elsewhere
BY DEF Next, Reconcile, GivesUp, Elsewhere

LEMMA ElsewhereKeeps ==
    ASSUME Elsewhere
    PROVE  UNCHANGED <<adaptor, deployed, next, job, appliedConfigMap, blind, unsure, tried>>
BY DEF Elsewhere, ReconcileMissing, ReadFails, ReconcileInvalid, EditInputs, InformerTells,
       DeleteWorkload, RecreateWorkload, vars, cluster, memory, aux, history

LEMMA EndsReconcile ==
    ASSUME CompareEqual \/ GivesUp \/ Finish \/ Restart
    PROVE  next' = 0 /\ deployed' = deployed
BY DEF CompareEqual, GivesUp, CompareFails, ApplyFails, Finish, Restart, Leave,
       NetworkStatusSucceeds, NetworkStatusFails, cluster

LEMMA StepInvStep ==
    ASSUME TypeInv, StepInv, [Next]_vars
    PROVE  StepInv'
<1>1. CASE ReconcileRead \/ CompareDifferent
  <2>1. next' \in {1, 2}
    <3>1. ReconcileRead => next' = 1
      BY DEF ReconcileRead
    <3>2. CompareDifferent => next' = 2
      BY StepNumbers DEF CompareDifferent
    <3> QED BY <1>1, <3>1, <3>2
  <2> QED BY <2>1 DEF StepInv
<1>2. CASE ApplyObject
  <2>1. next \in 2 .. 7 /\ next' = next + 1 /\ job' = job
    BY <1>2, ApplyNext DEF ApplyObject
  <2>2. CASE next \in {2, 3, 5}
    BY <1>2, <2>1, <2>2, ApplyDataFields DEF StepInv
  <2>3. CASE next \notin {2, 3, 5}
    <3>1. deployed' = deployed
      BY <1>2, <2>3, ApplyWorkloadEffect
    <3> QED BY <2>1, <2>3, <3>1 DEF StepInv
  <2> QED BY <2>2, <2>3
<1>3. CASE CompareEqual \/ GivesUp \/ Finish \/ Restart
  BY <1>3, EndsReconcile DEF StepInv
<1>4. CASE Elsewhere
  BY <1>4, ElsewhereKeeps DEF StepInv
<1> QED BY <1>1, <1>2, <1>3, <1>4, StepKinds
--------------------------------------------------------------------------------
(* What is known of it *)

\* What a new process joins is a configuration.
LEMMA JoinTyped ==
    ASSUME TypeInv, Joinable(deployed)
    PROVE  JoinOf(deployed) \in AppliedConfigs /\ JoinOf(deployed) # None
<1>1. deployed.ncpConfig \in NcpConfigs /\ deployed.agentConfig \in AgentConfigs
  BY DEF TypeInv, Joinable
<1>2. JoinOf(deployed) \in AppliedConfigs
  BY <1>1 DEF JoinOf, AppliedConfigs
<1> QED BY <1>2, ConfigAssumption

\* When everything has been applied.
LEMMA AllApplied ==
    ASSUME TypeInv, StepInv, next = 8
    PROVE  /\ deployed.ncpConfig = ForNcp(job.config) /\ deployed.agentConfig = ForAgent(job.config)
           /\ job.config \in Instances /\ job.config # None
           /\ Joinable(deployed) /\ JoinOf(deployed) = Joined(job.config)
<1>1. job.config \in Instances
  BY JobTyped
<1>2. /\ deployed.ncpConfig = ForNcp(job.config) /\ deployed.agentConfig = ForAgent(job.config)
      /\ ForNcp(job.config) # None /\ ForAgent(job.config) # None /\ job.config # None
  BY <1>1, PartsTyped DEF StepInv
<1> QED BY <1>1, <1>2 DEF Joinable, JoinOf, Joined, ForNcp, ForAgent

LEMMA CacheStep ==
    ASSUME TypeInv, StepInv, CacheInv, [Next]_vars
    PROVE  CacheInv'
<1>1. CASE ReconcileRead
  <2>1. UNCHANGED <<deployed, cache>> /\ appliedConfigMap' \in {appliedConfigMap, Applied}
    BY <1>1 DEF ReconcileRead, cluster
  <2> QED BY <2>1 DEF CacheInv, Applied, Joinable
<1>2. CASE ApplyObject
  <2>1. next \in 2 .. 7 /\ UNCHANGED <<cache, appliedConfigMap>>
    BY <1>2, ApplyNext DEF ApplyObject
  <2>2. ForNcp(job.config) # None /\ ForAgent(job.config) # None
    BY <2>1, JobTyped, PartsTyped
  <2>3. /\ deployed'.ncpConfig = deployed.ncpConfig \/ deployed'.ncpConfig # None
        /\ deployed'.agentConfig = deployed.agentConfig \/ deployed'.agentConfig # None
    BY <1>2, <2>2, ApplyDataFields, ApplyWorkloadEffect
  <2> QED BY <2>1, <2>3 DEF CacheInv, Joinable
<1>3. CASE Finish
  <2>1. next = 8 /\ UNCHANGED <<deployed, cache>>
    BY <1>3, StepNumbers DEF Finish
  <2> QED BY <2>1, AllApplied DEF CacheInv
<1>4. CASE Restart
  <2>1. cache' = Shown /\ deployed' = deployed /\ appliedConfigMap' = None
    BY <1>4 DEF Restart, cluster
  <2> QED BY <2>1, ShownIs DEF CacheInv, TypeInv
<1>5. CASE CompareDifferent \/ CompareEqual \/ GivesUp
  <2>1. UNCHANGED <<deployed, cache, appliedConfigMap>>
    BY <1>5 DEF CompareDifferent, CompareEqual, GivesUp, CompareFails, ApplyFails, cluster
  <2> QED BY <2>1 DEF CacheInv
<1>6. CASE Elsewhere
  <2>1. UNCHANGED <<deployed, appliedConfigMap>>
    BY <1>6, ElsewhereKeeps
  <2>2. cache' = cache \/ InformerTells
    BY <1>6 DEF Elsewhere, ReconcileMissing, ReadFails, ReconcileInvalid, EditInputs,
                DeleteWorkload, RecreateWorkload, vars, memory
  <2> QED BY <2>1, <2>2, InformerEffect DEF CacheInv
<1> QED BY <1>1, <1>2, <1>3, <1>4, <1>5, <1>6, StepKinds
--------------------------------------------------------------------------------
(* Immutable options *)

LEMMA ImmutableSym ==
    ASSUME NEW c, NEW d, ~ImmutableFieldChanged(c, d)
    PROVE  ~ImmutableFieldChanged(d, c)
BY DEF ImmutableFieldChanged

\* What the operator joins when the cache is up to date agrees with what is deployed.
LEMMA JoinAgrees ==
    ASSUME TypeInv, appliedConfigMap = None, JoinIsPresent
    PROVE  IF Joinable(deployed)
           THEN /\ Applied = JoinOf(deployed) /\ Applied # None
                /\ ~ImmutableFieldChanged(Applied, deployed.ncpConfig)
           ELSE Applied = None
<1>1. Joinable(cache) = Joinable(deployed) /\ JoinOf(cache) = JoinOf(deployed)
  BY DEF JoinIsPresent, Joinable, JoinOf
<1>2. CASE Joinable(deployed)
  <2>1. deployed.ncpConfig \in NcpConfigs
    BY <1>2 DEF TypeInv, Joinable
  <2>2. ~ImmutableFieldChanged(JoinOf(deployed), deployed.ncpConfig)
    BY <2>1, NcpConfigShape, JoinedKeepsImmutable DEF JoinOf
  <2> QED BY <1>1, <1>2, <2>2, JoinTyped DEF Applied
<1> QED BY <1>1, <1>2 DEF Applied

LEMMA ImmutableStep ==
    ASSUME TypeInv, StepInv, ImmutableInv, [Next]_vars
    PROVE  ImmutableInv'
<1>1. CASE ReconcileRead
  <2>1. next' = 1 /\ deployed' = deployed
    BY <1>1 DEF ReconcileRead, cluster
  <2>2. CASE appliedConfigMap # None
    <3>1. appliedConfigMap' = appliedConfigMap /\ blind' = blind
      BY <1>1, <2>2 DEF ReconcileRead, Applied, StartsFrom
    <3> QED BY <2>1, <2>2, <3>1 DEF ImmutableInv
  <2>3. CASE appliedConfigMap = None
    <3>1. ~blind' => JoinIsPresent /\ appliedConfigMap' = Applied
      BY <1>1, <2>3 DEF ReconcileRead, StartsFrom
    <3>2. blind' \in BOOLEAN
      BY <1>1, StepTyped DEF TypeInv
    <3> QED BY <2>1, <2>3, <3>1, <3>2, JoinAgrees DEF ImmutableInv
  <2> QED BY <2>2, <2>3
<1>2. CASE CompareDifferent
  <2>1. next = 1 /\ next' = 2
    BY <1>2, StepNumbers DEF CompareDifferent
  <2>2. appliedConfigMap # None => ~ImmutableFieldChanged(job.config, appliedConfigMap)
    BY <1>2 DEF CompareDifferent, Refused
  <2>3. deployed' = deployed
    BY <1>2 DEF CompareDifferent, cluster
  <2> QED BY <1>2, <2>1, <2>2, <2>3, GoesOn DEF ImmutableInv, Joinable
<1>3. CASE ApplyObject
  <2>1. /\ next \in 2 .. 7 /\ next' = next + 1 /\ job' = job
        /\ appliedConfigMap' = appliedConfigMap /\ blind' = blind
    BY <1>3, ApplyNext DEF ApplyObject
  <2>2. ForNcp(job.config) # None /\ ForAgent(job.config) # None
    BY <2>1, JobTyped, PartsTyped
  <2>3. CASE next = 3
    <3>1. deployed'.ncpConfig = ForNcp(job.config) /\ deployed'.agentConfig = deployed.agentConfig
      BY <1>3, <2>3, ApplyDataFields
    <3>2. appliedConfigMap # None => ~ImmutableFieldChanged(appliedConfigMap, ForNcp(job.config))
      BY <2>3, ImmutableSym, ImmutableTrans, PartKeepsImmutable DEF ImmutableInv
    <3> QED BY <2>1, <2>2, <2>3, <3>1, <3>2 DEF ImmutableInv, Joinable
  <2>4. CASE next \in {2, 5}
    BY <1>3, <2>1, <2>2, <2>4, ApplyDataFields DEF ImmutableInv, Joinable
  <2>5. CASE next \notin {2, 3, 5}
    <3>1. deployed' = deployed
      BY <1>3, <2>5, ApplyWorkloadEffect
    <3> QED BY <2>1, <2>5, <3>1 DEF ImmutableInv, Joinable
  <2> QED BY <2>3, <2>4, <2>5
<1>4. CASE Finish
  <2>1. next = 8 /\ next' = 0 /\ deployed' = deployed /\ appliedConfigMap' = job.config
    BY <1>4, StepNumbers, EndsReconcile DEF Finish
  <2> QED BY <2>1, AllApplied, PartKeepsImmutable DEF ImmutableInv, Joinable
<1>5. CASE Restart
  BY <1>5 DEF Restart, ImmutableInv
<1>6. CASE CompareEqual \/ GivesUp
  <2>1. appliedConfigMap' = appliedConfigMap /\ blind' = blind
    BY <1>6 DEF CompareEqual, GivesUp, CompareFails, ApplyFails, aux, history
  <2> QED BY <1>6, <2>1, EndsReconcile DEF ImmutableInv, Joinable
<1>7. CASE Elsewhere
  BY <1>7, ElsewhereKeeps DEF ImmutableInv, Joinable
<1> QED
  BY <1>1, <1>2, <1>3, <1>4, <1>5, <1>6, <1>7, StepKinds

LEMMA DeployedInvCorrect == Spec => [](TypeInv /\ StepInv /\ ImmutableInv)
<1>1. Init => TypeInv /\ StepInv /\ ImmutableInv
  <2>1. Init => next = 0 /\ appliedConfigMap = None
    BY DEF Init
  <2>2. Init => StepInv /\ ImmutableInv
    BY <2>1 DEF StepInv, ImmutableInv
  <2> QED BY <2>2, InitTyped
<1>2. TypeInv /\ StepInv /\ ImmutableInv /\ [Next]_vars => (TypeInv /\ StepInv /\ ImmutableInv)'
  BY StepTyped, StepInvStep, ImmutableStep
<1> QED BY <1>1, <1>2, PTL DEF Spec

\* Through restarts, failed reads, applies that were broken off and configurations that
\* were refused: what is deployed never changes its immutable options, as long as what was
\* joined was read, and read as it is.
THEOREM ImmutableOptionsKept == Spec => ImmutableKept
<1>1. TypeInv /\ StepInv /\ ImmutableInv /\ [Next]_vars
         => [~blind => ImmutableFieldsKept]_vars
  <2> SUFFICES ASSUME TypeInv, StepInv, ImmutableInv, [Next]_vars, ~blind, Joinable(deployed)
               PROVE  ~ImmutableFieldChanged(deployed'.ncpConfig, deployed.ncpConfig)
    BY DEF ImmutableFieldsKept, Joinable
  <2>1. CASE ApplyObject /\ next = 3
    <3>1. deployed'.ncpConfig = ForNcp(job.config)
      BY <2>1, ApplyDataFields
    <3>2. /\ ~ImmutableFieldChanged(job.config, appliedConfigMap)
          /\ ~ImmutableFieldChanged(appliedConfigMap, deployed.ncpConfig)
      BY <2>1 DEF ImmutableInv
    <3> QED BY <3>1, <3>2, ImmutableTrans, PartKeepsImmutable
  <2>2. CASE ApplyObject /\ next # 3
    <3>1. deployed'.ncpConfig = deployed.ncpConfig
      BY <2>2, ApplyDataFields, ApplyWorkloadEffect
    <3> QED BY <3>1 DEF ImmutableFieldChanged
  <2>3. CASE ~ApplyObject
    <3>1. deployed' = deployed
      BY <2>3, StepKinds, EndsReconcile, ElsewhereKeeps
         DEF ReconcileRead, CompareDifferent, cluster
    <3> QED BY <3>1 DEF ImmutableFieldChanged
  <2> QED BY <2>1, <2>2, <2>3
<1> QED BY <1>1, DeployedInvCorrect, PTL DEF Spec, ImmutableKept
--------------------------------------------------------------------------------
(* What the pods have started with *)

\* Between the steps of the controller a pod goes, stays, or is started anew.
LEMMA PodsElsewhere ==
    ASSUME TypeInv, Elsewhere, NEW w \in Pods, Present(w)'
    PROVE  \/ Present(w) /\ running'[w] = running[w]
           \/ running'[w] = Content(w, deployed)
<1>1. CASE \E v \in Pods : DeleteWorkload(v)
  BY <1>1 DEF DeleteWorkload, TypeInv, Present
<1>2. CASE \E v \in Pods : RecreateWorkload(v)
  BY <1>2 DEF RecreateWorkload, TypeInv, Present
<1>3. CASE \/ ReconcileMissing \/ ReadFails \/ ReconcileInvalid
           \/ EditInputs \/ InformerTells \/ UNCHANGED vars
  BY <1>3 DEF ReconcileMissing, ReadFails, ReconcileInvalid, EditInputs, InformerTells, vars,
              cluster, Present
<1> QED BY <1>1, <1>2, <1>3 DEF Elsewhere

LEMMA DoneElsewhere ==
    ASSUME Elsewhere
    PROVE  done' = FALSE \/ (done' = done /\ inputs' = inputs /\ Desired' = Desired)
BY DEF Elsewhere, ReconcileMissing, ReadFails, ReconcileInvalid, EditInputs, InformerTells,
       DeleteWorkload, RecreateWorkload, vars, aux, Desired

\* When a ConfigMap or the secret is applied, pods that wait may start.
LEMMA PodsWaiting ==
    ASSUME TypeInv, NEW d, workload' = workload, WaitingPodsStart(d), NEW w \in Pods
    PROVE  /\ running'[w] = running[w] \/ running'[w] = Content(w, d)
           /\ Present(w) /\ running[w].config = None => running'[w] = Content(w, d)
BY DEF WaitingPodsStart, TypeInv, Present

\* A workload that is found not to need a restart does not, as to its options.
LEMMA NeedSays ==
    ASSUME appliedConfigMap # None, NEW w \in Pods, ~NeedChange[w]
    PROVE  SameFor(w, job.config, appliedConfigMap)
<1> DEFINE need == NeedApplyChange(job.config, appliedConfigMap)
<1>1. NeedChange = [need EXCEPT !.ncp = need.ncp \/ job.secret # cache.secret]
  BY DEF NeedChange
<1>2. need \in PodNeedChange
  BY NeedApplyChangeSays
<1>3. ~need[w]
  <2> HIDE DEF need
  <2> QED BY <1>1, <1>2 DEF PodNeedChange, Pods
<1> QED BY <1>3, NeedApplyChangeSays

LEMMA NeedStep ==
    ASSUME TypeInv, StepInv, NeedInv, [Next]_vars
    PROVE  NeedInv'
<1>1. CASE CompareDifferent
  <2> SUFFICES ASSUME appliedConfigMap # None, NEW w \in Pods, ~job'.need[w]
               PROVE  SameFor(w, job.config, appliedConfigMap)
    BY <1>1, GoesOn DEF NeedInv, CompareDifferent, cluster
  <2>1. job \in Jobs
    BY <1>1, StepNumbers, JobTyped DEF CompareDifferent
  <2>2. job'.need = NeedChange
    BY <1>1, <2>1 DEF CompareDifferent, Jobs
  <2> QED BY <2>2, NeedSays
<1>2. CASE ApplyObject
  <2>1. next \in 2 .. 7 /\ job' = job /\ appliedConfigMap' = appliedConfigMap
    BY <1>2, ApplyNext DEF ApplyObject
  <2> QED BY <2>1 DEF NeedInv
<1>3. CASE ReconcileRead
  BY <1>3 DEF ReconcileRead, NeedInv
<1>4. CASE CompareEqual \/ GivesUp \/ Finish \/ Restart
  BY <1>4, EndsReconcile DEF NeedInv
<1>5. CASE Elsewhere
  BY <1>5, ElsewhereKeeps DEF NeedInv
<1> QED BY <1>1, <1>2, <1>3, <1>4, <1>5, StepKinds

\* Once the ConfigMap of w is applied its pods find there what the job says.
LEMMA ConfigThere ==
    ASSUME NEW w \in Pods, NEW d, NEW n \in 0 .. 8, NEW c \in Instances, n > ConfigTurn[w],
           n >= 4 => d.ncpConfig = ForNcp(c),
           n >= 6 => d.agentConfig = ForAgent(c)
    PROVE  SameFor(w, Content(w, d).config, c) /\ Content(w, d).config # None
<1>1. w = "ncp" => d.ncpConfig = ForNcp(c)
  BY DEF ConfigTurn
<1>2. w # "ncp" => d.agentConfig = ForAgent(c)
  BY DEF ConfigTurn, Pods
<1>3. ForNcp(c) # None /\ ForAgent(c) # None
  BY PartsTyped
<1>4. \/ w = "ncp" /\ Content(w, d).config = ForNcp(c)
      \/ w \in {"agent", "bootstrap"} /\ Content(w, d).config = ForAgent(c)
  BY <1>1, <1>2 DEF Content, Pods
<1> QED BY <1>3, <1>4, PartsSuffice

LEMMA ComesOfSame ==
    ASSUME NEW w, NEW c, NEW d, NEW known, SameFor(w, c, d), ComesOf(w, d, known)
    PROVE  ComesOf(w, c, known)
BY SameForTrans DEF ComesOf

LEMMA ComesOfMore ==
    ASSUME NEW w, NEW c, NEW known, NEW more, ComesOf(w, c, known),
           \A b \in known : ComesOf(w, b, more)
    PROVE  ComesOf(w, c, more)
BY SameForTrans DEF ComesOf

LEMMA ComesOfOne ==
    ASSUME NEW w, NEW known, NEW c \in known
    PROVE  ComesOf(w, c, known)
BY SameForRefl DEF ComesOf

\* Nothing new for the pods of w: they stay or start with what there is, and nothing is
\* forgotten of what was known.
LEMMA StartedStays ==
    ASSUME NEW w \in Pods, StartedInv(w),
           \A b \in KnownFor(w) : ComesOf(w, b, KnownFor(w)'),
           Content(w, deployed').config = Content(w, deployed).config,
           Present(w)' => \/ Present(w) /\ running'[w] = running[w]
                          \/ running'[w].config = Content(w, deployed).config
    PROVE  StartedInv(w)'
<1> DEFINE content == Content(w, deployed).config
<1>1. content = None \/ ComesOf(w, content, KnownFor(w)')
  BY ComesOfMore DEF StartedInv
<1>2. Present(w) /\ running[w].config # None => ComesOf(w, running[w].config, KnownFor(w)')
  BY ComesOfMore DEF StartedInv
<1>3. Present(w) /\ content # None => running[w].config # None
  BY DEF StartedInv
<1> QED BY <1>1, <1>2, <1>3 DEF StartedInv

LEMMA ReadKnows ==
    ASSUME TypeInv, CacheInv, ReconcileRead, NEW w \in Pods, StartedInv(w), JoinInv(w)
    PROVE  StartedInv(w)' /\ TurnInv(w)' /\ JoinInv(w)'
<1>1. /\ next = 0 /\ next' = 1 /\ UNCHANGED <<deployed, workload, running>>
  BY DEF ReconcileRead, Begin, Idle, cluster
<1>2. ~(next' > ConfigTurn[w]) /\ ~(next' > WorkloadTurn[w]) /\ ~(next > ConfigTurn[w])
  BY <1>1 DEF ConfigTurn, WorkloadTurn, Pods
<1>3. \/ appliedConfigMap # None /\ appliedConfigMap' = appliedConfigMap /\ tried' = tried
      \/ /\ appliedConfigMap = None /\ JoinIsPresent
         /\ appliedConfigMap' = Applied /\ tried' = tried
      \/ /\ appliedConfigMap = None /\ appliedConfigMap' \in {Applied, None}
         /\ Joinable(deployed) => JoinOf(deployed) \in tried'[w]
         /\ tried[w] \subseteq tried'[w]
  BY DEF ReconcileRead, StartsFrom, Applied
<1>4. \A b \in KnownFor(w) : b \in KnownFor(w)'
  <2>1. \A b \in KnownFor(w) :
           \/ b = appliedConfigMap /\ b # None
           \/ b \in tried[w]
           \/ appliedConfigMap = None /\ Joinable(deployed) /\ b = JoinOf(deployed)
    BY <1>1, <1>2 DEF KnownFor
  <2>2. \A b : (b = appliedConfigMap' /\ b # None) \/ b \in tried'[w] => b \in KnownFor(w)'
    BY DEF KnownFor
  <2> QED BY <1>3, <2>1, <2>2, JoinAgrees
<1>5. JoinInv(w)'
  <2>1. CASE appliedConfigMap # None
    BY <1>1, <1>3, <2>1 DEF JoinInv
  <2>2. CASE appliedConfigMap = None /\ Joinable(deployed)
    BY <1>1, <1>3, <2>2, JoinAgrees, SameForRefl DEF JoinInv
  <2>3. CASE appliedConfigMap = None /\ ~Joinable(deployed)
    <3>1. Applied = None
      BY <2>3 DEF Applied, CacheInv, Joinable
    <3> QED BY <1>3, <2>3, <3>1 DEF JoinInv
  <2> QED BY <2>1, <2>2, <2>3
<1>6. Present(w)' = Present(w)
  BY <1>1 DEF Present
<1>7. StartedInv(w)'
  BY <1>1, <1>4, <1>6, ComesOfOne, StartedStays
<1> QED BY <1>2, <1>5, <1>7 DEF TurnInv

\* What has been compared is all that is known.
LEMMA CompareKnows ==
    ASSUME TypeInv, CompareFails \/ CompareEqual \/ CompareDifferent,
           NEW w \in Pods, StartedInv(w), JoinInv(w)
    PROVE  StartedInv(w)' /\ TurnInv(w)' /\ JoinInv(w)'
<1>1. next = 1 /\ next' \in {0, 2}
  <2>1. CompareDifferent => next = 1 /\ next' = 2
    BY StepNumbers DEF CompareDifferent
  <2>2. CompareFails => next = 1 /\ next' = 0
    BY StepNumbers DEF CompareFails, Leave
  <2>3. CompareEqual => next = 1 /\ next' = 0
    BY StepNumbers, EndsReconcile DEF CompareEqual
  <2> QED BY <2>1, <2>2, <2>3
<1>2. UNCHANGED <<deployed, workload, running, appliedConfigMap, tried>>
  BY DEF CompareFails, CompareEqual, CompareDifferent, cluster, aux, history
<1>3. ~(next > ConfigTurn[w]) /\ ~(next' > WorkloadTurn[w])
  BY <1>1 DEF ConfigTurn, WorkloadTurn, Pods
<1>4. \A b \in KnownFor(w) : b \in KnownFor(w)'
  BY <1>1, <1>2, <1>3 DEF KnownFor
<1>5. Present(w)' = Present(w)
  BY <1>2 DEF Present
<1>6. StartedInv(w)'
  BY <1>2, <1>4, <1>5, ComesOfOne, StartedStays
<1>7. JoinInv(w)'
  BY <1>1, <1>2 DEF JoinInv
<1> QED BY <1>3, <1>6, <1>7 DEF TurnInv

\* The secret or a ConfigMap is applied: waiting pods start.
LEMMA DataKnows ==
    ASSUME TypeInv, StepInv, StepInv', ApplyObject, next \in {2, 3, 5},
           NEW w \in Pods, StartedInv(w), TurnInv(w), JoinInv(w)
    PROVE  StartedInv(w)' /\ TurnInv(w)' /\ JoinInv(w)'
<1>1. /\ next' = next + 1 /\ next' \in 3 .. 8 /\ job' = job
      /\ UNCHANGED <<appliedConfigMap, workload, tried>> /\ WaitingPodsStart(deployed')
  BY ApplyNext, ApplyDataEffect DEF ApplyObject
<1>2. /\ running'[w] = running[w] \/ running'[w] = Content(w, deployed')
      /\ Present(w) /\ running[w].config = None => running'[w] = Content(w, deployed')
  BY <1>1, PodsWaiting
<1>3. Present(w)' = Present(w)
  BY <1>1 DEF Present
<1>4. \A b \in KnownFor(w) : ComesOf(w, b, KnownFor(w)')
  <2>1. next > ConfigTurn[w] => next' > ConfigTurn[w]
    BY <1>1 DEF ConfigTurn, Pods
  <2>2. \A b \in KnownFor(w) : b \in KnownFor(w)'
    BY <1>1, <2>1 DEF KnownFor
  <2> QED BY <2>2, ComesOfOne
<1>5. next' > ConfigTurn[w] =>
         /\ SameFor(w, Content(w, deployed').config, job.config)
         /\ Content(w, deployed').config # None
  <2>1. job.config \in Instances
    BY JobTyped
  <2>2. /\ next' >= 4 => deployed'.ncpConfig = ForNcp(job.config)
        /\ next' >= 6 => deployed'.agentConfig = ForAgent(job.config)
    BY <1>1 DEF StepInv
  <2> QED BY <1>1, <2>1, <2>2, ConfigThere
<1>6. StartedInv(w)'
  <2>1. CASE next = ConfigTurn[w]
    <3>1. /\ job.config \in KnownFor(w)' /\ next' > ConfigTurn[w]
      BY <1>1, <2>1 DEF KnownFor
    <3>2. /\ ComesOf(w, Content(w, deployed').config, KnownFor(w)')
          /\ Content(w, deployed').config # None
      BY <1>5, <3>1 DEF ComesOf
    <3>3. Present(w) /\ running[w].config # None => ComesOf(w, running[w].config, KnownFor(w)')
      BY <1>4, ComesOfMore DEF StartedInv
    <3> QED BY <1>2, <1>3, <3>2, <3>3 DEF StartedInv
  <2>2. CASE next # ConfigTurn[w]
    <3>1. Content(w, deployed').config = Content(w, deployed).config
      BY <2>2, ApplyDataFields DEF Content, ConfigTurn, Pods
    <3> QED BY <1>2, <1>3, <1>4, <3>1, StartedStays
  <2> QED BY <2>1, <2>2
<1>7. TurnInv(w)'
  <2> SUFFICES ASSUME next' > WorkloadTurn[w], Present(w)
               PROVE  ComesOf(w, running'[w].config, {job.config} \cup tried[w])
    BY <1>1, <1>3 DEF TurnInv
  <2>1. next > WorkloadTurn[w] /\ next' > ConfigTurn[w]
    BY <1>1 DEF WorkloadTurn, ConfigTurn, Pods
  <2>2. ComesOf(w, running[w].config, {job.config} \cup tried[w])
    BY <2>1 DEF TurnInv
  <2>3. ComesOf(w, Content(w, deployed').config, {job.config} \cup tried[w])
    BY <1>5, <2>1 DEF ComesOf
  <2> QED BY <1>2, <2>2, <2>3
<1>8. JoinInv(w)'
  <2>1. next' <= 3 => next = 2
    BY <1>1
  <2>2. next = 2 => JoinOf(deployed') = JoinOf(deployed)
    BY ApplyDataFields DEF JoinOf
  <2> QED BY <1>1, <2>1, <2>2 DEF JoinInv
<1> QED BY <1>6, <1>7, <1>8

\* A workload that has the object already needed no restart.
LEMMA SameObject ==
    ASSUME TypeInv, next # 0, NEW w \in Pods, workload[w] = ObjectOf(w), appliedConfigMap # None
    PROVE  ~job.need[w]
<1> SUFFICES ASSUME job.need[w] PROVE FALSE
  OBVIOUS
<1>1. ObjectOf(w).stamp = NewStamp(w)
  BY DEF ObjectOf, StampOf
<1>2. workload[w] # None
  <2>1. TemplateOf(job.spec, w) \in Templates
    BY JobTyped
  <2>2. ObjectOf(w) \in Objects
    BY <2>1 DEF ObjectOf, StampOf, Objects, Stamps, NewStamp, NoStamp
  <2> QED BY <2>2, ConfigAssumption
<1>3. workload[w].stamp # NewStamp(w)
  BY <1>2 DEF NewStamp
<1> QED BY <1>1, <1>3

\* The workload itself is applied.
LEMMA OwnWorkloadKnows ==
    ASSUME TypeInv, StepInv, NeedInv, ApplyObject, NEW w \in Pods, next = WorkloadTurn[w],
           ApplyWorkload(w), StartedInv(w)
    PROVE  StartedInv(w)' /\ TurnInv(w)'
<1>1. /\ next' = next + 1 /\ job' = job /\ next \in 0 .. 8 /\ next # 0 /\ next >= 4
      /\ UNCHANGED <<appliedConfigMap, deployed>>
  BY ApplyNext, ApplyWorkloadIs DEF ApplyObject, WorkloadTurn, Pods
<1>2. next > ConfigTurn[w] /\ next' > ConfigTurn[w]
  BY <1>1 DEF WorkloadTurn, ConfigTurn, Pods
<1>3. SameFor(w, Content(w, deployed).config, job.config) /\ Content(w, deployed).config # None
  <2>1. job.config \in Instances
    BY <1>1, JobTyped
  <2> QED BY <1>1, <1>2, <2>1, ConfigThere DEF StepInv
<1>4. CASE workload[w] # ObjectOf(w)
  <2>1. running'[w] = Content(w, deployed)
    BY <1>4, ApplyWorkloadIs DEF TypeInv
  <2>2. job.config \in KnownFor(w)'
    BY <1>1, <1>2 DEF KnownFor
  <2>3. ComesOf(w, Content(w, deployed).config, KnownFor(w)')
    BY <1>3, <2>2 DEF ComesOf
  <2>4. ComesOf(w, Content(w, deployed).config, {job.config} \cup tried'[w])
    BY <1>3 DEF ComesOf
  <2> QED BY <1>1, <1>3, <2>1, <2>3, <2>4 DEF StartedInv, TurnInv
<1>5. CASE workload[w] = ObjectOf(w)
  <2>1. running' = running /\ tried' = tried /\ Present(w)' = Present(w)
    BY <1>5, ApplyWorkloadIs DEF Present, TypeInv
  <2>2. StartedInv(w)'
    <3>1. \A b \in KnownFor(w) : b \in KnownFor(w)'
      BY <1>1, <1>2, <2>1 DEF KnownFor
    <3> QED BY <1>1, <2>1, <3>1, ComesOfOne, StartedStays
  <2>3. appliedConfigMap # None => ~job.need[w]
    BY <1>1, <1>5, SameObject
  <2>4. \A b \in KnownFor(w) : ComesOf(w, b, {job.config} \cup tried[w])
    <3>1. \A b \in KnownFor(w) : \/ b = appliedConfigMap /\ b # None
                                 \/ b \in tried[w] \/ b = job.config
      BY <1>1 DEF KnownFor
    <3>2. appliedConfigMap # None => SameFor(w, appliedConfigMap, job.config)
      BY <1>1, <2>3, SameForSym DEF NeedInv
    <3>3. appliedConfigMap # None => ComesOf(w, appliedConfigMap, {job.config} \cup tried[w])
      BY <3>2 DEF ComesOf
    <3> QED BY <3>1, <3>3, ComesOfOne
  <2>5. Present(w) => ComesOf(w, running[w].config, {job.config} \cup tried[w])
    BY <1>3, <2>4, ComesOfMore DEF StartedInv
  <2> QED BY <1>1, <2>1, <2>2, <2>5 DEF TurnInv
<1> QED BY <1>4, <1>5

LEMMA WorkloadKnows ==
    ASSUME TypeInv, StepInv, NeedInv, ApplyObject, next \in {4, 6, 7},
           NEW w \in Pods, StartedInv(w), TurnInv(w)
    PROVE  StartedInv(w)' /\ TurnInv(w)' /\ JoinInv(w)'
<1>1. /\ next' = next + 1 /\ job' = job /\ UNCHANGED <<appliedConfigMap, deployed>>
  BY ApplyNext, ApplyWorkloadEffect DEF ApplyObject
<1>2. PICK v \in Pods : next = WorkloadTurn[v] /\ ApplyWorkload(v)
  BY ApplyWorkloadEffect
<1>3. CASE v # w
  <2>1. running'[w] = running[w] /\ workload'[w] = workload[w] /\ tried'[w] = tried[w]
    BY <1>2, <1>3, ApplyWorkloadIs DEF TypeInv
  <2>2. next' > WorkloadTurn[w] => next > WorkloadTurn[w]
    BY <1>1, <1>2, <1>3 DEF WorkloadTurn, Pods
  <2>3. next > ConfigTurn[w] => next' > ConfigTurn[w]
    BY <1>1 DEF ConfigTurn, Pods
  <2>4. \A b \in KnownFor(w) : b \in KnownFor(w)'
    BY <1>1, <2>1, <2>3 DEF KnownFor
  <2>5. StartedInv(w)'
    BY <1>1, <2>1, <2>4, ComesOfOne, StartedStays DEF Present
  <2> QED BY <1>1, <2>1, <2>2, <2>5 DEF TurnInv, JoinInv, Present
<1>4. CASE v = w
  BY <1>1, <1>2, <1>4, OwnWorkloadKnows DEF JoinInv
<1> QED BY <1>3, <1>4

\* An apply that is broken off leaves behind what it has tried.
LEMMA ApplyFailsKnows ==
    ASSUME TypeInv, ApplyFails, NEW w \in Pods, StartedInv(w), JoinInv(w)
    PROVE  StartedInv(w)' /\ TurnInv(w)' /\ JoinInv(w)'
<1>1. /\ next \in 2 .. 7 /\ next' = 0 /\ UNCHANGED <<deployed, workload, running, appliedConfigMap>>
      /\ tried'[w] = tried[w] \cup Attempted
  BY ObjectNumbers DEF ApplyFails, Leave, cluster
<1>2. next > ConfigTurn[w] => next > 3
  BY <1>1 DEF ConfigTurn, Pods
<1>3. \A b \in KnownFor(w) : b \in KnownFor(w)'
  BY <1>1, <1>2 DEF KnownFor, Attempted
<1>4. StartedInv(w)'
  BY <1>1, <1>3, ComesOfOne, StartedStays DEF Present
<1>5. JoinInv(w)'
  BY <1>1 DEF JoinInv, Attempted
<1>6. TurnInv(w)'
  BY <1>1 DEF TurnInv, WorkloadTurn, Pods
<1> QED BY <1>4, <1>5, <1>6

\* Once everything is applied the job is what is known.
LEMMA FinishKnows ==
    ASSUME TypeInv, StepInv, Finish, NEW w \in Pods, StartedInv(w), TurnInv(w)
    PROVE  StartedInv(w)' /\ TurnInv(w)' /\ JoinInv(w)'
<1>1. /\ next = 8 /\ next' = 0 /\ appliedConfigMap' = job.config
      /\ UNCHANGED <<deployed, workload, running, tried>>
  BY StepNumbers, EndsReconcile DEF Finish
<1>2. next > ConfigTurn[w] /\ next > WorkloadTurn[w] /\ ~(next' > WorkloadTurn[w])
  BY <1>1 DEF ConfigTurn, WorkloadTurn, Pods
<1>3. SameFor(w, Content(w, deployed).config, job.config) /\ Content(w, deployed).config # None
  <2>1. job.config \in Instances /\ next \in 0 .. 8
    BY <1>1, AllApplied
  <2> QED BY <1>1, <1>2, <2>1, ConfigThere DEF StepInv
<1>4. {job.config} \cup tried[w] \subseteq KnownFor(w)'
  BY <1>1, AllApplied DEF KnownFor
<1>5. ComesOf(w, Content(w, deployed).config, KnownFor(w)')
  BY <1>3, <1>4 DEF ComesOf
<1>6. Present(w) => ComesOf(w, running[w].config, KnownFor(w)')
  BY <1>2, <1>4 DEF TurnInv, ComesOf
<1>7. StartedInv(w)'
  BY <1>1, <1>3, <1>5, <1>6 DEF StartedInv, Present
<1>8. JoinInv(w)'
  BY <1>1, AllApplied, JoinedSame, SameForSym DEF JoinInv
<1> QED BY <1>2, <1>7, <1>8 DEF TurnInv

\* A restart forgets what was applied, but for what may still be there of it.
LEMMA RestartKnows ==
    ASSUME TypeInv, CacheInv, StepInv, Restart,
           NEW w \in Pods, StartedInv(w), TurnInv(w), JoinInv(w)
    PROVE  StartedInv(w)' /\ TurnInv(w)' /\ JoinInv(w)'
<1>1. /\ next' = 0 /\ appliedConfigMap' = None /\ UNCHANGED <<deployed, workload, running>>
      /\ tried'[w] = tried[w] \cup Attempted \cup Forgotten(w) /\ next \in 0 .. 8
  BY DEF Restart, cluster, TypeInv
<1>2. tried'[w] \subseteq KnownFor(w)' /\ (Joinable(deployed) => JoinOf(deployed) \in KnownFor(w)')
  BY <1>1 DEF KnownFor
<1>3. next > ConfigTurn[w] => job.config \in tried'[w]
  BY <1>1 DEF ConfigTurn, Pods, Attempted
<1>4. TurnInv(w)' /\ JoinInv(w)'
  BY <1>1 DEF TurnInv, JoinInv, WorkloadTurn, Pods
<1>5. CASE next > WorkloadTurn[w]
  <2>1. next > ConfigTurn[w] /\ next # 0
    BY <1>1, <1>5 DEF WorkloadTurn, ConfigTurn, Pods
  <2>2. SameFor(w, Content(w, deployed).config, job.config) /\ Content(w, deployed).config # None
    <3>1. job.config \in Instances
      BY <2>1, JobTyped
    <3> QED BY <1>1, <2>1, <3>1, ConfigThere DEF StepInv
  <2>3. {job.config} \cup tried[w] \subseteq KnownFor(w)'
    BY <1>1, <1>2, <1>3, <2>1
  <2>4. ComesOf(w, Content(w, deployed).config, KnownFor(w)')
    BY <2>2, <2>3 DEF ComesOf
  <2>5. Present(w) => ComesOf(w, running[w].config, KnownFor(w)')
    BY <1>5, <2>3 DEF TurnInv, ComesOf
  <2>6. Present(w) => running[w].config # None
    BY <2>2 DEF StartedInv
  <2>7. Present(w)' = Present(w)
    BY <1>1 DEF Present
  <2>8. StartedInv(w)'
    BY <1>1, <2>4, <2>5, <2>6, <2>7 DEF StartedInv
  <2> QED BY <1>4, <2>8
<1>6. CASE ~(next > WorkloadTurn[w])
  <2>1. appliedConfigMap # None => ComesOf(w, appliedConfigMap, KnownFor(w)')
    <3>1. CASE next > 3
      <4>1. WorkloadTurn[w] \in next .. Len(Steps) /\ Steps[WorkloadTurn[w]] = w
        BY <1>1, <1>6 DEF WorkloadTurn, Pods, Steps
      <4>2. appliedConfigMap # None => appliedConfigMap \in Forgotten(w)
        BY <3>1, <4>1 DEF Forgotten
      <4> QED BY <1>1, <1>2, <4>2, ComesOfOne
    <3>2. CASE tried[w] # {}
      <4>1. appliedConfigMap # None => appliedConfigMap \in Forgotten(w)
        BY <3>2 DEF Forgotten
      <4> QED BY <1>1, <1>2, <4>1, ComesOfOne
    <3>3. CASE next <= 3 /\ tried[w] = {}
      BY <1>2, <3>3 DEF JoinInv, CacheInv, ComesOf
    <3> QED BY <1>1, <3>1, <3>2, <3>3
  <2>2. \A b \in KnownFor(w) : \/ b = appliedConfigMap /\ b # None
                               \/ b \in tried'[w]
                               \/ Joinable(deployed) /\ b = JoinOf(deployed)
    BY <1>1, <1>3 DEF KnownFor
  <2>3. \A b \in KnownFor(w) : ComesOf(w, b, KnownFor(w)')
    BY <1>2, <2>1, <2>2, ComesOfOne
  <2>4. Present(w)' = Present(w)
    BY <1>1 DEF Present
  <2>5. Content(w, deployed').config = Content(w, deployed).config
    BY <1>1
  <2>6. StartedInv(w)'
    BY <1>1, <2>3, <2>4, <2>5, StartedStays
  <2> QED BY <1>4, <2>6
<1> QED BY <1>5, <1>6

LEMMA ElsewhereKnows ==
    ASSUME TypeInv, StepInv, Elsewhere, NEW w \in Pods, StartedInv(w), TurnInv(w), JoinInv(w)
    PROVE  StartedInv(w)' /\ TurnInv(w)' /\ JoinInv(w)'
<1>1. UNCHANGED <<deployed, next, job, appliedConfigMap, tried>>
  BY ElsewhereKeeps
<1>2. Present(w)' => \/ Present(w) /\ running'[w] = running[w]
                     \/ running'[w] = Content(w, deployed)
  BY PodsElsewhere
<1>3. StartedInv(w)'
  <2>1. KnownFor(w)' = KnownFor(w)
    BY <1>1 DEF KnownFor
  <2> QED BY <1>1, <1>2, <2>1, ComesOfOne, StartedStays
<1>4. next > WorkloadTurn[w] => SameFor(w, Content(w, deployed).config, job.config)
  <2> SUFFICES ASSUME next > WorkloadTurn[w]
               PROVE  SameFor(w, Content(w, deployed).config, job.config)
    OBVIOUS
  <2>1. next \in 0 .. 8 /\ next > ConfigTurn[w] /\ next # 0
    BY DEF TypeInv, WorkloadTurn, ConfigTurn, Pods
  <2>2. job.config \in Instances
    BY <2>1, JobTyped
  <2> QED BY <2>1, <2>2, ConfigThere DEF StepInv
<1>5. next > WorkloadTurn[w] => ComesOf(w, Content(w, deployed).config, {job.config} \cup tried[w])
  BY <1>4 DEF ComesOf
<1>6. TurnInv(w)'
  BY <1>1, <1>2, <1>5 DEF TurnInv
<1> QED BY <1>1, <1>3, <1>6 DEF JoinInv

LEMMA KnownStep ==
    ASSUME TypeInv, CacheInv, StepInv, NeedInv, KnownInv, StepInv', [Next]_vars
    PROVE  KnownInv'
<1> SUFFICES ASSUME NEW w \in Pods PROVE StartedInv(w)' /\ TurnInv(w)' /\ JoinInv(w)'
  BY DEF KnownInv
<1>1. StartedInv(w) /\ TurnInv(w) /\ JoinInv(w)
  BY DEF KnownInv
<1>2. CASE ApplyObject
  <2>1. next \in {2, 3, 5} \/ next \in {4, 6, 7}
    BY <1>2, ApplyNext
  <2> QED BY <1>1, <1>2, <2>1, DataKnows, WorkloadKnows
<1>3. CASE GivesUp
  BY <1>1, <1>3, CompareKnows, ApplyFailsKnows DEF GivesUp
<1> QED
  BY <1>1, <1>2, <1>3, ReadKnows, CompareKnows, FinishKnows, RestartKnows, ElsewhereKnows, StepKinds
--------------------------------------------------------------------------------
(* NCP and its secret *)

LEMMA NeedSaysSecret ==
    ASSUME appliedConfigMap # None, ~NeedChange["ncp"]
    PROVE  job.secret = cache.secret
<1> DEFINE need == NeedApplyChange(job.config, appliedConfigMap)
<1>1. NeedChange = [need EXCEPT !.ncp = need.ncp \/ job.secret # cache.secret]
  BY DEF NeedChange
<1>2. need \in PodNeedChange
  BY NeedApplyChangeSays
<1> HIDE DEF need
<1> QED BY <1>1, <1>2 DEF PodNeedChange

\* NCP's pods go on, or start with what there is.
LEMMA NcpStays ==
    ASSUME NEW s, NEW d, NcpHas(s), d.secret = s,
           Present("ncp")' => \/ Present("ncp") /\ running'["ncp"] = running["ncp"]
                              \/ running'["ncp"] = Content("ncp", d)
    PROVE  Present("ncp")' /\ running'["ncp"].config # None => running'["ncp"].secret = s
BY DEF NcpHas, Content

LEMMA ReadKeepsSecret ==
    ASSUME TypeInv, InputsInv, SecretInv, ReconcileRead
    PROVE  SecretInv'
<1>1. /\ next = 0 /\ next' = 1 /\ ~done /\ done' = done
      /\ UNCHANGED <<deployed, workload, running>>
  BY DEF ReconcileRead, Begin, Idle, InputsInv, cluster
<1>2. ~unsure' =>
         /\ ~unsure
         /\ \/ appliedConfigMap' # None
            \/ appliedConfigMap = None /\ appliedConfigMap' = Applied /\ JoinIsPresent
  BY DEF ReconcileRead, StartsFrom, Applied, TypeInv
<1>3. ~unsure' /\ appliedConfigMap' = None => deployed.ncpConfig = None
  BY <1>1, <1>2, JoinAgrees DEF SecretInv, Joinable
<1> QED BY <1>1, <1>2, <1>3 DEF SecretInv, NcpHas, Present

LEMMA CompareKeepsSecret ==
    ASSUME TypeInv, InputsInv, SecretInv, CompareFails \/ CompareEqual \/ CompareDifferent
    PROVE  SecretInv'
<1>1. CASE CompareFails
  <2>1. /\ next = 1 /\ next' = 0 /\ ~done /\ done' = done /\ unsure' = unsure
        /\ UNCHANGED <<deployed, workload, running>>
    BY <1>1, StepNumbers DEF CompareFails, Leave, InputsInv, cluster, aux, history
  <2> QED BY <2>1 DEF SecretInv, NcpHas, Present
<1>2. CASE CompareEqual
  <2>1. /\ next = 1 /\ next' = 0 /\ UNCHANGED <<deployed, workload, running>>
    BY <1>2, StepNumbers, EndsReconcile DEF CompareEqual
  <2>2. NeedChange = [ncp |-> FALSE, agent |-> FALSE, bootstrap |-> FALSE]
    BY <1>2 DEF CompareEqual, NothingToApply
  <2>3. job.secret = cache.secret
    BY <2>2, NeedSaysSecret DEF NeedChange, AllNeedChange
  <2>4. ~unsure' => ~unsure /\ cache.secret = deployed.secret
    BY <1>2, <2>3 DEF CompareEqual, MisjudgesSecret, TypeInv
  <2>5. done' => job.secret = inputs'.secret
    BY <1>2, SuccessIsPresent
  <2> QED BY <2>1, <2>3, <2>4, <2>5 DEF SecretInv, NcpHas, Present
<1>3. CASE CompareDifferent
  <2>1. /\ next = 1 /\ next' = 2 /\ ~done /\ done' = done /\ job'.secret = job.secret
        /\ UNCHANGED <<deployed, workload, running, appliedConfigMap>>
    BY <1>3, StepNumbers, GoesOn DEF CompareDifferent, InputsInv, cluster
  <2>2. job'.need = NeedChange
    BY <1>3, <2>1, JobTyped DEF CompareDifferent, Jobs
  <2>3. ~unsure' => ~unsure /\ (job.secret = cache.secret => cache.secret = deployed.secret)
    BY <1>3 DEF CompareDifferent, MisjudgesSecret, TypeInv
  <2> QED BY <2>1, <2>2, <2>3, NeedSaysSecret DEF SecretInv, NcpHas, Present
<1> QED BY <1>1, <1>2, <1>3

LEMMA DataKeepsSecret ==
    ASSUME TypeInv, InputsInv, StepInv, SecretInv, ApplyObject, next \in {2, 3, 5}
    PROVE  SecretInv'
<1>1. /\ next' = next + 1 /\ job' = job /\ ~done /\ done' = done
      /\ UNCHANGED <<appliedConfigMap, workload, unsure>> /\ WaitingPodsStart(deployed')
  BY ApplyNext, ApplyDataEffect DEF ApplyObject, InputsInv
<1>2. /\ running'["ncp"] = running["ncp"] \/ running'["ncp"] = Content("ncp", deployed')
      /\ Present("ncp") /\ running["ncp"].config = None
            => running'["ncp"] = Content("ncp", deployed')
  BY <1>1, PodsWaiting DEF Pods
<1>3. Present("ncp")' = Present("ncp")
  BY <1>1 DEF Present
<1>4. CASE next = 2
  <2>1. deployed'.secret = job.secret /\ deployed'.ncpConfig = deployed.ncpConfig
        /\ deployed'.agentConfig = deployed.agentConfig
    BY <1>4, ApplyDataFields
  <2>2. ~unsure /\ appliedConfigMap # None /\ ~job.need.ncp => NcpHas(job.secret)
    BY <1>4 DEF SecretInv
  <2>3. ~unsure /\ appliedConfigMap # None /\ ~job.need.ncp =>
           (Present("ncp")' /\ running'["ncp"].config # None => running'["ncp"].secret = job.secret)
    BY <1>2, <1>3, <2>1, <2>2, NcpStays
  <2> QED BY <1>1, <1>2, <1>3, <1>4, <2>1, <2>3 DEF SecretInv, NcpHas, Content
<1>5. CASE next = 3
  <2>1. deployed'.secret = job.secret
    BY <1>5, ApplyDataFields DEF StepInv
  <2>2. deployed'.ncpConfig # None
    BY <1>5, ApplyDataFields, JobTyped, PartsTyped
  <2>3. ~unsure /\ appliedConfigMap # None /\ ~job.need.ncp =>
           (Present("ncp")' /\ running'["ncp"].config # None => running'["ncp"].secret = job.secret)
    BY <1>2, <1>3, <1>5, <2>1, NcpStays DEF SecretInv
  <2>4. ~unsure /\ appliedConfigMap = None /\ Present("ncp") => running'["ncp"].secret = job.secret
    BY <1>2, <1>5, <2>1 DEF SecretInv, Content
  <2> QED BY <1>1, <1>3, <1>5, <2>2, <2>3, <2>4 DEF SecretInv, NcpHas
<1>6. CASE next = 5
  <2>1. deployed'.secret = deployed.secret /\ deployed'.ncpConfig = deployed.ncpConfig
    BY <1>6, ApplyDataFields
  <2>2. ~unsure => (Present("ncp")' /\ running'["ncp"].config # None
                       => running'["ncp"].secret = deployed'.secret)
    BY <1>2, <1>3, <1>6, <2>1, NcpStays DEF SecretInv
  <2> QED BY <1>1, <1>2, <1>3, <1>6, <2>1, <2>2 DEF SecretInv, NcpHas, Content
<1> QED BY <1>4, <1>5, <1>6

LEMMA WorkloadKeepsSecret ==
    ASSUME TypeInv, InputsInv, StepInv, SecretInv, ApplyObject, next \in {4, 6, 7}
    PROVE  SecretInv'
<1>1. /\ next' = next + 1 /\ job' = job /\ ~done /\ done' = done
      /\ UNCHANGED <<appliedConfigMap, deployed>>
  BY ApplyNext, ApplyWorkloadEffect DEF ApplyObject, InputsInv
<1>2. PICK w \in Pods : next = WorkloadTurn[w] /\ ApplyWorkload(w)
  BY ApplyWorkloadEffect
<1>3. deployed.secret = job.secret /\ deployed.ncpConfig # None
  BY JobTyped, PartsTyped DEF StepInv
<1>4. CASE w # "ncp"
  <2>1. /\ running'["ncp"] = running["ncp"] /\ Present("ncp")' = Present("ncp")
        /\ unsure' = unsure
    BY <1>2, <1>4, ApplyWorkloadIs DEF TypeInv, Present, Pods
  <2>2. next \in {6, 7}
    BY <1>2, <1>4 DEF WorkloadTurn, Pods
  <2> QED BY <1>1, <1>3, <2>1, <2>2 DEF SecretInv, NcpHas
<1>5. CASE w = "ncp" /\ workload[w] # ObjectOf(w)
  <2>1. running'["ncp"] = Content("ncp", deployed)
    BY <1>2, <1>5, ApplyWorkloadIs DEF TypeInv
  <2>2. next = 4
    BY <1>2, <1>5 DEF WorkloadTurn
  <2> QED BY <1>1, <1>3, <2>1, <2>2 DEF SecretInv, NcpHas, Content
<1>6. CASE w = "ncp" /\ workload[w] = ObjectOf(w)
  <2>1. running' = running /\ unsure' = unsure /\ Present("ncp")' = Present("ncp")
    BY <1>2, <1>6, ApplyWorkloadIs DEF TypeInv, Present
  <2>2. next = 4
    BY <1>2, <1>6 DEF WorkloadTurn
  <2>3. appliedConfigMap # None => ~job.need.ncp
    BY <1>6, <2>2, SameObject
  <2> QED BY <1>1, <1>3, <2>1, <2>2, <2>3 DEF SecretInv, NcpHas
<1> QED BY <1>4, <1>5, <1>6

\* A reconcile that ends: unless it had changed the secret NCP has what there is.
LEMMA EndKeepsSecret ==
    ASSUME TypeInv, CacheInv, InputsInv, StepInv, SecretInv, ApplyFails \/ Finish \/ Restart
    PROVE  SecretInv'
<1>1. /\ next' = 0 /\ UNCHANGED <<deployed, workload, running>> /\ next \in 0 .. 8
  BY EndsReconcile DEF GivesUp, ApplyFails, Finish, Restart, cluster, TypeInv
<1>2. CASE ApplyFails \/ Restart
  <2>1. ~unsure' => ~unsure /\ next \notin {3, 4} /\ (next > 4 => appliedConfigMap # None)
    BY <1>2, StepNumbers DEF ApplyFails, Restart, LeavesSecret, TypeInv
  <2>2. ~done'
    <3>1. ApplyFails => ~done /\ done' = done
      BY ObjectNumbers DEF ApplyFails, InputsInv
    <3> QED BY <1>2, <3>1 DEF Restart
  <2>3. ~unsure' /\ deployed.ncpConfig # None => deployed.agentConfig # None
    BY <1>1, <2>1 DEF SecretInv, CacheInv, Joinable
  <2> QED BY <1>1, <2>1, <2>2, <2>3 DEF SecretInv, NcpHas, Present
<1>3. CASE Finish
  <2>1. next = 8 /\ unsure' = unsure
    BY <1>3, StepNumbers DEF Finish
  <2>2. Joinable(deployed) /\ deployed.secret = job.secret
    BY <2>1, AllApplied DEF StepInv
  <2>3. done' => job.secret = inputs'.secret
    BY <1>3, SuccessIsPresent
  <2> QED BY <1>1, <2>1, <2>2, <2>3 DEF SecretInv, NcpHas, Present, Joinable
<1> QED BY <1>2, <1>3

LEMMA ElsewhereKeepsSecret ==
    ASSUME TypeInv, StepInv, SecretInv, Elsewhere
    PROVE  SecretInv'
<1>1. UNCHANGED <<deployed, next, job, appliedConfigMap, unsure>>
  BY ElsewhereKeeps
<1>2. Present("ncp")' => \/ Present("ncp") /\ running'["ncp"] = running["ncp"]
                         \/ running'["ncp"] = Content("ncp", deployed)
  BY PodsElsewhere DEF Pods
<1>3. NcpHas(deployed.secret) =>
         (Present("ncp")' /\ running'["ncp"].config # None
             => running'["ncp"].secret = deployed.secret)
  BY <1>2, NcpStays
<1>4. next \in {3, 4} => deployed.secret = job.secret
  BY DEF StepInv
<1>5. done' => done /\ inputs' = inputs
  BY DoneElsewhere
<1>6. deployed.ncpConfig = None /\ Present("ncp")' => running'["ncp"].config = None
  BY <1>2 DEF SecretInv, Content
<1> QED BY <1>1, <1>3, <1>4, <1>5, <1>6 DEF SecretInv, NcpHas

LEMMA SecretStep ==
    ASSUME TypeInv, CacheInv, InputsInv, StepInv, SecretInv, [Next]_vars
    PROVE  SecretInv'
<1>1. CASE ApplyObject
  <2>1. next \in {2, 3, 5} \/ next \in {4, 6, 7}
    BY <1>1, ApplyNext
  <2> QED BY <1>1, <2>1, DataKeepsSecret, WorkloadKeepsSecret
<1> QED
  BY <1>1, ReadKeepsSecret, CompareKeepsSecret, EndKeepsSecret, ElsewhereKeepsSecret, StepKinds
     DEF GivesUp
--------------------------------------------------------------------------------
(* Success *)

LEMMA DoneStep ==
    ASSUME TypeInv, InputsInv, DoneInv, [Next]_vars
    PROVE  DoneInv'
<1> SUFFICES ASSUME done'
             PROVE  appliedConfigMap' # None /\ \A w \in Pods : SameFor(w, appliedConfigMap', Desired')
  BY DEF DoneInv
<1>1. CASE Finish
  <2>1. appliedConfigMap' = job.config /\ job.config # None
    BY <1>1, StepNumbers, AllApplied, JobTyped, PartsTyped DEF Finish
  <2> QED BY <1>1, <2>1, SuccessIsPresent, SameForRefl
<1>2. CASE CompareEqual
  <2>1. appliedConfigMap' = appliedConfigMap /\ job.config = Desired'
    BY <1>2, SuccessIsPresent DEF CompareEqual
  <2>2. NeedChange = [ncp |-> FALSE, agent |-> FALSE, bootstrap |-> FALSE]
    BY <1>2 DEF CompareEqual, NothingToApply
  <2>3. appliedConfigMap # None
    BY <2>2 DEF NeedChange, AllNeedChange
  <2>4. \A w \in Pods : ~NeedChange[w]
    BY <2>2 DEF Pods
  <2>5. \A w \in Pods : SameFor(w, job.config, appliedConfigMap)
    BY <2>3, <2>4, NeedSays
  <2> QED BY <2>1, <2>3, <2>5, SameForSym
<1>3. CASE ReconcileRead \/ CompareDifferent \/ ApplyObject \/ GivesUp \/ Restart
  <2>1. ~done
    <3>1. ReconcileRead => ~done
      BY DEF ReconcileRead, Begin, InputsInv
    <3>2. CompareDifferent \/ CompareFails => next = 1
      BY StepNumbers DEF CompareDifferent, CompareFails
    <3>3. ApplyObject => next # 0
      BY GoesOn
    <3>4. ApplyFails => next # 0
      BY ObjectNumbers DEF ApplyFails
    <3>5. Restart => ~done'
      BY DEF Restart
    <3> QED BY <1>3, <3>1, <3>2, <3>3, <3>4, <3>5 DEF GivesUp, InputsInv
  <2>2. done' = done \/ Restart
    BY <1>3 DEF ReconcileRead, CompareDifferent, ApplyObject, GivesUp, CompareFails, ApplyFails, aux
  <2> QED BY <2>1, <2>2 DEF Restart
<1>4. CASE Elsewhere
  BY <1>4, ElsewhereKeeps, DoneElsewhere DEF DoneInv
<1> QED BY <1>1, <1>2, <1>3, <1>4, StepKinds

LEMMA InitIInv == Init => IInv
<1> SUFFICES ASSUME Init PROVE IInv
  OBVIOUS
<1>1. /\ next = 0 /\ appliedConfigMap = None /\ done = FALSE
      /\ deployed = [secret |-> NoSecret, ncpConfig |-> None, agentConfig |-> None]
      /\ workload = [w \in Pods |-> None] /\ cache = Shown
  BY DEF Init
<1>2. CacheInv
  BY <1>1, ShownIs DEF CacheInv
<1>3. InputsInv /\ StepInv /\ NeedInv /\ DoneInv
  BY <1>1 DEF InputsInv, StepInv, NeedInv, DoneInv
<1>4. KnownInv
  <2> SUFFICES ASSUME NEW w \in Pods PROVE StartedInv(w) /\ TurnInv(w) /\ JoinInv(w)
    BY DEF KnownInv
  <2>1. ~Present(w) /\ Content(w, deployed).config = None
    BY <1>1 DEF Present, Content
  <2> QED BY <1>1, <2>1 DEF StartedInv, TurnInv, JoinInv
<1>5. SecretInv
  <2>1. ~Present("ncp") /\ deployed.ncpConfig = None
    BY <1>1 DEF Present, Pods
  <2> QED BY <1>1, <2>1 DEF SecretInv, NcpHas
<1> QED BY <1>2, <1>3, <1>4, <1>5, InitTyped DEF IInv

LEMMA IInvStep ==
    ASSUME IInv, [Next]_vars
    PROVE  IInv'
<1>1. TypeInv' /\ CacheInv' /\ StepInv'
  BY StepTyped, CacheStep, StepInvStep DEF IInv
<1>2. InputsInv' /\ NeedInv' /\ DoneInv'
  BY InputsStep, NeedStep, DoneStep DEF IInv
<1>3. KnownInv' /\ SecretInv'
  BY <1>1, KnownStep, SecretStep DEF IInv
<1> QED BY <1>1, <1>2, <1>3 DEF IInv

LEMMA IInvCorrect == Spec => []IInv
BY InitIInv, IInvStep, PTL DEF Spec

\* For all configurations, secrets, templates and bounds, and however long the cache lags:
\* once a reconcile has succeeded on the present inputs every pod that runs has started
\* with the present value of every option it depends on, unless an apply that was broken
\* off since its last restart has tried another value of one of them.
THEOREM PickedUpCorrect == Spec => []ConfigPickedUp
<1>1. IInv => ConfigPickedUp
  <2> SUFFICES ASSUME IInv, done, NEW w \in Pods, Present(w),
                      \A c \in tried[w] : SameFor(w, c, Desired)
               PROVE  SameFor(w, running[w].config, Desired)
    BY DEF ConfigPickedUp, OptionsPickedUp
  <2>1. next = 0 /\ appliedConfigMap # None /\ SameFor(w, appliedConfigMap, Desired)
    BY DEF IInv, InputsInv, DoneInv
  <2>2. Content(w, deployed).config # None
    BY <2>1 DEF IInv, CacheInv, Joinable, Content, Pods
  <2>3. ComesOf(w, running[w].config, KnownFor(w))
    BY <2>2 DEF IInv, KnownInv, StartedInv
  <2>4. KnownFor(w) \subseteq {appliedConfigMap} \cup tried[w]
    BY <2>1 DEF KnownFor, ConfigTurn, Pods
  <2> QED BY <2>1, <2>3, <2>4, SameForTrans DEF ComesOf
<1> QED BY <1>1, IInvCorrect, PTL

\* Whatever the users edit, delete or configure: once a reconcile has succeeded on the
\* present inputs NCP has started with the present secret, unless that was written by an
\* apply that was broken off before NCP's turn, or was compared with an old copy.
THEOREM SecretCorrect == Spec => []SecretPickedUp
<1>1. IInv => SecretPickedUp
  <2> SUFFICES ASSUME IInv, done, ~unsure, Present("ncp")
               PROVE  running["ncp"].secret = inputs.secret
    BY DEF SecretPickedUp, NcpHasSecret
  <2>1. next = 0 /\ Joinable(deployed)
    BY DEF IInv, InputsInv, DoneInv, CacheInv
  <2>2. running["ncp"].config # None
    BY <2>1 DEF IInv, KnownInv, StartedInv, Content, Joinable, Pods
  <2> QED BY <2>1, <2>2 DEF IInv, SecretInv, NcpHas
<1> QED BY <1>1, IInvCorrect, PTL
================================================================================
