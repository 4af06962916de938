-------------------------- MODULE StatusManagerProofs --------------------------
(***************************************************************************)
(* Theorems about StatusManager, for every set of reasons, every number of *)
(* attempts and every bound on calls and faults.                           *)
(***************************************************************************)
EXTENDS StatusManager, TLAPS

Faults == [Levels -> Reasons \cup {NoReason}]

(* The inductive invariant, in named parts. *)

\* The conditions handed to set are either rollout conditions, after which the
\* RolloutHung level is still to be published, or the summary of the faults.
PendingInv ==
    phase \in {"set", "crd"} =>
        /\ pending.Degraded \in {"Absent", syncDegraded(failing)}
        /\ todo = "hung" => pending.Degraded = "Absent"
        /\ pending.Progressing # "False" => pending.Available = "Absent"

\* Only OpenShift copies a status to ncp-install.
CopyInv == phase = "crd" => adaptor = "openshift4"

\* A cache entry known to be the latest version is what the API server has, and
\* an object that does not exist has no conditions.
CacheInv == \A o \in Objects : /\ fresh[o] => cache[o] = api[o]
                               /\ ~api[o].exists => api[o].conds = NoConditions

IInv == TypeOK /\ PendingInv /\ CopyInv /\ CacheInv
               /\ K8sNotAvailableWhileProgressing
--------------------------------------------------------------------------------
(* Lemmas about the operators *)

\* CombineConditions returns conditions when given conditions.
LEMMA CombineType ==
    ASSUME NEW old \in Conditions, NEW new \in Conditions
    PROVE  CombineConditions(old, new) \in Conditions
BY DEF CombineConditions, Override, Conditions

\* The start-up rule returns conditions and leaves Degraded alone.
LEMMA StartupType ==
    ASSUME NEW c \in Conditions
    PROVE  /\ WithStartup(c) \in Conditions
           /\ WithStartup(c).Degraded = c.Degraded
BY DEF WithStartup, Conditions

\* The loop of syncDegraded finds the fault of the lowest level that has one.
LEMMA SyncDegradedSummarises ==
    ASSUME NEW f \in Faults
    PROVE  /\ syncDegraded(f) \in {"False"} \cup Reasons
           /\ Summary!Summarises(syncDegraded(f), f)
<1>1. CASE \A l \in Levels : f[l] = NoReason
  BY <1>1 DEF syncDegraded, Faults, Levels, Summary!Summarises, Summary!Faultless
<1>2. CASE \E l \in Levels : f[l] # NoReason
  <2> DEFINE Lowest(l) == f[l] # NoReason /\ \A k \in 0 .. l - 1 : f[k] = NoReason
  <2>1. \E l \in Levels : Lowest(l)
    <3>1. CASE f[0] # NoReason
      BY <3>1 DEF Levels
    <3>2. CASE f[0] = NoReason /\ f[1] # NoReason
      BY <3>2 DEF Levels
    <3>3. CASE f[0] = NoReason /\ f[1] = NoReason /\ f[2] # NoReason
      BY <3>3 DEF Levels
    <3>4. CASE /\ f[0] = NoReason /\ f[1] = NoReason /\ f[2] = NoReason
               /\ f[3] # NoReason
      BY <3>4 DEF Levels
    <3>5. CASE /\ f[0] = NoReason /\ f[1] = NoReason /\ f[2] = NoReason
               /\ f[3] = NoReason /\ f[4] # NoReason
      BY <3>5 DEF Levels
    <3>6. f[0] # NoReason \/ f[1] # NoReason \/ f[2] # NoReason
            \/ f[3] # NoReason \/ f[4] # NoReason
      BY <1>2 DEF Levels
    <3> QED BY <3>1, <3>2, <3>3, <3>4, <3>5, <3>6
  <2> DEFINE m == CHOOSE l \in Levels : Lowest(l)
  <2>2. m \in Levels /\ Lowest(m)
    BY <2>1
  <2>3. syncDegraded(f) = f[m]
    BY <1>2 DEF syncDegraded
  <2>4. f[m] \in Reasons
    BY <2>2 DEF Faults
  <2>5. \A k \in Levels : k < m => f[k] = NoReason
    BY <2>2 DEF Levels
  <2> HIDE DEF m
  <2> QED BY <2>2, <2>3, <2>4, <2>5 DEF Summary!Summarises
<1> QED BY <1>1, <1>2

\* What setDegraded and setNotDegraded hand to set.
LEMMA DegradedType ==
    ASSUME NEW f \in Faults
    PROVE  /\ Degraded(f) \in Conditions
           /\ Degraded(f).Degraded = syncDegraded(f)
           /\ Degraded(f).Available = "Absent"
BY SyncDegradedSummarises DEF Degraded, NoConditions, Conditions

\* What setConditions hands to set.
LEMMA RolloutConditionsType ==
    ASSUME NEW r
    PROVE  /\ RolloutConditions(r) \in Conditions
           /\ RolloutConditions(r).Degraded = "Absent"
           /\ RolloutConditions(r).Progressing # "False" =>
                RolloutConditions(r).Available = "Absent"
BY DEF RolloutConditions, NoConditions, Conditions

\* The status set wants for its target: the pending Degraded condition or, if
\* there is none, the old one; on Kubernetes never Available while Progressing.
LEMMA NextStatusFacts ==
    ASSUME IInv, phase = "set"
    PROVE  /\ NextStatus \in Conditions
           /\ NextStatus.Degraded = Override(cache[Target].conds.Degraded, pending.Degraded)
           /\ adaptor = "kubernetes" /\ NextStatus.Progressing = "True" =>
                NextStatus.Available = "False"
<1>1. pending \in Conditions /\ cache["co"].conds \in Conditions
        /\ cache["crd"].conds \in Conditions
  BY DEF IInv, TypeOK, ApiObject, Objects
<1>2. CASE adaptor = "kubernetes"
  <2>1. NextStatus = CombineConditions(cache["crd"].conds, WithStartup(pending))
    BY <1>2 DEF NextStatus, K8sStatus
  <2>2. cache["crd"].conds.Progressing = "True" =>
            cache["crd"].conds.Available = "False"
    BY <1>2 DEF IInv, K8sNotAvailableWhileProgressing
  <2>3. pending.Progressing # "False" => pending.Available = "Absent"
    BY DEF IInv, PendingInv
  <2>4. WithStartup(pending) \in Conditions
          /\ WithStartup(pending).Degraded = pending.Degraded
    BY <1>1, StartupType
  <2>5. NextStatus \in Conditions
    BY <1>1, <2>1, <2>4, CombineType
  <2>6. NextStatus.Degraded = Override(cache[Target].conds.Degraded, pending.Degraded)
    BY <1>2, <2>1, <2>4 DEF CombineConditions, Target
  <2>7. NextStatus.Progressing = "True" => NextStatus.Available = "False"
    BY <1>1, <2>1, <2>2, <2>3 DEF CombineConditions, Override, WithStartup, Conditions
  <2> QED BY <2>5, <2>6, <2>7
<1>3. CASE adaptor # "kubernetes"
  <2>1. NextStatus = WithStartup(CombineConditions(cache["co"].conds, pending))
    BY <1>3 DEF NextStatus, OcStatus
  <2>2. CombineConditions(cache["co"].conds, pending) \in Conditions
    BY <1>1, CombineType
  <2>3. NextStatus \in Conditions
          /\ NextStatus.Degraded = CombineConditions(cache["co"].conds, pending).Degraded
    BY <2>1, <2>2, StartupType
  <2> QED BY <1>3, <2>3 DEF CombineConditions, Target
<1> QED BY <1>2, <1>3
--------------------------------------------------------------------------------
(* Steps *)

\* What an outcome of set does to the local state of the mutex holder: it is
\* well typed, and if set runs again it runs on conditions as PendingInv wants.
LocalInv ==
    /\ failing \in Faults
    /\ phase \in {"idle", "set", "crd", "lastPodState"}
    /\ todo \in {"return", "lastPodState", "hung"}
    /\ seen \in {"available", "progressing", "hung"}
    /\ pending \in Conditions
    /\ attempt \in 1 .. MaxAttempts
    /\ PendingInv

\* setDegraded and setNotDegraded start a call of set that publishes the summary.
LEMMA CallSetDegraded ==
    ASSUME TypeOK, NEW l \in Levels, NEW r \in Reasons \cup {NoReason},
           NEW next \in {"return", "lastPodState"},
           setDegraded(l, r, next), seen' \in {"available", "progressing", "hung"}
    PROVE  LocalInv' /\ phase' = "set"
<1>1. failing' \in Faults
  BY DEF setDegraded, TypeOK, Faults
<1>2. /\ pending' = Degraded(failing') /\ phase' = "set"
      /\ todo' = next /\ attempt' = 1
  BY DEF setDegraded, CallSet
<1>3. pending' \in Conditions /\ pending'.Degraded = syncDegraded(failing')
        /\ pending'.Available = "Absent"
  BY <1>1, <1>2, DegradedType
<1>4. PendingInv'
  BY <1>2, <1>3 DEF PendingInv
<1> QED BY <1>1, <1>2, <1>3, <1>4, AttemptsAssumption DEF LocalInv

\* Clearing a level is raising NoReason at it.
LEMMA NotDegradedIsDegraded ==
    ASSUME NEW l, NEW next
    PROVE  setNotDegraded(l, next) = setDegraded(l, NoReason, next)
BY DEF setNotDegraded, setDegraded

\* set returns: only a return on the way to RolloutHung changes the faults.
LEMMA ReturnFacts ==
    ASSUME TypeOK, SetReturns
    PROVE  /\ LocalInv' /\ phase' # "crd"
           /\ \/ failing' = failing
              \/ /\ todo = "hung"
                 /\ \E r \in Reasons \cup {NoReason} :
                        failing' = [failing EXCEPT ![RolloutHung] = r]
<1>1. CASE todo \in {"return", "lastPodState"}
  <2>1. /\ failing' = failing /\ todo' = todo /\ seen' = seen
        /\ phase' \in {"idle", "lastPodState"}
        /\ pending' = NoConditions /\ attempt' = 1
    BY <1>1 DEF SetReturns
  <2>2. NoConditions \in Conditions
    BY DEF NoConditions, Conditions
  <2> QED BY <2>1, <2>2, AttemptsAssumption DEF LocalInv, PendingInv, TypeOK, Faults
<1>2. CASE todo = "hung"
  <2>0. HungReason \in Reasons
    BY ReasonsAssumption DEF HungReason
  <2>1. \E r \in Reasons \cup {NoReason} : setDegraded(RolloutHung, r, "return")
    BY <1>2, <2>0, NotDegradedIsDegraded DEF SetReturns
  <2>2. seen' = "available"
    BY <1>2 DEF SetReturns
  <2>3. RolloutHung \in Levels
    BY DEF RolloutHung, Levels
  <2>4. PICK r \in Reasons \cup {NoReason} : setDegraded(RolloutHung, r, "return")
    BY <2>1
  <2>5. LocalInv' /\ phase' = "set"
    BY <2>2, <2>3, <2>4, CallSetDegraded
  <2> QED BY <1>2, <2>4, <2>5 DEF setDegraded
<1> QED BY <1>1, <1>2 DEF TypeOK

\* A conflict: another attempt with the same conditions, or the return.
LEMMA RetryFacts ==
    ASSUME IInv, phase \in {"set", "crd"}, Retry
    PROVE  /\ LocalInv' /\ phase' # "crd"
           /\ \/ failing' = failing
              \/ /\ todo = "hung"
                 /\ \E r \in Reasons \cup {NoReason} :
                        failing' = [failing EXCEPT ![RolloutHung] = r]
<1>1. CASE attempt < MaxAttempts
  <2>1. /\ attempt' = attempt + 1 /\ phase' = "set"
        /\ UNCHANGED <<failing, todo, seen, pending>>
    BY <1>1 DEF Retry
  <2>2. attempt' \in 1 .. MaxAttempts
    BY <1>1, <2>1, AttemptsAssumption DEF IInv, TypeOK
  <2>3. PendingInv'
    BY <2>1 DEF IInv, PendingInv
  <2> QED BY <2>1, <2>2, <2>3 DEF LocalInv, IInv, TypeOK, Faults
<1>2. CASE ~(attempt < MaxAttempts)
  BY <1>2, ReturnFacts DEF Retry, IInv
<1> QED BY <1>1, <1>2

\* What a step of the mutex holder keeps besides its local state.
LEMMA AssembleInv ==
    ASSUME IInv, LocalInv', phase' = "crd" => adaptor = "openshift4",
           UNCHANGED <<adaptor, rollout, calls>>,
           coStatus' \in Conditions, faults' \in 0 .. MaxFaults,
           api' \in [Objects -> ApiObject], cache' = cache,
           fresh' \in [Objects -> BOOLEAN], CacheInv',
           K8sNotAvailableWhileProgressing'
    PROVE  IInv'
BY DEF IInv, LocalInv, TypeOK, CopyInv, Faults

\* A write by set keeps the objects typed and the cache honest.
LEMMA WriteFacts ==
    ASSUME IInv, NEW o \in Objects, NEW c \in Conditions, Write(o, c),
           fresh[o], cache[o].exists, cache' = cache
    PROVE  /\ api' \in [Objects -> ApiObject] /\ fresh' \in [Objects -> BOOLEAN]
           /\ CacheInv'
           /\ api'[o].conds = c
           /\ \A p \in Objects : p # o => api'[p] = api[p]
<1>1. api \in [Objects -> ApiObject] /\ fresh \in [Objects -> BOOLEAN]
  BY DEF IInv, TypeOK
<1>2. api' = [api EXCEPT ![o] = [api[o] EXCEPT !.conds = c]]
  BY <1>1 DEF Write
<1>3. [api[o] EXCEPT !.conds = c] \in ApiObject
        /\ [api[o] EXCEPT !.conds = c].conds = c
        /\ [api[o] EXCEPT !.conds = c].exists
  BY <1>1 DEF ApiObject, IInv, CacheInv
<1>4. fresh' = [fresh EXCEPT ![o] = FALSE]
  BY DEF Write
<1>5. CacheInv'
  BY <1>1, <1>2, <1>3, <1>4 DEF CacheInv, IInv
<1> QED BY <1>1, <1>2, <1>3, <1>4, <1>5
--------------------------------------------------------------------------------
(* IInv is an invariant *)

LEMMA ObjectTypes == /\ NoObject \in ApiObject /\ NewObject \in ApiObject
                     /\ NoConditions \in Conditions
                     /\ NoObject.conds = NoConditions /\ NewObject.conds = NoConditions
                     /\ NewObject.exists
BY DEF NoObject, NewObject, ApiObject, NoConditions, Conditions

LEMMA InitInv == Init => IInv
<1> SUFFICES ASSUME Init PROVE IInv
  OBVIOUS
<1>1. api \in [Objects -> ApiObject] /\ api["crd"].conds = NoConditions
  BY ObjectTypes DEF Init, Objects
<1>2. TypeOK
  BY <1>1, ObjectTypes, AttemptsAssumption, BoundsAssumption
  DEF Init, TypeOK, Objects, Adaptors
<1>3. PendingInv /\ CopyInv /\ CacheInv
  BY ObjectTypes DEF Init, PendingInv, CopyInv, CacheInv
<1>4. K8sNotAvailableWhileProgressing
  BY <1>1 DEF Init, K8sNotAvailableWhileProgressing, NoConditions
<1> QED BY <1>2, <1>3, <1>4 DEF IInv

\* The calls of the controllers, and the patch of the annotation.
LEMMA CallsKeepInv ==
    ASSUME IInv,
           \/ \E l \in Levels, r \in Reasons : SetDegraded(l, r)
           \/ \E l \in Levels : SetNotDegraded(l)
           \/ SetFromPodsForOverall
    PROVE  IInv'
<1> USE DEF objects
<1>1. CASE \E l \in Levels, r \in Reasons : SetDegraded(l, r)
  <2>1. PICK l \in Levels, r \in Reasons : SetDegraded(l, r)
    BY <1>1
  <2>2. seen' \in {"available", "progressing", "hung"} /\ calls' \in 0 .. MaxCalls
    BY <2>1, BoundsAssumption DEF SetDegraded, Count, IInv, TypeOK
  <2>3. LocalInv' /\ phase' = "set"
    BY <2>1, <2>2, CallSetDegraded DEF SetDegraded, IInv
  <2>4. UNCHANGED <<adaptor, coStatus, api, cache, fresh, rollout, faults>>
    BY <2>1 DEF SetDegraded
  <2> QED BY <2>2, <2>3, <2>4
      DEF IInv, LocalInv, TypeOK, CopyInv, CacheInv, Faults, K8sNotAvailableWhileProgressing
<1>2. CASE \E l \in Levels : SetNotDegraded(l)
  <2>1. PICK l \in Levels : SetNotDegraded(l)
    BY <1>2
  <2>2. seen' \in {"available", "progressing", "hung"} /\ calls' \in 0 .. MaxCalls
    BY <2>1, BoundsAssumption DEF SetNotDegraded, Count, IInv, TypeOK
  <2>3. setDegraded(l, NoReason, "return")
    BY <2>1, NotDegradedIsDegraded DEF SetNotDegraded
  <2>4. LocalInv' /\ phase' = "set"
    BY <2>2, <2>3, CallSetDegraded DEF IInv
  <2>5. UNCHANGED <<adaptor, coStatus, api, cache, fresh, rollout, faults>>
    BY <2>1 DEF SetNotDegraded
  <2> QED BY <2>2, <2>4, <2>5
      DEF IInv, LocalInv, TypeOK, CopyInv, CacheInv, Faults, K8sNotAvailableWhileProgressing
<1>3. CASE SetFromPodsForOverall
  <2>1. seen' \in {"available", "progressing", "hung"}
    BY <1>3 DEF SetFromPodsForOverall, IInv, TypeOK
  <2>2. setDegraded(PodDeployment, NoReason, "lastPodState")
    BY <1>3, NotDegradedIsDegraded DEF SetFromPodsForOverall
  <2>3. PodDeployment \in Levels
    BY DEF PodDeployment, Levels
  <2>4. LocalInv' /\ phase' = "set"
    BY <2>1, <2>2, <2>3, CallSetDegraded DEF IInv
  <2>5. UNCHANGED <<adaptor, coStatus, api, cache, fresh, rollout, calls, faults>>
    BY <1>3 DEF SetFromPodsForOverall
  <2> QED BY <2>4, <2>5
      DEF IInv, LocalInv, TypeOK, CopyInv, CacheInv, Faults, K8sNotAvailableWhileProgressing
<1> QED BY <1>1, <1>2, <1>3

\* The annotation patch touches neither the conditions nor the faults.
LEMMA LastPodStateFacts ==
    ASSUME IInv, SetLastPodState
    PROVE  /\ LocalInv' /\ phase' = "set" /\ failing' = failing
           /\ api' \in [Objects -> ApiObject] /\ fresh' \in [Objects -> BOOLEAN]
           /\ \A o \in Objects : api'[o].conds = api[o].conds
           /\ CacheInv'
<1>1. /\ pending' = RolloutConditions(seen) /\ phase' = "set" /\ todo' = "hung"
      /\ attempt' = 1 /\ UNCHANGED <<failing, seen, cache>>
  BY DEF SetLastPodState, CallSet
<1>2. LocalInv'
  BY <1>1, RolloutConditionsType, AttemptsAssumption
  DEF LocalInv, PendingInv, IInv, TypeOK, Faults
<1>3. api \in [Objects -> ApiObject] /\ fresh \in [Objects -> BOOLEAN]
  BY DEF IInv, TypeOK
<1>4. PICK last \in BOOLEAN :
         \/ api' = api /\ fresh' = fresh
         \/ /\ api' = [api EXCEPT !["co"] = [api["co"] EXCEPT !.lastSeen = last]]
            /\ fresh' = [fresh EXCEPT !["co"] = FALSE]
  BY <1>3 DEF SetLastPodState
<1>5. [api["co"] EXCEPT !.lastSeen = last] \in ApiObject
        /\ [api["co"] EXCEPT !.lastSeen = last].conds = api["co"].conds
        /\ [api["co"] EXCEPT !.lastSeen = last].exists = api["co"].exists
  BY <1>3 DEF ApiObject, Objects
<1>6. /\ api' \in [Objects -> ApiObject] /\ fresh' \in [Objects -> BOOLEAN]
      /\ \A o \in Objects : api'[o].conds = api[o].conds
  BY <1>3, <1>4, <1>5 DEF Objects
<1>7. CacheInv'
  <2>1. \A o \in Objects : api'[o].exists = api[o].exists
    BY <1>3, <1>4, <1>5 DEF Objects
  <2>2. \A o \in Objects : fresh'[o] => api'[o] = api[o] /\ fresh[o]
    BY <1>3, <1>4 DEF Objects
  <2> QED BY <1>1, <1>6, <2>1, <2>2 DEF CacheInv, IInv
<1> QED BY <1>1, <1>2, <1>6, <1>7

LEMMA LastPodStateKeepsInv == IInv /\ SetLastPodState => IInv'
<1> SUFFICES ASSUME IInv, SetLastPodState PROVE IInv'
  OBVIOUS
<1>1. /\ UNCHANGED <<adaptor, coStatus, cache, rollout, calls>>
      /\ faults' = faults \/ Fault
  BY DEF SetLastPodState
<1>2. faults' \in 0 .. MaxFaults
  BY <1>1, BoundsAssumption DEF IInv, TypeOK, Fault
<1>3. K8sNotAvailableWhileProgressing'
  BY <1>1, LastPodStateFacts DEF K8sNotAvailableWhileProgressing, IInv, Objects
<1> QED BY <1>1, <1>2, <1>3, LastPodStateFacts
    DEF IInv, LocalInv, TypeOK, CopyInv, Faults

\* The outcomes of set that write nothing.
QuietOutcome == SetUnchanged \/ K8sSetNotFound \/ SetRefused
                  \/ OcCrdSkipped \/ OcCrdRefused \/ SetFails

LEMMA QuietFacts ==
    ASSUME IInv, QuietOutcome
    PROVE  /\ LocalInv' /\ phase' # "crd"
           /\ UNCHANGED <<adaptor, cache, rollout, calls, api, fresh>>
           /\ coStatus' \in Conditions /\ faults' \in 0 .. MaxFaults
           /\ \/ failing' = failing
              \/ /\ todo = "hung"
                 /\ \E r \in Reasons \cup {NoReason} :
                        failing' = [failing EXCEPT ![RolloutHung] = r]
<1> USE DEF OutsideSet, InSet
<1>1. SetReturns \/ Retry
  BY DEF QuietOutcome, SetUnchanged, K8sSetNotFound, SetRefused, OcCrdSkipped,
         OcCrdRefused, SetFails
<1>2. phase \in {"set", "crd"}
  BY DEF QuietOutcome, SetUnchanged, K8sSetNotFound, SetRefused, OcCrdSkipped,
         OcCrdRefused, SetFails
<1>3. /\ UNCHANGED <<adaptor, cache, rollout, calls, api, fresh>>
      /\ coStatus' \in {coStatus, NoConditions}
      /\ faults' = faults \/ Fault
  BY DEF QuietOutcome, SetUnchanged, K8sSetNotFound, SetRefused, OcCrdSkipped,
         OcCrdRefused, SetFails
<1>4. coStatus' \in Conditions
  BY <1>3, ObjectTypes DEF IInv, TypeOK
<1>5. faults' \in 0 .. MaxFaults
  BY <1>3, BoundsAssumption DEF Fault, IInv, TypeOK
<1>6. CASE SetReturns
  BY <1>3, <1>4, <1>5, <1>6, ReturnFacts DEF IInv
<1>7. CASE Retry
  BY <1>2, <1>3, <1>4, <1>5, <1>7, RetryFacts
<1> QED BY <1>1, <1>6, <1>7

LEMMA QuietKeepsInv == IInv /\ QuietOutcome => IInv'
<1> SUFFICES ASSUME IInv, QuietOutcome PROVE IInv'
  OBVIOUS
<1>1. api' = api /\ cache' = cache /\ fresh' = fresh /\ adaptor' = adaptor
  BY QuietFacts
<1>2. CacheInv' /\ K8sNotAvailableWhileProgressing'
  BY <1>1 DEF IInv, CacheInv, K8sNotAvailableWhileProgressing
<1>3. api' \in [Objects -> ApiObject] /\ fresh' \in [Objects -> BOOLEAN]
  BY <1>1 DEF IInv, TypeOK
<1> QED BY <1>1, <1>2, <1>3, QuietFacts, AssembleInv

\* The first write of a ClusterOperator drops the status.
LEMMA CreateFacts ==
    ASSUME IInv, OcSetCreate
    PROVE  /\ LocalInv' /\ phase' # "crd"
           /\ UNCHANGED <<adaptor, cache, rollout, calls, coStatus, faults>>
           /\ api' \in [Objects -> ApiObject] /\ fresh' \in [Objects -> BOOLEAN]
           /\ CacheInv' /\ adaptor = "openshift4"
           /\ api'["co"].conds = api["co"].conds
           /\ \/ failing' = failing
              \/ /\ todo = "hung"
                 /\ \E r \in Reasons \cup {NoReason} :
                        failing' = [failing EXCEPT ![RolloutHung] = r]
<1>1. api \in [Objects -> ApiObject] /\ fresh \in [Objects -> BOOLEAN]
  BY DEF IInv, TypeOK
<1>2. /\ UNCHANGED <<adaptor, cache, rollout, calls, coStatus, faults>>
      /\ SetReturns /\ adaptor = "openshift4"
      /\ \/ api' = api /\ fresh' = fresh
         \/ /\ api' = [api EXCEPT !["co"] = NewObject] /\ ~api["co"].exists
            /\ fresh' = [fresh EXCEPT !["co"] = FALSE]
  BY DEF OcSetCreate, OutsideSet
<1>3. /\ api' \in [Objects -> ApiObject] /\ fresh' \in [Objects -> BOOLEAN]
      /\ api'["co"].conds = api["co"].conds
  BY <1>1, <1>2, ObjectTypes DEF Objects, IInv, CacheInv
<1>4. CacheInv'
  BY <1>1, <1>2, ObjectTypes DEF CacheInv, IInv, Objects
<1> QED BY <1>2, <1>3, <1>4, ReturnFacts DEF IInv

LEMMA CreateKeepsInv == IInv /\ OcSetCreate => IInv'
<1> SUFFICES ASSUME IInv, OcSetCreate PROVE IInv'
  OBVIOUS
<1>1. K8sNotAvailableWhileProgressing'
  BY CreateFacts DEF K8sNotAvailableWhileProgressing
<1>2. coStatus' \in Conditions /\ faults' \in 0 .. MaxFaults
  BY CreateFacts DEF IInv, TypeOK
<1> QED BY <1>1, <1>2, CreateFacts, AssembleInv

\* The status is written to the target.
LEMMA WrittenFacts ==
    ASSUME IInv, SetWritten
    PROVE  /\ LocalInv' /\ (phase' = "crd" => adaptor = "openshift4")
           /\ UNCHANGED <<adaptor, cache, rollout, calls, faults>>
           /\ coStatus' \in Conditions
           /\ Target \in Objects /\ Write(Target, NextStatus)
           /\ fresh[Target] /\ cache[Target].exists /\ phase = "set"
           /\ \/ failing' = failing
              \/ /\ todo = "hung"
                 /\ \E r \in Reasons \cup {NoReason} :
                        failing' = [failing EXCEPT ![RolloutHung] = r]
<1>1. /\ UNCHANGED <<adaptor, cache, rollout, calls, faults>>
      /\ Write(Target, NextStatus) /\ fresh[Target] /\ phase = "set"
      /\ cache[Target].exists /\ Target \in Objects
  BY DEF SetWritten, OutsideSet, InSet, Target, Objects
<1>2. NextStatus \in Conditions
  BY <1>1, NextStatusFacts
<1>3. CASE adaptor = "kubernetes"
  BY <1>1, <1>3, ReturnFacts DEF SetWritten, IInv, TypeOK
<1>4. CASE adaptor # "kubernetes"
  <2>1. /\ phase' = "crd" /\ coStatus' = NextStatus
        /\ UNCHANGED <<failing, todo, seen, pending, attempt>>
    BY <1>4 DEF SetWritten
  <2>2. LocalInv'
    BY <1>1, <2>1 DEF LocalInv, PendingInv, IInv, TypeOK, Faults
  <2>3. adaptor = "openshift4"
    BY <1>4 DEF IInv, TypeOK, Adaptors
  <2> QED BY <1>1, <1>2, <2>1, <2>2, <2>3
<1> QED BY <1>3, <1>4

LEMMA WrittenKeepsInv == IInv /\ SetWritten => IInv'
<1> SUFFICES ASSUME IInv, SetWritten PROVE IInv'
  OBVIOUS
<1>1. NextStatus \in Conditions
        /\ (adaptor = "kubernetes" /\ NextStatus.Progressing = "True" =>
                NextStatus.Available = "False")
  BY WrittenFacts, NextStatusFacts
<1>2. /\ api' \in [Objects -> ApiObject] /\ fresh' \in [Objects -> BOOLEAN]
      /\ CacheInv' /\ api'[Target].conds = NextStatus
  BY <1>1, WrittenFacts, WriteFacts
<1>3. adaptor = "kubernetes" => Target = "crd"
  BY DEF Target
<1>4. K8sNotAvailableWhileProgressing'
  BY <1>1, <1>2, <1>3, WrittenFacts DEF K8sNotAvailableWhileProgressing, IInv
<1>5. faults' \in 0 .. MaxFaults
  BY WrittenFacts DEF IInv, TypeOK
<1> QED BY <1>2, <1>4, <1>5, WrittenFacts, AssembleInv

\* OpenShift copies the status to ncp-install.
LEMMA CopyFacts ==
    ASSUME IInv, OcCrdWritten
    PROVE  /\ LocalInv' /\ phase' # "crd" /\ adaptor = "openshift4"
           /\ UNCHANGED <<adaptor, cache, rollout, calls, faults>>
           /\ coStatus' \in Conditions
           /\ OcCrdStatus \in Conditions /\ Write("crd", OcCrdStatus)
           /\ fresh["crd"] /\ cache["crd"].exists
           /\ \/ failing' = failing
              \/ /\ todo = "hung"
                 /\ \E r \in Reasons \cup {NoReason} :
                        failing' = [failing EXCEPT ![RolloutHung] = r]
<1>1. /\ UNCHANGED <<adaptor, cache, rollout, calls, faults>>
      /\ Write("crd", OcCrdStatus) /\ phase = "crd" /\ SetReturns
      /\ coStatus' = NoConditions /\ fresh["crd"] /\ cache["crd"].exists
  BY DEF OcCrdWritten, OutsideSet
<1>2. OcCrdStatus \in Conditions
  BY CombineType DEF OcCrdStatus, IInv, TypeOK, ApiObject, Objects
<1>3. adaptor = "openshift4"
  BY <1>1 DEF IInv, CopyInv
<1> QED BY <1>1, <1>2, <1>3, ReturnFacts, ObjectTypes DEF IInv

LEMMA CopyKeepsInv == IInv /\ OcCrdWritten => IInv'
<1> SUFFICES ASSUME IInv, OcCrdWritten PROVE IInv'
  OBVIOUS
<1>1. "crd" \in Objects
  BY DEF Objects
<1>2. /\ api' \in [Objects -> ApiObject] /\ fresh' \in [Objects -> BOOLEAN]
      /\ CacheInv'
  BY <1>1, CopyFacts, WriteFacts
<1>3. K8sNotAvailableWhileProgressing'
  BY CopyFacts DEF K8sNotAvailableWhileProgressing
<1>4. faults' \in 0 .. MaxFaults
  BY CopyFacts DEF IInv, TypeOK
<1> QED BY <1>2, <1>3, <1>4, CopyFacts, AssembleInv

\* The informers and whoever else writes the objects.
LEMMA EnvironmentFacts ==
    ASSUME IInv, NEW o \in Objects, CacheSync(o) \/ ForeignWrite(o)
    PROVE  /\ api' \in [Objects -> ApiObject] /\ cache' \in [Objects -> ApiObject]
           /\ fresh' \in [Objects -> BOOLEAN] /\ CacheInv'
           /\ \A p \in Objects : api'[p].conds \in {api[p].conds, NoConditions}
           /\ \A p \in Objects : cache'[p] \in {cache[p], api[p]}
<1>1. api \in [Objects -> ApiObject] /\ cache \in [Objects -> ApiObject]
        /\ fresh \in [Objects -> BOOLEAN]
  BY DEF IInv, TypeOK
<1>2. CASE CacheSync(o)
  BY <1>1, <1>2 DEF CacheSync, CacheInv, IInv
<1>3. CASE ForeignWrite(o)
  <2>1. /\ fresh' = [fresh EXCEPT ![o] = FALSE] /\ cache' = cache
        /\ \E n \in {NoObject, NewObject} : api' = api \/ api' = [api EXCEPT ![o] = n]
    BY <1>3 DEF ForeignWrite
  <2>2. PICK n \in {NoObject, NewObject} : api' = api \/ api' = [api EXCEPT ![o] = n]
    BY <2>1
  <2>3. n \in ApiObject /\ n.conds = NoConditions
    BY <2>2, ObjectTypes
  <2> QED BY <1>1, <2>1, <2>2, <2>3 DEF CacheInv, IInv
<1> QED BY <1>2, <1>3

LEMMA EnvironmentKeepsInv ==
    ASSUME IInv, NEW o \in Objects, CacheSync(o) \/ ForeignWrite(o)
    PROVE  IInv'
<1>1. UNCHANGED <<adaptor, failing, region, rollout, calls>>
        /\ (faults' = faults \/ Fault)
  BY DEF CacheSync, ForeignWrite
<1>2. faults' \in 0 .. MaxFaults
  BY <1>1, BoundsAssumption DEF Fault, IInv, TypeOK
<1>3. K8sNotAvailableWhileProgressing'
  <2> SUFFICES ASSUME adaptor = "kubernetes"
               PROVE  \A x \in {api'["crd"], cache'["crd"]} :
                         x.conds.Progressing = "True" => x.conds.Available = "False"
    BY <1>1 DEF K8sNotAvailableWhileProgressing
  <2>1. \A x \in {api["crd"], cache["crd"]} :
            x.conds.Progressing = "True" => x.conds.Available = "False"
    BY DEF IInv, K8sNotAvailableWhileProgressing
  <2>2. api'["crd"].conds \in {api["crd"].conds, NoConditions}
          /\ cache'["crd"] \in {cache["crd"], api["crd"]}
    BY EnvironmentFacts DEF Objects
  <2> QED BY <2>1, <2>2 DEF NoConditions
<1> QED BY <1>1, <1>2, <1>3, EnvironmentFacts
    DEF IInv, TypeOK, PendingInv, CopyInv, region

LEMMA RolloutKeepsInv == IInv /\ RolloutChanges => IInv'
<1> SUFFICES ASSUME IInv, RolloutChanges PROVE IInv'
  OBVIOUS
<1>1. /\ UNCHANGED <<adaptor, failing, region, objects, faults>>
      /\ rollout' \in {"available", "progressing", "hung"}
      /\ calls' \in 0 .. MaxCalls
  BY BoundsAssumption DEF RolloutChanges, Rollouts, Count, IInv, TypeOK
<1> QED BY <1>1
    DEF IInv, TypeOK, PendingInv, CopyInv, CacheInv, region, objects,
        K8sNotAvailableWhileProgressing

LEMMA RestartKeepsInv == IInv /\ Restart => IInv'
<1> SUFFICES ASSUME IInv, Restart PROVE IInv'
  OBVIOUS
<1>1. faults' \in 0 .. MaxFaults
  BY BoundsAssumption DEF Restart, Fault, IInv, TypeOK
<1>2. TypeOK'
  BY <1>1, ObjectTypes, AttemptsAssumption DEF Restart, IInv, TypeOK
<1>3. PendingInv' /\ CopyInv' /\ CacheInv'
  BY DEF Restart, IInv, PendingInv, CopyInv, CacheInv
<1>4. K8sNotAvailableWhileProgressing'
  BY DEF Restart, IInv, K8sNotAvailableWhileProgressing
<1> QED BY <1>2, <1>3, <1>4 DEF IInv

\* The disjuncts of Next, as the lemmas above take them.
LEMMA NextCases ==
    ASSUME Next
    PROVE  \/ \/ \E l \in Levels, r \in Reasons : SetDegraded(l, r)
              \/ \E l \in Levels : SetNotDegraded(l)
              \/ SetFromPodsForOverall
           \/ SetLastPodState \/ QuietOutcome
           \/ OcSetCreate \/ SetWritten \/ OcCrdWritten
           \/ \E o \in Objects : CacheSync(o) \/ ForeignWrite(o)
           \/ RolloutChanges \/ Restart
<1>1. {ClusterConfig, OperatorConfig, ClusterNode} \subseteq Levels
  BY DEF ClusterConfig, OperatorConfig, ClusterNode, Levels
<1>2. ASSUME NEW m \in Reasons \cup {NoReason}, SetFromNodes(m)
      PROVE  \/ \E r \in Reasons : SetDegraded(ClusterNode, r)
             \/ SetNotDegraded(ClusterNode)
  BY <1>2 DEF SetFromNodes
<1>3. set => QuietOutcome \/ OcSetCreate \/ SetWritten \/ OcCrdWritten
  BY DEF set, QuietOutcome
<1>4. SetFails => QuietOutcome
  BY DEF QuietOutcome
<1>5. \A l \in {ClusterConfig, OperatorConfig} : ConfigReasons[l] \subseteq Reasons
  BY ConfigReasonsAssumption
<1> QED BY <1>1, <1>2, <1>3, <1>4, <1>5 DEF Next

LEMMA NextInv == IInv /\ [Next]_vars => IInv'
<1> SUFFICES ASSUME IInv, [Next]_vars PROVE IInv'
  OBVIOUS
<1>1. CASE Next
  BY <1>1, NextCases, CallsKeepInv, LastPodStateKeepsInv, QuietKeepsInv,
     CreateKeepsInv, WrittenKeepsInv, CopyKeepsInv, EnvironmentKeepsInv,
     RolloutKeepsInv, RestartKeepsInv
<1>2. CASE UNCHANGED vars
  BY <1>2 DEF vars, region, objects, IInv, TypeOK, PendingInv, CopyInv, CacheInv,
              K8sNotAvailableWhileProgressing
<1> QED BY <1>1, <1>2

\* The invariant of StatusManager: types, what the mutex holder is about to
\* publish, and that a write is never based on a wrong idea of the object.
THEOREM InvariantHolds == Spec => []IInv
BY InitInv, NextInv, PTL DEF Spec

\* The variables of the manager, its lock region and the objects are well typed.
THEOREM TypeCorrect == Spec => []TypeOK
<1>1. IInv => TypeOK
  BY DEF IInv
<1> QED BY <1>1, InvariantHolds, PTL

\* On Kubernetes ncp-install is never Available and Progressing at once.
THEOREM K8sAvailabilityCorrect == Spec => []K8sNotAvailableWhileProgressing
<1>1. IInv => K8sNotAvailableWhileProgressing
  BY DEF IInv
<1> QED BY <1>1, InvariantHolds, PTL
--------------------------------------------------------------------------------
(* StatusManager implements DegradedSummary *)

LEMMA InitSummary == Init => Summary!Init
<1> SUFFICES ASSUME Init PROVE Summary!Init
  OBVIOUS
<1>1. api[Target].conds = NoConditions
  BY ObjectTypes DEF Init, Target, Objects
<1> QED BY <1>1
    DEF Init, Summary!Init, Summary!Faultless, PublishedDegraded, NoConditions

\* While the published condition stays, a change of one level is a report.
LEMMA ReportStep ==
    ASSUME PublishedDegraded' = PublishedDegraded,
           \/ failing' = failing
           \/ \E l \in Levels, r \in Reasons \cup {NoReason} :
                 failing' = [failing EXCEPT ![l] = r]
    PROVE  [Summary!Next]_(Summary!vars)
BY DEF Summary!Next, Summary!Report, Summary!vars

\* A write of the target: the summary of the faults, or the old condition.
LEMMA WriteStep ==
    ASSUME IInv, SetWritten
    PROVE  [Summary!Next]_(Summary!vars)
<1>1. /\ Target \in Objects /\ Write(Target, NextStatus) /\ cache' = cache
      /\ fresh[Target] /\ cache[Target].exists /\ phase = "set" /\ Target' = Target
  BY WrittenFacts DEF Target
<1>2. NextStatus \in Conditions
        /\ NextStatus.Degraded = Override(cache[Target].conds.Degraded, pending.Degraded)
  BY <1>1, NextStatusFacts
<1>3. api'[Target].conds = NextStatus
  BY <1>1, <1>2, WriteFacts
<1>4. PublishedDegraded' = Override(PublishedDegraded, pending.Degraded)
  BY <1>1, <1>2, <1>3 DEF PublishedDegraded, IInv, CacheInv
<1>5. CASE pending.Degraded = "Absent"
  <2>1. PublishedDegraded' = PublishedDegraded
    BY <1>4, <1>5 DEF Override
  <2>2. RolloutHung \in Levels
    BY DEF RolloutHung, Levels
  <2> QED BY <2>1, <2>2, WrittenFacts, ReportStep
<1>6. CASE pending.Degraded # "Absent"
  <2>1. pending.Degraded = syncDegraded(failing) /\ failing' = failing
    BY <1>1, <1>6, WrittenFacts DEF IInv, PendingInv
  <2>2. PublishedDegraded' = syncDegraded(failing)
    BY <1>4, <1>6, <2>1 DEF Override
  <2>3. failing \in Faults
    BY DEF IInv, TypeOK, Faults
  <2>4. Summary!Publish
    BY <2>1, <2>2, <2>3, SyncDegradedSummarises DEF Summary!Publish
  <2> QED BY <2>4 DEF Summary!Next
<1> QED BY <1>5, <1>6

LEMMA SummaryStep == IInv /\ [Next]_vars => [Summary!Next]_(Summary!vars)
<1> SUFFICES ASSUME IInv, [Next]_vars PROVE [Summary!Next]_(Summary!vars)
  OBVIOUS
<1> USE DEF PublishedDegraded, Target
<1>1. Target \in Objects /\ RolloutHung \in Levels /\ PodDeployment \in Levels
  BY DEF Objects, RolloutHung, PodDeployment, Levels
<1>2. CASE \E l \in Levels, r \in Reasons : SetDegraded(l, r)
  BY <1>2, ReportStep DEF SetDegraded, setDegraded, objects
<1>3. CASE \E l \in Levels : SetNotDegraded(l)
  BY <1>3, ReportStep DEF SetNotDegraded, setNotDegraded, objects
<1>4. CASE SetFromPodsForOverall
  BY <1>1, <1>4, ReportStep DEF SetFromPodsForOverall, setNotDegraded, objects
<1>5. CASE SetLastPodState
  <2>1. PublishedDegraded' = PublishedDegraded
    BY <1>1, <1>5, LastPodStateFacts DEF SetLastPodState
  <2> QED BY <1>5, <2>1, LastPodStateFacts, ReportStep
<1>6. CASE QuietOutcome
  <2>1. PublishedDegraded' = PublishedDegraded
    BY <1>6, QuietFacts
  <2> QED BY <1>1, <1>6, <2>1, QuietFacts, ReportStep
<1>7. CASE SetWritten
  BY <1>7, WriteStep
<1>8. CASE OcCrdWritten
  <2>1. /\ Target = "co" /\ Target' = "co" /\ "co" \in Objects /\ "crd" \in Objects
        /\ OcCrdStatus \in Conditions /\ Write("crd", OcCrdStatus) /\ cache' = cache
        /\ fresh["crd"] /\ cache["crd"].exists
    BY <1>8, CopyFacts DEF Objects
  <2>2. api'["co"] = api["co"]
    BY <2>1, WriteFacts
  <2>3. PublishedDegraded' = PublishedDegraded
    BY <2>1, <2>2
  <2> QED BY <1>1, <1>8, <2>3, CopyFacts, ReportStep
<1>9. CASE \E o \in Objects : CacheSync(o) \/ ForeignWrite(o)
  <2>1. PublishedDegraded' \in {PublishedDegraded, "Absent"}
    <3>1. adaptor' = adaptor
      BY <1>9 DEF CacheSync, ForeignWrite
    <3>2. api'[Target].conds \in {api[Target].conds, NoConditions}
      BY <1>1, <1>9, EnvironmentFacts
    <3> QED BY <3>1, <3>2 DEF NoConditions
  <2>2. failing' = failing
    BY <1>9 DEF CacheSync, ForeignWrite
  <2> QED BY <2>1, <2>2 DEF Summary!Next, Summary!Lose, Summary!vars
<1>10. CASE RolloutChanges
  BY <1>10, ReportStep DEF RolloutChanges, objects
<1>11. CASE Restart
  BY <1>11 DEF Restart, Summary!Next, Summary!Forget, Summary!Faultless, Levels
<1>12. CASE UNCHANGED vars
  BY <1>12, ReportStep DEF vars, objects
<1>13. CASE OcSetCreate
  <2>1. adaptor = "openshift4" /\ adaptor' = adaptor
    BY <1>13, CreateFacts
  <2>2. PublishedDegraded' = PublishedDegraded
    BY <1>13, <2>1, CreateFacts
  <2> QED BY <1>1, <1>13, <2>2, CreateFacts, ReportStep
<1> QED BY <1>2, <1>3, <1>4, <1>5, <1>6, <1>7, <1>8, <1>9, <1>10, <1>11, <1>12,
       <1>13, NextCases

\* Every published Degraded condition is the summary of the faults of the moment
\* it is written, on both platforms, whatever set has to repeat or gives up.
THEOREM ImplementsSummary == Spec => SummarySpec
BY InitSummary, SummaryStep, InvariantHolds, PTL DEF Spec, SummarySpec, Summary!Spec
================================================================================
