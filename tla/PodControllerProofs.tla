-------------------------- MODULE PodControllerProofs --------------------------
(***************************************************************************)
(* Theorems about PodController, for any workloads, pods, statuses,        *)
(* periods and bounds: its types, and what it promises within which time.  *)
(***************************************************************************)
EXTENDS PodController, TLAPS

\* The times at which a request may be due.
Times == 0 .. MaxTime + Resync

\* What is remembered of the workloads, in the annotation or in its cache.
Memory == [Workloads -> Entries \cup {None}]

LEMMA TimeFacts ==
    ASSUME TypeOK
    PROVE  now \in Times /\ now + 1 \in Times /\ now + Resync \in Times
BY TimeAssumption, BoundAssumption DEF TypeOK, Times

LEMMA EarlierType ==
    ASSUME TypeOK, NEW w, NEW t \in Times
    PROVE  Earlier(w, t) \in [Workloads -> Times \cup {None}]
BY DEF TypeOK, Earlier, Times

\* The worker goes back to rest and leaves a request behind.
LEMMA LeaveType ==
    ASSUME TypeOK, Done \/ Retry(now) \/ Retry(now + 1)
    PROVE  /\ step' = "idle" /\ req' = None
           /\ due' \in [Workloads -> Times \cup {None}]
BY TimeFacts, EarlierType DEF Done, Retry

\* After the look at the workload.
LEMMA RecreatedType ==
    ASSUME TypeOK, step = "recreate", Recreated
    PROVE  /\ step' \in {"idle", "recreate", "pods"} /\ req' \in Workloads \cup {None}
           /\ (req' = None <=> step' = "idle") /\ (step' = "pods" => req' = NodeAgentDs)
           /\ due' \in [Workloads -> Times \cup {None}]
<1>1. CASE req = NodeAgentDs
  BY <1>1, NoneAssumption, WorkloadAssumption DEF Recreated, TypeOK, Times, Workloads
<1>2. CASE req # NodeAgentDs
  BY <1>2, LeaveType DEF Recreated
<1> QED BY <1>1, <1>2

\* What is kept of a workload is an entry with a time that has come.
LEMMA KeptType ==
    ASSUME TypeOK
    PROVE  Kept \in Memory
<1>1. ASSUME NEW w \in Workloads PROVE PodState(w) \in Entries \cup {None}
  <2>1. LastPodState(w) \in Entries \cup {None}
    BY DEF LastPodState, TypeOK
  <2>2. workCache[w] # None => Seen(workCache[w].status) \in Entries
    BY DEF Seen, Entries, TypeOK, WorkStates
  <2> QED
    BY <2>1, <2>2 DEF PodState
<1> QED
  BY <1>1 DEF Kept, Memory

\* A workload that has just been created.
LEMMA FreshType ==
    ASSUME TypeOK, NEW w \in Workloads
    PROVE  Fresh(w) \in WorkStates(w)
BY DEF Fresh, WorkStates, StatusesOf, TypeOK

LEMMA InitType == Init => TypeOK
<1> SUFFICES ASSUME Init PROVE TypeOK
  OBVIOUS
<1>1. now \in 0 .. MaxTime /\ now \in 0 .. MaxTime + Resync /\ 0 \in 0 .. MaxTime
  BY BoundAssumption, TimeAssumption DEF Init
<1>2. /\ DOMAIN work = Workloads /\ DOMAIN workCache = Workloads
      /\ \A w \in Workloads : {work[w], workCache[w]} \subseteq WorkStates(w) \cup {None}
  BY DEF Init
<1>3. lastSeen \in [Workloads -> Entries \cup {None}] /\ lastCache = lastSeen
  BY DEF Init
<1>4. due \in [Workloads -> (0 .. MaxTime + Resync) \cup {None}]
  BY <1>1 DEF Init, Events
<1>5. pod \in [Pods -> PodRecords] /\ podCache = pod
  BY <1>1 DEF Init, PodRecords, PodStates
<1>6. changes \in 0 .. MaxChanges /\ faults \in 0 .. MaxFaults
  BY BoundAssumption DEF Init
<1> QED
  BY <1>1, <1>2, <1>3, <1>4, <1>5, <1>6 DEF Init, TypeOK

LEMMA FaultType ==
    ASSUME TypeOK, Fault
    PROVE  faults' \in 0 .. MaxFaults
BY BoundAssumption DEF Fault, TypeOK

LEMMA SetFromPodsType ==
    ASSUME TypeOK, NEW w \in Workloads, SetFromPods(w)
    PROVE  TypeOK'
<1>1. due' \in [Workloads -> (0 .. MaxTime + Resync) \cup {None}]
  BY DEF SetFromPods, TypeOK
<1>2. /\ lastSeen' \in Memory /\ (~openshift => \A v \in Workloads : lastSeen'[v] = None)
      /\ excused' \subseteq Workloads /\ faults' \in 0 .. MaxFaults
  BY KeptType, FaultType DEF SetFromPods, SetLastPodState, TypeOK, Memory
<1>3. hung' \in BOOLEAN
  BY Zenon DEF SetFromPods
<1>4. step' = "recreate" /\ req' = w /\ req' # None
  BY NoneAssumption DEF SetFromPods
<1>5. UNCHANGED <<openshift, now, work, workCache, lastCache, podCache, shared, pod, changes>>
  BY DEF SetFromPods, caches
<1> QED
  BY <1>1, <1>2, <1>3, <1>4, <1>5 DEF TypeOK, Memory

\* The other steps of a request change nothing but the worker and what they do.
LEMMA RecreateType ==
    ASSUME TypeOK, NotRecreate \/ Recreate \/ RecreateWaits \/ RecreateFails
    PROVE  TypeOK'
<1>1. /\ step' \in {"idle", "recreate", "pods"} /\ req' \in Workloads \cup {None}
      /\ (req' = None <=> step' = "idle") /\ (step' = "pods" => req' = NodeAgentDs)
      /\ due' \in [Workloads -> Times \cup {None}]
  BY RecreatedType, LeaveType DEF NotRecreate, Recreate, RecreateWaits, RecreateFails
<1>2. UNCHANGED <<openshift, now, lastSeen, workCache, lastCache, podCache, hung, shared, pod,
                  changes>>
  BY DEF NotRecreate, Recreate, RecreateWaits, RecreateFails, caches
<1>3. faults' \in 0 .. MaxFaults
  BY FaultType DEF NotRecreate, Recreate, RecreateWaits, RecreateFails, TypeOK
<1>4. /\ DOMAIN work' = Workloads
      /\ \A w \in Workloads : work'[w] \in WorkStates(w) \cup {None}
      /\ excused' \subseteq Workloads
  <2>1. CASE Recreate
    <3>1. req \in Workloads
      BY <2>1 DEF Recreate, TypeOK
    <3>2. work' = [work EXCEPT ![req] = Fresh(req)] /\ excused' = excused \cup {req}
      BY <2>1 DEF Recreate
    <3>3. Fresh(req) \in WorkStates(req)
      BY <3>1, FreshType
    <3> QED
      BY <3>1, <3>2, <3>3 DEF TypeOK
  <2>2. CASE ~Recreate
    BY <2>2 DEF NotRecreate, RecreateWaits, RecreateFails, TypeOK
  <2> QED
    BY <2>1, <2>2
<1> QED
  BY <1>1, <1>2, <1>3, <1>4 DEF TypeOK, Times

LEMMA DeletedType ==
    ASSUME TypeOK, NEW P \in SUBSET Pods, Deleted(P)
    PROVE  pod' \in [Pods -> PodRecords]
BY BoundAssumption DEF TypeOK, Deleted, PodRecords, PodStates

LEMMA RecreatePodsType ==
    ASSUME TypeOK, RecreatePods \/ RecreatePodsFails
    PROVE  TypeOK'
<1>1. step' = "idle" /\ req' = None /\ due' \in [Workloads -> Times \cup {None}]
  BY LeaveType DEF RecreatePods, RecreatePodsFails
<1>2. UNCHANGED <<openshift, now, work, lastSeen, workCache, lastCache, podCache, hung, shared,
                  excused, changes>>
  BY DEF RecreatePods, RecreatePodsFails, caches
<1>3. faults' \in 0 .. MaxFaults
  BY FaultType DEF RecreatePods, RecreatePodsFails, TypeOK
<1>4. PodsInCLB \subseteq Pods
  BY DEF PodsInCLB, InCLB
<1>5. pod' \in [Pods -> PodRecords]
  BY <1>4, DeletedType DEF RecreatePods, RecreatePodsFails
<1> QED
  BY <1>1, <1>2, <1>3, <1>5 DEF TypeOK, Times

LEMMA InformedType ==
    ASSUME TypeOK,
           (\E w \in Workloads : WorkInformed(w)) \/ LastInformed \/ \E p \in Pods : PodInformed(p)
    PROVE  TypeOK'
<1>1. ASSUME NEW w \in Workloads, WorkInformed(w) PROVE TypeOK'
  <2>1. due' \in [Workloads -> Times \cup {None}]
    BY <1>1, TimeFacts, EarlierType DEF WorkInformed
  <2>2. /\ DOMAIN workCache' = Workloads
        /\ \A v \in Workloads : workCache'[v] \in WorkStates(v) \cup {None}
    BY <1>1 DEF WorkInformed, TypeOK
  <2>3. UNCHANGED <<openshift, now, work, lastSeen, lastCache, podCache, hung, shared, step, req,
                    pod, excused, changes, faults>>
    BY <1>1 DEF WorkInformed, worker
  <2> QED
    BY <2>1, <2>2, <2>3 DEF TypeOK, Times
<1>2. CASE LastInformed
  BY <1>2 DEF LastInformed, TypeOK, worker
<1>3. ASSUME NEW p \in Pods, PodInformed(p) PROVE TypeOK'
  <2>1. podCache' \in [Pods -> PodRecords]
    BY <1>3 DEF PodInformed, TypeOK
  <2> QED
    BY <1>3, <2>1 DEF PodInformed, TypeOK, worker
<1> QED
  BY <1>1, <1>2, <1>3

LEMMA RestartType ==
    ASSUME TypeOK, Restart
    PROVE  TypeOK'
<1>1. due' \in [Workloads -> Times \cup {None}]
  BY TimeFacts DEF Restart, Events
<1>2. faults' \in 0 .. MaxFaults
  BY FaultType DEF Restart
<1>3. /\ workCache' = work /\ lastCache' = lastSeen /\ podCache' = pod
      /\ step' = "idle" /\ req' = None /\ hung' = FALSE /\ shared' = FALSE
      /\ UNCHANGED <<openshift, now, work, lastSeen, pod, excused, changes>>
  BY DEF Restart
<1> QED
  BY <1>1, <1>2, <1>3 DEF TypeOK, Times

\* Somebody changes the cluster: what he changes keeps its type, ...
LEMMA ClusterParts ==
    ASSUME TypeOK, Cluster
    PROVE  /\ DOMAIN work' = Workloads
           /\ \A w \in Workloads : work'[w] \in WorkStates(w) \cup {None}
           /\ excused' \subseteq Workloads /\ pod' \in [Pods -> PodRecords]
           /\ shared' \in BOOLEAN /\ changes' \in 0 .. MaxChanges
           /\ UNCHANGED <<openshift, now, lastSeen, workCache, lastCache, podCache, hung, due,
                          step, req, faults>>
<1>1. ASSUME Change PROVE changes' \in 0 .. MaxChanges
  BY <1>1, BoundAssumption DEF Change, TypeOK
<1>2. ASSUME NEW w \in Workloads, NEW gen \in Generations, NEW s \in RollsTo(w), Roll(w, gen, s)
      PROVE  /\ DOMAIN work' = Workloads
             /\ \A v \in Workloads : work'[v] \in WorkStates(v) \cup {None}
             /\ excused' \subseteq Workloads
  <2>1. PICK t \in {now, work[w].since} :
            work' = [work EXCEPT ![w] = [gen |-> gen, status |-> s, since |-> t]]
    BY <1>2 DEF Roll
  <2>2. work[w] \in WorkStates(w) /\ now \in 0 .. MaxTime
    BY <1>2 DEF Roll, TypeOK
  <2>3. t \in 0 .. MaxTime
    BY <2>2 DEF WorkStates
  <2>4. [gen |-> gen, status |-> s, since |-> t] \in WorkStates(w)
    BY <2>3 DEF WorkStates, StatusesOf
  <2>5. excused' \subseteq Workloads
    BY <1>2 DEF Roll, TypeOK
  <2> QED
    BY <2>1, <2>4, <2>5 DEF TypeOK
<1>3. ASSUME NEW w \in Workloads, Create(w)
      PROVE  /\ DOMAIN work' = Workloads
             /\ \A v \in Workloads : work'[v] \in WorkStates(v) \cup {None}
             /\ excused' \subseteq Workloads
  BY <1>3, FreshType DEF Create, TypeOK
<1>4. ASSUME NEW w \in Workloads, Delete(w)
      PROVE  /\ DOMAIN work' = Workloads
             /\ \A v \in Workloads : work'[v] \in WorkStates(v) \cup {None}
  BY <1>4 DEF Delete, TypeOK
<1>5. ASSUME NEW p \in Pods, NEW s \in PodStates, PodChanges(p, s)
      PROVE  pod' \in [Pods -> PodRecords]
  BY <1>5, BoundAssumption DEF PodChanges, TypeOK, PodRecords
<1>6. CASE Share
  BY <1>6 DEF Share, TypeOK, caches, worker
<1>7. CASE \E w \in Workloads : Delete(w)
  BY <1>1, <1>4, <1>7 DEF Delete, Change, TypeOK, caches, worker
<1>8. CASE \E w \in Workloads : Create(w)
  BY <1>3, <1>8 DEF Create, TypeOK, caches, worker
<1>9. CASE \E w \in Workloads : \E gen \in Generations, s \in RollsTo(w) : Roll(w, gen, s)
  <2>0. PICK w \in Workloads : \E gen \in Generations, s \in RollsTo(w) : Roll(w, gen, s)
    BY <1>9
  <2>1. PICK gen \in Generations, s \in RollsTo(w) : Roll(w, gen, s)
    BY <2>0
  <2>2. changes' \in 0 .. MaxChanges
    BY <1>1, <2>1 DEF Roll
  <2>3. UNCHANGED <<openshift, now, lastSeen, workCache, lastCache, podCache, hung, shared, due,
                    step, req, pod, faults>>
    BY <2>1 DEF Roll, Change, caches, worker
  <2> QED
    BY <1>2, <2>1, <2>2, <2>3 DEF TypeOK
<1>10. CASE \E p \in Pods, s \in PodStates : PodChanges(p, s)
  BY <1>1, <1>5, <1>10 DEF PodChanges, Change, TypeOK, caches, worker
<1> QED
  BY <1>6, <1>7, <1>8, <1>9, <1>10 DEF Cluster

\* ... and so does everything.
LEMMA ClusterType ==
    ASSUME TypeOK, Cluster
    PROVE  TypeOK'
BY ClusterParts DEF TypeOK

LEMMA StepType == TypeOK /\ [Next]_vars => TypeOK'
<1> SUFFICES ASSUME TypeOK, [Next]_vars PROVE TypeOK'
  OBVIOUS
<1>1. CASE Reconcile
  BY <1>1, SetFromPodsType, RecreateType, RecreatePodsType DEF Reconcile
<1>2. CASE (\E w \in Workloads : WorkInformed(w)) \/ LastInformed \/ \E p \in Pods : PodInformed(p)
  BY <1>2, InformedType
<1>3. CASE Restart
  BY <1>3, RestartType
<1>4. CASE Cluster
  BY <1>4, ClusterType
<1>5. CASE Tick
  <2>1. now' \in 0 .. MaxTime
    BY <1>5, BoundAssumption DEF Tick, TypeOK
  <2> QED
    BY <1>5, <2>1 DEF Tick, TypeOK, caches, worker
<1>6. CASE UNCHANGED vars
  BY <1>6 DEF vars, TypeOK, caches, worker
<1> QED
  BY <1>1, <1>2, <1>3, <1>4, <1>5, <1>6 DEF Next

\* For all workloads, statuses and periods: the variables keep their types, no request is
\* due later than a resync from now on, what is remembered is a status with its time, on
\* Kubernetes nothing, and only a request of nsx-node-agent gets to the agent pods.
THEOREM TypeCorrect == Spec => []TypeOK
BY InitType, StepType, PTL DEF Spec
--------------------------------------------------------------------------------
(* The inductive invariants of the timing properties *)

Cached(w) == workCache[w] # None
Due(w, t) == due[w] # None /\ due[w] <= t

\* The request of a workload that is cached goes on.
RequestInv == \A w \in Workloads : Cached(w) => req = w \/ Due(w, now + Resync)

\* A pod with a bad resolv.conf that is not listed has just got it; a request that looks at
\* it is due within a resync period, or at once.
PodInv ==
    \A p \in Pods : pod[p].state = "resolvconf" =>
        /\ podCache[p] # pod[p] => pod[p].since = now
        /\ Cached(NodeAgentDs) => \/ req = NodeAgentDs \/ Due(NodeAgentDs, now)
                                  \/ Due(NodeAgentDs, pod[p].since + Resync)

\* The entry e says since when x makes no progress.
Matches(w, x, e) == e # None /\ x # None /\ Progressing(w, x) /\ e.status = x.status

\* The cache shows the workload as it is, but perhaps not its generation.
Agrees(w) == /\ Cached(w) /\ workCache[w].status = work[w].status
             /\ Progressing(w, workCache[w]) = Progressing(w, work[w])

\* What the caches have not seen yet has happened now, and no workload goes back in its
\* history unless it is excused.
CacheInv ==
    \A w \in Workloads :
        /\ lastSeen[w] # lastCache[w] => lastSeen[w] = None \/ lastSeen[w].time = now
        /\ lastSeen[w] # None => lastSeen[w].time <= now
        /\ lastCache[w] # None => lastCache[w].time <= now
        /\ work[w] # None => work[w].since <= now /\ (Agrees(w) \/ work[w].since = now)

HistoryInv ==
    \A w \in Workloads \ excused :
        work[w] # None => /\ Cached(w) /\ workCache[w].gen <= work[w].gen
                          /\ workCache[w].since <= work[w].since

\* An entry for another status than the present one is healed by the next request, so it
\* is never a resync period old; what it may be mistaken for is not older either.
HonestInv ==
    \A w \in Workloads \ excused :
        /\ work[w] # None /\ lastCache[w] # None =>
              IF Matches(w, work[w], lastCache[w])
              THEN work[w].since <= lastCache[w].time + Resync
              ELSE work[w].since = now \/ now <= lastCache[w].time + Resync
        /\ Cached(w) /\ lastSeen[w] # None =>
              \/ Due(w, now) \/ Due(w, lastSeen[w].time + Resync)
              \/ Matches(w, workCache[w], lastSeen[w])
              \/ req = w /\ lastSeen[w].time = now

\* The level is raised for a reason, until a request that is due takes it back.
RaisedInv ==
    hung => /\ openshift
            /\ \E w \in Workloads :
                  \/ w \in excused
                  \/ workCache[w] # work[w] \/ Due(w, now)
                  \/ Rolling(w) /\ now - work[w].since > ProgressTimeout - Resync

\* By when there is an entry for a rollout, ...
Deadline(w) == work[w].since + Resync * (1 + faults)

\* ... which then stays as it is.
EntryInv ==
    \A w \in Workloads : openshift /\ Rolling(w) =>
        /\ \/ Matches(w, work[w], lastSeen[w]) /\ lastSeen[w].time <= Deadline(w)
           \/ /\ now <= Deadline(w)
              /\ \/ ~Cached(w) \/ Due(w, Deadline(w))
                 \/ req = w /\ now + Resync <= Deadline(w)
        /\ work[w].since < now /\ Matches(w, work[w], lastCache[w]) => lastSeen[w] = lastCache[w]

\* A rollout that an entry shows to make no progress is found hung, or a request is due
\* that will.
HungInv ==
    \A w \in Workloads : openshift /\ Matches(w, workCache[w], lastCache[w]) =>
        \/ hung \/ Due(w, now) \/ Due(w, lastCache[w].time + ProgressTimeout + Resync)
        \/ req = w /\ now <= lastCache[w].time + ProgressTimeout
--------------------------------------------------------------------------------
(* Requests *)

\* A request that is added is due no later than it was.
LEMMA EarlierIs ==
    ASSUME TypeOK, NEW w \in Workloads, NEW t \in Times, due' = Earlier(w, t)
    PROVE  /\ due'[w] # None /\ due'[w] <= t
           /\ due[w] # None => due'[w] <= due[w]
           /\ \A u \in Workloads : u # w => due'[u] = due[u]
<1>1. t # None
  BY EntryAssumption DEF Times
<1>2. due \in [Workloads -> Times \cup {None}]
  BY DEF TypeOK, Times
<1>3. due[w] # None => due[w] \in Nat
  BY <1>2, TimeAssumption, BoundAssumption DEF Times
<1>4. t \in Nat
  BY TimeAssumption, BoundAssumption DEF Times
<1>5. due' = [due EXCEPT ![w] = IF due[w] = None THEN t ELSE IF t < due[w] THEN t ELSE due[w]]
  BY DEF Earlier
<1> QED BY <1>1, <1>2, <1>3, <1>4, <1>5

\* The worker's request comes back: at once, a resync period later, or, if there is nothing
\* in the cache, a moment later.
LEMMA WorkerLeaves ==
    ASSUME TypeOK, NEW w \in Workloads, req \in Workloads,
           Done \/ Retry(now) \/ (Retry(now + 1) /\ ~Cached(req))
    PROVE  /\ due[w] # None => due'[w] # None /\ due'[w] <= due[w]
           /\ req = w /\ Cached(w) => due'[w] # None /\ due'[w] <= now + Resync
<1>1. now \in Times /\ now + 1 \in Times /\ now + Resync \in Times
  BY TimeFacts
<1>2. PICK t \in Times : due' = Earlier(req, t) /\ (Cached(req) => t = now \/ t = now + Resync)
  BY <1>1 DEF Done, Retry
<1>3. /\ due'[req] # None /\ due'[req] <= t
      /\ due[req] # None => due'[req] <= due[req]
      /\ \A u \in Workloads : u # req => due'[u] = due[u]
  BY <1>2, EarlierIs
<1>4. due[w] # None => due[w] \in Nat
  BY TimeAssumption, BoundAssumption DEF TypeOK
<1>5. Cached(req) => due'[req] <= now + Resync
  <2>1. now \in Nat /\ due'[req] \in Nat
    <3>1. Earlier(req, t) \in [Workloads -> Times \cup {None}]
      BY EarlierType
    <3> QED BY <1>2, <1>3, <3>1, TimeAssumption, BoundAssumption DEF Times, TypeOK
  <2> QED BY <1>2, <1>3, <2>1, TimeAssumption
<1> QED BY <1>3, <1>4, <1>5

\* The steps of the worker after SetFromPods.
WorkerStep == NotRecreate \/ Recreate \/ RecreateWaits \/ RecreateFails
                \/ RecreatePods \/ RecreatePodsFails

\* Whatever happens to the request of a cached workload: the worker takes it, it becomes
\* due at once, or it stays, with the worker or in the queue.
LEMMA Requests ==
    ASSUME TypeOK, [Next]_vars, NEW w \in Workloads, Cached(w)'
    PROVE  \/ SetFromPods(w)
           \/ due'[w] # None /\ due'[w] <= now'
           \/ /\ workCache'[w] = workCache[w]
              /\ due[w] # None => due'[w] # None /\ due'[w] <= due[w]
              /\ req = w => \/ req' = w
                            \/ due'[w] # None /\ due'[w] <= now + Resync
<1>0. now \in Times /\ now \in Nat /\ (due[w] # None => due[w] \in Nat /\ due[w] <= due[w])
  BY TimeFacts, TimeAssumption, BoundAssumption DEF TypeOK
<1>1. ASSUME NEW u \in Workloads, SetFromPods(u), u # w
      PROVE  workCache'[w] = workCache[w] /\ due'[w] = due[w] /\ req # w
  BY <1>1, NoneAssumption DEF SetFromPods, TypeOK, caches
<1>2. CASE WorkerStep
  <2>1. workCache' = workCache /\ step # "idle" /\ req \in Workloads
    BY <1>2 DEF WorkerStep, NotRecreate, Recreate, RecreateWaits, RecreateFails, RecreatePods,
                RecreatePodsFails, caches, TypeOK
  <2>2. \/ req' = req /\ due' = due
        \/ Done \/ Retry(now) \/ (Retry(now + 1) /\ ~Cached(req))
    BY <1>2 DEF WorkerStep, NotRecreate, Recreate, RecreateWaits, RecreateFails, RecreatePods,
                RecreatePodsFails, Recreated, Missing, Cached
  <2>3. CASE req' = req /\ due' = due
    BY <1>0, <2>1, <2>3
  <2>4. CASE Done \/ Retry(now) \/ (Retry(now + 1) /\ ~Cached(req))
    <3>1. Cached(w)
      BY <2>1 DEF Cached
    <3> QED BY <2>1, <2>4, <3>1, WorkerLeaves
  <2> QED BY <2>2, <2>3, <2>4
<1>3. ASSUME NEW u \in Workloads, WorkInformed(u)
      PROVE  \/ due'[w] # None /\ due'[w] <= now'
             \/ workCache'[w] = workCache[w] /\ due'[w] = due[w] /\ req' = req
  <2>1. due' = Earlier(u, now) /\ now' = now /\ req' = req
    BY <1>3 DEF WorkInformed, worker
  <2>2. u # w => workCache'[w] = workCache[w]
    BY <1>3 DEF WorkInformed, TypeOK
  <2> QED BY <1>0, <2>1, <2>2, EarlierIs
<1>4. CASE Restart
  <2>1. due'[w] = now /\ now' = now
    BY <1>4 DEF Restart, Events, Cached
  <2> QED BY <1>0, <2>1, EntryAssumption
<1>5. CASE LastInformed \/ (\E p \in Pods : PodInformed(p)) \/ Cluster \/ Tick \/ UNCHANGED vars
  <2>1. UNCHANGED <<workCache, due, req>>
    BY <1>5, ClusterParts DEF LastInformed, PodInformed, Tick, vars, caches, worker
  <2> QED BY <1>0, <2>1
<1> QED
  BY <1>0, <1>1, <1>2, <1>3, <1>4, <1>5 DEF Next, Reconcile, WorkerStep

\* Time goes on, and only when everything is done.
LEMMA TimeSteps ==
    ASSUME TypeOK, [Next]_vars
    PROVE  now' = now \/ (Tick /\ now' = now + 1)
<1>1. CASE Cluster
  BY <1>1, ClusterParts
<1>2. CASE ~Cluster
  BY <1>2 DEF Next, Reconcile, SetFromPods, NotRecreate, Recreate, RecreateWaits, RecreateFails,
              RecreatePods, RecreatePodsFails, WorkInformed, LastInformed, PodInformed, Restart,
              Tick, vars
<1> QED BY <1>1, <1>2

LEMMA RequestStep ==
    ASSUME TypeOK, TypeOK', RequestInv, [Next]_vars
    PROVE  RequestInv'
<1> SUFFICES ASSUME NEW w \in Workloads, Cached(w)', req' # w
             PROVE  due'[w] # None /\ due'[w] <= now' + Resync
  BY DEF RequestInv, Due
<1>1. now \in Nat /\ now' \in Nat /\ (due'[w] # None => due'[w] \in Nat)
      /\ (due[w] # None => due[w] \in Nat) /\ now <= now'
  BY TimeSteps, TimeAssumption, BoundAssumption DEF TypeOK
<1>2. ~SetFromPods(w)
  BY DEF SetFromPods
<1>3. CASE due'[w] # None /\ due'[w] <= now'
  BY <1>1, <1>3, TimeAssumption
<1>4. CASE /\ workCache'[w] = workCache[w]
           /\ due[w] # None => due'[w] # None /\ due'[w] <= due[w]
           /\ req = w => \/ req' = w
                         \/ due'[w] # None /\ due'[w] <= now + Resync
  <2>1. req = w \/ (due[w] # None /\ due[w] <= now + Resync)
    BY <1>4 DEF RequestInv, Cached, Due
  <2>2. due'[w] # None /\ due'[w] <= now + Resync
    BY <1>1, <1>4, <2>1, TimeAssumption
  <2> QED BY <1>1, <2>2, TimeAssumption
<1> QED BY <1>2, <1>3, <1>4, Requests
--------------------------------------------------------------------------------
(* Agent pods *)

\* A request of nsx-node-agent ends with the look at its pods, or comes back at once.
LEMMA AgentLeaves ==
    ASSUME TypeOK, [Next]_vars, Cached(NodeAgentDs)', req = NodeAgentDs, req' # NodeAgentDs
    PROVE  RecreatePods \/ (due'[NodeAgentDs] # None /\ due'[NodeAgentDs] <= now')
<1>1. NodeAgentDs \in Workloads /\ now \in Times /\ now \in Nat /\ step # "idle"
  BY WorkloadAssumption, NoneAssumption, TimeFacts, TimeAssumption, BoundAssumption
     DEF Workloads, TypeOK
<1>2. CASE RecreateFails \/ RecreatePodsFails
  <2>1. due' = Earlier(NodeAgentDs, now) /\ now' = now
    BY <1>2 DEF RecreateFails, RecreatePodsFails, Retry
  <2> QED BY <1>1, <2>1, EarlierIs
<1>3. CASE NotRecreate \/ Recreate
  BY <1>3 DEF NotRecreate, Recreate, Recreated
<1>4. CASE RecreateWaits
  BY <1>4 DEF RecreateWaits, Missing, Cached, caches
<1>5. CASE Restart
  <2>1. due'[NodeAgentDs] = now /\ now' = now
    BY <1>1, <1>5 DEF Restart, Events, Cached
  <2> QED BY <1>1, <2>1, EntryAssumption
<1>6. CASE \/ \E w \in Workloads : WorkInformed(w)
           \/ LastInformed \/ (\E p \in Pods : PodInformed(p)) \/ Cluster \/ Tick \/ UNCHANGED vars
  <2>1. req' = req
    BY <1>6, ClusterParts DEF WorkInformed, LastInformed, PodInformed, Tick, vars, worker
  <2> QED BY <2>1
<1>7. ~\E w \in Workloads : SetFromPods(w)
  BY <1>1 DEF SetFromPods
<1> QED BY <1>2, <1>3, <1>4, <1>5, <1>6, <1>7 DEF Next, Reconcile

\* A pod gets a bad resolv.conf now, or has had it and is not deleted.
LEMMA PodSteps ==
    ASSUME TypeOK, [Next]_vars, NEW p \in Pods, pod'[p].state = "resolvconf"
    PROVE  /\ pod'[p] = pod[p] \/ (pod'[p].since = now /\ now' = now)
           /\ RecreatePods => podCache[p] # pod[p] /\ pod'[p] = pod[p]
<1>0. pod \in [Pods -> PodRecords]
  BY DEF TypeOK
<1>1. ASSUME NEW P \in SUBSET Pods, Deleted(P) PROVE p \notin P /\ pod'[p] = pod[p]
  BY <1>1 DEF Deleted
<1>2. PodsInCLB \in SUBSET Pods
  BY DEF PodsInCLB, InCLB
<1>3. CASE RecreatePods
  <2>1. p \notin PodsInCLB /\ pod'[p] = pod[p]
    BY <1>1, <1>2, <1>3 DEF RecreatePods
  <2>2. podCache[p].state # "resolvconf"
    BY <2>1 DEF PodsInCLB, InCLB
  <2> QED BY <2>1, <2>2
<1>4. CASE RecreatePodsFails
  <2>1. PICK P \in SUBSET PodsInCLB : Deleted(P)
    BY <1>4 DEF RecreatePodsFails
  <2>2. pod'[p] = pod[p]
    BY <1>1, <1>2, <2>1
  <2>3. RecreatePods => podCache[p] # pod[p]
    BY <1>3
  <2> QED BY <2>2, <2>3
<1>5. ASSUME NEW q \in Pods, NEW s \in PodStates, PodChanges(q, s)
      PROVE  (pod'[p] = pod[p] \/ pod'[p].since = now) /\ now' = now
  <2>1. CASE q = p
    BY <1>0, <1>5, <2>1 DEF PodChanges, Change
  <2>2. CASE q # p
    BY <1>0, <1>5, <2>2 DEF PodChanges, Change
  <2> QED BY <2>1, <2>2
<1>6. CASE \/ \E w \in Workloads : SetFromPods(w) \/ WorkInformed(w) \/ Delete(w) \/ Create(w)
           \/ \E w \in Workloads : \E gen \in Generations, s \in RollsTo(w) : Roll(w, gen, s)
           \/ NotRecreate \/ Recreate \/ RecreateWaits \/ RecreateFails
           \/ LastInformed \/ (\E q \in Pods : PodInformed(q)) \/ Restart \/ Share \/ Tick
           \/ UNCHANGED vars
  <2>1. pod' = pod
    BY <1>6 DEF SetFromPods, WorkInformed, Delete, Create, Roll, NotRecreate, Recreate,
                RecreateWaits, RecreateFails, LastInformed, PodInformed, Restart, Share, Tick, vars
  <2> QED BY <1>3, <2>1
<1> QED BY <1>3, <1>4, <1>5, <1>6 DEF Next, Reconcile, Cluster

LEMMA PodStep ==
    ASSUME TypeOK, TypeOK', RequestInv', PodInv, [Next]_vars
    PROVE  PodInv'
<1> SUFFICES ASSUME NEW p \in Pods, pod'[p].state = "resolvconf"
             PROVE  /\ podCache'[p] # pod'[p] => pod'[p].since = now'
                    /\ Cached(NodeAgentDs)' =>
                          \/ req' = NodeAgentDs
                          \/ due'[NodeAgentDs] # None /\ due'[NodeAgentDs] <= now'
                          \/ due'[NodeAgentDs] # None /\ due'[NodeAgentDs] <= pod'[p].since + Resync
  BY DEF PodInv, Due
<1>0. NodeAgentDs \in Workloads
  BY WorkloadAssumption DEF Workloads
<1>1. CASE pod'[p].since = now /\ now' = now
  BY <1>0, <1>1 DEF RequestInv, Due
<1>2. CASE pod'[p] = pod[p] /\ ~(pod'[p].since = now /\ now' = now)
  <2>0. /\ now \in Nat /\ now' \in Nat /\ now <= now' /\ pod[p].since \in Nat
        /\ due[NodeAgentDs] # None => due[NodeAgentDs] \in Nat
        /\ due'[NodeAgentDs] # None => due'[NodeAgentDs] \in Nat
    BY <1>0, TimeSteps, TimeAssumption, BoundAssumption DEF TypeOK, PodRecords
  <2>1. podCache'[p] # pod'[p] => pod'[p].since = now'
    <3>1. CASE Tick
      BY <1>2, <3>1 DEF Tick, Settled, caches
    <3>2. CASE Restart
      BY <3>2 DEF Restart
    <3>3. CASE \E q \in Pods : PodInformed(q)
      BY <1>2, <3>3 DEF PodInformed, PodInv, TypeOK
    <3>4. CASE ~(Tick \/ Restart \/ \E q \in Pods : PodInformed(q))
      <4>1. podCache' = podCache
        BY <3>4, ClusterParts DEF Next, Reconcile, SetFromPods, NotRecreate, Recreate,
           RecreateWaits, RecreateFails, RecreatePods, RecreatePodsFails, WorkInformed,
           LastInformed, vars, caches
      <4> QED BY <1>2, <3>4, <4>1, TimeSteps DEF PodInv
    <3> QED BY <3>1, <3>2, <3>3, <3>4
  <2>2. ASSUME Cached(NodeAgentDs)', req' # NodeAgentDs
        PROVE  \/ due'[NodeAgentDs] # None /\ due'[NodeAgentDs] <= now'
               \/ due'[NodeAgentDs] # None /\ due'[NodeAgentDs] <= pod'[p].since + Resync
    <3>1. ~SetFromPods(NodeAgentDs)
      BY <2>2 DEF SetFromPods
    <3>2. CASE due'[NodeAgentDs] # None /\ due'[NodeAgentDs] <= now'
      BY <3>2
    <3>3. CASE /\ workCache'[NodeAgentDs] = workCache[NodeAgentDs]
               /\ due[NodeAgentDs] # None =>
                     due'[NodeAgentDs] # None /\ due'[NodeAgentDs] <= due[NodeAgentDs]
      <4>1. \/ req = NodeAgentDs
            \/ due[NodeAgentDs] # None /\ due[NodeAgentDs] <= now
            \/ due[NodeAgentDs] # None /\ due[NodeAgentDs] <= pod[p].since + Resync
        BY <1>2, <2>2, <3>3 DEF PodInv, Cached, Due
      <4>2. CASE req # NodeAgentDs
        BY <1>2, <2>0, <3>3, <4>1, <4>2, TimeAssumption
      <4>3. CASE req = NodeAgentDs /\ RecreatePods
        <5>1. pod[p].since = now /\ now' = now
          BY <1>2, <4>3, PodSteps DEF PodInv, RecreatePods
        <5> QED BY <1>2, <5>1
      <4>4. CASE req = NodeAgentDs /\ ~RecreatePods
        BY <2>2, <4>4, AgentLeaves
      <4> QED BY <4>2, <4>3, <4>4
    <3> QED BY <1>0, <2>2, <3>1, <3>2, <3>3, Requests
  <2> QED BY <2>1, <2>2
<1> QED BY <1>1, <1>2, PodSteps
--------------------------------------------------------------------------------
(* Workloads and what is remembered of them *)

\* A new status, or a rollout that starts or ends; ...
Moves(w) ==
    /\ work[w] # None /\ work'[w].since = now /\ work'[w].gen >= work[w].gen
    /\ \/ work'[w].status # work[w].status
       \/ Progressing(w, work'[w]) # Progressing(w, work[w])
    /\ work[w].since = now => w \in excused'

\* ... or a new generation only.
Regenerates(w) ==
    /\ work[w] # None /\ work'[w].status = work[w].status /\ work'[w].since = work[w].since
    /\ Progressing(w, work'[w]) = Progressing(w, work[w])
    /\ work'[w].gen >= work[w].gen /\ work'[w].gen # work[w].gen

LEMMA RollIs ==
    ASSUME TypeOK, NEW w \in Workloads, NEW gen \in Generations, NEW s \in RollsTo(w),
           Roll(w, gen, s)
    PROVE  /\ Moves(w) \/ Regenerates(w)
           /\ \A v \in Workloads : v # w => work'[v] = work[v]
           /\ excused \subseteq excused'
<1> DEFINE x == [gen |-> gen, status |-> s]
           moved == s # work[w].status \/ Progressing(w, x) # Progressing(w, work[w])
<1>1. /\ work[w] # None /\ gen >= work[w].gen /\ (moved \/ gen # work[w].gen)
      /\ work' = [work EXCEPT ![w] = [gen |-> gen, status |-> s,
                                      since |-> IF moved THEN now ELSE work[w].since]]
      /\ excused' = IF moved /\ work[w].since = now THEN excused \cup {w} ELSE excused
  BY DEF Roll
<1>2. DOMAIN work = Workloads
  BY DEF TypeOK
<1>3. Progressing(w, [gen |-> gen, status |-> s, since |-> IF moved THEN now ELSE work[w].since])
        = Progressing(w, x)
  BY DEF Progressing
<1> HIDE DEF x
<1>4. CASE moved
  BY <1>1, <1>2, <1>3, <1>4 DEF Moves
<1>5. CASE ~moved
  BY <1>1, <1>2, <1>3, <1>5 DEF Regenerates
<1> QED BY <1>1, <1>2, <1>4, <1>5

\* What becomes of a workload and of what the cache shows of it.
LEMMA WorkSteps ==
    ASSUME TypeOK, [Next]_vars, NEW w \in Workloads
    PROVE  /\ excused \subseteq excused'
           /\ \/ work'[w] = work[w] /\ workCache'[w] = workCache[w]
              \/ work'[w] = work[w] /\ workCache'[w] = work[w] /\ now' = now
              \/ /\ workCache'[w] = workCache[w] /\ now' = now
                 /\ \/ Moves(w) \/ Regenerates(w) \/ work'[w] = None
                    \/ work'[w] = Fresh(w) /\ w \in excused'
<1>0. DOMAIN work = Workloads /\ DOMAIN workCache = Workloads /\ excused \subseteq Workloads
  BY DEF TypeOK
<1>1. CASE \E u \in Workloads : SetFromPods(u)
  BY <1>0, <1>1 DEF SetFromPods, SetLastPodState, caches
<1>2. CASE Recreate
  <2>1. /\ work' = [work EXCEPT ![req] = Fresh(req)] /\ excused' = excused \cup {req}
        /\ now' = now /\ workCache' = workCache
    BY <1>2 DEF Recreate, caches
  <2> QED BY <1>0, <2>1
<1>3. CASE \E u \in Workloads : WorkInformed(u)
  BY <1>0, <1>3 DEF WorkInformed
<1>4. CASE Restart
  BY <1>4 DEF Restart
<1>5. CASE \E u \in Workloads : \E gen \in Generations, s \in RollsTo(u) : Roll(u, gen, s)
  <2>0. PICK u \in Workloads : \E gen \in Generations, s \in RollsTo(u) : Roll(u, gen, s)
    BY <1>5
  <2>1. PICK gen \in Generations, s \in RollsTo(u) : Roll(u, gen, s)
    BY <2>0
  <2>2. workCache' = workCache /\ now' = now
    BY <2>1 DEF Roll, Change, caches
  <2> QED BY <2>1, <2>2, RollIs
<1>6. ASSUME NEW u \in Workloads, Delete(u) \/ Create(u)
      PROVE  /\ excused \subseteq excused' /\ workCache' = workCache /\ now' = now
             /\ \/ work'[w] = work[w] \/ work'[w] = None
                \/ work'[w] = Fresh(w) /\ w \in excused'
  <2>1. CASE Delete(u)
    BY <1>0, <1>6, <2>1 DEF Delete, Change, caches
  <2>2. CASE Create(u)
    BY <1>0, <1>6, <2>2 DEF Create, caches
  <2> QED BY <1>6, <2>1, <2>2
<1>7. CASE \/ NotRecreate \/ RecreateWaits \/ RecreateFails \/ RecreatePods \/ RecreatePodsFails
           \/ LastInformed \/ (\E p \in Pods : PodInformed(p)) \/ Share
           \/ (\E p \in Pods, s \in PodStates : PodChanges(p, s)) \/ Tick \/ UNCHANGED vars
  BY <1>7 DEF NotRecreate, RecreateWaits, RecreateFails, RecreatePods, RecreatePodsFails,
              LastInformed, PodInformed, Share, PodChanges, Change, Tick, vars, caches
<1> QED BY <1>1, <1>2, <1>3, <1>4, <1>5, <1>6, <1>7 DEF Next, Reconcile, Cluster

\* The annotation and its cache change by a request, which writes what it keeps or
\* nothing, and when the cache is informed.
LEMMA LastSteps ==
    ASSUME TypeOK, [Next]_vars
    PROVE  \/ UNCHANGED <<lastSeen, lastCache>>
           \/ lastSeen' = lastSeen /\ lastCache' = lastSeen /\ now' = now
           \/ \E u \in Workloads : SetFromPods(u)
<1>1. CASE Cluster
  BY <1>1, ClusterParts
<1>2. CASE ~Cluster
  BY <1>2 DEF Next, Reconcile, NotRecreate, Recreate, RecreateWaits, RecreateFails, RecreatePods,
     RecreatePodsFails, WorkInformed, LastInformed, PodInformed, Restart, Tick, vars, caches
<1> QED BY <1>1, <1>2

LEMMA Writes ==
    ASSUME TypeOK, NEW u \in Workloads, SetFromPods(u), NEW w \in Workloads
    PROVE  /\ UNCHANGED <<work, workCache, lastCache, now>>
           /\ \/ lastSeen'[w] = PodState(w) /\ openshift /\ UNCHANGED <<excused, faults>>
              \/ /\ lastSeen'[w] = lastSeen[w]
                 /\ \/ UNCHANGED <<excused, faults>> /\ (openshift => PodState(w) = lastCache[w])
                    \/ w \in excused' /\ faults' = faults + 1
<1>1. UNCHANGED <<work, workCache, lastCache, now>> /\ SetLastPodState
  BY DEF SetFromPods, caches
<1>2. CASE lastSeen' = (IF openshift THEN Kept ELSE lastSeen) /\ UNCHANGED <<excused, faults>>
  BY <1>1, <1>2 DEF Kept
<1>3. CASE Kept = lastCache /\ UNCHANGED <<lastSeen, excused, faults>>
  <2>1. Kept[w] = PodState(w)
    BY DEF Kept
  <2> QED BY <1>1, <1>3, <2>1
<1>4. CASE Fault /\ excused' = Workloads /\ UNCHANGED lastSeen
  BY <1>1, <1>4 DEF Fault
<1> QED BY <1>1, <1>2, <1>3, <1>4 DEF SetLastPodState

\* What is kept of a workload: nothing, what the cache says, or that this is new.
LEMMA PodStateIs ==
    ASSUME NEW w \in Workloads, openshift
    PROVE  /\ PodState(w) \in {None, lastCache[w], Seen(workCache[w].status)}
           /\ Cached(w) /\ Progressing(w, workCache[w]) =>
                 PodState(w) = IF lastCache[w] # None /\ lastCache[w].status = workCache[w].status
                               THEN lastCache[w] ELSE Seen(workCache[w].status)
           /\ Cached(w) /\ ~Progressing(w, workCache[w]) => PodState(w) = None
BY DEF PodState, LastPodState, Cached

LEMMA SeenIs ==
    ASSUME TypeOK, NEW w \in Workloads, Cached(w)
    PROVE  /\ Seen(workCache[w].status) # None /\ Seen(workCache[w].status).time = now
           /\ Seen(workCache[w].status).status = workCache[w].status
<1>1. Seen(workCache[w].status) \in Entries
  BY DEF Seen, Entries, TypeOK, WorkStates, Cached
<1> QED BY <1>1, EntryAssumption DEF Seen
--------------------------------------------------------------------------------
(* The inductive steps of the timing properties *)

LEMMA WorkNumbers ==
    ASSUME NEW w, NEW x \in WorkStates(w)
    PROVE  x.since \in Nat /\ x.gen \in Nat
<1>1. Generations \cup {1} \subseteq Nat
  BY StatusAssumption
<1>2. x.since \in 0 .. MaxTime /\ x.gen \in Generations \cup {1}
  BY DEF WorkStates
<1> QED BY <1>1, <1>2, BoundAssumption

\* The times that are compared are numbers.
LEMMA Numbers ==
    ASSUME TypeOK, NEW w \in Workloads
    PROVE  /\ now \in Nat /\ now \in Times /\ Resync \in Nat /\ Resync > 0 /\ ProgressTimeout \in Nat
           /\ faults \in Nat
           /\ due[w] # None => due[w] \in Nat
           /\ work[w] # None => work[w].since \in Nat /\ work[w].gen \in Nat
           /\ workCache[w] # None => workCache[w].since \in Nat /\ workCache[w].gen \in Nat
           /\ lastSeen[w] # None => lastSeen[w].time \in Nat
           /\ lastCache[w] # None => lastCache[w].time \in Nat
<1>1. /\ now \in Nat /\ now \in Times /\ Resync \in Nat /\ Resync > 0 /\ ProgressTimeout \in Nat
      /\ due[w] # None => due[w] \in Nat
  BY TimeFacts, TimeAssumption, BoundAssumption DEF TypeOK
<1>2. faults \in Nat
  BY BoundAssumption DEF TypeOK
<1>3. /\ work[w] # None => work[w] \in WorkStates(w)
      /\ workCache[w] # None => workCache[w] \in WorkStates(w)
  BY DEF TypeOK
<1>4. ASSUME NEW x \in WorkStates(w) PROVE x.since \in Nat /\ x.gen \in Nat
  BY WorkNumbers
<1>5. /\ lastSeen[w] # None => lastSeen[w] \in Entries
      /\ lastCache[w] # None => lastCache[w] \in Entries
  BY DEF TypeOK
<1>6. \A e \in Entries : e.time \in Nat
  BY BoundAssumption DEF Entries
<1> QED BY <1>1, <1>2, <1>3, <1>4, <1>5, <1>6

\* When a rollout starts its time is now.
LEMMA FreshIs ==
    ASSUME NEW w
    PROVE  Fresh(w) # None => Fresh(w).since = now
BY DEF Fresh

LEMMA CacheStep ==
    ASSUME TypeOK, TypeOK', CacheInv, [Next]_vars
    PROVE  CacheInv'
<1> SUFFICES ASSUME NEW w \in Workloads
             PROVE  /\ lastSeen'[w] # lastCache'[w] => lastSeen'[w] = None \/ lastSeen'[w].time = now'
                    /\ lastSeen'[w] # None => lastSeen'[w].time <= now'
                    /\ lastCache'[w] # None => lastCache'[w].time <= now'
                    /\ work'[w] # None => /\ work'[w].since <= now'
                                          /\ Agrees(w)' \/ work'[w].since = now'
  BY DEF CacheInv
<1>1. /\ lastSeen[w] # lastCache[w] => lastSeen[w] = None \/ lastSeen[w].time = now
      /\ lastSeen[w] # None => lastSeen[w].time <= now
      /\ lastCache[w] # None => lastCache[w].time <= now
      /\ work[w] # None => work[w].since <= now /\ (Agrees(w) \/ work[w].since = now)
  BY DEF CacheInv
<1>2. /\ now \in Nat /\ now' \in Nat
      /\ lastSeen[w] # None => lastSeen[w].time \in Nat
      /\ lastCache[w] # None => lastCache[w].time \in Nat
      /\ work[w] # None => work[w].since \in Nat
  BY Numbers, BoundAssumption DEF TypeOK
<1>3. \/ now' = now
      \/ now' = now + 1 /\ lastSeen[w] = lastCache[w] /\ workCache[w] = work[w]
  BY TimeSteps DEF Settled, Tick
<1>4. /\ lastSeen'[w] # lastCache'[w] => lastSeen'[w] = None \/ lastSeen'[w].time = now'
      /\ lastSeen'[w] # None => lastSeen'[w].time <= now'
      /\ lastCache'[w] # None => lastCache'[w].time <= now'
  <2>1. CASE UNCHANGED <<lastSeen, lastCache>>
    BY <1>1, <1>2, <1>3, <2>1
  <2>2. CASE lastSeen' = lastSeen /\ lastCache' = lastSeen /\ now' = now
    BY <1>1, <1>2, <2>2
  <2>3. ASSUME NEW u \in Workloads, SetFromPods(u)
        PROVE  /\ lastSeen'[w] \in {lastSeen[w], None, lastCache[w], Seen(workCache[w].status)}
               /\ lastCache'[w] = lastCache[w] /\ now' = now
    BY <2>3, Writes, PodStateIs
  <2>4. Seen(workCache[w].status).time = now
    BY DEF Seen
  <2> QED BY <1>1, <1>2, <2>1, <2>2, <2>3, <2>4, LastSteps
<1>5. ASSUME work'[w] # None
      PROVE  work'[w].since <= now' /\ (Agrees(w)' \/ work'[w].since = now')
  <2>1. Agrees(w)' <=> /\ workCache'[w] # None /\ workCache'[w].status = work'[w].status
                       /\ Progressing(w, workCache'[w]) = Progressing(w, work'[w])
    BY DEF Agrees, Cached
  <2>2. Agrees(w) <=> /\ workCache[w] # None /\ workCache[w].status = work[w].status
                      /\ Progressing(w, workCache[w]) = Progressing(w, work[w])
    BY DEF Agrees, Cached
  <2>3. CASE work'[w] = work[w] /\ workCache'[w] = workCache[w]
    BY <1>1, <1>2, <1>3, <1>5, <2>1, <2>2, <2>3
  <2>4. CASE work'[w] = work[w] /\ workCache'[w] = work[w] /\ now' = now
    BY <1>1, <1>5, <2>1, <2>4
  <2>5. CASE Moves(w) /\ now' = now
    BY <1>2, <2>5 DEF Moves
  <2>6. CASE Regenerates(w) /\ workCache'[w] = workCache[w] /\ now' = now
    BY <1>1, <2>1, <2>2, <2>6 DEF Regenerates
  <2>7. CASE work'[w] = Fresh(w) /\ now' = now
    BY <1>2, <1>5, <2>7, FreshIs
  <2> QED BY <1>5, <2>3, <2>4, <2>5, <2>6, <2>7, WorkSteps
<1> QED BY <1>4, <1>5

LEMMA HistoryStep ==
    ASSUME TypeOK, TypeOK', CacheInv, HistoryInv, [Next]_vars
    PROVE  HistoryInv'
<1> SUFFICES ASSUME NEW w \in Workloads, w \notin excused', work'[w] # None
             PROVE  /\ workCache'[w] # None /\ workCache'[w].gen <= work'[w].gen
                    /\ workCache'[w].since <= work'[w].since
  BY DEF HistoryInv, Cached
<1>1. w \notin excused
  BY WorkSteps
<1>2. work[w] # None => /\ workCache[w] # None /\ workCache[w].gen <= work[w].gen
                        /\ workCache[w].since <= work[w].since /\ work[w].since <= now
  BY <1>1 DEF HistoryInv, Cached, CacheInv
<1>3. /\ now \in Nat
      /\ work[w] # None => work[w].since \in Nat /\ work[w].gen \in Nat
      /\ workCache[w] # None => workCache[w].since \in Nat /\ workCache[w].gen \in Nat
      /\ work'[w].since \in Nat /\ work'[w].gen \in Nat
  <2>1. work'[w] \in WorkStates(w)
    BY DEF TypeOK
  <2>2. work'[w].since \in Nat /\ work'[w].gen \in Nat
    BY <2>1, WorkNumbers
  <2> QED BY <2>2, Numbers
<1>4. CASE work'[w] = work[w] /\ workCache'[w] = workCache[w]
  BY <1>2, <1>4
<1>5. CASE work'[w] = work[w] /\ workCache'[w] = work[w]
  BY <1>3, <1>5
<1>6. CASE Moves(w) /\ workCache'[w] = workCache[w]
  BY <1>2, <1>3, <1>6 DEF Moves
<1>7. CASE Regenerates(w) /\ workCache'[w] = workCache[w]
  BY <1>2, <1>3, <1>7 DEF Regenerates
<1>8. \/ work'[w] = work[w] /\ workCache'[w] \in {workCache[w], work[w]}
      \/ workCache'[w] = workCache[w] /\ (Moves(w) \/ Regenerates(w))
  BY WorkSteps
<1> QED BY <1>4, <1>5, <1>6, <1>7, <1>8

\* What is kept of a workload in the cache says since when it makes no progress.
LEMMA KeptMatches ==
    ASSUME TypeOK, openshift, NEW w \in Workloads, Cached(w), PodState(w) # None
    PROVE  Matches(w, workCache[w], PodState(w))
<1>1. Progressing(w, workCache[w])
  BY PodStateIs
<1>2. PodState(w).status = workCache[w].status
  BY <1>1, PodStateIs, SeenIs
<1> QED BY <1>1, <1>2 DEF Matches, Cached

LEMMA RestingWorker ==
    ASSUME TypeOK, Settled, NEW w \in Workloads
    PROVE  /\ req # w /\ workCache[w] = work[w] /\ lastCache[w] = lastSeen[w]
           /\ due[w] # None => due[w] > now
BY NoneAssumption DEF Settled, TypeOK

LEMMA HonestSeen ==
    ASSUME TypeOK, TypeOK', CacheInv, HonestInv, [Next]_vars, NEW w \in Workloads, w \notin excused',
           workCache'[w] # None, lastSeen'[w] # None
    PROVE  \/ due'[w] # None /\ due'[w] <= now'
           \/ due'[w] # None /\ due'[w] <= lastSeen'[w].time + Resync
           \/ Matches(w, workCache'[w], lastSeen'[w])
           \/ req' = w /\ lastSeen'[w].time = now'
<1>1. w \notin excused
  BY WorkSteps
<1>2. ASSUME NEW u \in Workloads, SetFromPods(u), lastSeen'[w] = PodState(w), openshift
      PROVE  Matches(w, workCache'[w], lastSeen'[w])
  <2>1. workCache'[w] = workCache[w]
    BY <1>2, Writes
  <2> QED BY <1>2, <2>1, KeptMatches DEF Cached
<1>3. CASE SetFromPods(w)
  <2>1. req' = w /\ now' = now
    BY <1>3 DEF SetFromPods
  <2>2. CASE lastSeen'[w] = PodState(w) /\ openshift
    BY <1>2, <1>3, <2>2
  <2>3. CASE lastSeen'[w] = lastSeen[w]
    <3>1. openshift
      BY <2>3 DEF TypeOK
    <3>2. CASE lastSeen[w] = lastCache[w]
      BY <1>2, <1>3, <2>3, <3>1, <3>2, Writes, <2>2
    <3>3. CASE lastSeen[w] # lastCache[w]
      BY <2>1, <2>3, <3>3 DEF CacheInv
    <3> QED BY <3>2, <3>3
  <2> QED BY <1>3, <2>2, <2>3, Writes
<1>4. CASE /\ workCache'[w] = workCache[w] /\ lastSeen'[w] = lastSeen[w]
           /\ due[w] # None => due'[w] # None /\ due'[w] <= due[w]
           /\ req = w => \/ req' = w
                         \/ due'[w] # None /\ due'[w] <= now + Resync
  <2>1. \/ due[w] # None /\ due[w] <= now
        \/ due[w] # None /\ due[w] <= lastSeen[w].time + Resync
        \/ Matches(w, workCache[w], lastSeen[w])
        \/ req = w /\ lastSeen[w].time = now
    BY <1>1, <1>4 DEF HonestInv, Due, Cached
  <2>2. /\ now \in Nat /\ now' \in Nat /\ Resync \in Nat /\ lastSeen[w].time \in Nat
        /\ due[w] # None => due[w] \in Nat
        /\ due'[w] # None => due'[w] \in Nat
    BY <1>4, Numbers, TimeAssumption, BoundAssumption DEF TypeOK
  <2>3. now <= now' /\ (now' # now => req # w)
    BY <2>2, TimeSteps, RestingWorker DEF Tick
  <2>4. CASE due[w] # None /\ due[w] <= now
    BY <1>4, <2>2, <2>3, <2>4
  <2>5. CASE due[w] # None /\ due[w] <= lastSeen[w].time + Resync
    BY <1>4, <2>2, <2>5
  <2>6. CASE Matches(w, workCache[w], lastSeen[w])
    BY <1>4, <2>6
  <2>7. CASE req = w /\ lastSeen[w].time = now
    BY <1>4, <2>2, <2>3, <2>7
  <2> QED BY <2>1, <2>4, <2>5, <2>6, <2>7
<1>5. \/ lastSeen'[w] = lastSeen[w]
      \/ \E u \in Workloads : SetFromPods(u) /\ lastSeen'[w] = PodState(w) /\ openshift
  BY LastSteps, Writes
<1>6. Cached(w)'
  BY DEF Cached
<1> QED BY <1>2, <1>3, <1>4, <1>5, <1>6, Requests

LEMMA HonestCached ==
    ASSUME TypeOK, TypeOK', CacheInv, CacheInv', HonestInv, [Next]_vars, NEW w \in Workloads,
           w \notin excused', work'[w] # None, lastCache'[w] # None
    PROVE  IF Matches(w, work'[w], lastCache'[w])
           THEN work'[w].since <= lastCache'[w].time + Resync
           ELSE work'[w].since = now' \/ now' <= lastCache'[w].time + Resync
<1>1. w \notin excused
  BY WorkSteps
<1>2. /\ now \in Nat /\ now' \in Nat /\ Resync \in Nat /\ lastCache'[w].time \in Nat
      /\ work'[w].since \in Nat /\ work'[w].since <= now'
  <2>1. work'[w] \in WorkStates(w) /\ lastCache'[w] \in Entries
    BY DEF TypeOK
  <2>2. work'[w].since \in Nat /\ lastCache'[w].time \in Nat
    BY <2>1, WorkNumbers, BoundAssumption DEF Entries
  <2> QED BY <2>2, Numbers, BoundAssumption DEF TypeOK, CacheInv
<1>3. \/ lastCache'[w] = lastCache[w]
      \/ lastCache'[w].time = now /\ now' = now
  <2>1. CASE lastCache'[w] = lastSeen[w] /\ now' = now
    BY <2>1 DEF CacheInv
  <2>2. lastCache'[w] = lastCache[w] \/ (lastCache'[w] = lastSeen[w] /\ now' = now)
    BY LastSteps, Writes
  <2> QED BY <2>1, <2>2
<1>4. CASE lastCache'[w].time = now /\ now' = now
  BY <1>2, <1>4
<1>5. ASSUME work[w] # None, lastCache'[w] = lastCache[w]
      PROVE  IF Matches(w, work[w], lastCache[w])
             THEN work[w].since <= lastCache[w].time + Resync
             ELSE work[w].since = now \/ now <= lastCache[w].time + Resync
  BY <1>1, <1>5 DEF HonestInv
<1>6. CASE lastCache'[w] = lastCache[w] /\ work'[w] = work[w]
  <2>1. CASE now' = now
    BY <1>5, <1>6, <2>1
  <2>2. CASE Tick /\ now' = now + 1
    <3>1. /\ req # w /\ workCache[w] = work[w] /\ lastCache[w] = lastSeen[w]
          /\ due[w] # None => due[w] > now
      BY <2>2, RestingWorker DEF Tick
    <3>2. CASE Matches(w, work[w], lastCache[w])
      BY <1>5, <1>6, <3>2
    <3>3. CASE ~Matches(w, work[w], lastCache[w])
      <4>1. Cached(w) /\ lastSeen[w] # None /\ ~Matches(w, workCache[w], lastSeen[w])
        BY <1>6, <3>1, <3>3 DEF Cached
      <4>2. (due[w] # None /\ due[w] <= now) \/ (due[w] # None /\ due[w] <= lastSeen[w].time + Resync)
        BY <1>1, <3>1, <4>1 DEF HonestInv, Due
      <4>3. due[w] # None => due[w] \in Nat
        BY Numbers
      <4>4. now + 1 <= lastCache[w].time + Resync
        BY <1>2, <1>6, <3>1, <4>2, <4>3
      <4> QED BY <1>6, <2>2, <3>3, <4>4
    <3> QED BY <3>2, <3>3
  <2> QED BY <2>1, <2>2, TimeSteps
<1>7. CASE lastCache'[w] = lastCache[w] /\ Moves(w) /\ now' = now
  <2>1. /\ work[w] # None /\ work'[w].since = now /\ work[w].since # now
        /\ \/ work'[w].status # work[w].status
           \/ Progressing(w, work'[w]) # Progressing(w, work[w])
    BY <1>7 DEF Moves
  <2>2. CASE Matches(w, work'[w], lastCache'[w])
    <3>1. ~Matches(w, work[w], lastCache[w])
      BY <1>7, <2>1, <2>2 DEF Matches
    <3> QED BY <1>5, <1>7, <2>1, <2>2, <3>1
  <2>3. CASE ~Matches(w, work'[w], lastCache'[w])
    BY <1>7, <2>1, <2>3
  <2> QED BY <2>2, <2>3
<1>8. CASE lastCache'[w] = lastCache[w] /\ Regenerates(w) /\ now' = now
  <2>1. Matches(w, work'[w], lastCache'[w]) <=> Matches(w, work[w], lastCache[w])
    BY <1>8 DEF Regenerates, Matches
  <2>2. work[w] # None /\ work'[w].since = work[w].since
    BY <1>8 DEF Regenerates
  <2> QED BY <1>5, <1>8, <2>1, <2>2
<1>9. work'[w] = work[w] \/ ((Moves(w) \/ Regenerates(w)) /\ now' = now)
  BY WorkSteps
<1> QED BY <1>3, <1>4, <1>6, <1>7, <1>8, <1>9

LEMMA HonestStep ==
    ASSUME TypeOK, TypeOK', CacheInv, CacheInv', HonestInv, [Next]_vars
    PROVE  HonestInv'
BY HonestSeen, HonestCached DEF HonestInv, Cached, Due

\* A workload that changes differs from what the cache shows.
LEMMA Differs ==
    ASSUME TypeOK, TypeOK', CacheInv, HistoryInv, NEW w \in Workloads,
           w \notin excused, w \notin excused', work[w] # None,
           Moves(w) \/ Regenerates(w) \/ work'[w] = None
    PROVE  workCache[w] # work'[w]
<1>1. /\ workCache[w] # None /\ workCache[w].gen <= work[w].gen
      /\ workCache[w].since <= work[w].since /\ work[w].since <= now
  BY DEF HistoryInv, Cached, CacheInv
<1>2. /\ now \in Nat /\ workCache[w].gen \in Nat /\ workCache[w].since \in Nat
      /\ work[w].gen \in Nat /\ work[w].since \in Nat
  BY <1>1, Numbers
<1>3. CASE work'[w] = None
  BY <1>1, <1>3
<1>4. CASE Moves(w)
  <2>1. work'[w].since = now /\ work[w].since # now
    BY <1>4 DEF Moves
  <2> QED BY <1>1, <1>2, <2>1
<1>5. CASE Regenerates(w) /\ work'[w] # None
  <2>1. work'[w].gen >= work[w].gen /\ work'[w].gen # work[w].gen
    BY <1>5 DEF Regenerates
  <2>2. work'[w].gen \in Nat
    BY <1>5, WorkNumbers DEF TypeOK
  <2> QED BY <1>1, <1>2, <2>1, <2>2
<1> QED BY <1>3, <1>4, <1>5

\* A request that is due is taken, or stays.
LEMMA DueStays ==
    ASSUME TypeOK, [Next]_vars, NEW w \in Workloads, ~SetFromPods(w), ~Restart
    PROVE  /\ due[w] # None => due'[w] # None /\ due'[w] <= due[w]
           /\ workCache'[w] # workCache[w] => due'[w] # None /\ due'[w] <= now
<1>0. now \in Times /\ (due[w] # None => due[w] \in Nat)
  BY Numbers
<1>1. ASSUME NEW u \in Workloads, SetFromPods(u), u # w
      PROVE  workCache'[w] = workCache[w] /\ due'[w] = due[w]
  BY <1>1 DEF SetFromPods, TypeOK, caches
<1>2. CASE WorkerStep
  <2>1. workCache' = workCache /\ step # "idle" /\ req \in Workloads
    BY <1>2 DEF WorkerStep, NotRecreate, Recreate, RecreateWaits, RecreateFails, RecreatePods,
                RecreatePodsFails, caches, TypeOK
  <2>2. \/ req' = req /\ due' = due
        \/ Done \/ Retry(now) \/ (Retry(now + 1) /\ ~Cached(req))
    BY <1>2 DEF WorkerStep, NotRecreate, Recreate, RecreateWaits, RecreateFails, RecreatePods,
                RecreatePodsFails, Recreated, Missing, Cached
  <2>3. CASE due' = due
    BY <1>0, <2>1, <2>3
  <2>4. CASE Done \/ Retry(now) \/ (Retry(now + 1) /\ ~Cached(req))
    BY <2>1, <2>4, WorkerLeaves
  <2> QED BY <2>2, <2>3, <2>4
<1>3. ASSUME NEW u \in Workloads, WorkInformed(u)
      PROVE  /\ due[w] # None => due'[w] # None /\ due'[w] <= due[w]
             /\ workCache'[w] # workCache[w] => due'[w] # None /\ due'[w] <= now
  <2>1. due' = Earlier(u, now)
    BY <1>3 DEF WorkInformed
  <2>2. u # w => workCache'[w] = workCache[w]
    BY <1>3 DEF WorkInformed, TypeOK
  <2> QED BY <1>0, <2>1, <2>2, EarlierIs
<1>5. CASE LastInformed \/ (\E p \in Pods : PodInformed(p)) \/ Cluster \/ Tick \/ UNCHANGED vars
  <2>1. UNCHANGED <<workCache, due>>
    BY <1>5, ClusterParts DEF LastInformed, PodInformed, Tick, vars, caches
  <2> QED BY <1>0, <2>1
<1> QED
  BY <1>0, <1>1, <1>2, <1>3, <1>5 DEF Next, Reconcile, WorkerStep

\* Only a look at the workloads raises the level, and a restart forgets it.
LEMMA HungSteps ==
    ASSUME TypeOK, [Next]_vars
    PROVE  /\ openshift' = openshift
           /\ \/ \E u \in Workloads : SetFromPods(u)
              \/ Restart /\ ~hung'
              \/ ~Restart /\ (hung' <=> hung)
<1>1. CASE Restart
  BY <1>1, Zenon DEF Restart
<1>2. CASE (\E u \in Workloads : SetFromPods(u)) /\ ~Restart
  BY <1>2 DEF SetFromPods
<1>3. CASE ~Restart /\ ~\E u \in Workloads : SetFromPods(u)
  <2>1. ASSUME Cluster PROVE openshift' = openshift /\ hung' = hung
    BY <2>1, ClusterParts
  <2>2. ASSUME ~Cluster PROVE openshift' = openshift /\ hung' = hung
    BY <1>3, <2>2 DEF Next, Reconcile, NotRecreate, Recreate, RecreateWaits, RecreateFails,
       RecreatePods, RecreatePodsFails, WorkInformed, LastInformed, PodInformed, Tick, vars
  <2>3. openshift' = openshift /\ hung' = hung
    BY <2>1, <2>2
  <2> QED BY <1>3, <2>3, Zenon
<1> QED BY <1>1, <1>2, <1>3

\* A rollout is found hung because of the entry in the cache, which is for its status.
LEMMA HungBy ==
    ASSUME TypeOK, NEW v \in Workloads
    PROVE  IsHung(v) <=> /\ openshift /\ Matches(v, workCache[v], lastCache[v])
                         /\ now - lastCache[v].time > ProgressTimeout
<1>1. now - now <= ProgressTimeout /\ now - now = 0
  BY Numbers
<1>2. CASE ~openshift
  BY <1>2 DEF IsHung, LastPodState
<1>3. CASE openshift /\ workCache[v] # None /\ Progressing(v, workCache[v]) /\ lastCache[v] # None
  <2>1. PodState(v) = IF lastCache[v].status = workCache[v].status
                      THEN lastCache[v] ELSE Seen(workCache[v].status)
    BY <1>3, PodStateIs DEF Cached
  <2>2. CASE lastCache[v].status = workCache[v].status
    BY <1>3, <2>1, <2>2 DEF IsHung, LastPodState, Matches
  <2>3. CASE lastCache[v].status # workCache[v].status
    <3>1. PodState(v).time = now
      BY <2>1, <2>3 DEF Seen
    <3>2. ~(now - PodState(v).time > ProgressTimeout)
      BY <1>1, <3>1, Numbers
    <3> QED BY <2>3, <3>2 DEF IsHung, Matches
  <2> QED BY <2>2, <2>3
<1>4. CASE openshift /\ ~(workCache[v] # None /\ Progressing(v, workCache[v]) /\ lastCache[v] # None)
  BY <1>4 DEF IsHung, LastPodState, Matches
<1> QED BY <1>2, <1>3, <1>4

LEMMA RaisedStep ==
    ASSUME TypeOK, TypeOK', CacheInv, HistoryInv, HonestInv, RaisedInv, [Next]_vars
    PROVE  RaisedInv'
<1> SUFFICES ASSUME hung'
             PROVE  /\ openshift'
                    /\ \E w \in Workloads :
                          \/ w \in excused'
                          \/ workCache'[w] # work'[w] \/ (due'[w] # None /\ due'[w] <= now')
                          \/ /\ work'[w] # None /\ Progressing(w, work'[w])
                             /\ now' - work'[w].since > ProgressTimeout - Resync
  BY DEF RaisedInv, Due, Rolling
<1>1. ASSUME NEW u \in Workloads, SetFromPods(u)
      PROVE  /\ openshift'
             /\ \E w \in Workloads :
                  \/ w \in excused'
                  \/ workCache'[w] # work'[w] \/ (due'[w] # None /\ due'[w] <= now')
                  \/ /\ work'[w] # None /\ Progressing(w, work'[w])
                     /\ now' - work'[w].since > ProgressTimeout - Resync
  <2>1. PICK v \in Workloads : IsHung(v)
    BY <1>1 DEF SetFromPods
  <2>2. /\ openshift /\ Matches(v, workCache[v], lastCache[v])
        /\ now - lastCache[v].time > ProgressTimeout
    BY <2>1, HungBy
  <2>3. openshift' = openshift /\ UNCHANGED <<work, workCache, now>> /\ excused \subseteq excused'
    BY <1>1, HungSteps, Writes, WorkSteps
  <2>4. CASE v \notin excused /\ workCache[v] = work[v]
    <3>1. work[v] # None /\ lastCache[v] # None /\ Progressing(v, work[v])
      BY <2>2, <2>4 DEF Matches
    <3>2. work[v].since <= lastCache[v].time + Resync
      BY <2>2, <2>4, <3>1 DEF HonestInv
    <3>3. now - work[v].since > ProgressTimeout - Resync
      BY <2>2, <3>1, <3>2, Numbers
    <3> QED BY <2>2, <2>3, <3>1, <3>3
  <2> QED BY <2>2, <2>3, <2>4
<1>2. CASE hung /\ ~Restart /\ ~\E u \in Workloads : SetFromPods(u)
  <2>1. openshift /\ openshift' = openshift /\ now <= now' /\ now \in Nat /\ now' \in Nat
    <3>1. openshift
      BY <1>2 DEF RaisedInv
    <3>2. now <= now' /\ now \in Nat /\ now' \in Nat
      BY TimeSteps, BoundAssumption DEF TypeOK
    <3> QED BY <3>1, <3>2, HungSteps
  <2>2. PICK w \in Workloads :
            \/ w \in excused
            \/ workCache[w] # work[w] \/ (due[w] # None /\ due[w] <= now)
            \/ /\ work[w] # None /\ Progressing(w, work[w])
               /\ now - work[w].since > ProgressTimeout - Resync
    BY <1>2 DEF RaisedInv, Due, Rolling
  <2>3. CASE w \in excused'
    BY <2>1, <2>3
  <2>4. CASE due[w] # None /\ due[w] <= now
    <3>1. due'[w] # None /\ due'[w] <= due[w]
      BY <1>2, <2>4, DueStays
    <3>2. due[w] \in Nat /\ due'[w] \in Nat
      BY <2>4, <3>1, TimeAssumption, BoundAssumption DEF TypeOK
    <3> QED BY <2>1, <2>4, <3>1, <3>2
  <2>5. CASE workCache'[w] # work'[w]
    BY <2>1, <2>5
  <2>6. CASE w \notin excused' /\ workCache'[w] = work'[w] /\ workCache[w] # work[w]
    <3>1. w \notin excused
      BY <2>6, WorkSteps
    <3>2. CASE work'[w] = work[w]
      <4>1. workCache'[w] # workCache[w] /\ now' = now
        BY <2>6, <3>2, WorkSteps
      <4> QED BY <1>2, <2>1, <4>1, DueStays
    <3>3. CASE work[w] # None /\ (Moves(w) \/ Regenerates(w) \/ work'[w] = None) /\ workCache'[w] = workCache[w]
      BY <2>6, <3>1, <3>3, Differs
    <3>4. \/ work'[w] = work[w]
          \/ work[w] # None /\ (Moves(w) \/ Regenerates(w) \/ work'[w] = None) /\ workCache'[w] = workCache[w]
      BY <2>6, WorkSteps DEF Moves, Regenerates
    <3> QED BY <3>2, <3>3, <3>4
  <2>7. CASE /\ w \notin excused' /\ workCache'[w] = work'[w] /\ work[w] # None
             /\ Progressing(w, work[w]) /\ now - work[w].since > ProgressTimeout - Resync
    <3>1. w \notin excused
      BY <2>7, WorkSteps
    <3>2. CASE work'[w] = work[w]
      BY <2>1, <2>7, <3>2, Numbers
    <3>3. CASE (Moves(w) \/ Regenerates(w) \/ work'[w] = None) /\ workCache'[w] = workCache[w]
      BY <2>7, <3>1, <3>3, Differs
    <3>4. \/ work'[w] = work[w]
          \/ (Moves(w) \/ Regenerates(w) \/ work'[w] = None) /\ workCache'[w] = workCache[w]
      BY <2>7, WorkSteps
    <3> QED BY <3>2, <3>3, <3>4
  <2>8. w \in excused => w \in excused'
    BY WorkSteps
  <2> QED BY <2>2, <2>3, <2>4, <2>5, <2>6, <2>7, <2>8
<1> QED BY <1>1, <1>2, HungSteps

LEMMA HungStep ==
    ASSUME TypeOK, TypeOK', CacheInv, RequestInv, RequestInv', HungInv, [Next]_vars
    PROVE  HungInv'
<1> SUFFICES ASSUME NEW w \in Workloads, openshift', Matches(w, workCache'[w], lastCache'[w]),
                    ~hung', ~(due'[w] # None /\ due'[w] <= now')
             PROVE  \/ due'[w] # None /\ due'[w] <= lastCache'[w].time + ProgressTimeout + Resync
                    \/ req' = w /\ now' <= lastCache'[w].time + ProgressTimeout
  BY DEF HungInv, Matches, Due
<1>0. openshift /\ workCache'[w] # None /\ lastCache'[w] # None
  BY HungSteps DEF Matches
<1>1. /\ now \in Nat /\ now' \in Nat /\ now <= now' /\ Resync \in Nat /\ ProgressTimeout \in Nat
      /\ lastCache'[w].time \in Nat
      /\ due[w] # None => due[w] \in Nat
      /\ due'[w] # None => due'[w] \in Nat
  <2>1. lastCache'[w] \in Entries
    BY <1>0 DEF TypeOK
  <2>2. lastCache'[w].time \in Nat
    BY <2>1, BoundAssumption DEF Entries
  <2>3. now' \in Nat /\ (due'[w] # None => due'[w] \in Nat)
    BY TimeAssumption, BoundAssumption DEF TypeOK
  <2> QED BY <2>2, <2>3, TimeSteps, Numbers
<1>2. ~Restart
  <2>1. Restart => due'[w] = now /\ now' = now
    BY <1>0 DEF Restart, Events
  <2> QED BY <1>1, <2>1, EntryAssumption
<1>3. CASE lastCache'[w] # lastCache[w]
  <2>1. lastCache'[w].time = now /\ now' = now
    BY <1>0, <1>3, LastSteps, Writes DEF CacheInv
  <2>2. req' = w \/ (due'[w] # None /\ due'[w] <= now' + Resync)
    BY <1>0 DEF RequestInv, Cached, Due
  <2> QED BY <1>1, <2>1, <2>2
<1>4. ASSUME NEW u \in Workloads, SetFromPods(u), lastCache'[w] = lastCache[w]
      PROVE  now <= lastCache'[w].time + ProgressTimeout /\ now' = now
  <2>1. ~IsHung(w)
    BY <1>4 DEF SetFromPods
  <2>2. workCache'[w] = workCache[w] /\ now' = now
    BY <1>4, Writes
  <2>3. ~(now - lastCache[w].time > ProgressTimeout)
    BY <1>0, <1>4, <2>1, <2>2, HungBy
  <2> QED BY <1>1, <1>4, <2>2, <2>3
<1>5. CASE SetFromPods(w) /\ lastCache'[w] = lastCache[w]
  BY <1>4, <1>5 DEF SetFromPods
<1>6. CASE /\ lastCache'[w] = lastCache[w] /\ workCache'[w] = workCache[w]
           /\ due[w] # None => due'[w] # None /\ due'[w] <= due[w]
           /\ req = w => \/ req' = w
                         \/ due'[w] # None /\ due'[w] <= now + Resync
  <2>1. CASE \E u \in Workloads : SetFromPods(u)
    <3>1. now <= lastCache'[w].time + ProgressTimeout
      BY <1>4, <1>6, <2>1
    <3>2. req # w
      BY <2>1, NoneAssumption DEF SetFromPods, TypeOK
    <3>3. due[w] # None /\ due[w] <= now + Resync
      BY <1>0, <1>6, <3>2 DEF RequestInv, Cached, Due
    <3> QED BY <1>1, <1>6, <3>1, <3>3
  <2>2. CASE ~\E u \in Workloads : SetFromPods(u)
    <3>1. ~hung
      BY <1>2, <2>2, HungSteps
    <3>2. \/ due[w] # None /\ due[w] <= now
          \/ due[w] # None /\ due[w] <= lastCache[w].time + ProgressTimeout + Resync
          \/ req = w /\ now <= lastCache[w].time + ProgressTimeout
      BY <1>0, <1>6, <3>1 DEF HungInv, Due
    <3>3. now' # now => req # w
      BY <1>1, TimeSteps, RestingWorker DEF Tick
    <3> QED BY <1>1, <1>6, <3>2, <3>3
  <2> QED BY <2>1, <2>2
<1> QED BY <1>0, <1>3, <1>5, <1>6, Requests DEF Cached

\* The periods until the deadline.
LEMMA Periods ==
    ASSUME NEW f \in Nat
    PROVE  /\ Resync * (1 + f) \in Nat /\ Resync * (1 + f) >= Resync
           /\ Resync * (1 + (f + 1)) = Resync * (1 + f) + Resync
           /\ Resync * (2 + f) = Resync * (1 + f) + Resync
<1>1. Resync \in Nat
  BY TimeAssumption
<1>2. Resync * f \in Nat /\ Resync * (1 + f) = Resync + Resync * f
  BY <1>1
<1>3. Resync * (2 + f) = Resync + Resync + Resync * f
  BY <1>1
<1>4. 1 + (f + 1) = 2 + f
  OBVIOUS
<1> QED BY <1>1, <1>2, <1>3, <1>4

LEMMA FaultSteps ==
    ASSUME TypeOK, [Next]_vars
    PROVE  faults' = faults \/ faults' = faults + 1
<1>1. CASE Cluster
  BY <1>1, ClusterParts
<1>2. CASE ~Cluster
  BY <1>2 DEF Next, Reconcile, SetFromPods, SetLastPodState, NotRecreate, Recreate, RecreateWaits,
     RecreateFails, RecreatePods, RecreatePodsFails, WorkInformed, LastInformed, PodInformed,
     Restart, Fault, Tick, vars
<1> QED BY <1>1, <1>2

\* The deadline of a workload moves only with its time, and away.
LEMMA Deadlines ==
    ASSUME TypeOK, TypeOK', [Next]_vars, NEW w \in Workloads, work'[w] # None
    PROVE  /\ Deadline(w)' \in Nat /\ Deadline(w)' >= work'[w].since + Resync
           /\ work'[w].since \in Nat
           /\ work[w] # None /\ work'[w].since = work[w].since =>
                 /\ Deadline(w) \in Nat /\ Deadline(w)' >= Deadline(w)
                 /\ faults' = faults + 1 => Deadline(w)' = Deadline(w) + Resync
<1>1. work'[w].since \in Nat
  BY WorkNumbers DEF TypeOK
<1>2. faults \in Nat /\ faults' \in Nat /\ Resync \in Nat
  BY BoundAssumption, TimeAssumption DEF TypeOK
<1>3. Deadline(w)' = work'[w].since + Resync * (1 + faults')
  BY DEF Deadline
<1>4. Deadline(w) = work[w].since + Resync * (1 + faults)
  BY DEF Deadline
<1> DEFINE A == Resync * (1 + faults)
           B == Resync * (1 + faults')
<1>5. A \in Nat /\ B \in Nat /\ B >= Resync
  BY <1>2, Periods
<1>6. faults' = faults + 1 => B = A + Resync
  BY <1>2, Periods
<1>7. B = A \/ (faults' = faults + 1 /\ B = A + Resync)
  BY <1>6, FaultSteps
<1> HIDE DEF A, B
<1>8. Deadline(w)' = work'[w].since + B /\ Deadline(w) = work[w].since + A
  BY <1>3, <1>4 DEF A, B
<1> QED BY <1>1, <1>2, <1>5, <1>6, <1>7, <1>8

\* A rollout goes on in a step, if it does not start with it.
LEMMA GoesOn ==
    ASSUME TypeOK, TypeOK', [Next]_vars, NEW w \in Workloads, Rolling(w)', work'[w].since # now'
    PROVE  /\ Rolling(w) /\ work'[w].since = work[w].since /\ work'[w].status = work[w].status
           /\ \A e : Matches(w, work'[w], e) <=> Matches(w, work[w], e)
           /\ work[w].since # now \/ Tick
<1>1. CASE work'[w] = work[w]
  <2>1. Rolling(w)
    BY <1>1 DEF Rolling
  <2>2. work[w].since # now \/ Tick
    BY <1>1, TimeSteps
  <2> QED BY <1>1, <2>1, <2>2
<1>2. CASE Regenerates(w) /\ now' = now
  <2>1. Rolling(w) /\ Rolling(w)' /\ Progressing(w, work'[w]) = Progressing(w, work[w])
    BY <1>2 DEF Regenerates, Rolling
  <2>2. work'[w].since = work[w].since /\ work'[w].status = work[w].status
    BY <1>2 DEF Regenerates
  <2> QED BY <1>2, <2>1, <2>2 DEF Matches, Rolling
<1>3. work'[w] # None
  BY DEF Rolling
<1>4. ~(Moves(w) /\ now' = now) /\ ~(work'[w] = Fresh(w) /\ now' = now)
  BY <1>3, FreshIs DEF Moves
<1> QED BY <1>1, <1>2, <1>3, <1>4, WorkSteps

\* What a request keeps of a rollout that is not new.
LEMMA EntryKept ==
    ASSUME TypeOK, CacheInv, openshift, NEW w \in Workloads, Rolling(w), work[w].since # now
    PROVE  PodState(w) = IF Matches(w, work[w], lastCache[w]) THEN lastCache[w]
                                                            ELSE Seen(work[w].status)
<1>1. Agrees(w) /\ Progressing(w, work[w])
  BY DEF CacheInv, Rolling
<1>2. Cached(w) /\ workCache[w].status = work[w].status /\ Progressing(w, workCache[w])
  BY <1>1 DEF Agrees
<1>3. PodState(w) = IF lastCache[w] # None /\ lastCache[w].status = workCache[w].status
                    THEN lastCache[w] ELSE Seen(workCache[w].status)
  BY <1>2, PodStateIs
<1>4. Matches(w, work[w], lastCache[w]) <=> lastCache[w] # None /\ lastCache[w].status = work[w].status
  BY <1>1 DEF Matches, Rolling
<1> QED BY <1>2, <1>3, <1>4

LEMMA SeenMatches ==
    ASSUME TypeOK, NEW w \in Workloads, Rolling(w)
    PROVE  /\ Matches(w, work[w], Seen(work[w].status))
           /\ Seen(work[w].status).time = now
<1>1. work[w] \in WorkStates(w)
  BY DEF TypeOK, Rolling
<1>2. Seen(work[w].status) \in Entries
  BY <1>1 DEF Seen, Entries, TypeOK, WorkStates
<1>3. Seen(work[w].status) # None
  BY <1>2, EntryAssumption
<1> QED BY <1>3 DEF Matches, Rolling, Seen

LEMMA EntrySame ==
    ASSUME TypeOK, TypeOK', CacheInv, EntryInv, [Next]_vars, NEW w \in Workloads,
           openshift, Rolling(w)', work'[w].since < now', Matches(w, work'[w], lastCache'[w])
    PROVE  lastSeen'[w] = lastCache'[w]
<1>0. work'[w].since # now'
  BY BoundAssumption, Deadlines DEF TypeOK, Rolling
<1>1. /\ Rolling(w) /\ work'[w].since = work[w].since
      /\ Matches(w, work[w], lastCache'[w]) /\ (work[w].since # now \/ Tick)
  BY <1>0, GoesOn
<1>2. CASE Tick
  <2>1. UNCHANGED <<lastSeen, lastCache>>
    BY <1>2 DEF Tick, caches
  <2> QED BY <1>2, <2>1, RestingWorker DEF Tick
<1>3. CASE ~Tick
  <2>1. now' = now /\ work[w].since < now
    BY <1>1, <1>3, TimeSteps
  <2>2. Matches(w, work[w], lastCache[w]) => lastSeen[w] = lastCache[w]
    BY <1>1, <2>1 DEF EntryInv
  <2>3. ASSUME NEW u \in Workloads, SetFromPods(u) PROVE lastSeen'[w] = lastCache'[w]
    <3>1. lastCache'[w] = lastCache[w]
      BY <2>3, Writes
    <3>2. PodState(w) = lastCache[w]
      BY <1>1, <1>3, <3>1, EntryKept
    <3> QED BY <1>1, <2>2, <2>3, <3>1, <3>2, Writes
  <2> QED BY <1>1, <2>2, <2>3, LastSteps
<1> QED BY <1>2, <1>3

LEMMA EntryByDeadline ==
    ASSUME TypeOK, TypeOK', CacheInv, RequestInv', EntryInv, [Next]_vars, NEW w \in Workloads,
           openshift, Rolling(w)'
    PROVE  \/ Matches(w, work'[w], lastSeen'[w]) /\ lastSeen'[w].time <= Deadline(w)'
           \/ /\ now' <= Deadline(w)'
              /\ \/ workCache'[w] = None \/ (due'[w] # None /\ due'[w] <= Deadline(w)')
                 \/ req' = w /\ now' + Resync <= Deadline(w)'
<1>0. work'[w] # None
  BY DEF Rolling
<1>1. PICK D, E : D = Deadline(w) /\ E = Deadline(w)'
  OBVIOUS
<1>2. /\ E \in Nat /\ E >= work'[w].since + Resync
      /\ work'[w].since \in Nat
      /\ work[w] # None /\ work'[w].since = work[w].since =>
            /\ D \in Nat /\ E >= D
            /\ faults' = faults + 1 => E = D + Resync
  BY <1>0, <1>1, Deadlines
<1>3. /\ now \in Nat /\ now' \in Nat /\ now <= now' /\ Resync \in Nat
      /\ lastSeen[w] # None => lastSeen[w].time \in Nat
      /\ lastCache[w] # None => lastCache[w].time \in Nat
      /\ due[w] # None => due[w] \in Nat
      /\ due'[w] # None => due'[w] \in Nat
  <2>1. now' \in Nat /\ (due'[w] # None => due'[w] \in Nat)
    BY TimeAssumption, BoundAssumption DEF TypeOK
  <2> QED BY <2>1, Numbers, TimeSteps
<1>4. ASSUME now' + Resync <= E
      PROVE  /\ now' <= E
             /\ \/ workCache'[w] = None \/ (due'[w] # None /\ due'[w] <= E)
                \/ req' = w /\ now' + Resync <= E
  <2>1. workCache'[w] = None \/ req' = w \/ (due'[w] # None /\ due'[w] <= now' + Resync)
    BY DEF RequestInv, Cached, Due
  <2>2. \A a, b, c, d \in Nat : a + b <= c => a <= c /\ (d <= a + b => d <= c)
    OBVIOUS
  <2>3. now' \in Nat /\ Resync \in Nat /\ E \in Nat /\ (due'[w] # None => due'[w] \in Nat)
    BY <1>2, <1>3
  <2>4. now' <= E /\ (due'[w] # None /\ due'[w] <= now' + Resync => due'[w] <= E)
    BY <1>4, <2>2, <2>3
  <2> QED BY <1>4, <2>1, <2>4
<1>5. CASE work'[w].since = now'
  BY <1>1, <1>2, <1>4, <1>5
<1>6. CASE work'[w].since # now'
  <2>1. /\ Rolling(w) /\ work[w] # None /\ work'[w].since = work[w].since
        /\ \A e : Matches(w, work'[w], e) <=> Matches(w, work[w], e)
        /\ work[w].since # now \/ Tick
    BY <1>6, GoesOn DEF Rolling
  <2>2. D \in Nat /\ E >= D /\ (faults' = faults + 1 => E = D + Resync)
    BY <1>2, <2>1
  <2>3. \/ Matches(w, work[w], lastSeen[w]) /\ lastSeen[w].time <= D
        \/ /\ now <= D
           /\ \/ ~Cached(w) \/ (due[w] # None /\ due[w] <= D)
              \/ req = w /\ now + Resync <= D
    BY <1>1, <2>1 DEF EntryInv, Due
  <2>4. CASE lastSeen'[w] = lastSeen[w] /\ Matches(w, work[w], lastSeen[w]) /\ lastSeen[w].time <= D
    <3>1. Matches(w, work'[w], lastSeen'[w])
      BY <2>1, <2>4
    <3>2. lastSeen[w] # None
      BY <2>4 DEF Matches
    <3>3. lastSeen[w].time <= E
      BY <1>2, <1>3, <2>2, <2>4, <3>2
    <3> QED BY <1>1, <2>4, <3>1, <3>3
  <2>5. ASSUME NEW u \in Workloads, SetFromPods(u)
        PROVE  \/ Matches(w, work'[w], lastSeen'[w]) /\ lastSeen'[w].time <= E
               \/ now' + Resync <= E
               \/ lastSeen'[w] = lastSeen[w] /\ Matches(w, work[w], lastSeen[w]) /\ lastSeen[w].time <= D
    <3>1. ~Tick
      BY <2>5 DEF SetFromPods, Tick, Settled, worker
    <3>2. now' = now /\ work[w].since # now /\ work[w].since < now
      <4>1. now' = now /\ work[w].since # now
        BY <2>1, <3>1, TimeSteps
      <4>2. work[w].since <= now /\ work[w].since \in Nat
        BY <2>1, Numbers DEF CacheInv
      <4> QED BY <1>3, <4>1, <4>2
    <3>3. PodState(w) = IF Matches(w, work[w], lastCache[w]) THEN lastCache[w]
                                                           ELSE Seen(work[w].status)
      BY <2>1, <3>2, EntryKept
    <3>4. Matches(w, work[w], lastCache[w]) => lastSeen[w] = lastCache[w]
      BY <2>1, <3>2 DEF EntryInv
    <3>5. CASE lastSeen'[w] = PodState(w) \/ (lastSeen'[w] = lastSeen[w] /\ PodState(w) = lastCache[w])
      <4>1. CASE Matches(w, work[w], lastCache[w])
        <5>1. lastSeen'[w] = lastCache[w] /\ lastSeen[w] = lastCache[w] /\ lastCache[w] # None
          BY <3>3, <3>4, <3>5, <4>1 DEF Matches
        <5>2. lastCache[w].time <= now
          BY <5>1 DEF CacheInv
        <5>3. lastCache[w].time <= D
          BY <1>3, <2>2, <2>3, <5>1, <5>2
        <5> QED BY <4>1, <5>1, <5>3
      <4>2. CASE ~Matches(w, work[w], lastCache[w])
        <5>1. PodState(w) = Seen(work[w].status) /\ Matches(w, work[w], Seen(work[w].status))
              /\ Seen(work[w].status).time = now
          BY <2>1, <3>3, <4>2, SeenMatches
        <5>2. lastSeen'[w] = Seen(work[w].status)
          BY <3>5, <4>2, <5>1
        <5>3. now <= D
          <6>1. CASE Matches(w, work[w], lastSeen[w]) /\ lastSeen[w].time <= D
            <7>1. lastSeen[w] # None /\ lastSeen[w] # lastCache[w]
              BY <4>2, <6>1 DEF Matches
            <7>2. lastSeen[w].time = now
              BY <7>1 DEF CacheInv
            <7> QED BY <6>1, <7>2
          <6> QED BY <2>3, <6>1
        <5>4. now <= E
          BY <1>2, <1>3, <2>2, <5>3
        <5> QED BY <2>1, <5>1, <5>2, <5>4
      <4> QED BY <4>1, <4>2
    <3>6. CASE lastSeen'[w] = lastSeen[w] /\ faults' = faults + 1
      <4>1. CASE now <= D
        BY <1>3, <2>2, <3>2, <3>6, <4>1
      <4> QED BY <2>3, <3>6, <4>1
    <3> QED BY <2>5, <3>5, <3>6, Writes
  <2>6. CASE /\ lastSeen'[w] = lastSeen[w] /\ ~\E u \in Workloads : SetFromPods(u)
             /\ now <= D
             /\ \/ ~Cached(w) \/ (due[w] # None /\ due[w] <= D)
                \/ req = w /\ now + Resync <= D
    <3>1. CASE Tick
      <4>1. UNCHANGED <<workCache, due>> /\ now' = now + 1 /\ Settled
        BY <3>1 DEF Tick, caches
      <4>2. req # w /\ workCache[w] = work[w] /\ (due[w] # None => due[w] > now)
        BY <4>1, RestingWorker
      <4>3. due[w] # None /\ due[w] <= D
        BY <2>1, <2>6, <4>2 DEF Cached
      <4>4. now' <= D
        BY <1>3, <2>2, <4>1, <4>2, <4>3
      <4> QED BY <1>1, <1>2, <1>3, <2>2, <4>1, <4>3, <4>4
    <3>2. CASE ~Tick
      <4>1. now' = now /\ now' <= E
        BY <1>2, <1>3, <2>2, <2>6, <3>2, TimeSteps
      <4>2. CASE workCache'[w] = None \/ (due'[w] # None /\ due'[w] <= now')
        BY <1>1, <1>2, <1>3, <4>1, <4>2
      <4>3. CASE /\ workCache'[w] = workCache[w] /\ workCache'[w] # None
                 /\ due[w] # None => due'[w] # None /\ due'[w] <= due[w]
                 /\ req = w => \/ req' = w
                               \/ due'[w] # None /\ due'[w] <= now + Resync
        <5>1. (due[w] # None /\ due[w] <= D) \/ (req = w /\ now + Resync <= D)
          BY <2>6, <4>3 DEF Cached
        <5>2. (due'[w] # None /\ due'[w] <= E) \/ (req' = w /\ now' + Resync <= E)
          BY <1>2, <1>3, <2>2, <4>1, <4>3, <5>1
        <5> QED BY <1>1, <4>1, <5>2
      <4> QED BY <2>6, <4>2, <4>3, Requests DEF Cached
    <3> QED BY <3>1, <3>2
  <2>7. (~\E u \in Workloads : SetFromPods(u)) => lastSeen'[w] = lastSeen[w]
    BY LastSteps
  <2> QED BY <1>1, <1>4, <2>3, <2>4, <2>5, <2>6, <2>7
<1> QED BY <1>5, <1>6

LEMMA EntryStep ==
    ASSUME TypeOK, TypeOK', CacheInv, RequestInv', EntryInv, [Next]_vars
    PROVE  EntryInv'
<1>1. openshift' = openshift
  BY HungSteps
<1> QED BY <1>1, EntrySame, EntryByDeadline DEF EntryInv, Cached, Due
--------------------------------------------------------------------------------
(* The theorems *)

\* The inductive invariant.
TimingInv ==
    /\ TypeOK /\ RequestInv /\ PodInv
    /\ CacheInv /\ HistoryInv /\ HonestInv /\ RaisedInv
    /\ EntryInv /\ HungInv

LEMMA InitTiming == Init => TimingInv
<1> SUFFICES ASSUME Init PROVE TimingInv
  OBVIOUS
<1>1. TypeOK /\ now = 1 /\ faults = 0 /\ ~hung
  <2>1. ~hung
    BY Zenon DEF Init
  <2> QED BY <2>1, InitType DEF Init
<1>2. ASSUME NEW w \in Workloads
      PROVE  /\ workCache[w] = work[w] /\ lastSeen[w] = None /\ lastCache[w] = None
             /\ work[w] # None => due[w] # None /\ due[w] = 1 /\ work[w].since = 0
  BY EntryAssumption DEF Init, Events
<1>3. RequestInv
  BY <1>1, <1>2, TimeAssumption DEF RequestInv, Cached, Due
<1>4. PodInv
  BY DEF Init, PodInv
<1>5. CacheInv
  BY <1>1, <1>2 DEF CacheInv, Agrees, Cached
<1>6. HistoryInv
  <2>1. ASSUME NEW w \in Workloads, work[w] # None
        PROVE  workCache[w].gen <= work[w].gen /\ workCache[w].since <= work[w].since
    BY <1>1, <1>2, <2>1, Numbers
  <2> QED BY <1>2, <2>1 DEF HistoryInv, Cached
<1>7. HonestInv
  BY <1>2 DEF HonestInv
<1>8. RaisedInv
  BY <1>1 DEF RaisedInv
<1>9. EntryInv
  <2> SUFFICES ASSUME NEW w \in Workloads, Rolling(w)
               PROVE  /\ now <= Deadline(w) /\ due[w] # None /\ due[w] <= Deadline(w)
                      /\ lastSeen[w] = lastCache[w]
    BY DEF EntryInv, Due
  <2>1. Resync * (1 + faults) \in Nat /\ Resync * (1 + faults) >= Resync
    BY <1>1, Periods
  <2>2. Deadline(w) >= 1
    BY <1>2, <2>1, TimeAssumption DEF Deadline, Rolling
  <2> QED BY <1>1, <1>2, <2>2 DEF Rolling
<1>10. HungInv
  BY <1>2 DEF HungInv, Matches
<1> QED BY <1>1, <1>3, <1>4, <1>5, <1>6, <1>7, <1>8, <1>9, <1>10 DEF TimingInv

LEMMA TimingStep == TimingInv /\ [Next]_vars => TimingInv'
<1> SUFFICES ASSUME TimingInv, [Next]_vars PROVE TimingInv'
  OBVIOUS
<1>1. /\ TypeOK /\ RequestInv /\ PodInv
      /\ CacheInv /\ HistoryInv /\ HonestInv /\ RaisedInv
      /\ EntryInv /\ HungInv
  BY DEF TimingInv
<1>2. TypeOK'
  BY <1>1, StepType
<1>3. RequestInv' /\ CacheInv'
  BY <1>1, <1>2, RequestStep, CacheStep
<1>4. PodInv' /\ HistoryInv' /\ HonestInv' /\ RaisedInv'
  BY <1>1, <1>2, <1>3, PodStep, HistoryStep, HonestStep, RaisedStep
<1>5. EntryInv' /\ HungInv'
  BY <1>1, <1>2, <1>3, EntryStep, HungStep
<1> QED BY <1>2, <1>3, <1>4, <1>5 DEF TimingInv

LEMMA Timing == Spec => []TimingInv
BY InitTiming, TimingStep, PTL DEF Spec

\* Whatever the number of pods and workloads and the resync period: an agent pod that
\* crashes because of its resolv.conf is deleted within a resync period, as the request of
\* the DaemonSet goes on whatever fails (recreateNodeAgentPodsIfInvalidResolvConf).
THEOREM RestartedCorrect == Spec => []RestartedInTime
<1>1. TimingInv => RestartedInTime
  <2> SUFFICES ASSUME TimingInv, Settled, work[NodeAgentDs] # None,
                      NEW p \in Pods, pod[p].state = "resolvconf"
               PROVE  now - pod[p].since < Resync
    BY DEF RestartedInTime
  <2>1. TypeOK /\ NodeAgentDs \in Workloads
    BY WorkloadAssumption DEF TimingInv, Workloads
  <2>2. /\ req # NodeAgentDs /\ workCache[NodeAgentDs] = work[NodeAgentDs]
        /\ due[NodeAgentDs] # None => due[NodeAgentDs] > now
    BY <2>1, RestingWorker
  <2>3. /\ due[NodeAgentDs] # None
        /\ due[NodeAgentDs] <= now \/ due[NodeAgentDs] <= pod[p].since + Resync
    BY <2>2 DEF TimingInv, PodInv, Cached, Due
  <2>4. now \in Nat /\ Resync \in Nat /\ pod[p].since \in Nat /\ due[NodeAgentDs] \in Nat
    BY <2>1, <2>3, Numbers, BoundAssumption DEF TypeOK, PodRecords
  <2> QED BY <2>2, <2>3, <2>4
<1> QED BY <1>1, Timing, PTL

\* For all periods, statuses and bounds: once a moment's work is done, RolloutHung is
\* raised only for a rollout whose status has not changed for ProgressTimeout less a resync
\* period, unless its history cannot be known (SetFromPodsForOverall).
THEOREM HungIsHonest == Spec => []HungHonest
<1>1. TimingInv => HungHonest
  <2> SUFFICES ASSUME TimingInv, Settled, hung
               PROVE  /\ openshift
                      /\ \E w \in Workloads :
                            \/ w \in excused
                            \/ Rolling(w) /\ now - work[w].since > ProgressTimeout - Resync
    BY DEF HungHonest
  <2>1. TypeOK /\ RaisedInv
    BY DEF TimingInv
  <2>2. \A w \in Workloads : workCache[w] = work[w] /\ (due[w] # None => due[w] > now)
    BY <2>1, RestingWorker
  <2>3. \A w \in Workloads : ~Due(w, now)
    BY <2>1, <2>2, Numbers DEF Due
  <2> QED BY <2>1, <2>2, <2>3 DEF RaisedInv
<1> QED BY <1>1, Timing, PTL

\* For all periods, statuses and bounds, and any number of failures and restarts: a rollout
\* whose status does not change is reported as RolloutHung in time.
THEOREM HungIsInTime == Spec => []HungInTime
<1>1. TimingInv => HungInTime
  <2> SUFFICES ASSUME TimingInv, openshift, Settled, NEW w \in Workloads, Rolling(w),
                      now - work[w].since > ProgressTimeout + Resync * (2 + faults)
               PROVE  hung
    BY DEF HungInTime
  <2>1. TypeOK /\ CacheInv /\ EntryInv /\ HungInv
    BY DEF TimingInv
  <2>2. /\ req # w /\ workCache[w] = work[w] /\ lastCache[w] = lastSeen[w]
        /\ due[w] # None => due[w] > now
    BY <2>1, RestingWorker
  <2>3. /\ now \in Nat /\ ProgressTimeout \in Nat /\ Resync \in Nat /\ work[w].since \in Nat
        /\ due[w] # None => due[w] \in Nat
        /\ lastSeen[w] # None => lastSeen[w].time \in Nat
    BY <2>1, Numbers DEF Rolling
  <2>4. PICK R \in Nat : R = Resync * (1 + faults) /\ Resync * (2 + faults) = R + Resync
    BY <2>1, Numbers, Periods
  <2>5. Deadline(w) = work[w].since + R
    BY <2>4 DEF Deadline
  <2>6. now > work[w].since + R + ProgressTimeout + Resync
    BY <2>3, <2>4
  <2>7. ~(now <= Deadline(w))
    BY <2>3, <2>4, <2>5, <2>6
  <2>8. Matches(w, work[w], lastSeen[w]) /\ lastSeen[w].time <= Deadline(w)
    BY <2>1, <2>7 DEF EntryInv
  <2>9. lastSeen[w] # None
    BY <2>8 DEF Matches
  <2>10. hung \/ (due[w] # None /\ (due[w] <= now
                                    \/ due[w] <= lastCache[w].time + ProgressTimeout + Resync))
    BY <2>1, <2>2, <2>8 DEF HungInv, Due
  <2>11. lastCache[w].time + ProgressTimeout + Resync < now
    BY <2>2, <2>3, <2>4, <2>5, <2>6, <2>8, <2>9
  <2>12. ~(due[w] # None /\ (due[w] <= now \/ due[w] <= lastCache[w].time + ProgressTimeout + Resync))
    BY <2>2, <2>3, <2>9, <2>11
  <2> QED BY <2>10, <2>12
<1> QED BY <1>1, Timing, PTL
================================================================================
