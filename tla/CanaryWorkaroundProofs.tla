------------------------- MODULE CanaryWorkaroundProofs -------------------------
(***************************************************************************)
(* Proofs about CanaryWorkaround: type correctness, and that the companion *)
(* is in step with its inputs whenever the controller rests, for all       *)
(* addresses, entries of the Service, changes and faults.                  *)
(***************************************************************************)
EXTENDS CanaryWorkaround, TLAPS

(* What is not yet told of is all that the caches lack; unless a request is *)
(* queued or news are out, what the worker has read is still true.          *)
CacheInv == \A k \in Kinds \ {"companion"} : k \notin news => cached[k] = World[k]

Quiet == ~queued /\ news \subseteq {"companion"}

SeenInv ==
    /\ step # "idle" => seen.canaryNetPol = cached.canaryNetPol \/ queued
    /\ step \in {"ports", "apply"} => seen.ips = cached.ips \/ queued
    /\ step = "apply" => /\ seen.svc = cached.svc \/ queued
                         /\ CanaryServicePorts(seen.svc) # {}
    /\ step = "delete" => ~Needed(seen.canaryNetPol)

IInv == TypeOK /\ CacheInv /\ SeenInv /\ RestInStep
--------------------------------------------------------------------------------
(* Type correctness *)

LEMMA PortsType ==
  ASSUME NEW s \in (SUBSET ServicePorts) \cup {None}
  PROVE  CanaryServicePorts(s) \subseteq Nat
<1>1. CASE s = None
  BY <1>1 DEF CanaryServicePorts
<1>2. CASE s # None
  <2>1. ASSUME NEW p \in s PROVE p.port \in Nat /\ p.target \in Nat
    <3>1. p \in [tcp : BOOLEAN, port : Nat \ {0}, target : Nat]
      BY <1>2, PortsAssumption
    <3> QED
      BY <3>1
  <2>2. CanaryServicePorts(s) = {IF p.target # 0 THEN p.target ELSE p.port : p \in {q \in s : q.tcp}}
    BY <1>2 DEF CanaryServicePorts
  <2> QED
    BY <2>1, <2>2
<1> QED
  BY <1>1, <1>2

LEMMA PolicyType ==
  ASSUME NEW i \in InputType, Needed(i.canaryNetPol)
  PROVE  WorkaroundPolicy(i.canaryNetPol, i.ips, CanaryServicePorts(i.svc)) \in Policies
<1>1. i.canaryNetPol.uid \in 0 .. MaxChanges /\ i.ips \subseteq IPs
  BY DEF InputType, Needed
<1>2. CanaryServicePorts(i.svc) \subseteq Nat
  BY PortsType DEF InputType
<1> QED
  BY <1>1, <1>2 DEF WorkaroundPolicy, Policies

LEMMA WriteType ==
  ASSUME TypeOK, NEW p \in Policies \cup {None}, Write(p)
  PROVE  companion' \in Policies \cup {None} /\ news' \subseteq Kinds
BY DEF Write, TypeOK, Kinds

LEMMA InitType == Init => TypeOK
<1> SUFFICES ASSUME Init PROVE TypeOK
  OBVIOUS
<1>1. World \in InputType
  BY BoundAssumption DEF Init, World, InputType
<1>2. companion \in Policies \cup {None}
  <2>1. CanaryServicePorts(svc) \subseteq Nat
    BY PortsType DEF Init
  <2> QED
    BY <2>1, BoundAssumption DEF Init, Policies
<1>3. queued \in BOOLEAN
  BY Zenon DEF Init
<1> QED
  BY <1>1, <1>2, <1>3, BoundAssumption DEF Init, TypeOK

LEMMA ReconcileType ==
  ASSUME TypeOK, Reconcile
  PROVE  TypeOK'
<1>1. UNCHANGED inputs /\ World' = World /\ UNCHANGED cached
  BY DEF Reconcile, Start, DeleteWorkaroundPolicy, ListNodeIPs, ReadPorts, Apply, Fails,
         inputs, World
<1>2. CASE Start
  BY <1>1, <1>2 DEF Start, TypeOK, InputType
<1>3. CASE DeleteWorkaroundPolicy
  BY <1>1, <1>3, WriteType DEF DeleteWorkaroundPolicy, TypeOK
<1>4. CASE ListNodeIPs
  BY <1>1, <1>4 DEF ListNodeIPs, TypeOK, InputType
<1>5. CASE ReadPorts
  BY <1>1, <1>5 DEF ReadPorts, TypeOK, InputType
<1>6. CASE Apply
  BY <1>1, <1>6, WriteType, PolicyType DEF Apply, TypeOK
<1>7. CASE Fails
  <2>1. faults' \in 0 .. MaxFaults
    BY <1>7, BoundAssumption DEF Fails, Fault, TypeOK
  <2> QED
    BY <1>1, <1>7, <2>1 DEF Fails, TypeOK
<1> QED
  BY <1>2, <1>3, <1>4, <1>5, <1>6, <1>7 DEF Reconcile

LEMMA OtherType ==
  ASSUME TypeOK, (\E k \in Kinds : Informed(k)) \/ Restart \/ CollectGarbage
  PROVE  TypeOK'
<1>1. UNCHANGED inputs /\ World' = World
  BY DEF Informed, Restart, CollectGarbage, inputs, World
<1>2. ASSUME NEW k \in Kinds, Informed(k) PROVE TypeOK'
  <2>1. cached' \in InputType
    BY <1>2 DEF Informed, TypeOK, InputType, World, Kinds
  <2>2. queued' \in BOOLEAN
    BY <1>2, Zenon DEF Informed
  <2> QED
    BY <1>1, <1>2, <2>1, <2>2 DEF Informed, TypeOK, worker
<1>3. CASE Restart
  <2>1. queued' \in BOOLEAN
    BY <1>3, Zenon DEF Restart
  <2>2. faults' \in 0 .. MaxFaults
    BY <1>3, BoundAssumption DEF Restart, Fault, TypeOK
  <2> QED
    BY <1>1, <1>3, <2>1, <2>2 DEF Restart, TypeOK
<1>4. CASE CollectGarbage
  BY <1>1, <1>4, WriteType DEF CollectGarbage, TypeOK, worker
<1> QED
  BY <1>2, <1>3, <1>4

LEMMA ChangeType ==
  ASSUME TypeOK, Cluster, ~CollectGarbage
  PROVE  TypeOK'
<1>1. ASSUME NEW k \in Kinds, Changed(k)
      PROVE  changes' \in 1 .. MaxChanges /\ news' \subseteq Kinds /\ UNCHANGED <<cached, queued, worker, faults>>
  BY <1>1, BoundAssumption DEF Changed, TypeOK
<1>2. \E k \in Kinds : Changed(k)
  BY DEF Cluster, CreatePolicy, EditPolicy, DeletePolicy, ChangeNodes, ChangeService, Tamper, Kinds
<1>3. canaryNetPol' \in {None} \cup [uid : 0 .. MaxChanges, host : BOOLEAN]
  <2>1. canaryNetPol \in {None} \cup [uid : 0 .. MaxChanges, host : BOOLEAN]
    BY DEF TypeOK, InputType, World
  <2>2. ASSUME NEW host \in BOOLEAN, CreatePolicy(host) PROVE canaryNetPol' \in [uid : 0 .. MaxChanges, host : BOOLEAN]
    BY <1>1, <1>2, <2>2, BoundAssumption DEF CreatePolicy
  <2>3. EditPolicy => canaryNetPol' \in {None} \cup [uid : 0 .. MaxChanges, host : BOOLEAN]
    BY <2>1 DEF EditPolicy
  <2>4. DeletePolicy => canaryNetPol' = None
    BY DEF DeletePolicy
  <2> QED
    BY <2>1, <2>2, <2>3, <2>4 DEF Cluster, ChangeNodes, ChangeService, Tamper, inputs
<1>4. ips' \subseteq IPs /\ svc' \in (SUBSET ServicePorts) \cup {None}
  BY DEF Cluster, CreatePolicy, EditPolicy, DeletePolicy, ChangeNodes, ChangeService,
     Tamper, TypeOK, InputType, World, inputs
<1>5. companion' \in Policies \cup {None}
  BY DEF Cluster, CreatePolicy, EditPolicy, DeletePolicy, ChangeNodes, ChangeService,
     Tamper, TypeOK, Policies
<1>6. World' \in InputType
  BY <1>3, <1>4 DEF World, InputType
<1> QED
  BY <1>1, <1>2, <1>5, <1>6 DEF TypeOK, worker

LEMMA StepType == TypeOK /\ [Next]_vars => TypeOK'
<1> SUFFICES ASSUME TypeOK, [Next]_vars PROVE TypeOK'
  OBVIOUS
<1>1. CASE UNCHANGED vars
  BY <1>1 DEF vars, inputs, worker, World, TypeOK
<1> QED
  BY <1>1, ReconcileType, OtherType, ChangeType DEF Next, Cluster

\* The variables keep their types; the worker builds a companion only for an upstream
\* policy that it has found and that needs one (Reconcile, buildWorkaroundPolicy).
THEOREM TypeCorrect == Spec => []TypeOK
BY InitType, StepType, PTL DEF Spec
--------------------------------------------------------------------------------
(* In step at rest *)

LEMMA ReconcileCache ==
  ASSUME IInv, Reconcile
  PROVE  CacheInv'
<1>1. UNCHANGED <<inputs, cached>> /\ World' = World /\ news \subseteq news'
  BY DEF Reconcile, Start, DeleteWorkaroundPolicy, ListNodeIPs, ReadPorts, Apply, Fails, Write,
         inputs, World
<1> QED
  BY <1>1 DEF IInv, CacheInv

LEMMA ReconcileSeen ==
  ASSUME IInv, Reconcile
  PROVE  SeenInv'
<1> USE DEF IInv, SeenInv
<1>1. CASE Start
  BY <1>1 DEF Start, TypeOK, InputType
<1>2. CASE DeleteWorkaroundPolicy
  BY <1>2 DEF DeleteWorkaroundPolicy
<1>3. CASE ListNodeIPs
  BY <1>3 DEF ListNodeIPs, TypeOK, InputType
<1>4. CASE ReadPorts
  BY <1>4 DEF ReadPorts, TypeOK, InputType
<1>5. CASE Apply
  BY <1>5 DEF Apply
<1>6. CASE Fails
  BY <1>6 DEF Fails
<1> QED
  BY <1>1, <1>2, <1>3, <1>4, <1>5, <1>6 DEF Reconcile

\* What was read last is what there is, if nothing is queued or to be told.
LEMMA QuietCache ==
  ASSUME IInv, news \subseteq {"companion"}
  PROVE  cached = World
<1>1. cached \in InputType /\ World \in InputType
  BY DEF IInv, TypeOK
<1>2. cached.canaryNetPol = World.canaryNetPol /\ cached.ips = World.ips /\ cached.svc = World.svc
  BY DEF IInv, CacheInv, Kinds
<1> QED
  BY <1>1, <1>2 DEF InputType

LEMMA ReconcileRest ==
  ASSUME IInv, Reconcile
  PROVE  RestInStep'
<1> SUFFICES ASSUME news' = {}, ~queued', step' = "idle" PROVE InStep'
  BY DEF RestInStep
<1>1. UNCHANGED inputs
  BY DEF Reconcile, Start, DeleteWorkaroundPolicy, ListNodeIPs, ReadPorts, Apply, Fails
<1>2. news = {} /\ (companion' # companion => FALSE)
  BY DEF Reconcile, Start, DeleteWorkaroundPolicy, ListNodeIPs, ReadPorts, Apply, Fails, Write
<1>3. cached = World
  BY <1>2, QuietCache
<1>4. CASE Start
  BY <1>4 DEF Start
<1>5. CASE DeleteWorkaroundPolicy
  BY <1>1, <1>3, <1>5 DEF DeleteWorkaroundPolicy, Write, IInv, SeenInv, InStep, World, inputs
<1>6. CASE ListNodeIPs
  <2>1. ips = {}
    BY <1>3, <1>6 DEF ListNodeIPs, World
  <2>2. Needed(canaryNetPol)
    BY <1>3, <1>6 DEF ListNodeIPs, IInv, TypeOK, SeenInv, World
  <2> QED
    BY <1>1, <2>1, <2>2 DEF InStep, inputs, Needed
<1>7. CASE ReadPorts
  <2>1. CanaryServicePorts(svc) = {}
    BY <1>3, <1>7 DEF ReadPorts, World
  <2>2. Needed(canaryNetPol)
    BY <1>3, <1>7 DEF ReadPorts, IInv, TypeOK, SeenInv, World
  <2> QED
    BY <1>1, <2>1, <2>2 DEF InStep, inputs, Needed, CanaryServicePorts
<1>8. CASE Apply
  <2>1. seen.canaryNetPol = canaryNetPol /\ seen.ips = ips /\ seen.svc = svc
    BY <1>3, <1>8 DEF Apply, IInv, SeenInv, World
  <2>2. Needed(canaryNetPol)
    BY <1>8, <2>1 DEF Apply, IInv, TypeOK
  <2>3. companion' = WorkaroundPolicy(canaryNetPol, ips, CanaryServicePorts(svc))
    BY <1>8, <2>1 DEF Apply, Write
  <2> QED
    BY <1>1, <2>2, <2>3 DEF InStep, inputs, Needed, CanaryServicePorts, WorkaroundPolicy
<1>9. CASE Fails
  BY <1>9 DEF Fails
<1> QED
  BY <1>4, <1>5, <1>6, <1>7, <1>8, <1>9 DEF Reconcile

LEMMA OtherIInv ==
  ASSUME IInv, (\E k \in Kinds : Informed(k)) \/ Restart \/ CollectGarbage
  PROVE  CacheInv' /\ SeenInv' /\ RestInStep'
<1>1. UNCHANGED inputs /\ World' = World
  BY DEF Informed, Restart, CollectGarbage, inputs, World
<1>2. ASSUME NEW k \in Kinds, Informed(k) PROVE CacheInv' /\ SeenInv' /\ RestInStep'
  <2>1. queued' = TRUE
    BY <1>2 DEF Informed, Watched
  <2>2. CacheInv'
    BY <1>1, <1>2 DEF Informed, IInv, CacheInv, TypeOK, InputType, World, Kinds
  <2>3. SeenInv'
    BY <1>2, <2>1 DEF Informed, IInv, SeenInv, worker
  <2> QED
    BY <2>1, <2>2, <2>3 DEF RestInStep
<1>3. CASE Restart
  <2>1. CacheInv' /\ SeenInv'
    BY <1>1, <1>3 DEF Restart, CacheInv, SeenInv
  <2>2. ~queued' => InStep'
    BY <1>1, <1>3 DEF Restart, InStep, inputs, Needed
  <2> QED
    BY <2>1, <2>2 DEF RestInStep
<1>4. CASE CollectGarbage
  <2>1. news' = news \cup {"companion"}
    BY <1>4 DEF CollectGarbage, Write
  <2> QED
    BY <1>1, <1>4, <2>1 DEF CollectGarbage, IInv, CacheInv, SeenInv, RestInStep, worker
<1> QED
  BY <1>2, <1>3, <1>4

LEMMA ChangeIInv ==
  ASSUME IInv, Cluster, ~CollectGarbage
  PROVE  CacheInv' /\ SeenInv' /\ RestInStep'
<1>1. PICK k \in Kinds : Changed(k) /\ \A j \in Kinds \ {"companion", k} : World'[j] = World[j]
  BY DEF Cluster, CreatePolicy, EditPolicy, DeletePolicy, ChangeNodes, ChangeService, Tamper,
     Kinds, World, inputs
<1>2. news' = news \cup {k} /\ UNCHANGED <<cached, queued, worker>>
  BY <1>1 DEF Changed
<1> QED
  BY <1>1, <1>2 DEF IInv, CacheInv, SeenInv, RestInStep, worker

LEMMA InitIInv == Init => IInv
<1> SUFFICES ASSUME Init PROVE IInv
  OBVIOUS
<1>1. ~queued => InStep
  BY DEF Init, InStep, Needed
<1> QED
  BY <1>1, InitType DEF Init, IInv, CacheInv, SeenInv, RestInStep

LEMMA StepIInv == IInv /\ [Next]_vars => IInv'
<1> SUFFICES ASSUME IInv, [Next]_vars PROVE IInv'
  OBVIOUS
<1>1. TypeOK'
  BY StepType DEF IInv
<1>2. CASE UNCHANGED vars
  <2>1. CacheInv' /\ SeenInv'
    BY <1>2 DEF vars, inputs, worker, IInv, CacheInv, SeenInv, World
  <2>2. InStep' = InStep
    BY <1>2 DEF vars, inputs, InStep
  <2> QED
    BY <1>1, <1>2, <2>1, <2>2 DEF vars, worker, IInv, RestInStep
<1>3. CASE Reconcile
  BY <1>1, <1>3, ReconcileCache, ReconcileSeen, ReconcileRest DEF IInv
<1> QED
  BY <1>1, <1>2, <1>3, OtherIInv, ChangeIInv DEF IInv, Next, Cluster

\* Whenever the controller has nothing queued, under way or to be told, the companion policy
\* is the one that the upstream policy, the nodes and the Service ask for, whatever was
\* read from lagging caches, edited, collected or lost in a restart before (Reconcile).
THEOREM InStepAtRest == Spec => []RestInStep
<1>1. IInv => RestInStep
  BY DEF IInv
<1> QED
  BY <1>1, InitIInv, StepIInv, PTL DEF Spec
================================================================================
