-------------------------- MODULE NodeConditionProofs --------------------------
(***************************************************************************)
(* Theorems about NodeCondition, for all nodes, pods, containers and       *)
(* periods and every bound on changes, faults, restarts and time.          *)
(***************************************************************************)
EXTENDS NodeCondition, TLAPS

(* What the operator knows of a pod that has run through its grace time is *)
(* true: the copy in the cache of a running process, and the one that a    *)
(* full sync has listed.                                                   *)
AgedInv == \A p \in Pods : /\ Aged(pod[p], now) => p \in stable
                           /\ on /\ Aged(podCache[p], now) => p \in stable
                           /\ Aged(todo[p], now) => p \in stable

IInv == TypeOK /\ AgedInv
--------------------------------------------------------------------------------
(* Lemmas about the operators *)

\* What is said of a pod is a condition.
LEMMA JudgeType ==
    ASSUME NEW p \in Pods, NEW s \in PodStatus
    PROVE  Judge(p, s) \in Condition
BY DEF Judge, Ready, NotReady, Pending, Down, Condition

\* A pod that counts as ready has run through its grace time.
LEMMA JudgeReady ==
    ASSUME NEW p \in Pods, NEW s \in PodStatus, now \in Nat, Judge(p, s).ready
    PROVE  Aged(s, now)
<1>1. s.start # 0 /\ Down(s) = {} /\ Young(s) = {}
  BY DEF Judge, Ready, NotReady, Pending
<1>2. s # None
  BY NoneAssumption
<1>3. ASSUME NEW c \in Containers
      PROVE  s.up[c] # 0 /\ now - s.up[c] >= Grace
  <2>1. s.up[c] # 0 /\ ~(now - s.up[c] < Grace)
    BY <1>1 DEF Down, Young
  <2>2. s.up[c] \in Nat
    BY DEF PodStatus
  <2> QED BY <2>1, <2>2, TimeAssumption
<1> QED BY <1>1, <1>2, <1>3 DEF Aged

\* Whatever becomes of an update, nodes keep their types.
LEMMA UpdateType ==
    ASSUME NodeType, NEW n \in Nodes, NEW new \in Condition,
           UpdateSucceeds(n, new) \/ UpdateFails(n, new)
    PROVE  NodeType'
<1>1. CASE UpdateSucceeds(n, new)
  BY <1>1 DEF NodeType, UpdateSucceeds
<1>2. CASE UpdateFails(n, new)
  BY <1>2 DEF NodeType, UpdateFails, Fault, nodes
<1> QED BY <1>1, <1>2

\* An update changes no other node and gives this one the new condition.
LEMMA UpdateReady ==
    ASSUME NodeType, NEW n \in Nodes, NEW new \in Condition,
           UpdateSucceeds(n, new) \/ UpdateFails(n, new),
           NEW m \in Nodes, ~IsReady(m), IsReady(m)'
    PROVE  m = n /\ new.ready
BY DEF NodeType, UpdateSucceeds, UpdateFails, nodes, IsReady

\* RequeueAfter gives a time.
LEMMA LaterType ==
    ASSUME NEW t \in Nat, req \in Pods \cup {Other},
           due \in [Pods \cup {Other} -> Nat], Later(t)
    PROVE  due' \in [Pods \cup {Other} -> Nat]
BY DEF Later

\* A pod's start time is noted as a time.
LEMMA NoteStartType ==
    ASSUME NEW p \in Pods, NEW s \in PodStatus,
           lastStart \in [Nodes -> Nat], NoteStart(p, s)
    PROVE  lastStart' \in [Nodes -> Nat]
BY NodeAssumption DEF NoteStart, PodStatus
--------------------------------------------------------------------------------
(* Type correctness *)

\* The worker touches neither the cluster nor the pods' cache.
LEMMA WorkerFrame ==
    ASSUME Worker
    PROVE  UNCHANGED <<now, pod, stable, born, changes, podCache, on, restarts>>
BY DEF Worker, SyncNode, SyncPod, SyncDone, Ignore, SetNodeCondition, AssertNodeStatus,
       world, process

LEMMA InitType == Init => TypeOK
<1> SUFFICES ASSUME Init PROVE TypeOK
  OBVIOUS
<1>1. pod \in [Pods -> PodStatus \cup {None}]
  BY DEF Init, PodStatus
<1>2. WorldType
  BY <1>1, NodeAssumption, TimeAssumption DEF Init, WorldType, Aged, Other
<1>3. NodeType
  BY DEF Init, NodeType, NoAgent, Condition
<1>4. WorkType
  BY DEF Init, WorkType, NoTodo
<1> QED BY <1>2, <1>3, <1>4 DEF TypeOK

LEMMA WorldTypeStep ==
    ASSUME TypeOK, [Next]_vars
    PROVE  WorldType'
<1> USE DEF TypeOK, WorldType
<1>1. CASE UNCHANGED world
  BY <1>1 DEF world
<1>2. CASE Changes
  <2> SUFFICES ASSUME NEW p \in Pods, NEW C \in SUBSET Containers,
                      \/ CreatePod(p) \/ StartPod(p) \/ DeletePod(p)
                      \/ StartContainers(p, C) \/ StopContainers(p, C)
               PROVE  WorldType'
    BY <1>2 DEF Changes
  <2>1. CASE CreatePod(p)
    BY <2>1, NodeAssumption DEF CreatePod, Cluster, NewPod, PodStatus
  <2>2. CASE StartPod(p)
    BY <2>2 DEF StartPod, Cluster, PodStatus
  <2>3. CASE DeletePod(p)
    BY <2>3 DEF DeletePod, Cluster
  <2>4. CASE StartContainers(p, C)
    BY <2>4 DEF StartContainers, Cluster, PodStatus
  <2>5. CASE StopContainers(p, C)
    BY <2>5 DEF StopContainers, Cluster, PodStatus
  <2> QED BY <2>1, <2>2, <2>3, <2>4, <2>5
<1>3. CASE Tick
  BY <1>3 DEF Tick
<1>4. CASE Worker
  BY <1>1, <1>4, WorkerFrame DEF world
<1>5. CASE \/ \E r \in Pods \cup {Other} : Take(r) \/ RequeueDue(r)
           \/ \E p \in Pods : PodInformed(p)
           \/ \E n \in Nodes : NodeInformed(n) \/ NodeTouched(n)
  BY <1>1, <1>5 DEF Take, RequeueDue, PodInformed, NodeInformed, NodeTouched
<1>6. CASE Crash \/ Boot \/ UNCHANGED vars
  BY <1>1, <1>6 DEF Crash, Boot, vars
<1> QED
  BY <1>1, <1>2, <1>3, <1>4, <1>5, <1>6 DEF Next

\* Only updates, informers and others write nodes.
LEMMA NodeTypeStep ==
    ASSUME TypeOK, [Next]_vars
    PROVE  NodeType'
<1> USE DEF TypeOK
<1>1. CASE UNCHANGED <<nodes, faults>>
  BY <1>1 DEF NodeType, nodes
<1>2. ASSUME NEW n \in Nodes, SyncNode(n) PROVE NodeType'
  BY <1>2, UpdateType DEF SyncNode, NoAgent, Condition
<1>3. ASSUME NEW p \in Pods, SyncPod(p) PROVE NodeType'
  <2>1. todo[p] \in PodStatus /\ NodeOf[p] \in Nodes
    BY <1>3, NodeAssumption DEF SyncPod, WorkType
  <2>2. \/ UNCHANGED <<nodes, faults>>
        \/ UpdateSucceeds(NodeOf[p], Judge(p, todo[p]))
        \/ UpdateFails(NodeOf[p], Judge(p, todo[p]))
    BY <1>3 DEF SyncPod
  <2> QED BY <1>1, <2>1, <2>2, JudgeType, UpdateType
<1>4. CASE SetNodeCondition
  <2>1. podCache[req] \in PodStatus /\ NodeOf[req] \in Nodes /\ req \in Pods
    BY <1>4, NodeAssumption DEF SetNodeCondition, WorkType
  <2>2. \/ UpdateSucceeds(NodeOf[req], Judge(req, podCache[req]))
        \/ UpdateFails(NodeOf[req], Judge(req, podCache[req]))
    BY <1>4 DEF SetNodeCondition
  <2> QED BY <2>1, <2>2, JudgeType, UpdateType
<1>5. CASE SyncDone \/ Ignore \/ AssertNodeStatus
  BY <1>1, <1>5 DEF SyncDone, Ignore, AssertNodeStatus
<1>6. ASSUME NEW n \in Nodes, NodeInformed(n) \/ NodeTouched(n) PROVE NodeType'
  <2>1. CASE NodeInformed(n)
    BY <2>1 DEF NodeInformed, NodeType
  <2>2. CASE NodeTouched(n)
    BY <2>2 DEF NodeTouched, Fault, NodeType
  <2> QED BY <1>6, <2>1, <2>2
<1>7. CASE \/ \E r \in Pods \cup {Other} : Take(r) \/ RequeueDue(r)
           \/ \E p \in Pods : PodInformed(p)
  BY <1>1, <1>7 DEF Take, RequeueDue, PodInformed
<1>8. CASE Changes
  BY <1>1, <1>8 DEF Changes, CreatePod, StartPod, DeletePod, StartContainers, StopContainers, Cluster
<1>9. CASE Boot
  BY <1>9 DEF Boot, NodeType
<1>10. CASE Crash \/ Tick \/ UNCHANGED vars
  BY <1>1, <1>10 DEF Crash, Tick, vars
<1> QED
  BY <1>2, <1>3, <1>4, <1>5, <1>6, <1>7, <1>8, <1>9, <1>10 DEF Next, Worker

\* Done leaves no work behind.
LEMMA DoneType ==
    ASSUME Done
    PROVE  /\ req' = None /\ claim' = None /\ todo' = NoTodo /\ waiting' = {}
           /\ todo' \in [Pods -> PodStatus \cup {None}] /\ waiting' \subseteq Nodes
BY DEF Done, NoTodo

\* One part per action that moves the worker's state.
LEMMA WorkTypeStep ==
    ASSUME TypeOK, [Next]_vars
    PROVE  WorkType'
<1> USE DEF TypeOK, WorkType
<1>1. CASE UNCHANGED <<process, queue, due, sync, lastStart, req, claim>>
  BY <1>1 DEF process, sync, NoTodo
<1>2. ASSUME NEW r \in Pods \cup {Other}, Take(r) PROVE WorkType'
  <2>1. claim = None /\ todo = NoTodo /\ waiting = {}
    BY <1>2, NodeAssumption, NoneAssumption DEF Take, Other
  <2>2. r # None
    BY NodeAssumption, NoneAssumption DEF Other
  <2>3. NoTodo' = NoTodo
    BY DEF NoTodo
  <2> QED BY <1>2, <2>1, <2>2, <2>3 DEF Take, process
<1>3. ASSUME NEW r \in Pods \cup {Other}, RequeueDue(r) PROVE WorkType'
  BY <1>3 DEF RequeueDue, process, sync, NoTodo
<1>4. ASSUME NEW n \in Nodes, SyncNode(n) PROVE WorkType'
  <2>1. CASE Retry
    BY <1>4, <2>1, DoneType DEF SyncNode, Retry, process
  <2>2. CASE ~Retry
    BY <1>4, <2>2 DEF SyncNode, process, NoTodo
  <2> QED BY <2>1, <2>2
<1>5. ASSUME NEW p \in Pods, SyncPod(p) PROVE WorkType'
  <2>1. lastStart' \in [Nodes -> Nat]
    BY <1>5, NoteStartType DEF SyncPod
  <2>2. CASE Retry
    BY <1>5, <2>1, <2>2, DoneType DEF SyncPod, Retry, process
  <2>3. CASE ~Retry
    BY <1>5, <2>1, <2>3 DEF SyncPod, process, NoTodo
  <2> QED BY <2>2, <2>3
<1>6. CASE SyncDone
  BY <1>6 DEF SyncDone, process, NoTodo
<1>7. CASE Ignore
  BY <1>7, DoneType DEF Ignore, process
<1>8. CASE SetNodeCondition
  <2> DEFINE s == podCache[req]
  <2>1. req \in Pods /\ s \in PodStatus /\ ~firstBoot /\ claim = None
    BY <1>8 DEF SetNodeCondition
  <2>2. lastStart' \in [Nodes -> Nat] /\ UNCHANGED process
    BY <1>8, <2>1, NoteStartType DEF SetNodeCondition
  <2>3. CASE Retry
    BY <2>2, <2>3, <2>1, DoneType DEF Retry, process
  <2>4. CASE Done /\ (\E c \in Youngest(s) : Later(s.up[c] + Grace)) /\ UNCHANGED <<queue, firstBoot>>
    <3>1. PICK c \in Containers : Later(s.up[c] + Grace)
      BY <2>4 DEF Youngest
    <3>2. s.up[c] + Grace \in Nat
      BY <2>1, TimeAssumption DEF PodStatus
    <3>3. due' \in [Pods \cup {Other} -> Nat]
      BY <2>1, <3>1, <3>2, LaterType
    <3> QED BY <2>2, <2>4, <3>3, DoneType DEF process
  <2>5. CASE /\ claim' = [node |-> NodeOf[req], ready |-> Judge(req, s).ready]
             /\ UNCHANGED <<due, req, todo, waiting>> /\ UNCHANGED <<queue, firstBoot>>
    <3>1. Judge(req, s).ready \in BOOLEAN /\ NodeOf[req] \in Nodes
      BY <2>1, JudgeType, NodeAssumption DEF Condition
    <3> QED BY <2>1, <2>2, <2>5, <3>1 DEF process, NoTodo
  <2> QED BY <1>8, <2>3, <2>4, <2>5 DEF SetNodeCondition
<1>9. CASE AssertNodeStatus
  <2>1. due' \in [Pods \cup {Other} -> Nat]
    <3>1. now + Resync \in Nat /\ req \in Pods
      BY <1>9, TimeAssumption DEF AssertNodeStatus, WorldType
    <3> QED BY <1>9, <3>1, LaterType DEF AssertNodeStatus
  <2> QED BY <1>9, <2>1, DoneType DEF AssertNodeStatus, process
<1>10. ASSUME NEW p \in Pods, PodInformed(p) PROVE WorkType'
  BY <1>10 DEF PodInformed, sync, NoTodo, WorldType
<1>11. CASE Crash
  <2>1. due' \in [Pods \cup {Other} -> Nat] /\ restarts' \in Nat /\ queue' = {} /\ on' = FALSE
    BY <1>11 DEF Crash
  <2> QED BY <1>11, <2>1, DoneType DEF Crash
<1>12. CASE Boot
  <2>1. req = None /\ claim = None
    BY <1>12, NodeAssumption, NoneAssumption DEF Boot
  <2>2. queue' \subseteq Pods \cup {Other} /\ lastStart' \in [Nodes -> Nat]
    BY <1>12 DEF Boot
  <2>3. blurred' \subseteq Nodes
    BY <1>12, NodeAssumption DEF Boot, Shared
  <2> QED BY <1>12, <2>1, <2>2, <2>3 DEF Boot, WorldType, NoTodo
<1>13. CASE Tick
  <2>1. blurred' \subseteq Nodes
    BY <1>13 DEF Tick, Unordered
  <2> QED BY <1>13, <2>1 DEF Tick, sync, NoTodo
<1>14. CASE Changes \/ UNCHANGED vars \/ \E n \in Nodes : NodeInformed(n) \/ NodeTouched(n)
  BY <1>1, <1>14 DEF Changes, CreatePod, StartPod, DeletePod, StartContainers, StopContainers,
     Cluster, NodeInformed, NodeTouched, vars
<1> QED
  BY <1>2, <1>3, <1>4, <1>5, <1>6, <1>7, <1>8, <1>9, <1>10, <1>11, <1>12, <1>13, <1>14
     DEF Next, Worker

\* What the operator keeps has its type and belongs together, under every order of
\* events, failures and restarts (pod_status.go:103-143, 148-166).
THEOREM TypeCorrect == Spec => []TypeOK
<1>1. TypeOK /\ [Next]_vars => TypeOK'
  BY WorldTypeStep, NodeTypeStep, WorkTypeStep DEF TypeOK
<1> QED BY InitType, <1>1, PTL DEF Spec
--------------------------------------------------------------------------------
(* The grace time *)

LEMMA InitAged == Init => AgedInv
BY TimeAssumption, NoneAssumption, NodeAssumption DEF Init, AgedInv, Aged, NoTodo

\* Within a unit of time no agent becomes older.
LEMMA ChangesAged ==
    ASSUME TypeOK, Changes, NEW p \in Pods, Aged(pod[p], now)'
    PROVE  Aged(pod[p], now)
<1> USE DEF TypeOK, WorldType
<1>0. PICK q \in Pods : \/ CreatePod(q) \/ StartPod(q) \/ DeletePod(q)
                        \/ \E C \in (SUBSET Containers) \ {{}} :
                              StartContainers(q, C) \/ StopContainers(q, C)
  BY DEF Changes
<1>1. now' = now
  BY <1>0 DEF CreatePod, StartPod, DeletePod, StartContainers, StopContainers, Cluster
<1>2. CASE p # q
  <2>1. pod'[p] = pod[p]
    BY <1>0, <1>2 DEF CreatePod, StartPod, DeletePod, StartContainers, StopContainers, Cluster
  <2> QED BY <1>1, <2>1 DEF Aged
<1>3. CASE p = q /\ CreatePod(q)
  <2>1. \A c \in Containers : pod'[p].up[c] = 0
    BY <1>3 DEF CreatePod, Cluster, NewPod
  <2> QED BY <2>1, ContainersAssumption DEF Aged
<1>4. CASE p = q /\ StartPod(q)
  <2>1. pod'[p].up = pod[p].up /\ pod[p] # None
    BY <1>4 DEF StartPod, Cluster, PodStatus
  <2> QED BY <1>1, <2>1 DEF Aged
<1>5. CASE p = q /\ DeletePod(q)
  BY <1>5 DEF DeletePod, Cluster, Aged
<1>6. ASSUME p = q, NEW C \in (SUBSET Containers) \ {{}}, StartContainers(q, C)
      PROVE  Aged(pod[p], now)
  <2>1. PICK c \in Containers : c \in C
    OBVIOUS
  <2>2. pod'[p].up[c] = now
    BY <1>6, <2>1 DEF StartContainers, Cluster, PodStatus
  <2>3. ~(now - now >= Grace)
    BY TimeAssumption
  <2> QED BY <1>1, <2>2, <2>3 DEF Aged
<1>7. ASSUME p = q, NEW C \in (SUBSET Containers) \ {{}}, StopContainers(q, C)
      PROVE  Aged(pod[p], now)
  <2>1. PICK c \in Containers : c \in C
    OBVIOUS
  <2>2. pod'[p].up[c] = 0
    BY <1>7, <2>1 DEF StopContainers, Cluster, PodStatus
  <2> QED BY <2>2 DEF Aged
<1> QED BY <1>0, <1>2, <1>3, <1>4, <1>5, <1>6, <1>7

LEMMA AgedStep ==
    ASSUME TypeOK, AgedInv, [Next]_vars
    PROVE  AgedInv'
<1> USE DEF TypeOK, AgedInv
<1>1. CASE UNCHANGED <<now, pod, stable, on, podCache, todo>>
  BY <1>1 DEF Aged
<1>2. CASE Worker
  <2>1. UNCHANGED <<now, pod, stable, on, podCache>>
    BY <1>2, WorkerFrame
  <2>2. \A p \in Pods : todo'[p] \in {todo[p], None}
    BY <1>2 DEF Worker, SyncNode, SyncPod, SyncDone, Ignore, SetNodeCondition, AssertNodeStatus,
       Done, Retry, NoTodo, WorkType
  <2> QED BY <2>1, <2>2 DEF Aged
<1>3. ASSUME NEW r \in Pods \cup {Other}, Take(r) PROVE AgedInv'
  <2>1. UNCHANGED <<now, pod, stable, on, podCache>> /\ on
    BY <1>3 DEF Take, world, process
  <2>2. todo' = podCache \/ todo' = todo
    BY <1>3 DEF Take
  <2> QED BY <2>1, <2>2 DEF Aged
<1>4. ASSUME NEW p \in Pods, PodInformed(p) PROVE AgedInv'
  <2>1. UNCHANGED <<now, pod, stable, on, todo>>
    BY <1>4 DEF PodInformed, world, sync
  <2>2. \A q \in Pods : podCache'[q] \in {podCache[q], pod[q]}
    BY <1>4 DEF PodInformed, WorkType
  <2> QED BY <2>1, <2>2 DEF Aged
<1>5. CASE Boot
  <2>1. UNCHANGED <<now, pod, stable, todo>> /\ podCache' = pod
    BY <1>5 DEF Boot, world
  <2> QED BY <2>1 DEF Aged
<1>6. CASE Crash
  <2>1. UNCHANGED <<now, pod, stable, podCache>> /\ ~on' /\ todo' = NoTodo
    BY <1>6 DEF Crash, Done, world
  <2> QED BY <2>1 DEF Aged, NoTodo
<1>7. CASE Tick
  <2>1. req = None
    BY <1>7 DEF Tick, Settled, WorkType
  <2>2. todo' = NoTodo /\ on' = on /\ pod' = pod /\ now' = now + 1
    BY <1>7, <2>1 DEF Tick, sync, process, WorkType
  <2>3. on => podCache' = pod
    BY <1>7 DEF Tick, Settled, process
  <2>4. stable' = {p \in Pods : Aged(pod[p], now + 1)}
    BY <1>7 DEF Tick
  <2> QED BY <2>2, <2>3, <2>4 DEF Aged, NoTodo
<1>8. CASE Changes
  <2>1. UNCHANGED <<now, stable, on, podCache, todo>>
    BY <1>8 DEF Changes, CreatePod, StartPod, DeletePod, StartContainers, StopContainers,
       Cluster, process, sync
  <2>2. \A p \in Pods : Aged(pod[p], now)' => p \in stable
    BY <1>8, ChangesAged
  <2> QED BY <2>1, <2>2 DEF Aged
<1>9. CASE \/ \E r \in Pods \cup {Other} : RequeueDue(r)
           \/ \E n \in Nodes : NodeInformed(n) \/ NodeTouched(n)
           \/ UNCHANGED vars
  BY <1>1, <1>9 DEF RequeueDue, NodeInformed, NodeTouched, vars, world, process, sync
<1> QED
  BY <1>2, <1>3, <1>4, <1>5, <1>6, <1>7, <1>8, <1>9 DEF Next

THEOREM Inductive == Spec => []IInv
<1>1. Init => IInv
  BY InitType, InitAged DEF IInv
<1>2. IInv /\ [Next]_vars => IInv'
  BY WorldTypeStep, NodeTypeStep, WorkTypeStep, AgedStep DEF IInv, TypeOK
<1> QED BY <1>1, <1>2, PTL DEF Spec

\* Only the three actions that update nodes can make one ready, and they do so for the
\* node of a pod that has run through its grace time.
LEMMA ReadyStep ==
    ASSUME IInv, [Next]_vars, NEW n \in Nodes, ~IsReady(n), IsReady(n)'
    PROVE  \E p \in stable : NodeOf[p] = n
<1> USE DEF IInv, TypeOK
<1>1. cond' # cond
  BY DEF IsReady
<1>2. \/ \E m \in Nodes : SyncNode(m)
      \/ \E p \in Pods : SyncPod(p)
      \/ SetNodeCondition
  BY <1>1 DEF Next, Worker, Take, RequeueDue, SyncDone, Ignore, AssertNodeStatus, PodInformed,
     NodeInformed, NodeTouched, Crash, Boot, Tick, Changes, CreatePod, StartPod, DeletePod,
     StartContainers, StopContainers, Cluster, nodes, vars
<1>3. ASSUME NEW m \in Nodes, SyncNode(m) PROVE FALSE
  <2>1. NoAgent \in Condition /\ ~NoAgent.ready
    BY DEF NoAgent, Condition
  <2> QED BY <1>3, <2>1, UpdateReady DEF SyncNode
<1>4. ASSUME NEW p \in Pods, NEW s \in PodStatus, Aged(s, now) => p \in stable,
             \/ UpdateSucceeds(NodeOf[p], Judge(p, s)) \/ UpdateFails(NodeOf[p], Judge(p, s))
      PROVE  \E q \in stable : NodeOf[q] = n
  <2>1. n = NodeOf[p] /\ Judge(p, s).ready
    BY <1>4, JudgeType, UpdateReady, NodeAssumption
  <2> QED BY <1>4, <2>1, JudgeReady DEF WorldType
<1>5. ASSUME NEW p \in Pods, SyncPod(p) PROVE \E q \in stable : NodeOf[q] = n
  <2>1. todo[p] \in PodStatus /\ (Aged(todo[p], now) => p \in stable)
    BY <1>5 DEF SyncPod, WorkType, AgedInv
  <2>2. \/ UpdateSucceeds(NodeOf[p], Judge(p, todo[p]))
        \/ UpdateFails(NodeOf[p], Judge(p, todo[p]))
    BY <1>1, <1>5 DEF SyncPod, nodes
  <2> QED BY <1>4, <2>1, <2>2
<1>6. CASE SetNodeCondition
  <2>1. req \in Pods /\ podCache[req] \in PodStatus /\ on
    BY <1>6, NodeAssumption, NoneAssumption DEF SetNodeCondition, WorkType
  <2>2. Aged(podCache[req], now) => req \in stable
    BY <2>1 DEF AgedInv
  <2>3. \/ UpdateSucceeds(NodeOf[req], Judge(req, podCache[req]))
        \/ UpdateFails(NodeOf[req], Judge(req, podCache[req]))
    BY <1>6 DEF SetNodeCondition
  <2> QED BY <1>4, <2>1, <2>2, <2>3
<1> QED BY <1>2, <1>3, <1>5, <1>6

\* A node's network becomes available only when one of its agents has really run
\* through a grace time: across stale caches, requeued and outdated requests and
\* restarts of the operator (pod_status.go:168-193, 244-336).
THEOREM AvailableAfterGrace == Spec => NeverTooEarly
<1>1. IInv /\ [Next]_vars =>
        [\A n \in Nodes : ~IsReady(n) /\ IsReady(n)' => \E p \in stable : NodeOf[p] = n]_vars
  BY ReadyStep
<1> QED BY <1>1, Inductive, PTL DEF Spec, NeverTooEarly
--------------------------------------------------------------------------------
(* Nodes at rest                                                           *)
(*                                                                         *)
(* RestHonest speaks of a moment without work.  It rests on what is true   *)
(* in the midst of it: of the copies of a pod (PodInv, StartInv, CopyInv), *)
(* of messages that name it (MessageInv, NotedInv), of the other agents of *)
(* its node (OthersInv), of a stale copy of the condition (StaleInv) and   *)
(* of requests to come (AskedInv).                                         *)

\* What the API server, the informer cache and the full sync have of a pod.
Copies(p) == {pod[p], podCache[p], todo[p]} \ {None}

Sound(p, s) ==
    /\ p <= born /\ s.start <= now
    /\ \A c \in Containers : s.up[c] # 0 => s.start # 0 /\ s.start <= s.up[c] /\ s.up[c] <= now

SameStart(p, s) == pod[p] # None /\ s.start # 0 => s.start = pod[p].start

\* Once the newer of two agents of a node has started, the older one does not start.
InOrder(q, p) ==
    q < p /\ NodeOf[q] = NodeOf[p] /\ pod[q] # None /\ pod[p] # None /\ pod[p].start # 0
        => pod[q].start <= pod[p].start

PodInv == \A p \in Pods : /\ \A s \in Copies(p) : Sound(p, s) /\ SameStart(p, s)
                          /\ \A q \in Pods : InOrder(q, p)

StartInv == \A n \in Nodes : lastStart[n] <= now

\* A pod has not run for a grace time when a copy of it still has to change, and nodes
\* are not said to wait for an agent then.  The first full sync leaves the requests.
FreshInv == \A n \in Nodes : fresh[n] => condCache[n] = cond[n]
AgedCopy(p)  == Aged(pod[p], now) => podCache[p] = pod[p]
AgedTodo(p)  == Aged(podCache[p], now) => todo[p] \in {None, podCache[p]} /\ waiting = {}
BootAsked(p) == firstBoot /\ podCache[p] # None => p \in queue \cup {req}
CopyInv == on => \A p \in Pods : AgedCopy(p) /\ AgedTodo(p) /\ BootAsked(p)

\* The agent that the node's condition is to follow.
Calm == restarts = 0 /\ on
Current(p) ==
    /\ Calm /\ pod[p] # None /\ pod[p].start # 0 /\ NodeOf[p] \notin blurred
    /\ \A q \in Pods : NodeOf[q] = NodeOf[p] /\ q <= born => q <= p

\* Only ready conditions have no message, and messages are of pods that there have been.
Messages(n) == {cond[n], condCache[n]} \ {None}
MessageInv ==
    /\ \A n \in Nodes : \A m \in Messages(n) : /\ m.ready => m = Ready
                                               /\ m.of <= born
    /\ restarts = 0 /\ ~on => \A n \in Nodes : cond[n] = None /\ condCache[n] = None

\* An agent that a message names has started, and its start has been noted.
NotedInv ==
    Calm => \A p \in Pods : \A m \in Messages(NodeOf[p]) : m.of = p /\ pod[p] # None =>
                pod[p].start # 0 /\ pod[p].start <= lastStart[NodeOf[p]]

\* The other agents of its node are outdated from the unit of time on that follows its start.
Others(p) == {q \in Pods \ {p} : NodeOf[q] = NodeOf[p]}
OthersInv ==
    \A p \in Pods : Current(p) =>
        /\ lastStart[NodeOf[p]] <= pod[p].start
        /\ pod[p].start # now => \A q \in Others(p) : \A s \in Copies(q) :
               s.start \in 1 .. pod[p].start - 1 /\ pod[p].start <= lastStart[NodeOf[p]]

\* The condition says that containers of the agent do not run.
Accuses(m, p) == m # None /\ m.of = p /\ m.down # {}
ReadyMessage(m) == m # None /\ m.ready

\* However stale the copy of the condition is, it does not hide that it has to change.
StaleInv ==
    \A p \in Pods : Current(p) =>
        LET n == NodeOf[p]
        IN  /\ IsReady(n) => ~Accuses(condCache[n], p)
            /\ Aged(podCache[p], now) /\ ~IsReady(n) => ~ReadyMessage(condCache[n])
            /\ Accuses(cond[n], p) => ~Aged(podCache[p], now) /\ ~Aged(todo[p], now)

\* A request for the agent is to be handled, at once or within this unit of time.
Asked(p) == p \in queue \/ (req = p /\ claim = None)
Seen(p) == Current(p) /\ podCache[p] # None /\ podCache[p].start # 0
Judged(p) == Seen(p) /\ ~Asked(p) /\ ~(due[p] \in 1 .. now)

StartAsked(p) == Seen(p) /\ lastStart[NodeOf[p]] < podCache[p].start => Asked(p)
JudgedRight(p) == Judged(p) => (IsReady(NodeOf[p]) <=> Aged(podCache[p], now))
JudgedAgain(p) ==
    Judged(p) /\ Waits(podCache[p]) =>
        /\ due[p] # 0 /\ \E c \in Youngest(podCache[p]) : due[p] <= podCache[p].up[c] + Grace
        /\ ~Accuses(cond[NodeOf[p]], p)
AskedInv == \A p \in Pods : StartAsked(p) /\ JudgedRight(p) /\ JudgedAgain(p)

FactsInv == TypeOK /\ PodInv /\ StartInv /\ FreshInv /\ CopyInv /\ MessageInv
RestInv == FactsInv /\ NotedInv /\ OthersInv /\ StaleInv /\ AskedInv
--------------------------------------------------------------------------------
(* Copies of a pod *)

LEMMA InitFacts == Init => FactsInv
<1> SUFFICES ASSUME Init PROVE FactsInv
  OBVIOUS
<1>1. TypeOK /\ now \in Nat /\ now = Grace + 1 /\ Grace \in Nat \ {0}
  BY InitType, TimeAssumption DEF Init, TypeOK, WorldType
<1>2. \A p \in Pods : podCache[p] = None /\ todo[p] = None
  BY DEF Init, NoTodo
<1>3. \A p \in Pods : pod[p] # None => p <= born /\ pod[p] = [start |-> 1, up |-> [c \in Containers |-> 1]]
  BY DEF Init
<1>4. ASSUME NEW p \in Pods PROVE \A s \in Copies(p) : Sound(p, s) /\ SameStart(p, s)
  <2>1. \A s \in Copies(p) : s = pod[p] /\ pod[p] # None
    BY <1>2 DEF Copies
  <2> QED BY <1>1, <1>3, <2>1 DEF Sound, SameStart
<1>5. ASSUME NEW p \in Pods, NEW q \in Pods PROVE InOrder(q, p)
  BY <1>3 DEF InOrder
<1>6. PodInv
  BY <1>4, <1>5 DEF PodInv
<1>7. StartInv /\ FreshInv /\ CopyInv /\ MessageInv
  BY <1>1 DEF Init, StartInv, FreshInv, CopyInv, MessageInv, Messages
<1> QED BY <1>1, <1>6, <1>7 DEF FactsInv

\* Except for changes of the cluster, only time passes, and copies are copied or forgotten.
LEMMA CopiesStep ==
    ASSUME TypeOK, [Next]_vars, ~Changes
    PROVE  /\ UNCHANGED <<pod, born>> /\ now <= now'
           /\ \A p \in Pods : Copies(p)' \subseteq Copies(p)
<1> USE DEF TypeOK
<1>1. CASE Worker
  <2>1. UNCHANGED <<now, pod, born, podCache>> /\ now \in Nat
    BY <1>1, WorkerFrame DEF WorldType
  <2>2. \A p \in Pods : todo'[p] \in {todo[p], None}
    BY <1>1 DEF Worker, SyncNode, SyncPod, SyncDone, Ignore, SetNodeCondition, AssertNodeStatus,
       Done, Retry, NoTodo, WorkType
  <2> QED BY <2>1, <2>2 DEF Copies
<1>2. CASE \E r \in Pods \cup {Other} : Take(r)
  <2>1. UNCHANGED <<now, pod, born, podCache>> /\ now \in Nat
    BY <1>2 DEF Take, world, process, WorldType
  <2>2. todo' = podCache \/ todo' = todo
    BY <1>2 DEF Take
  <2> QED BY <2>1, <2>2 DEF Copies
<1>3. CASE \E p \in Pods : PodInformed(p)
  <2>1. UNCHANGED <<now, pod, born, todo>> /\ now \in Nat
    BY <1>3 DEF PodInformed, world, sync, WorldType
  <2>2. \A p \in Pods : podCache'[p] \in {podCache[p], pod[p]}
    BY <1>3 DEF PodInformed, WorkType
  <2> QED BY <2>1, <2>2 DEF Copies
<1>4. CASE Boot
  <2>1. UNCHANGED <<now, pod, born, todo>> /\ podCache' = pod /\ now \in Nat
    BY <1>4 DEF Boot, world, WorldType
  <2> QED BY <2>1 DEF Copies
<1>5. CASE Crash
  <2>1. UNCHANGED <<now, pod, born, podCache>> /\ todo' = NoTodo /\ now \in Nat
    BY <1>5 DEF Crash, Done, world, WorldType
  <2> QED BY <2>1 DEF Copies, NoTodo
<1>6. CASE Tick
  <2>1. UNCHANGED <<pod, born, podCache, todo>> /\ now' = now + 1 /\ now \in Nat
    BY <1>6 DEF Tick, sync, WorldType
  <2> QED BY <2>1 DEF Copies
<1>7. CASE \/ \E r \in Pods \cup {Other} : RequeueDue(r)
           \/ \E n \in Nodes : NodeInformed(n) \/ NodeTouched(n)
           \/ UNCHANGED vars
  <2>1. UNCHANGED <<now, pod, born, podCache, todo>> /\ now \in Nat
    BY <1>7 DEF RequeueDue, NodeInformed, NodeTouched, vars, world, process, sync, WorldType
  <2> QED BY <2>1 DEF Copies
<1> QED
  BY <1>1, <1>2, <1>3, <1>4, <1>5, <1>6, <1>7 DEF Next

\* A change of the cluster concerns one pod; the operator does not know of it yet.
ChangeOf(p) ==
    \/ CreatePod(p) \/ StartPod(p) \/ DeletePod(p)
    \/ \E C \in (SUBSET Containers) \ {{}} : StartContainers(p, C) \/ StopContainers(p, C)

LEMMA ChangeFrame ==
    ASSUME TypeOK, NEW p \in Pods, ChangeOf(p)
    PROVE  /\ UNCHANGED <<now, stable, process, nodes, queue, due, sync, lastStart, req, claim, faults>>
           /\ \A q \in Pods \ {p} : pod'[q] = pod[q]
<1>1. UNCHANGED <<now, stable, process, nodes, queue, due, sync, lastStart, req, claim, faults>>
  BY DEF ChangeOf, CreatePod, StartPod, DeletePod, StartContainers, StopContainers, Cluster
<1>2. ASSUME NEW q \in Pods \ {p} PROVE pod'[q] = pod[q]
  BY DEF ChangeOf, CreatePod, StartPod, DeletePod, StartContainers, StopContainers, Cluster,
     TypeOK, WorldType
<1> QED BY <1>1, <1>2

\* A pod is created, started or deleted, or keeps its start.  It is started only while no
\* pod replaces it, and no container of it has run for a unit of time if it was changed.
LEMMA ChangeKinds ==
    ASSUME TypeOK, PodInv, NEW p \in Pods, ChangeOf(p)
    PROVE  \/ pod'[p] = None /\ born' = born
           \/ pod'[p] = NewPod /\ pod[p] = None /\ p > born /\ born' = p
           \/ /\ pod[p] # None /\ pod'[p] # None /\ born' = born /\ p <= born
              /\ \A c \in Containers : pod'[p].up[c] \in {0, now, pod[p].up[c]}
              /\ \E c \in Containers : pod'[p].up[c] \in {0, now}
              /\ \/ pod[p].start = 0 /\ pod'[p].start = now /\ ~Replaced(p)
                    /\ \A c \in Containers : pod'[p].up[c] = 0
                 \/ /\ pod'[p].start = pod[p].start
                    /\ pod[p].start = 0 => \A c \in Containers : pod'[p].up[c] = 0
<1> USE DEF TypeOK, WorldType
<1>0. /\ pod[p] # None => p <= born /\ pod[p] \in PodStatus
      /\ pod[p] # None /\ pod[p].start = 0 => \A c \in Containers : pod[p].up[c] = 0
  BY DEF PodInv, Copies, Sound
<1>1. CASE CreatePod(p)
  <2>1. pod'[p] = NewPod /\ p > born /\ born' = p
    BY <1>1 DEF CreatePod, Cluster
  <2>2. pod[p] = None
    BY <1>0, <2>1, NodeAssumption
  <2> QED BY <2>1, <2>2
<1>2. CASE StartPod(p)
  <2>1. pod[p] # None /\ pod[p].start = 0 /\ ~Replaced(p) /\ born' = born
    BY <1>2 DEF StartPod
  <2>2. pod'[p] = [start |-> now, up |-> pod[p].up]
    BY <1>0, <1>2, <2>1 DEF StartPod, Cluster, PodStatus
  <2>3. pod'[p] # None
    BY <1>0, <2>1, <2>2, NoneAssumption DEF PodStatus
  <2> QED BY <1>0, <2>1, <2>2, <2>3, ContainersAssumption
<1>3. CASE DeletePod(p)
  BY <1>3 DEF DeletePod, Cluster
<1>4. ASSUME NEW C \in (SUBSET Containers) \ {{}}, StartContainers(p, C) \/ StopContainers(p, C)
      PROVE  /\ pod[p] # None /\ pod'[p] # None /\ born' = born
             /\ \A c \in Containers : pod'[p].up[c] \in {0, now, pod[p].up[c]}
             /\ \E c \in Containers : pod'[p].up[c] \in {0, now}
             /\ pod'[p].start = pod[p].start /\ pod[p].start # 0
  <2>1. pod[p] # None /\ born' = born /\ pod[p].start # 0
    <3>1. PICK c \in Containers : c \in C
      OBVIOUS
    <3> QED BY <1>0, <1>4, <3>1 DEF StartContainers, StopContainers
  <2>2. PICK t \in {0, now} :
            pod'[p] = [start |-> pod[p].start,
                       up |-> [c \in Containers |-> IF c \in C THEN t ELSE pod[p].up[c]]]
    <3>1. CASE StartContainers(p, C)
      BY <1>0, <3>1, <2>1 DEF StartContainers, Cluster, PodStatus
    <3>2. CASE StopContainers(p, C)
      BY <1>0, <3>2, <2>1 DEF StopContainers, Cluster, PodStatus
    <3> QED BY <1>4, <3>1, <3>2
  <2>3. pod'[p] \in PodStatus
    BY <1>0, <2>1, <2>2 DEF PodStatus
  <2>4. PICK c \in Containers : c \in C
    OBVIOUS
  <2> QED BY <2>1, <2>2, <2>3, <2>4, NoneAssumption
<1> QED BY <1>0, <1>1, <1>2, <1>3, <1>4 DEF ChangeOf

LEMMA PodStep ==
    ASSUME TypeOK, PodInv, [Next]_vars
    PROVE  PodInv'
<1>0. now \in Nat /\ \A p \in Pods : pod[p] # None => pod[p] \in PodStatus
  BY DEF TypeOK, WorldType
<1>1. CASE ~Changes
  <2>1. /\ UNCHANGED <<pod, born>> /\ now <= now'
        /\ \A p \in Pods : Copies(p)' \subseteq Copies(p)
    BY <1>1, CopiesStep
  <2>2. now' \in Nat
    BY WorldTypeStep DEF WorldType
  <2>3. ASSUME NEW p \in Pods, NEW s \in Copies(p)' PROVE (Sound(p, s) /\ SameStart(p, s))'
    <3>1. s \in Copies(p) /\ Sound(p, s) /\ SameStart(p, s) /\ s \in PodStatus
      BY <2>1, <2>3 DEF PodInv, Copies, TypeOK, WorldType, WorkType
    <3>2. s.start \in Nat /\ \A c \in Containers : s.up[c] \in Nat
      BY <3>1 DEF PodStatus
    <3> QED BY <1>0, <2>1, <2>2, <3>1, <3>2 DEF Sound, SameStart
  <2>4. \A p, q \in Pods : InOrder(q, p)'
    BY <2>1 DEF PodInv, InOrder
  <2> QED BY <2>3, <2>4 DEF PodInv
<1>2. ASSUME NEW p \in Pods, ChangeOf(p) PROVE PodInv'
  <2>1. UNCHANGED <<now, podCache, todo>> /\ \A q \in Pods \ {p} : pod'[q] = pod[q]
    BY <1>2, ChangeFrame DEF process, sync
  <2>2. born' \in Nat /\ born <= born' /\ born \in Nat
    BY <1>2, ChangeKinds, WorldTypeStep, NodeAssumption DEF TypeOK, WorldType
  <2>3. ASSUME NEW q \in Pods \ {p}, NEW s \in Copies(q)' PROVE (Sound(q, s) /\ SameStart(q, s))'
    <3>1. s \in Copies(q) /\ pod'[q] = pod[q] /\ Sound(q, s) /\ SameStart(q, s)
      BY <2>1, <2>3 DEF Copies, PodInv
    <3>2. q \in Nat
      BY NodeAssumption
    <3> QED BY <2>1, <2>2, <3>1, <3>2 DEF Sound, SameStart
  <2>4. ASSUME NEW s \in Copies(p)' PROVE (Sound(p, s) /\ SameStart(p, s))'
    <3>1. CASE s \in Copies(p) /\ pod'[p] = None
      <4>1. Sound(p, s) /\ p \in Nat
        BY <3>1, NodeAssumption DEF PodInv
      <4> QED BY <2>1, <2>2, <3>1, <4>1 DEF Sound, SameStart
    <3>2. CASE pod'[p] = NewPod /\ p > born /\ born' = p
      <4>1. Copies(p) = {}
        BY <3>2, <2>2, NodeAssumption DEF PodInv, Sound
      <4>2. s = NewPod
        BY <2>1, <3>2, <4>1 DEF Copies
      <4> QED BY <1>0, <2>1, <3>2, <4>2, NodeAssumption DEF Sound, SameStart, NewPod
    <3>3. CASE /\ pod[p] # None /\ pod'[p] # None /\ born' = born
               /\ pod[p].start = 0 /\ pod'[p].start = now
               /\ \A c \in Containers : pod'[p].up[c] = 0
      <4>1. CASE s = pod'[p]
        <5>1. pod[p] \in Copies(p)
          BY <3>3 DEF Copies
        <5> QED BY <1>0, <2>1, <2>2, <3>3, <4>1, <5>1 DEF Sound, SameStart, PodInv
      <4>2. CASE s # pod'[p]
        <5>1. s \in Copies(p) /\ Sound(p, s) /\ SameStart(p, s)
          BY <2>1, <2>4, <4>2 DEF Copies, PodInv
        <5>2. s.start = 0
          BY <3>3, <5>1 DEF SameStart
        <5> QED BY <2>1, <2>2, <3>3, <5>1, <5>2 DEF Sound, SameStart
      <4> QED BY <4>1, <4>2
    <3>4. CASE /\ pod[p] # None /\ pod'[p] # None /\ born' = born
               /\ \A c \in Containers : pod'[p].up[c] \in {0, now, pod[p].up[c]}
               /\ pod'[p].start = pod[p].start
               /\ pod[p].start = 0 => \A c \in Containers : pod'[p].up[c] = 0
      <4>1. CASE s = pod'[p]
        <5>1. pod[p] \in Copies(p) /\ Sound(p, pod[p])
          BY <3>4 DEF Copies, PodInv
        <5>2. s.start = pod[p].start /\ s.start <= now
          BY <3>4, <4>1, <5>1 DEF Sound
        <5>3. ASSUME NEW c \in Containers, s.up[c] # 0
              PROVE  s.start # 0 /\ s.start <= s.up[c] /\ s.up[c] <= now
          <6>1. s.up[c] \in {now, pod[p].up[c]} /\ pod[p].start # 0
            BY <3>4, <4>1, <5>3
          <6> QED BY <1>0, <5>1, <5>2, <5>3, <6>1 DEF Sound
        <5>4. p <= born
          BY <5>1 DEF Sound
        <5> QED BY <2>1, <3>4, <4>1, <5>2, <5>3, <5>4 DEF Sound, SameStart
      <4>2. CASE s # pod'[p]
        <5>1. s \in Copies(p) /\ Sound(p, s) /\ SameStart(p, s)
          BY <2>1, <2>4, <4>2 DEF Copies, PodInv
        <5> QED BY <2>1, <2>2, <3>4, <5>1 DEF Sound, SameStart
      <4> QED BY <4>1, <4>2
    <3>5. CASE pod'[p] = None
      <4>1. s \in Copies(p)
        BY <2>1, <2>4, <3>5 DEF Copies
      <4> QED BY <3>1, <3>5, <4>1
    <3> QED BY <1>2, <3>2, <3>3, <3>4, <3>5, ChangeKinds
  <2>5. ASSUME NEW r \in Pods, NEW q \in Pods PROVE InOrder(q, r)'
    <3> SUFFICES ASSUME q < r, NodeOf[q] = NodeOf[r], pod'[q] # None, pod'[r] # None,
                        pod'[r].start # 0
                 PROVE  pod'[q].start <= pod'[r].start
      BY DEF InOrder
    <3>0. InOrder(q, r) /\ q \in Nat /\ r \in Nat
      BY NodeAssumption DEF PodInv
    <3>1. CASE q # p /\ r # p
      BY <2>1, <3>0, <3>1 DEF InOrder
    <3>2. CASE q = p
      <4>1. pod'[r] = pod[r] /\ r \in Pods \ {p} /\ pod[r] \in Copies(r) /\ r <= born
        BY <2>1, <3>2, <3>0 DEF PodInv, Copies, Sound
      <4>2. Replaced(p)
        BY <3>2, <4>1 DEF Replaced
      <4>3. \/ pod'[p] = NewPod
            \/ pod[p] # None /\ pod'[p].start = pod[p].start
        BY <1>2, <4>2, <3>2, ChangeKinds
      <4>4. pod'[r].start \in Nat
        BY <1>0, <4>1 DEF PodStatus
      <4>5. CASE pod'[p] = NewPod
        BY <3>2, <4>4, <4>5 DEF NewPod
      <4>6. CASE pod[p] # None /\ pod'[p].start = pod[p].start
        BY <3>0, <3>2, <4>1, <4>6 DEF InOrder
      <4> QED BY <4>3, <4>5, <4>6
    <3>3. CASE r = p
      <4>1. pod'[q] = pod[q] /\ q \in Pods \ {p} /\ pod[q] \in Copies(q) /\ pod[q].start <= now
        BY <2>1, <3>3, <3>0 DEF PodInv, Copies, Sound
      <4>2. \/ pod'[p].start = now
            \/ pod[p] # None /\ pod'[p].start = pod[p].start
        BY <1>2, <3>3, ChangeKinds DEF NewPod
      <4> QED BY <3>0, <3>3, <4>1, <4>2 DEF InOrder
    <3> QED BY <3>1, <3>2, <3>3
  <2> QED BY <2>3, <2>4, <2>5 DEF PodInv
<1> QED BY <1>1, <1>2 DEF Changes, ChangeOf
--------------------------------------------------------------------------------
(* What the worker writes *)

Writes(n, new) == /\ fresh[n] /\ fresh' = [fresh EXCEPT ![n] = FALSE]
                  /\ cond' = [cond EXCEPT ![n] = new]

\* A status of a pod is judged: its start is noted, and the node may be written.
Handles(p, s) ==
    /\ s \in Copies(p) /\ s \in PodStatus /\ todo[p] \in {None, s}
    /\ ~Outdated(p, s) /\ NoteStart(p, s)
    /\ Writes(NodeOf[p], Judge(p, s)) \/ UNCHANGED <<cond, fresh>>

LEMMA UpdateEffect ==
    ASSUME NEW n \in Nodes, NEW new, UpdateSucceeds(n, new) \/ UpdateFails(n, new)
    PROVE  condCache' = condCache /\ (Writes(n, new) \/ UNCHANGED <<cond, fresh>>)
BY DEF UpdateSucceeds, UpdateFails, Writes, nodes

LEMMA SyncNodeEffect ==
    ASSUME NEW n \in Nodes, SyncNode(n)
    PROVE  /\ condCache' = condCache /\ lastStart' = lastStart /\ n \in waiting /\ firstBoot /\ req # None
           /\ Writes(n, NoAgent) \/ UNCHANGED <<cond, fresh>>
BY UpdateEffect DEF SyncNode

LEMMA SyncPodEffect ==
    ASSUME TypeOK, NEW p \in Pods, SyncPod(p)
    PROVE  /\ condCache' = condCache /\ firstBoot /\ req # None
           /\ Handles(p, todo[p]) \/ UNCHANGED <<cond, fresh, lastStart>>
<1>1. todo[p] \in Copies(p) /\ todo[p] \in PodStatus /\ NodeOf[p] \in Nodes
  BY NodeAssumption DEF SyncPod, Copies, TypeOK, WorkType
<1>2. CASE UNCHANGED <<nodes, lastStart>>
  BY <1>2 DEF nodes, SyncPod
<1>3. CASE /\ ~Outdated(p, todo[p]) /\ NoteStart(p, todo[p])
           /\ \/ UpdateSucceeds(NodeOf[p], Judge(p, todo[p]))
              \/ UpdateFails(NodeOf[p], Judge(p, todo[p]))
  BY <1>1, <1>3, UpdateEffect DEF SyncPod, Handles
<1> QED BY <1>2, <1>3 DEF SyncPod

LEMMA SetEffect ==
    ASSUME TypeOK, SetNodeCondition
    PROVE  /\ condCache' = condCache /\ req \in Pods /\ req # None /\ ~firstBoot /\ claim = None
           /\ Handles(req, podCache[req])
<1>1. req \in Pods /\ podCache[req] \in Copies(req) /\ podCache[req] \in PodStatus /\ todo[req] = None
  BY DEF SetNodeCondition, Copies, TypeOK, WorkType, NoTodo
<1>2. req # None /\ NodeOf[req] \in Nodes
  BY <1>1, NodeAssumption, NoneAssumption
<1>3. condCache' = condCache /\ (\/ Writes(NodeOf[req], Judge(req, podCache[req]))
                                 \/ UNCHANGED <<cond, fresh>>)
  BY <1>1, <1>2, UpdateEffect DEF SetNodeCondition
<1> QED BY <1>1, <1>2, <1>3 DEF SetNodeCondition, Handles

\* The worker handles a pod, tells a node of a full sync that it waits for one, or does
\* neither.
LEMMA WorkerEffect ==
    ASSUME TypeOK, Worker
    PROVE  /\ condCache' = condCache /\ req # None
           /\ \/ UNCHANGED <<cond, fresh, lastStart>>
              \/ /\ firstBoot /\ lastStart' = lastStart
                 /\ \E n \in waiting : n \in Nodes /\ Writes(n, NoAgent)
              \/ \E p \in Pods : \E s \in {todo[p], podCache[p]} : Handles(p, s)
<1>1. ASSUME NEW n \in Nodes, SyncNode(n)
      PROVE  /\ condCache' = condCache /\ lastStart' = lastStart /\ n \in waiting /\ firstBoot
             /\ req # None
             /\ Writes(n, NoAgent) \/ UNCHANGED <<cond, fresh>>
  BY <1>1, SyncNodeEffect
<1>2. ASSUME NEW p \in Pods, SyncPod(p)
      PROVE  /\ condCache' = condCache /\ req # None
             /\ Handles(p, todo[p]) \/ UNCHANGED <<cond, fresh, lastStart>>
  BY <1>2, SyncPodEffect
<1>3. CASE SetNodeCondition
  BY <1>3, SetEffect
<1>4. CASE SyncDone \/ Ignore \/ AssertNodeStatus
  BY <1>4, NoneAssumption, NodeAssumption
     DEF SyncDone, Ignore, AssertNodeStatus, nodes, TypeOK, WorkType
<1> QED BY <1>1, <1>2, <1>3, <1>4 DEF Worker

\* Starts that are noted only become later, while the process runs.
LEMMA HandlesStart ==
    ASSUME TypeOK, PodInv, StartInv, NEW p \in Pods, NEW s, Handles(p, s), NEW n \in Nodes
    PROVE  /\ lastStart'[n] \in Nat /\ lastStart[n] <= lastStart'[n] /\ lastStart'[n] <= now
           /\ n = NodeOf[p] /\ s.start # 0 => lastStart'[n] = s.start
           /\ n # NodeOf[p] \/ s.start = 0 => lastStart'[n] = lastStart[n]
<1>1. lastStart \in [Nodes -> Nat] /\ now \in Nat /\ lastStart[n] <= now
  BY DEF TypeOK, WorkType, WorldType, StartInv
<1>2. s.start \in Nat /\ s.start <= now /\ NodeOf[p] \in Nodes
  BY NodeAssumption DEF Handles, PodStatus, PodInv, Sound
<1>3. s.start # 0 => s.start >= lastStart[NodeOf[p]]
  BY <1>1, <1>2 DEF Handles, Outdated
<1> QED BY <1>1, <1>2, <1>3 DEF Handles, NoteStart

LEMMA StartStep ==
    ASSUME TypeOK, PodInv, StartInv, [Next]_vars
    PROVE  StartInv'
<1>1. now \in Nat /\ now' \in Nat /\ now <= now' /\ lastStart \in [Nodes -> Nat]
  <2>1. now' = now \/ now' = now + 1
    BY DEF Next, Worker, Take, RequeueDue, SyncNode, SyncPod, SyncDone, Ignore, SetNodeCondition,
       AssertNodeStatus, PodInformed, NodeInformed, NodeTouched, Crash, Boot, Tick, Changes,
       CreatePod, StartPod, DeletePod, StartContainers, StopContainers, Cluster, world, vars
  <2> QED BY <2>1 DEF TypeOK, WorkType, WorldType
<1>2. CASE lastStart' = lastStart
  BY <1>1, <1>2 DEF StartInv
<1>3. CASE Boot
  BY <1>1, <1>3 DEF Boot, StartInv
<1>4. CASE Worker
  <2>1. ASSUME NEW p \in Pods, NEW s, Handles(p, s) PROVE StartInv'
    BY <1>1, <1>4, <2>1, HandlesStart, WorkerFrame DEF StartInv
  <2> QED BY <1>2, <1>4, <2>1, WorkerEffect
<1>5. CASE ~Boot /\ ~Worker
  <2>1. lastStart' = lastStart
    BY <1>5 DEF Next, Take, RequeueDue, PodInformed, NodeInformed, NodeTouched, Crash, Tick, Changes,
       CreatePod, StartPod, DeletePod, StartContainers, StopContainers, Cluster, vars
  <2> QED BY <1>2, <2>1
<1> QED BY <1>3, <1>4, <1>5

LEMMA FreshStep ==
    ASSUME TypeOK, FreshInv, [Next]_vars
    PROVE  FreshInv'
<1>0. fresh \in [Nodes -> BOOLEAN] /\ cond \in [Nodes -> Condition \cup {None}]
      /\ condCache \in [Nodes -> Condition \cup {None}]
  BY DEF TypeOK, NodeType
<1>1. CASE UNCHANGED nodes
  BY <1>1 DEF nodes, FreshInv
<1>2. CASE Worker
  <2>1. ASSUME NEW n \in Nodes, NEW new, Writes(n, new) PROVE FreshInv'
    BY <1>0, <1>2, <2>1, WorkerEffect DEF Writes, FreshInv
  <2>2. CASE UNCHANGED <<cond, fresh>>
    BY <1>2, <2>2, WorkerEffect DEF FreshInv
  <2> QED BY <1>2, <2>1, <2>2, WorkerEffect, NodeAssumption DEF Handles
<1>3. ASSUME NEW n \in Nodes, NodeInformed(n) \/ NodeTouched(n) PROVE FreshInv'
  BY <1>0, <1>3 DEF NodeInformed, NodeTouched, FreshInv
<1>4. CASE Boot
  BY <1>4 DEF Boot, FreshInv
<1>5. CASE \/ \E r \in Pods \cup {Other} : Take(r) \/ RequeueDue(r)
           \/ \E p \in Pods : PodInformed(p)
           \/ Changes \/ Crash \/ Tick \/ UNCHANGED vars
  <2>1. UNCHANGED nodes
    BY <1>5 DEF Take, RequeueDue, PodInformed, Crash, Tick, Changes, vars,
       CreatePod, StartPod, DeletePod, StartContainers, StopContainers, Cluster
  <2> QED BY <1>1, <2>1
<1> QED BY <1>2, <1>3, <1>4, <1>5 DEF Next
--------------------------------------------------------------------------------
(* Caches *)

\* A container that does not run, or runs since now, has not run for the grace time.
LEMMA NotAged ==
    ASSUME now \in Nat, NEW s, NEW c \in Containers, s.up[c] \in {0, now}
    PROVE  ~Aged(s, now)
<1>1. ~(now - now >= Grace)
  BY TimeAssumption
<1> QED BY <1>1 DEF Aged

\* Who has run for a grace time has started before now.
LEMMA AgedStart ==
    ASSUME now \in Nat, NEW p \in Pods, NEW s \in PodStatus, Sound(p, s), Aged(s, now)
    PROVE  s.start # 0 /\ s.start < now
<1>1. PICK c \in Containers : TRUE
  BY ContainersAssumption
<1>2. s.up[c] # 0 /\ now - s.up[c] >= Grace /\ s.start # 0 /\ s.start <= s.up[c]
  BY <1>1 DEF Aged, Sound
<1>3. s.up[c] \in Nat /\ s.start \in Nat
  BY DEF PodStatus
<1> QED BY <1>2, <1>3, TimeAssumption

LEMMA ChangeNotAged ==
    ASSUME TypeOK, PodInv, NEW p \in Pods, ChangeOf(p)
    PROVE  ~Aged(pod[p], now)'
<1>1. now' = now /\ now \in Nat
  BY ChangeFrame DEF TypeOK, WorldType
<1>2. CASE pod'[p] = None
  BY <1>2 DEF Aged
<1>3. CASE \E c \in Containers : pod'[p].up[c] \in {0, now}
  BY <1>1, <1>3, NotAged DEF Aged
<1>4. CASE pod'[p] = NewPod
  BY <1>3, <1>4, ContainersAssumption DEF NewPod
<1> QED BY <1>2, <1>3, <1>4, ChangeKinds

LEMMA CopyStep ==
    ASSUME TypeOK, PodInv, CopyInv, [Next]_vars
    PROVE  CopyInv'
<1> SUFFICES ASSUME on', NEW p \in Pods PROVE (AgedCopy(p) /\ AgedTodo(p) /\ BootAsked(p))'
  BY DEF CopyInv
<1>0. now \in Nat /\ todo \in [Pods -> PodStatus \cup {None}]
      /\ pod \in [Pods -> PodStatus \cup {None}] /\ podCache \in [Pods -> PodStatus \cup {None}]
      /\ (req = None \/ ~firstBoot => todo = NoTodo /\ waiting = {})
  BY DEF TypeOK, WorkType, WorldType
<1>1. on => AgedCopy(p) /\ AgedTodo(p) /\ BootAsked(p)
  BY DEF CopyInv
<1>2. CASE Worker
  <2>1. UNCHANGED <<now, pod, podCache, on>>
    BY <1>2, WorkerFrame
  <2>2. todo'[p] \in {todo[p], None} /\ waiting' \subseteq waiting
    BY <1>2 DEF Worker, SyncNode, SyncPod, SyncDone, Ignore, SetNodeCondition, AssertNodeStatus,
       Done, Retry, NoTodo, WorkType, TypeOK
  <2>3. AgedCopy(p)' /\ AgedTodo(p)'
    BY <1>1, <2>1, <2>2 DEF AgedCopy, AgedTodo, Aged
  <2>4. firstBoot' => firstBoot /\ queue \cup {req} \subseteq queue' \cup {req'}
    BY <1>2 DEF Worker, SyncNode, SyncPod, SyncDone, Ignore, SetNodeCondition, AssertNodeStatus,
       Retry, TypeOK, WorkType
  <2> QED BY <1>1, <2>1, <2>3, <2>4 DEF BootAsked
<1>3. ASSUME NEW r \in Pods \cup {Other}, Take(r)
      PROVE  (AgedCopy(p) /\ AgedTodo(p) /\ BootAsked(p))'
  <2>1. UNCHANGED <<now, pod, podCache, on, firstBoot>>
    BY <1>3 DEF Take, world, process
  <2>2. todo'[p] \in {todo[p], podCache[p]} /\ (waiting' = {} \/ Listed = {})
    BY <1>3 DEF Take
  <2>3. Listed = {} => ~Aged(podCache[p], now)
    BY DEF Listed, Aged
  <2>4. AgedCopy(p)' /\ AgedTodo(p)'
    BY <1>1, <2>1, <2>2, <2>3 DEF AgedCopy, AgedTodo, Aged
  <2>5. req = None /\ queue' \cup {req'} = queue
    BY <1>3 DEF Take
  <2> QED BY <1>1, <2>1, <2>4, <2>5, NoneAssumption, NodeAssumption DEF BootAsked
<1>4. ASSUME NEW q \in Pods, PodInformed(q)
      PROVE  (AgedCopy(p) /\ AgedTodo(p) /\ BootAsked(p))'
  <2>1. UNCHANGED <<now, pod, on, firstBoot, todo, waiting, req>> /\ on /\ queue' = queue \cup {q}
    BY <1>4 DEF PodInformed, world, sync
  <2>2. CASE p # q
    <3>1. podCache'[p] = podCache[p]
      BY <1>4, <2>2 DEF PodInformed
    <3> QED BY <1>1, <2>1, <3>1 DEF AgedCopy, AgedTodo, BootAsked, Aged
  <2>3. CASE p = q
    <3>1. podCache'[p] = pod[p] /\ podCache[p] # pod[p]
      BY <1>0, <1>4, <2>3 DEF PodInformed
    <3>2. ~Aged(pod[p], now)
      BY <1>1, <2>1, <3>1 DEF AgedCopy
    <3> QED BY <2>1, <2>3, <3>1, <3>2 DEF AgedCopy, AgedTodo, BootAsked, Aged
  <2> QED BY <2>2, <2>3
<1>5. CASE Boot
  <2>1. podCache' = pod /\ UNCHANGED <<pod, todo, waiting, req>> /\ todo = NoTodo /\ waiting = {}
        /\ queue' = {q \in Pods : pod[q] # None} \cup {Other}
    BY <1>0, <1>5 DEF Boot, world, TypeOK, WorkType
  <2>2. todo'[p] = None
    BY <2>1 DEF NoTodo
  <2> QED BY <2>1, <2>2 DEF AgedCopy, AgedTodo, BootAsked
<1>6. CASE Tick
  <2>1. podCache = pod /\ req = None /\ queue = {} /\ todo = NoTodo /\ waiting = {}
        /\ UNCHANGED <<pod, podCache, todo, waiting, firstBoot, queue, req>>
    BY <1>0, <1>6 DEF Tick, Settled, sync
  <2>2. firstBoot => podCache[p] = None
    BY <1>1, <1>6, <2>1, NoneAssumption, NodeAssumption DEF Tick, BootAsked
  <2> QED BY <2>1, <2>2 DEF AgedCopy, AgedTodo, BootAsked, NoTodo
<1>7. ASSUME NEW q \in Pods, ChangeOf(q)
      PROVE  (AgedCopy(p) /\ AgedTodo(p) /\ BootAsked(p))'
  <2>1. UNCHANGED <<now, podCache, on, todo, waiting, firstBoot, queue, req>>
        /\ (p # q => pod'[p] = pod[p])
    BY <1>7, ChangeFrame DEF process, sync
  <2>2. p = q => ~Aged(pod[p], now)'
    BY <1>7, ChangeNotAged
  <2>3. AgedCopy(p)'
    BY <1>1, <2>1, <2>2 DEF AgedCopy, Aged
  <2> QED BY <1>1, <2>1, <2>3 DEF AgedTodo, BootAsked, Aged
<1>8. CASE \/ \E r \in Pods \cup {Other} : RequeueDue(r)
           \/ \E n \in Nodes : NodeInformed(n) \/ NodeTouched(n)
           \/ UNCHANGED vars
  <2>1. UNCHANGED <<now, pod, podCache, on, todo, waiting, firstBoot, req>> /\ queue \subseteq queue'
    BY <1>8 DEF RequeueDue, NodeInformed, NodeTouched, vars, world, process, sync
  <2> QED BY <1>1, <2>1 DEF AgedCopy, AgedTodo, BootAsked, Aged
<1>9. ~Crash
  BY DEF Crash
<1> QED BY <1>2, <1>3, <1>4, <1>5, <1>6, <1>7, <1>8, <1>9 DEF Next, Changes, ChangeOf
--------------------------------------------------------------------------------
(* Messages *)

LEMMA JudgeKinds ==
    ASSUME NEW p \in Pods, NEW s \in PodStatus
    PROVE  LET m == Judge(p, s)
           IN  /\ m.ready => m = Ready
               /\ m.of \in {Other, p}
               /\ m.of = p => s.start # 0
               /\ m.ready <=> s.start # 0 /\ Down(s) = {} /\ Young(s) = {}
<1>1. p # Other
  BY NodeAssumption
<1>2. CASE s.start = 0
  BY <1>1, <1>2 DEF Judge, Pending
<1>3. CASE s.start # 0 /\ Down(s) = {} /\ Young(s) = {}
  BY <1>3 DEF Judge, Ready
<1>4. CASE s.start # 0 /\ ~(Down(s) = {} /\ Young(s) = {})
  BY <1>4 DEF Judge, NotReady
<1> QED BY <1>2, <1>3, <1>4

\* A condition is changed by the worker alone, its copy by the informers.
LEMMA MessagesStep ==
    ASSUME TypeOK, [Next]_vars, NEW n \in Nodes, NEW m \in Messages(n)'
    PROVE  \/ m \in Messages(n)
           \/ Worker /\ m = NoAgent
           \/ Worker /\ \E p \in Pods : \E s \in {todo[p], podCache[p]} :
                 NodeOf[p] = n /\ Handles(p, s) /\ m = Judge(p, s)
<1>0. cond \in [Nodes -> Condition \cup {None}] /\ condCache \in [Nodes -> Condition \cup {None}]
  BY DEF TypeOK, NodeType
<1>1. CASE Worker
  <2>1. condCache'[n] = condCache[n] /\ m \in {cond'[n], condCache[n]} /\ m # None
    BY <1>1, WorkerEffect DEF Messages
  <2>2. ASSUME NEW k \in Nodes, Writes(k, NoAgent) PROVE m \in Messages(n) \/ m = NoAgent
    BY <1>0, <2>1, <2>2 DEF Writes, Messages
  <2>3. CASE UNCHANGED <<cond, fresh>>
    BY <2>1, <2>3 DEF Messages
  <2>4. CASE \E k \in waiting : k \in Nodes /\ Writes(k, NoAgent)
    BY <1>1, <2>2, <2>4
  <2>5. ASSUME NEW p \in Pods, NEW s \in {todo[p], podCache[p]}, Handles(p, s)
        PROVE  m \in Messages(n) \/ (NodeOf[p] = n /\ m = Judge(p, s))
    <3>1. NodeOf[p] \in Nodes
      BY NodeAssumption
    <3>2. CASE Writes(NodeOf[p], Judge(p, s))
      BY <1>0, <2>1, <3>1, <3>2 DEF Writes, Messages
    <3>3. CASE UNCHANGED <<cond, fresh>>
      BY <2>1, <3>3 DEF Messages
    <3> QED BY <2>5, <3>2, <3>3 DEF Handles
  <2>6. CASE \E p \in Pods : \E s \in {todo[p], podCache[p]} : Handles(p, s)
    <3>0. PICK p \in Pods : \E s \in {todo[p], podCache[p]} : Handles(p, s)
      BY <2>6
    <3>1. PICK s \in {todo[p], podCache[p]} : Handles(p, s)
      BY <3>0
    <3>2. m \in Messages(n) \/ (NodeOf[p] = n /\ m = Judge(p, s))
      BY <2>5, <3>1
    <3> QED BY <1>1, <3>1, <3>2
  <2>7. \/ UNCHANGED <<cond, fresh, lastStart>>
        \/ \E k \in waiting : k \in Nodes /\ Writes(k, NoAgent)
        \/ \E p \in Pods : \E s \in {todo[p], podCache[p]} : Handles(p, s)
    BY <1>1, WorkerEffect
  <2> QED BY <2>3, <2>4, <2>6, <2>7
<1>2. CASE UNCHANGED <<cond, condCache>>
  BY <1>2 DEF Messages
<1>3. ASSUME NEW k \in Nodes, NodeInformed(k) PROVE m \in Messages(n)
  BY <1>0, <1>3 DEF NodeInformed, Messages
<1>4. CASE Boot
  BY <1>4 DEF Boot, Messages
<1>5. CASE \/ \E r \in Pods \cup {Other} : Take(r) \/ RequeueDue(r)
           \/ \E p \in Pods : PodInformed(p)
           \/ \E k \in Nodes : NodeTouched(k)
           \/ Changes \/ Crash \/ Tick \/ UNCHANGED vars
  <2>1. UNCHANGED <<cond, condCache>>
    BY <1>5 DEF Take, RequeueDue, PodInformed, NodeTouched, Crash, Tick, Changes, vars, nodes,
       CreatePod, StartPod, DeletePod, StartContainers, StopContainers, Cluster
  <2> QED BY <1>2, <2>1
<1> QED BY <1>1, <1>3, <1>4, <1>5 DEF Next

LEMMA CalmStep ==
    ASSUME TypeOK, [Next]_vars, restarts' = 0
    PROVE  /\ restarts = 0
           /\ on' => on \/ Boot
           /\ ~on' => ~on /\ ~Worker /\ UNCHANGED <<cond, condCache>>
<1>0. restarts \in Nat /\ (~on => req = None)
  BY DEF TypeOK, WorkType
<1>1. ~Crash
  BY <1>0 DEF Crash
<1>2. CASE Worker
  <2>1. UNCHANGED <<on, restarts>> /\ req # None
    BY <1>2, WorkerFrame, WorkerEffect
  <2> QED BY <1>0, <2>1
<1>3. CASE Boot
  BY <1>3, <1>0 DEF Boot, Worker, SyncNode, SyncPod, SyncDone, Ignore, SetNodeCondition,
     AssertNodeStatus
<1>4. CASE ~Worker /\ ~Boot
  <2>1. UNCHANGED <<on, restarts>>
    BY <1>1, <1>4 DEF Next, Take, RequeueDue, PodInformed, NodeInformed, NodeTouched, Tick, Changes,
       CreatePod, StartPod, DeletePod, StartContainers, StopContainers, Cluster, process, vars
  <2>2. ~on => UNCHANGED <<cond, condCache>>
    BY <1>1, <1>4, <1>0 DEF Next, Take, RequeueDue, PodInformed, NodeInformed, NodeTouched, Tick, Changes,
       CreatePod, StartPod, DeletePod, StartContainers, StopContainers, Cluster, vars, nodes
  <2> QED BY <1>4, <2>1, <2>2
<1> QED BY <1>2, <1>3, <1>4

LEMMA BornGrows ==
    ASSUME TypeOK, PodInv, [Next]_vars
    PROVE  born \in Nat /\ born' \in Nat /\ born <= born'
<1>1. born \in Nat
  BY DEF TypeOK, WorldType
<1>2. ASSUME NEW p \in Pods, ChangeOf(p) PROVE born' \in Nat /\ born <= born'
  BY <1>1, <1>2, ChangeKinds, NodeAssumption
<1>3. CASE ~Changes
  BY <1>1, <1>3, CopiesStep
<1> QED BY <1>1, <1>2, <1>3 DEF Changes, ChangeOf

LEMMA MessageStep ==
    ASSUME TypeOK, PodInv, MessageInv, [Next]_vars
    PROVE  MessageInv'
<1>0. born \in Nat /\ born' \in Nat /\ born <= born'
  BY BornGrows
<1>1. ASSUME NEW n \in Nodes, NEW m \in Messages(n)'
      PROVE  (m.ready => m = Ready) /\ m.of <= born'
  <2>1. CASE m \in Messages(n)
    <3>1. (m.ready => m = Ready) /\ m.of <= born /\ m \in Condition
      BY <2>1 DEF MessageInv, Messages, TypeOK, NodeType
    <3>2. m.of \in Nat
      <4>1. m.of \in Pods \cup {Other}
        BY <3>1 DEF Condition
      <4>2. Other \in Nat /\ \A p \in Pods : p \in Nat
        BY NodeAssumption DEF Other
      <4> QED BY <4>1, <4>2
    <3> QED BY <1>0, <3>1, <3>2
  <2>2. CASE m = NoAgent
    BY <1>0, <2>2 DEF NoAgent, Other
  <2>3. ASSUME NEW p \in Pods, NEW s, Handles(p, s), m = Judge(p, s)
        PROVE  (m.ready => m = Ready) /\ m.of <= born'
    <3>1. s \in PodStatus /\ s \in Copies(p) /\ p <= born /\ p \in Nat
      BY <2>3, NodeAssumption DEF Handles, PodInv, Sound
    <3>2. (m.ready => m = Ready) /\ m.of \in {Other, p}
      BY <2>3, <3>1, JudgeKinds
    <3> QED BY <1>0, <3>1, <3>2 DEF Other
  <2> QED BY <2>1, <2>2, <2>3, MessagesStep
<1>2. restarts' = 0 /\ ~on' => \A n \in Nodes : cond'[n] = None /\ condCache'[n] = None
  BY CalmStep DEF MessageInv
<1> QED BY <1>1, <1>2 DEF MessageInv

\* While one process runs, the start of a node's agents that is noted becomes later.
LEMMA StartGrows ==
    ASSUME TypeOK, PodInv, StartInv, [Next]_vars, ~Boot, NEW n \in Nodes
    PROVE  lastStart[n] \in Nat /\ lastStart'[n] \in Nat /\ lastStart[n] <= lastStart'[n]
<1>1. lastStart[n] \in Nat
  BY DEF TypeOK, WorkType
<1>2. CASE lastStart' = lastStart
  BY <1>1, <1>2
<1>3. CASE Worker
  BY <1>1, <1>2, <1>3, WorkerEffect, HandlesStart
<1>4. CASE ~Worker
  <2>1. lastStart' = lastStart
    BY <1>4 DEF Next, Take, RequeueDue, PodInformed, NodeInformed, NodeTouched, Crash, Tick, Changes,
       CreatePod, StartPod, DeletePod, StartContainers, StopContainers, Cluster, vars
  <2> QED BY <1>2, <2>1
<1> QED BY <1>3, <1>4

\* A pod that is present after a step is new, has just started or has its start.
LEMMA PodStart ==
    ASSUME TypeOK, PodInv, [Next]_vars, NEW p \in Pods, pod'[p] # None
    PROVE  \/ p > born /\ pod'[p] = NewPod /\ pod[p] = None
           \/ pod[p] # None /\ pod[p].start = 0 /\ pod'[p].start = now /\ ~Replaced(p) /\ Changes
           \/ pod[p] # None /\ pod'[p].start = pod[p].start
<1>1. CASE ~Changes
  BY <1>1, CopiesStep
<1>2. ASSUME NEW q \in Pods, ChangeOf(q)
      PROVE  \/ p > born /\ pod'[p] = NewPod /\ pod[p] = None
             \/ /\ pod[p] # None /\ pod[p].start = 0 /\ pod'[p].start = now /\ ~Replaced(p)
                /\ ChangeOf(q)
             \/ pod[p] # None /\ pod'[p].start = pod[p].start
  <2>1. CASE p # q
    BY <1>2, <2>1, ChangeFrame
  <2>2. CASE p = q
    BY <1>2, <2>2, ChangeKinds
  <2> QED BY <2>1, <2>2
<1> QED BY <1>1, <1>2 DEF Changes, ChangeOf

LEMMA NotedStep ==
    ASSUME FactsInv, NotedInv, [Next]_vars
    PROVE  NotedInv'
<1> USE DEF FactsInv
<1> SUFFICES ASSUME Calm', NEW p \in Pods, NEW m \in Messages(NodeOf[p])', m.of = p, pod'[p] # None
             PROVE  pod'[p].start # 0 /\ pod'[p].start <= lastStart'[NodeOf[p]]
  BY DEF NotedInv
<1>0. NodeOf[p] \in Nodes /\ p \in Nat \ {Other} /\ born \in Nat
  BY NodeAssumption DEF TypeOK, WorldType
<1>1. ~Boot
  <2> SUFFICES ASSUME Boot PROVE FALSE
    OBVIOUS
  <2>1. restarts = 0 /\ ~on
    BY CalmStep DEF Calm, Boot
  <2>2. cond[NodeOf[p]] = None
    BY <1>0, <2>1 DEF MessageInv
  <2> QED BY <2>2 DEF Boot, Messages
<1>2. Calm
  BY <1>1, CalmStep DEF Calm
<1>3. CASE m \in Messages(NodeOf[p])
  <2>1. m.of <= born
    BY <1>0, <1>3 DEF MessageInv
  <2>2. pod[p] # None => pod[p].start # 0 /\ pod[p].start <= lastStart[NodeOf[p]] /\ pod[p].start \in Nat
    BY <1>2, <1>3 DEF NotedInv, TypeOK, WorldType, PodStatus
  <2>3. pod[p] # None /\ pod'[p].start = pod[p].start
    BY <1>0, <2>1, <2>2, PodStart
  <2> QED BY <1>0, <1>1, <2>2, <2>3, StartGrows
<1>4. CASE m = NoAgent
  BY <1>0, <1>4 DEF NoAgent
<1>5. ASSUME NEW q \in Pods, NEW s \in {todo[q], podCache[q]}, Worker, Handles(q, s), m = Judge(q, s)
      PROVE  pod'[p].start # 0 /\ pod'[p].start <= lastStart'[NodeOf[p]]
  <2>1. s \in PodStatus /\ s \in Copies(q)
    BY <1>5 DEF Handles
  <2>2. q = p /\ s.start # 0
    BY <1>0, <1>5, <2>1, JudgeKinds
  <2>3. pod' = pod
    BY <1>5, WorkerFrame
  <2>4. s.start = pod[p].start
    BY <2>1, <2>2, <2>3 DEF PodInv, SameStart
  <2>5. lastStart'[NodeOf[p]] = s.start /\ s.start \in Nat
    BY <1>0, <1>5, <2>1, <2>2, HandlesStart DEF PodStatus
  <2> QED BY <2>2, <2>3, <2>4, <2>5
<1> QED BY <1>0, <1>3, <1>4, <1>5, MessagesStep
--------------------------------------------------------------------------------
(* The agent of a node and the others *)

\* Takes, informers, due requests, other updates of nodes and crashes.
LEMMA QuietFrame ==
    ASSUME [Next]_vars, ~Worker, ~Changes, ~Boot, ~Tick
    PROVE  UNCHANGED <<now, pod, born, blurred, lastStart, cond>>
BY DEF Next, Take, RequeueDue, PodInformed, NodeInformed, NodeTouched, Crash, world, process, nodes, vars

\* The agent of a node was that before, or it starts, or the process does.
LEMMA CurrentStep ==
    ASSUME FactsInv, [Next]_vars, NEW p \in Pods, Current(p)'
    PROVE  \/ Boot /\ restarts = 0 /\ ~on
           \/ Changes /\ pod[p] # None /\ pod[p].start = 0 /\ pod'[p].start = now /\ Calm
           \/ Current(p) /\ ~Boot /\ pod'[p].start = pod[p].start /\ pod'[p] # None
<1> USE DEF FactsInv
<1>1. Calm' /\ pod'[p] # None /\ pod'[p].start # 0 /\ NodeOf[p] \notin blurred'
      /\ \A q \in Pods : NodeOf[q] = NodeOf[p] /\ q <= born' => q <= p
  BY DEF Current
<1>2. CASE Boot
  BY <1>1, <1>2, CalmStep DEF Calm, Boot
<1>3. CASE ~Boot
  <2>1. Calm
    BY <1>1, <1>3, CalmStep DEF Calm
  <2>2. blurred \subseteq blurred'
    <3>1. Worker => blurred' = blurred
      BY DEF Worker, SyncNode, SyncPod, SyncDone, Ignore, SetNodeCondition, AssertNodeStatus, process
    <3>2. Changes => blurred' = blurred
      BY DEF Changes, CreatePod, StartPod, DeletePod, StartContainers, StopContainers, Cluster, process
    <3>3. Tick => blurred \subseteq blurred'
      BY DEF Tick
    <3> QED BY <1>3, <3>1, <3>2, <3>3, QuietFrame
  <2>3. pod'[p] # NewPod
    BY <1>1 DEF NewPod
  <2>4. \A q \in Pods : NodeOf[q] = NodeOf[p] /\ q <= born => q <= p
    <3>1. born \in Nat /\ born' \in Nat /\ born <= born' /\ \A q \in Pods : q \in Nat
      BY BornGrows, NodeAssumption
    <3> QED BY <1>1, <3>1
  <2>5. \/ pod[p] # None /\ pod[p].start = 0 /\ pod'[p].start = now /\ Changes
        \/ pod[p] # None /\ pod'[p].start = pod[p].start
    BY <1>1, <2>3, PodStart
  <2> QED BY <1>1, <1>3, <2>1, <2>2, <2>4, <2>5 DEF Current
<1> QED BY <1>2, <1>3

\* There is no other agent when the process starts.
LEMMA AloneAtBoot ==
    ASSUME TypeOK, PodInv, Boot, NEW p \in Pods, Current(p)', NEW q \in Others(p)
    PROVE  pod[q] = None /\ podCache'[q] = None /\ todo'[q] = None /\ Copies(q)' = {}
<1>1. podCache' = pod /\ pod' = pod /\ todo' = NoTodo /\ blurred' = Shared /\ born' = born
  BY DEF Boot, world, TypeOK, WorkType
<1>2. q \in Pods /\ q # p /\ NodeOf[q] = NodeOf[p]
  BY DEF Others
<1>3. pod[q] = None
  <2> SUFFICES ASSUME pod[q] # None PROVE FALSE
    OBVIOUS
  <2>1. q <= born
    BY <1>2 DEF PodInv, Copies, Sound
  <2>2. q <= p /\ pod[p] # None /\ NodeOf[p] \notin Shared
    BY <1>1, <1>2, <2>1 DEF Current
  <2>3. p > q
    BY <1>2, <2>2, NodeAssumption
  <2>4. Replaced(q)
    BY <1>2, <2>2, <2>3 DEF Replaced
  <2> QED BY <1>2, <2>2, <2>4 DEF Shared
<1> QED BY <1>1, <1>2, <1>3 DEF NoTodo, Copies

\* What is handled of another agent is outdated, or the agent of the node started now.
LEMMA OtherHandled ==
    ASSUME FactsInv, OthersInv, NEW p \in Pods, Current(p), NEW q \in Pods, NEW s,
           NodeOf[q] = NodeOf[p], q # p, Handles(q, s)
    PROVE  pod[p].start = now
<1> USE DEF FactsInv
<1> SUFFICES ASSUME pod[p].start # now PROVE FALSE
  OBVIOUS
<1>1. s \in Copies(q) /\ ~Outdated(q, s) /\ s \in PodStatus /\ q \in Others(p)
  BY DEF Handles, Others
<1>2. s.start \in 1 .. pod[p].start - 1 /\ pod[p].start <= lastStart[NodeOf[p]]
  BY <1>1 DEF OthersInv
<1>3. pod[p].start \in Nat /\ lastStart[NodeOf[p]] \in Nat
  BY NodeAssumption DEF Current, TypeOK, WorldType, WorkType, PodStatus
<1> QED BY <1>1, <1>2, <1>3 DEF Outdated

LEMMA OthersStep ==
    ASSUME FactsInv, OthersInv, AskedInv, [Next]_vars
    PROVE  OthersInv'
<1> USE DEF FactsInv
<1> DEFINE Ended(p) == \A q \in Others(p) : \A s \in Copies(q) :
                s.start \in 1 .. pod[p].start - 1 /\ pod[p].start <= lastStart[NodeOf[p]]
<1> SUFFICES ASSUME NEW p \in Pods, Current(p)'
             PROVE  lastStart'[NodeOf[p]] <= pod'[p].start /\ (pod'[p].start # now' => Ended(p)')
  BY DEF OthersInv
<1>0. NodeOf[p] \in Nodes /\ lastStart[NodeOf[p]] \in Nat /\ now \in Nat
  BY NodeAssumption DEF TypeOK, WorkType, WorldType
<1>1. CASE Boot
  <2>1. Ended(p)'
    BY <1>1, AloneAtBoot
  <2>2. lastStart'[NodeOf[p]] = 0 /\ pod'[p] = pod[p] /\ pod[p] # None
    BY <1>0, <1>1 DEF Boot, world, Current
  <2>3. pod[p].start \in Nat
    BY <2>2 DEF TypeOK, WorldType, PodStatus
  <2> QED BY <2>1, <2>2, <2>3
<1>2. CASE Changes /\ pod'[p].start = now
  <2>1. UNCHANGED <<now, lastStart>>
    BY <1>2, ChangeFrame DEF Changes, ChangeOf
  <2> QED BY <1>0, <1>2, <2>1 DEF StartInv
<1>3. CASE Current(p) /\ ~Boot /\ pod'[p].start = pod[p].start /\ pod'[p] # None
  <2>0. /\ pod[p] # None /\ pod[p].start \in Nat /\ lastStart[NodeOf[p]] <= pod[p].start
        /\ pod[p].start # now => Ended(p)
    BY <1>3 DEF Current, OthersInv, TypeOK, WorldType, PodStatus
  <2>1. CASE Worker
    <3>1. UNCHANGED <<now, pod>> /\ \A q \in Pods : Copies(q)' \subseteq Copies(q)
      <4>1. ~Changes
        BY <2>1, WorkerFrame, WorkerEffect DEF Changes, CreatePod, StartPod, DeletePod,
           StartContainers, StopContainers, Cluster, Worker, SyncNode, SyncPod, SyncDone, Ignore,
           SetNodeCondition, AssertNodeStatus, world, TypeOK, WorldType
      <4> QED BY <2>1, <4>1, CopiesStep, WorkerFrame
    <3>2. lastStart'[NodeOf[p]] \in Nat /\ lastStart[NodeOf[p]] <= lastStart'[NodeOf[p]]
      BY <1>0, <1>3, StartGrows
    <3>3. lastStart'[NodeOf[p]] <= pod[p].start
      <4>1. ASSUME NEW q \in Pods, NEW s, Handles(q, s) PROVE lastStart'[NodeOf[p]] <= pod[p].start
        <5>1. s.start \in Nat /\ s \in Copies(q) /\ s.start <= now
          BY <4>1 DEF Handles, PodStatus, PodInv, Sound
        <5>2. CASE NodeOf[q] = NodeOf[p] /\ s.start # 0
          <6>1. lastStart'[NodeOf[p]] = s.start
            BY <1>0, <4>1, <5>2, HandlesStart
          <6>2. q = p => s.start = pod[p].start
            BY <2>0, <5>1, <5>2 DEF PodInv, SameStart
          <6>3. q # p => pod[p].start = now
            BY <1>3, <4>1, <5>2, OtherHandled
          <6> QED BY <2>0, <5>1, <6>1, <6>2, <6>3
        <5>3. CASE NodeOf[q] # NodeOf[p] \/ s.start = 0
          BY <1>0, <2>0, <4>1, <5>3, HandlesStart
        <5> QED BY <5>2, <5>3
      <4>2. CASE lastStart' = lastStart
        BY <2>0, <4>2
      <4> QED BY <2>1, <4>1, <4>2, WorkerEffect
    <3>4. Ended(p) => Ended(p)'
      BY <1>0, <2>0, <3>1, <3>2 DEF Others
    <3> QED BY <2>0, <3>1, <3>3, <3>4
  <2>2. CASE Tick
    <3>1. /\ on /\ Settled /\ now' = now + 1 /\ blurred' = blurred \cup Unordered
          /\ UNCHANGED <<pod, podCache, todo, lastStart>>
      BY <1>3, <2>2 DEF Tick, Current, Calm, sync
    <3>2. podCache = pod /\ todo = NoTodo /\ req = None /\ queue = {}
      BY <3>1 DEF Settled, TypeOK, WorkType
    <3>3. pod[p].start <= lastStart[NodeOf[p]]
      <4>1. Seen(p) /\ ~Asked(p)
        BY <1>3, <3>2, NodeAssumption, NoneAssumption DEF Seen, Asked, Current
      <4> QED BY <1>0, <2>0, <3>2, <4>1 DEF AskedInv, StartAsked
    <3>4. ASSUME NEW q \in Others(p), NEW s \in Copies(q)' PROVE s.start \in 1 .. pod[p].start - 1
      <4>1. s = pod[q] /\ pod[q] # None /\ q \in Pods /\ q # p /\ NodeOf[q] = NodeOf[p]
        BY <3>1, <3>2, <3>4 DEF Copies, NoTodo, Others
      <4>2. q <= born /\ s \in PodStatus
        BY <4>1 DEF PodInv, Copies, Sound, TypeOK, WorldType
      <4>3. q < p
        BY <1>3, <4>1, <4>2, NodeAssumption DEF Current
      <4>4. NodeOf[p] \notin Unordered
        BY <3>1 DEF Current
      <4>5. ~(pod[q].start = 0 \/ pod[q].start = pod[p].start)
        BY <1>0, <2>0, <4>1, <4>3, <4>4 DEF Unordered
      <4>6. pod[q].start <= pod[p].start
        BY <1>3, <4>1, <4>3 DEF PodInv, InOrder, Current
      <4> QED BY <2>0, <4>1, <4>2, <4>5, <4>6 DEF PodStatus
    <3> QED BY <2>0, <3>1, <3>3, <3>4
  <2>3. ASSUME NEW r \in Pods, ChangeOf(r)
        PROVE  lastStart'[NodeOf[p]] <= pod'[p].start /\ (pod'[p].start # now' => Ended(p)')
    <3>1. UNCHANGED <<now, lastStart, podCache, todo>> /\ \A q \in Pods \ {r} : pod'[q] = pod[q]
      BY <2>3, ChangeFrame DEF process, sync
    <3>2. ASSUME pod[p].start # now, NEW q \in Others(p), NEW s \in Copies(q)'
          PROVE  s.start \in 1 .. pod[p].start - 1 /\ pod[p].start <= lastStart[NodeOf[p]]
      <4>0. Ended(p) /\ q \in Pods /\ q # p /\ NodeOf[q] = NodeOf[p]
        BY <2>0, <3>2 DEF Others
      <4>1. CASE s \in Copies(q)
        BY <4>0, <4>1
      <4>2. CASE s \notin Copies(q)
        <5>1. s = pod'[q] /\ pod'[q] # None /\ q = r
          BY <3>1, <3>2, <4>0, <4>2 DEF Copies
        <5>2. CASE pod'[q] = NewPod /\ q > born /\ born' = q
          <6>1. q <= p /\ p <= born
            BY <1>3, <4>0, <5>2, NodeAssumption DEF Current, PodInv, Copies, Sound
          <6> QED BY <4>0, <5>2, <6>1, NodeAssumption DEF TypeOK, WorldType
        <5>3. CASE ~Replaced(q) /\ q <= born
          <6>1. p > q
            BY <1>3, <4>0, <5>3, NodeAssumption DEF Current
          <6> QED BY <2>0, <4>0, <5>3, <6>1 DEF Replaced
        <5>4. CASE pod[q] # None /\ pod'[q].start = pod[q].start
          BY <4>0, <5>1, <5>4 DEF Copies
        <5> QED BY <2>3, <5>1, <5>2, <5>3, <5>4, ChangeKinds
      <4> QED BY <4>1, <4>2
    <3> QED BY <1>3, <2>0, <3>1, <3>2
  <2>4. CASE ~Worker /\ ~Tick /\ ~Changes
    <3>1. UNCHANGED <<now, pod, lastStart>>
      BY <1>3, <2>4, QuietFrame
    <3>2. \A q \in Pods : Copies(q)' \subseteq Copies(q)
      BY <2>4, CopiesStep
    <3> QED BY <2>0, <3>1, <3>2 DEF Others
  <2> QED BY <2>1, <2>2, <2>3, <2>4 DEF Changes, ChangeOf
<1> QED BY <1>1, <1>2, <1>3, CurrentStep
--------------------------------------------------------------------------------
(* Stale copies of the condition *)

\* A pod is ready exactly when it has run for the grace time.
LEMMA AgedJudge ==
    ASSUME now \in Nat, NEW p \in Pods, NEW s \in PodStatus, Sound(p, s)
    PROVE  Judge(p, s).ready <=> Aged(s, now)
<1>1. Judge(p, s).ready => Aged(s, now)
  BY JudgeReady
<1>2. ASSUME Aged(s, now) PROVE Judge(p, s).ready
  <2>1. s.start # 0
    BY <1>2, AgedStart
  <2>2. \A c \in Containers : s.up[c] # 0 /\ now - s.up[c] >= Grace /\ s.up[c] \in Nat
    BY <1>2 DEF Aged, PodStatus
  <2>3. Down(s) = {} /\ Young(s) = {}
    BY <2>2, TimeAssumption DEF Down, Young
  <2> QED BY <2>1, <2>3, JudgeKinds
<1> QED BY <1>1, <1>2

\* Who will have run for the grace time waits for its end now.
LEMMA AgedNext ==
    ASSUME now \in Nat, NEW s \in PodStatus, s.start # 0, Aged(s, now + 1), ~Aged(s, now)
    PROVE  Waits(s)
<1>1. \A c \in Containers : s.up[c] # 0 /\ s.up[c] \in Nat
  BY DEF Aged, PodStatus
<1>2. PICK c \in Containers : ~(now - s.up[c] >= Grace)
  BY <1>1, NoneAssumption DEF Aged
<1>3. c \in Young(s)
  BY <1>1, <1>2, TimeAssumption DEF Young
<1> QED BY <1>1, <1>3 DEF Waits, Down

\* The copies of the agent of a node.
LEMMA CurrentCopies ==
    ASSUME FactsInv, NEW p \in Pods, Current(p), NEW s \in Copies(p)
    PROVE  /\ s \in PodStatus /\ s # None /\ Sound(p, s)
           /\ s.start # 0 => s.start = pod[p].start
           /\ Aged(s, now) => s.start = pod[p].start /\ pod[p].start < now
<1> USE DEF FactsInv
<1>1. s \in PodStatus /\ s # None /\ Sound(p, s) /\ (s.start # 0 => s.start = pod[p].start)
  BY DEF Copies, TypeOK, WorldType, WorkType, PodInv, SameStart, Current
<1> QED BY <1>1, AgedStart DEF TypeOK, WorldType

\* A write shows that the copy was the latest version.
LEMMA WriteEffect ==
    ASSUME TypeOK, FreshInv, NEW k \in Nodes, NEW new, Writes(k, new), NEW n \in Nodes
    PROVE  /\ k = n => cond'[n] = new /\ condCache[n] = cond[n]
           /\ k # n => cond'[n] = cond[n]
BY DEF Writes, FreshInv, TypeOK, NodeType

\* When nothing is left to do the agent has been judged.
LEMMA SettledJudged ==
    ASSUME FactsInv, NEW p \in Pods, Current(p), Settled
    PROVE  /\ Judged(p) /\ podCache[p] = pod[p] /\ todo = NoTodo /\ todo[p] = None
           /\ condCache[NodeOf[p]] = cond[NodeOf[p]]
<1> USE DEF FactsInv
<1>1. podCache = pod /\ todo = NoTodo /\ req = None /\ queue = {}
  BY DEF Settled, TypeOK, WorkType
<1>2. due[p] \in Nat /\ now \in Nat /\ (due[p] = 0 \/ due[p] > now)
  BY DEF Settled, TypeOK, WorkType, WorldType
<1>3. ~(due[p] \in 1 .. now)
  BY <1>2
<1>4. Seen(p)
  BY <1>1 DEF Seen, Current
<1>5. ~Asked(p)
  BY <1>1, NodeAssumption, NoneAssumption DEF Asked
<1>6. condCache[NodeOf[p]] = cond[NodeOf[p]]
  BY NodeAssumption DEF Settled, FreshInv
<1> QED BY <1>1, <1>3, <1>4, <1>5, <1>6 DEF Judged, NoTodo

\* What is ready has no message.
LEMMA ReadyAccusesNobody ==
    ASSUME FactsInv, NEW n \in Nodes, NEW p \in Pods, IsReady(n)
    PROVE  ~Accuses(cond[n], p)
<1>1. cond[n] = Ready
  BY DEF FactsInv, MessageInv, Messages, IsReady
<1> QED BY <1>1 DEF Accuses, Ready

\* An agent that starts is named by no message, and its copies have not started.
LEMMA NotStarted ==
    ASSUME FactsInv, NotedInv, NEW p \in Pods, Calm, pod[p] # None, pod[p].start = 0
    PROVE  /\ \A m \in Messages(NodeOf[p]) : m.of # p
           /\ \A s \in Copies(p) : s.start = 0 /\ ~Aged(s, now)
<1> USE DEF FactsInv
<1>1. \A m \in Messages(NodeOf[p]) : m.of # p
  BY DEF NotedInv
<1>2. ASSUME NEW s \in Copies(p) PROVE s.start = 0 /\ ~Aged(s, now)
  <2>1. s \in PodStatus /\ Sound(p, s) /\ s.start = 0
    BY <1>2 DEF Copies, TypeOK, WorldType, WorkType, PodInv, SameStart
  <2> QED BY <2>1, AgedStart DEF TypeOK, WorldType
<1> QED BY <1>1, <1>2

StaleFacts(p) ==
    /\ IsReady(NodeOf[p]) => ~Accuses(condCache[NodeOf[p]], p)
    /\ Aged(podCache[p], now) /\ ~IsReady(NodeOf[p]) => ~ReadyMessage(condCache[NodeOf[p]])
    /\ Accuses(cond[NodeOf[p]], p) => ~Aged(podCache[p], now) /\ ~Aged(todo[p], now)

\* A pod is handled: the agent itself as it is known, or another one while the agent is
\* too young to be ready.
LEMMA StaleHandles ==
    ASSUME FactsInv, NotedInv, OthersInv, NEW p \in Pods, Current(p), StaleFacts(p),
           NEW q \in Pods, NEW s \in {todo[q], podCache[q]}, Handles(q, s), Worker
    PROVE  StaleFacts(p)'
<1> USE DEF FactsInv
<1> DEFINE n == NodeOf[p]
<1>0. /\ n \in Nodes /\ NodeOf[q] \in Nodes /\ now \in Nat /\ p # Other
      /\ podCache[p] # None => podCache[p] \in Copies(p)
      /\ todo[p] # None => todo[p] \in Copies(p)
  BY NodeAssumption DEF TypeOK, WorldType, Copies
<1>1. UNCHANGED <<now, pod, podCache, condCache>> /\ todo'[p] \in {todo[p], None} /\ on
  <2>1. UNCHANGED <<now, pod, podCache, condCache>>
    BY WorkerFrame, WorkerEffect
  <2>2. todo'[p] \in {todo[p], None}
    BY DEF Worker, SyncNode, SyncPod, SyncDone, Ignore, SetNodeCondition, AssertNodeStatus,
       Done, Retry, NoTodo, WorkType, TypeOK
  <2> QED BY <2>1, <2>2 DEF Current, Calm
<1>2. CASE cond'[n] = cond[n]
  BY <1>1, <1>2 DEF StaleFacts, IsReady, Aged
<1>3. CASE Writes(NodeOf[q], Judge(q, s)) /\ NodeOf[q] = n
  <2>0. s \in Copies(q) /\ s \in PodStatus /\ Sound(q, s)
    BY DEF Handles, PodInv
  <2>1. cond'[n] = Judge(q, s) /\ condCache[n] = cond[n]
    BY <1>0, <1>3, WriteEffect
  <2>2. cond'[n] \in Condition /\ cond'[n] # None
    BY <2>0, <2>1, JudgeType, NoneAssumption
  <2>3. IsReady(n)' <=> Aged(s, now)
    BY <1>0, <2>0, <2>1, <2>2, AgedJudge DEF IsReady
  <2>4. IsReady(n)' => cond'[n] = Ready
    BY <2>0, <2>1, <2>2, JudgeKinds DEF IsReady
  <2>5. CASE q = p
    <3>1. Aged(podCache[p], now) => s = podCache[p]
      BY <1>1, <2>0, <2>5 DEF CopyInv, AgedTodo, Copies
    <3>2. Aged(todo[p], now) => s = todo[p]
      BY <2>5 DEF Handles, Aged
    <3>3. IsReady(n)' => ~Accuses(condCache[n], p)
      <4>1. s \in {todo[p], podCache[p]}
        BY <2>5
      <4>2. Aged(s, now) => ~Accuses(cond[n], p)
        BY <4>1 DEF StaleFacts
      <4> QED BY <2>1, <2>3, <4>2
    <3>4. Aged(podCache[p], now) \/ Aged(todo[p], now) => IsReady(n)' /\ cond'[n] = Ready
      BY <2>3, <2>4, <3>1, <3>2
    <3>5. cond'[n] = Ready => ~Accuses(cond'[n], p)
      BY DEF Ready, Accuses
    <3>6. Aged(todo'[p], now) => Aged(todo[p], now)
      BY <1>1 DEF Aged
    <3> QED BY <1>1, <3>3, <3>4, <3>5, <3>6 DEF StaleFacts, Aged
  <2>6. CASE q # p
    <3>1. pod[p].start = now
      BY <1>3, <2>6, OtherHandled
    <3>2. ~Aged(podCache[p], now) /\ ~Aged(todo[p], now)
      <4>1. \A t \in Copies(p) : ~Aged(t, now)
        BY <1>0, <3>1, CurrentCopies
      <4> QED BY <1>0, <4>1 DEF Aged
    <3>3. ASSUME IsReady(n)', Accuses(condCache[n], p) PROVE FALSE
      <4>1. s.start # 0 /\ s.start < now /\ s.start \in Nat
        BY <1>0, <2>0, <2>3, <3>3, AgedStart DEF PodStatus
      <4>2. condCache[n] \in Messages(n) /\ condCache[n].of = p
        BY <3>3 DEF Accuses, Messages
      <4>3. now <= lastStart[n] /\ lastStart[n] \in Nat
        BY <1>0, <3>1, <4>2 DEF NotedInv, Current, TypeOK, WorkType
      <4> QED BY <1>0, <1>3, <4>1, <4>3 DEF Handles, Outdated
    <3> QED BY <1>1, <3>2, <3>3 DEF StaleFacts, Aged
  <2> QED BY <2>5, <2>6
<1>4. CASE NodeOf[q] # n /\ Writes(NodeOf[q], Judge(q, s))
  BY <1>0, <1>2, <1>4, WriteEffect
<1> QED BY <1>2, <1>3, <1>4 DEF Handles

\* Only a full sync that found no agent at all writes that a node waits for one.
LEMMA StaleWaiting ==
    ASSUME FactsInv, NEW p \in Pods, Current(p), StaleFacts(p),
           NEW k \in waiting, k \in Nodes, Writes(k, NoAgent), Worker
    PROVE  StaleFacts(p)'
<1> USE DEF FactsInv
<1> DEFINE n == NodeOf[p]
<1>0. n \in Nodes /\ p # Other /\ on
  BY NodeAssumption DEF Current, Calm
<1>1. UNCHANGED <<now, podCache, condCache>> /\ todo'[p] \in {todo[p], None}
  <2>1. UNCHANGED <<now, podCache, condCache>>
    BY WorkerFrame, WorkerEffect
  <2>2. todo'[p] \in {todo[p], None}
    BY DEF Worker, SyncNode, SyncPod, SyncDone, Ignore, SetNodeCondition, AssertNodeStatus,
       Done, Retry, NoTodo, WorkType, TypeOK
  <2> QED BY <2>1, <2>2
<1>2. CASE k # n
  <2>1. cond'[n] = cond[n]
    BY <1>0, <1>2, WriteEffect
  <2> QED BY <1>1, <2>1 DEF StaleFacts, IsReady, Aged
<1>3. CASE k = n
  <2>1. cond'[n] = NoAgent
    BY <1>0, <1>3, WriteEffect
  <2>2. ~IsReady(n)' /\ ~Accuses(cond'[n], p)
    BY <1>0, <2>1 DEF IsReady, NoAgent, Accuses
  <2>3. ~Aged(podCache[p], now)
    BY <1>0 DEF CopyInv, AgedTodo
  <2> QED BY <1>1, <2>2, <2>3 DEF StaleFacts, Aged
<1> QED BY <1>2, <1>3

LEMMA StaleStep ==
    ASSUME RestInv, [Next]_vars
    PROVE  StaleInv'
<1> USE DEF RestInv, FactsInv
<1> SUFFICES ASSUME NEW p \in Pods, Current(p)' PROVE StaleFacts(p)'
  BY DEF StaleInv, StaleFacts
<1> DEFINE n == NodeOf[p]
<1>0. /\ n \in Nodes /\ now \in Nat /\ p # Other
      /\ podCache[p] # None => podCache[p] \in Copies(p)
      /\ cond \in [Nodes -> Condition \cup {None}] /\ condCache \in [Nodes -> Condition \cup {None}]
  BY NodeAssumption DEF TypeOK, WorldType, NodeType, Copies
<1>1. CASE Boot /\ restarts = 0 /\ ~on
  <2>1. cond'[n] = None /\ condCache'[n] = None
    BY <1>0, <1>1 DEF Boot, MessageInv
  <2> QED BY <2>1 DEF StaleFacts, IsReady, Accuses, ReadyMessage
<1>2. CASE Changes /\ pod[p] # None /\ pod[p].start = 0 /\ pod'[p].start = now /\ Calm
  <2>1. UNCHANGED <<now, podCache, todo, cond, condCache>>
    BY <1>2, ChangeFrame DEF Changes, ChangeOf, process, nodes, sync
  <2>2. ~Accuses(cond[n], p) /\ ~Accuses(condCache[n], p)
    BY <1>2, NotStarted DEF Accuses, Messages
  <2>3. ~Aged(podCache[p], now)
    BY <1>0, <1>2, NotStarted DEF Aged
  <2> QED BY <2>1, <2>2, <2>3 DEF StaleFacts, Aged
<1>3. CASE Current(p) /\ ~Boot
  <2>0. StaleFacts(p) /\ on
    BY <1>3 DEF StaleInv, StaleFacts, Current, Calm
  <2>1. CASE Worker
    <3>1. CASE UNCHANGED <<cond, fresh, lastStart>>
      <4>1. UNCHANGED <<now, podCache, condCache>>
        BY <2>1, WorkerFrame, WorkerEffect
      <4>2. todo'[p] \in {todo[p], None}
        BY <2>1 DEF Worker, SyncNode, SyncPod, SyncDone, Ignore, SetNodeCondition, AssertNodeStatus,
           Done, Retry, NoTodo, WorkType, TypeOK
      <4> QED BY <2>0, <3>1, <4>1, <4>2 DEF StaleFacts, IsReady, Aged
    <3>2. CASE \E k \in waiting : k \in Nodes /\ Writes(k, NoAgent)
      BY <1>3, <2>0, <2>1, <3>2, StaleWaiting
    <3>3. CASE \E q \in Pods : \E s \in {todo[q], podCache[q]} : Handles(q, s)
      BY <1>3, <2>0, <2>1, <3>3, StaleHandles
    <3> QED BY <2>1, <3>1, <3>2, <3>3, WorkerEffect
  <2>2. CASE \E r \in Pods \cup {Other} : Take(r) \/ RequeueDue(r)
    <3>1. UNCHANGED <<now, podCache, cond, condCache>> /\ todo' \in {todo, podCache}
      BY <2>2 DEF Take, RequeueDue, world, process, nodes, sync
    <3> QED BY <2>0, <3>1 DEF StaleFacts, IsReady, Aged
  <2>3. ASSUME NEW q \in Pods, PodInformed(q) PROVE StaleFacts(p)'
    <3>1. UNCHANGED <<now, todo, cond, condCache>>
      BY <2>3 DEF PodInformed, world, nodes, sync
    <3>2. Aged(podCache'[p], now) => Aged(podCache[p], now)
      <4>1. CASE q # p
        BY <2>3, <4>1 DEF PodInformed, TypeOK, WorkType
      <4>2. CASE q = p
        <5>1. podCache'[p] = pod[p] /\ podCache[p] # pod[p]
          BY <2>3, <4>2 DEF PodInformed, TypeOK, WorkType
        <5> QED BY <2>0, <5>1 DEF CopyInv, AgedCopy
      <4> QED BY <4>1, <4>2
    <3> QED BY <2>0, <3>1, <3>2 DEF StaleFacts, IsReady, Aged
  <2>4. ASSUME NEW k \in Nodes, NodeInformed(k) \/ NodeTouched(k) PROVE StaleFacts(p)'
    <3>1. UNCHANGED <<now, podCache, todo, cond>>
      BY <2>4 DEF NodeInformed, NodeTouched, world, process, sync
    <3>2. condCache'[n] \in {condCache[n], cond[n]}
      BY <1>0, <2>4 DEF NodeInformed, NodeTouched
    <3>3. IsReady(n) => ~Accuses(cond[n], p)
      BY <1>0, ReadyAccusesNobody
    <3> QED BY <2>0, <3>1, <3>2, <3>3 DEF StaleFacts, IsReady, ReadyMessage, Aged
  <2>5. CASE Changes
    <3>1. UNCHANGED <<now, podCache, todo, cond, condCache>>
      BY <2>5, ChangeFrame DEF Changes, ChangeOf, process, nodes, sync
    <3> QED BY <2>0, <3>1 DEF StaleFacts, IsReady, Aged
  <2>6. CASE Tick
    <3>1. Settled /\ now' = now + 1 /\ UNCHANGED <<podCache, todo, cond, condCache>>
      BY <2>0, <2>6 DEF Tick, nodes, sync
    <3>2. Judged(p) /\ podCache[p] = pod[p] /\ todo[p] = None /\ condCache[n] = cond[n]
      BY <1>3, <3>1, SettledJudged
    <3>3. IsReady(n) => ~Accuses(cond[n], p)
      BY <1>0, ReadyAccusesNobody
    <3>4. ASSUME Accuses(cond[n], p), Aged(podCache[p], now + 1) PROVE FALSE
      <4>1. ~Waits(podCache[p]) /\ ~Aged(podCache[p], now)
        BY <2>0, <3>2, <3>4 DEF AskedInv, JudgedAgain, StaleFacts
      <4>2. podCache[p] \in PodStatus /\ podCache[p].start # 0
        BY <3>2 DEF Judged, Seen, TypeOK, WorkType
      <4> QED BY <1>0, <3>4, <4>1, <4>2, AgedNext
    <3>5. ~Aged(todo[p], now + 1)
      BY <3>2 DEF Aged
    <3>6. Aged(podCache[p], now)' <=> Aged(podCache[p], now + 1)
      BY <3>1 DEF Aged
    <3>7. Aged(todo[p], now)' <=> Aged(todo[p], now + 1)
      BY <3>1 DEF Aged
    <3> QED BY <3>1, <3>2, <3>3, <3>4, <3>5, <3>6, <3>7 DEF StaleFacts, IsReady, ReadyMessage
  <2>7. CASE UNCHANGED vars
    BY <2>0, <2>7 DEF vars, world, process, nodes, sync, StaleFacts, IsReady, Aged
  <2>8. ~Crash
    BY DEF Crash, Current, Calm
  <2> QED BY <1>3, <2>1, <2>2, <2>3, <2>4, <2>5, <2>6, <2>7, <2>8 DEF Next
<1> QED BY <1>1, <1>2, <1>3, CurrentStep
--------------------------------------------------------------------------------
(* Requests to come *)

AskedFacts(p) == StartAsked(p) /\ JudgedRight(p) /\ JudgedAgain(p)

\* What is asked for is judged in time.
LEMMA AskedIsEnough ==
    ASSUME NEW p \in Pods, Asked(p)
    PROVE  AskedFacts(p)
BY DEF AskedFacts, StartAsked, JudgedRight, JudgedAgain, Judged

LEMMA UnseenIsEnough ==
    ASSUME NEW p \in Pods, ~Seen(p)
    PROVE  AskedFacts(p)
BY DEF AskedFacts, StartAsked, JudgedRight, JudgedAgain, Judged

\* A step that leaves the condition of the node alone forgets no request and puts off
\* no later one.
LEMMA AskedKept ==
    ASSUME TypeOK, NEW p \in Pods, AskedFacts(p), Seen(p)' => Seen(p),
           UNCHANGED <<now, podCache>>, cond'[NodeOf[p]] = cond[NodeOf[p]],
           lastStart[NodeOf[p]] \in Nat, lastStart'[NodeOf[p]] \in Nat,
           lastStart[NodeOf[p]] <= lastStart'[NodeOf[p]],
           Asked(p) => Asked(p)',
           due'[p] \in Nat, due[p] # 0 => due'[p] # 0 /\ due'[p] <= due[p]
    PROVE  AskedFacts(p)'
<1> SUFFICES ASSUME Seen(p)' PROVE AskedFacts(p)'
  BY DEF AskedFacts, StartAsked, JudgedRight, JudgedAgain, Judged
<1>0. Seen(p) /\ now \in Nat /\ due[p] \in Nat /\ podCache[p] \in PodStatus
  BY DEF TypeOK, WorldType, WorkType, Seen
<1>1. StartAsked(p)'
  <2>1. podCache[p].start \in Nat
    BY <1>0 DEF PodStatus
  <2>2. lastStart'[NodeOf[p]] < podCache[p].start => lastStart[NodeOf[p]] < podCache[p].start
    BY <2>1
  <2> QED BY <1>0, <2>2 DEF AskedFacts, StartAsked
<1>2. Judged(p)' => Judged(p)
  BY <1>0 DEF Judged
<1>3. JudgedRight(p)'
  BY <1>2 DEF AskedFacts, JudgedRight, IsReady, Aged
<1>4. JudgedAgain(p)'
  <2> SUFFICES ASSUME Judged(p)', Waits(podCache[p])'
               PROVE  /\ due'[p] # 0
                      /\ \E c \in Youngest(podCache[p]) : due'[p] <= podCache[p].up[c] + Grace
                      /\ ~Accuses(cond'[NodeOf[p]], p)
    BY DEF JudgedAgain, Youngest
  <2>1. Judged(p) /\ Waits(podCache[p])
    BY <1>2 DEF Waits, Down, Young
  <2>2. due[p] # 0 /\ ~Accuses(cond[NodeOf[p]], p)
    BY <2>1 DEF AskedFacts, JudgedAgain
  <2>3. PICK c \in Youngest(podCache[p]) : due[p] <= podCache[p].up[c] + Grace
    BY <2>1 DEF AskedFacts, JudgedAgain
  <2>4. podCache[p].up[c] + Grace \in Nat
    BY <1>0, TimeAssumption DEF PodStatus, Youngest
  <2> QED BY <1>0, <2>2, <2>3, <2>4
<1> QED BY <1>1, <1>3, <1>4 DEF AskedFacts

\* RequeueAfter: the time that was asked for or an earlier one, and of this request only.
LEMMA LaterDue ==
    ASSUME TypeOK, req \in Pods, NEW t \in Nat \ {0}, Later(t), NEW p \in Pods
    PROVE  /\ p # req => due'[p] = due[p]
           /\ due'[req] # 0 /\ due'[req] <= t /\ due'[req] \in Nat
           /\ due[req] # 0 => due'[req] <= due[req]
BY DEF Later, TypeOK, WorkType

\* During the first full sync there is a request for every agent that is known.
LEMMA AskedAtBoot ==
    ASSUME FactsInv, NEW p \in Pods, firstBoot, req # None, Seen(p)' => Seen(p),
           \/ Retry
           \/ UNCHANGED <<queue, req, claim>>
    PROVE  AskedFacts(p)'
<1> SUFFICES ASSUME Seen(p)' PROVE Asked(p)'
  BY AskedIsEnough, UnseenIsEnough DEF AskedFacts, StartAsked, JudgedRight, JudgedAgain, Judged
<1>1. Seen(p) /\ p \in queue \cup {req} /\ claim = None
  BY DEF FactsInv, CopyInv, BootAsked, Seen, Current, Calm, TypeOK, WorkType
<1> QED BY <1>1 DEF Asked, Retry

\* What becomes of the request that is handled.
LEMMA SetKinds ==
    ASSUME TypeOK, SetNodeCondition
    PROVE  LET s == podCache[req]
           IN  \/ Retry
               \/ /\ UpdateSucceeds(NodeOf[req], Judge(req, s))
                  /\ UNCHANGED <<queue, firstBoot>>
                  /\ \/ Waits(s) /\ req' = None /\ \E c \in Youngest(s) : Later(s.up[c] + Grace)
                     \/ ~Waits(s) /\ req' = req /\ claim' # None /\ UNCHANGED due
<1>1. req \in Pods /\ podCache[req] \in PodStatus
  BY DEF SetNodeCondition, TypeOK, WorkType
<1>2. [node |-> NodeOf[req], ready |-> Judge(req, podCache[req]).ready] # None
  <2>1. Judge(req, podCache[req]).ready \in BOOLEAN /\ NodeOf[req] \in Nodes
    BY <1>1, JudgeType, NodeAssumption DEF Condition
  <2> QED BY <2>1, NoneAssumption
<1> QED BY <1>2 DEF SetNodeCondition, Done

\* When the agent itself is handled, the condition is that of the cached pod afterwards,
\* written or left as it was.
LEMMA AskedSetSelf ==
    ASSUME FactsInv, OthersInv, NEW p \in Pods, Current(p), StaleFacts(p),
           SetNodeCondition, req = p, Seen(p)' => Seen(p)
    PROVE  AskedFacts(p)'
<1> USE DEF FactsInv
<1> DEFINE n == NodeOf[p]
           s == podCache[p]
           new == Judge(p, s)
<1>0. /\ UNCHANGED <<now, podCache, condCache>> /\ n \in Nodes /\ now \in Nat
      /\ Handles(p, s) /\ s \in PodStatus /\ Sound(p, s) /\ req # None /\ claim = None
  <2>1. UNCHANGED <<now, podCache>>
    BY WorkerFrame DEF Worker
  <2>2. condCache' = condCache /\ Handles(p, s) /\ req # None /\ claim = None
    BY SetEffect
  <2> QED BY <2>1, <2>2, NodeAssumption DEF Handles, PodInv, TypeOK, WorldType
<1>1. CASE Retry
  BY <1>1, AskedIsEnough DEF Retry, Asked, AskedFacts, StartAsked, JudgedRight, JudgedAgain, Judged
<1>2. CASE UpdateSucceeds(n, new)
  <2> SUFFICES ASSUME Seen(p)' PROVE AskedFacts(p)'
    BY DEF AskedFacts, StartAsked, JudgedRight, JudgedAgain, Judged
  <2>0. s # None /\ s.start # 0
    BY DEF Seen
  <2>1. lastStart'[n] = s.start
    BY <1>0, <2>0, HandlesStart
  <2>2. StartAsked(p)'
    BY <1>0, <2>0, <2>1 DEF StartAsked, PodStatus
  <2>3. new \in Condition /\ new # None /\ (new.ready <=> Aged(s, now))
    BY <1>0, JudgeType, AgedJudge, NoneAssumption
  <2>4. \/ cond'[n] = new
        \/ cond'[n] = cond[n] /\ condCache[n] = new /\ ~new.young
    <3>1. CASE ~Changed(condCache[n], new) /\ cond' = cond
      BY <3>1 DEF Changed
    <3>2. CASE cond' = [cond EXCEPT ![n] = new]
      BY <1>0, <3>2 DEF TypeOK, NodeType
    <3> QED BY <1>2, <3>1, <3>2 DEF UpdateSucceeds
  <2>5. new.young <=> ~(Down(s) = {} /\ Young(s) = {}) /\ Young(s) # {}
    BY <2>0 DEF Judge, Ready, NotReady
  <2>6. ~new.ready => new.of = p /\ new.down = Down(s)
    <3>1. ~new.ready => new = NotReady(p, s)
      BY <2>0 DEF Judge, Ready, NotReady
    <3> QED BY <3>1 DEF NotReady
  <2>7. IsReady(n)' <=> Aged(s, now)
    <3>1. CASE cond'[n] = new
      BY <2>3, <3>1 DEF IsReady
    <3>2. CASE cond'[n] = cond[n] /\ condCache[n] = new /\ ~new.young
      <4>1. ASSUME Aged(s, now) PROVE IsReady(n)
        BY <2>3, <3>2, <4>1 DEF StaleFacts, ReadyMessage
      <4>2. ASSUME ~Aged(s, now), IsReady(n) PROVE FALSE
        <5>1. Young(s) = {} /\ ~new.ready
          BY <2>3, <2>5, <3>2, <4>2
        <5>2. Down(s) # {}
          BY <1>0, <2>0, <2>3, <5>1, JudgeKinds
        <5>3. Accuses(condCache[n], p)
          BY <2>3, <2>6, <3>2, <5>1, <5>2 DEF Accuses
        <5> QED BY <4>2, <5>3 DEF StaleFacts
      <4>3. IsReady(n)' <=> IsReady(n)
        BY <3>2 DEF IsReady
      <4> QED BY <4>1, <4>2, <4>3
    <3> QED BY <2>4, <3>1, <3>2
  <2>8. JudgedRight(p)'
    <3>1. Aged(podCache[p], now)' <=> Aged(s, now)
      BY <1>0 DEF Aged
    <3> QED BY <2>7, <3>1 DEF JudgedRight
  <2>9. JudgedAgain(p)'
    <3> SUFFICES ASSUME Judged(p)', Waits(s)
                 PROVE  /\ due'[p] # 0
                        /\ \E c \in Youngest(s) : due'[p] <= s.up[c] + Grace
                        /\ ~Accuses(cond'[n], p)
      BY <1>0 DEF JudgedAgain, Youngest, Waits, Down, Young
    <3>1. Down(s) = {} /\ Young(s) # {}
      BY DEF Waits
    <3>2. cond'[n] = new /\ ~new.ready
      BY <1>0, <2>0, <2>4, <2>5, <3>1, JudgeKinds
    <3>3. ~Accuses(cond'[n], p)
      BY <2>6, <3>1, <3>2 DEF Accuses
    <3>4. CASE Retry
      BY <3>4 DEF Retry, Judged, Asked
    <3>5. CASE \E c \in Youngest(s) : Later(s.up[c] + Grace)
      <4>1. PICK c \in Youngest(s) : Later(s.up[c] + Grace)
        BY <3>5
      <4>2. s.up[c] + Grace \in Nat \ {0}
        BY <1>0, TimeAssumption DEF PodStatus, Youngest
      <4>3. due'[p] # 0 /\ due'[p] <= s.up[c] + Grace
        BY <4>1, <4>2, LaterDue
      <4> QED BY <3>3, <4>1, <4>3
    <3> QED BY <3>4, <3>5, SetKinds
  <2> QED BY <2>2, <2>8, <2>9 DEF AskedFacts
<1> QED BY <1>1, <1>2, SetKinds

\* When another pod is handled, it is outdated, or the agent has only just started and the
\* node is not ready afterwards.
LEMMA AskedSetOther ==
    ASSUME FactsInv, OthersInv, NEW p \in Pods, Current(p), AskedFacts(p),
           SetNodeCondition, req # p, Seen(p)' => Seen(p)
    PROVE  AskedFacts(p)'
<1> USE DEF FactsInv
<1> DEFINE n == NodeOf[p]
           s == podCache[req]
<1>0. /\ UNCHANGED <<now, podCache, condCache>> /\ n \in Nodes /\ now \in Nat /\ req \in Pods
      /\ Handles(req, s) /\ NodeOf[req] \in Nodes
  <2>1. UNCHANGED <<now, podCache>>
    BY WorkerFrame DEF Worker
  <2>2. condCache' = condCache /\ Handles(req, s) /\ req \in Pods
    BY SetEffect
  <2> QED BY <2>1, <2>2, NodeAssumption DEF TypeOK, WorldType
<1>1. lastStart[n] \in Nat /\ lastStart'[n] \in Nat /\ lastStart[n] <= lastStart'[n]
  BY <1>0, HandlesStart DEF TypeOK, WorkType
<1>2. Asked(p) => Asked(p)'
  BY SetKinds DEF Asked, Retry
<1>3. due'[p] = due[p] /\ due[p] \in Nat
  <2>1. CASE due' = due
    BY <2>1 DEF TypeOK, WorkType
  <2>2. CASE \E c \in Youngest(s) : Later(s.up[c] + Grace)
    BY <1>0, <2>2 DEF Later, TypeOK, WorkType
  <2> QED BY <2>1, <2>2, SetKinds DEF Retry
<1>4. CASE cond'[n] = cond[n]
  BY <1>0, <1>1, <1>2, <1>3, <1>4, AskedKept
<1>5. CASE NodeOf[req] # n /\ Writes(NodeOf[req], Judge(req, s))
  BY <1>0, <1>4, <1>5, WriteEffect
<1>6. CASE NodeOf[req] = n /\ Writes(NodeOf[req], Judge(req, s))
  <2> SUFFICES ASSUME Seen(p)', ~Asked(p)' PROVE AskedFacts(p)'
    BY DEF AskedFacts, StartAsked, JudgedRight, JudgedAgain, Judged
  <2>1. pod[p].start = now /\ podCache[p] \in Copies(p) /\ podCache[p].start = now
    <3>1. pod[p].start = now
      BY <1>0, <1>6, OtherHandled
    <3>2. podCache[p] \in Copies(p) /\ podCache[p].start # 0
      BY DEF Seen, Copies
    <3> QED BY <3>1, <3>2, CurrentCopies
  <2>2. ~Asked(p) /\ now <= lastStart[n]
    BY <1>0, <1>1, <1>2, <2>1 DEF AskedFacts, StartAsked
  <2>3. StartAsked(p)'
    BY <1>0, <1>1, <2>1, <2>2 DEF StartAsked
  <2>4. ~Aged(podCache[p], now)
    BY <1>0, <2>1, CurrentCopies
  <2>5. s \in PodStatus /\ Sound(req, s) /\ ~Outdated(req, s)
    BY <1>0 DEF Handles, PodInv
  <2>6. ~Aged(s, now)
    <3> SUFFICES ASSUME Aged(s, now) PROVE FALSE
      OBVIOUS
    <3>1. s.start # 0 /\ s.start < now /\ s.start \in Nat
      BY <1>0, <2>5, AgedStart DEF PodStatus
    <3> QED BY <1>0, <1>1, <1>6, <2>2, <2>5, <3>1 DEF Outdated
  <2>7. cond'[n] = Judge(req, s) /\ ~cond'[n].ready
    BY <1>0, <1>6, <2>5, <2>6, WriteEffect, AgedJudge
  <2>8. JudgedRight(p)'
    BY <1>0, <2>4, <2>7 DEF JudgedRight, IsReady, Aged
  <2>9. ~Accuses(cond'[n], p)
    BY <1>0, <2>5, <2>7, JudgeKinds, NodeAssumption DEF Accuses
  <2>10. Judged(p)' => Judged(p)
    BY <1>0, <1>3, <2>2 DEF Judged
  <2>11. JudgedAgain(p)'
    BY <1>0, <1>3, <2>9, <2>10 DEF AskedFacts, JudgedAgain, Waits, Down, Young, Youngest
  <2> QED BY <2>3, <2>8, <2>11 DEF AskedFacts
<1> QED BY <1>0, <1>4, <1>5, <1>6 DEF Handles

\* The worker, action by action.
LEMMA AskedWorker ==
    ASSUME FactsInv, OthersInv, NEW p \in Pods, Current(p), AskedFacts(p), StaleFacts(p),
           Seen(p)' => Seen(p), Worker
    PROVE  AskedFacts(p)'
<1> USE DEF FactsInv
<1> DEFINE n == NodeOf[p]
<1>0. /\ UNCHANGED <<now, podCache>> /\ n \in Nodes /\ now \in Nat /\ req # None
      /\ lastStart[n] \in Nat /\ due[p] \in Nat /\ p # None
  BY WorkerFrame, WorkerEffect, NodeAssumption, NoneAssumption DEF TypeOK, WorldType, WorkType
<1>1. ASSUME NEW k \in Nodes, SyncNode(k) PROVE AskedFacts(p)'
  <2>1. firstBoot /\ (Retry \/ UNCHANGED <<queue, req, claim>>)
    BY <1>1 DEF SyncNode
  <2> QED BY <1>0, <2>1, AskedAtBoot
<1>2. ASSUME NEW q \in Pods, SyncPod(q) PROVE AskedFacts(p)'
  <2>1. firstBoot /\ (Retry \/ UNCHANGED <<queue, req, claim>>)
    BY <1>2 DEF SyncPod
  <2> QED BY <1>0, <2>1, AskedAtBoot
<1>3. CASE SyncDone
  <2>1. UNCHANGED <<cond, lastStart, queue, req, claim, due>>
    BY <1>3 DEF SyncDone, nodes
  <2> QED BY <1>0, <2>1, AskedKept DEF Asked
<1>4. CASE Ignore
  <2>1. UNCHANGED <<cond, lastStart, queue, due>> /\ req' = None
    BY <1>4 DEF Ignore, Done, nodes
  <2>2. CASE req # p
    BY <1>0, <2>1, <2>2, AskedKept DEF Asked
  <2>3. CASE req = p
    <3> SUFFICES ASSUME Seen(p)' PROVE FALSE
      BY DEF AskedFacts, StartAsked, JudgedRight, JudgedAgain, Judged
    <3>1. podCache[p] \in Copies(p) /\ podCache[p].start # 0 /\ p \in Listed
      BY DEF Seen, Copies, Listed
    <3>2. podCache[p].start = pod[p].start /\ podCache[p].start \in Nat
      BY <3>1, CurrentCopies DEF PodStatus
    <3>3. podCache[p].start < lastStart[n]
      BY <1>4, <2>3, <3>1 DEF Ignore, Outdated
    <3>4. lastStart[n] <= pod[p].start
      BY DEF OthersInv
    <3> QED BY <1>0, <3>2, <3>3, <3>4
  <2> QED BY <2>2, <2>3
<1>5. CASE SetNodeCondition
  BY <1>5, AskedSetSelf, AskedSetOther
<1>6. CASE AssertNodeStatus
  <2>1. UNCHANGED <<cond, lastStart, queue>> /\ claim # None
    BY <1>6 DEF AssertNodeStatus, nodes
  <2>2. Asked(p) => Asked(p)'
    BY <2>1 DEF Asked
  <2>3. due' = due \/ Later(now + Resync)
    BY <1>6 DEF AssertNodeStatus
  <2>4. req \in Pods /\ now + Resync \in Nat \ {0}
    BY <1>0, <2>1, TimeAssumption DEF TypeOK, WorkType
  <2>5. due'[p] \in Nat /\ (due[p] # 0 => due'[p] # 0 /\ due'[p] <= due[p])
    <3>1. CASE due' = due
      BY <1>0, <3>1
    <3>2. CASE Later(now + Resync)
      BY <1>0, <2>4, <3>2, LaterDue
    <3> QED BY <2>3, <3>1, <3>2
  <2> QED BY <1>0, <2>1, <2>2, <2>5, AskedKept
<1> QED BY <1>1, <1>2, <1>3, <1>4, <1>5, <1>6 DEF Worker

\* Time passes only when the agent has been judged; who has run for the grace time then
\* is looked at again.
LEMMA AskedTick ==
    ASSUME FactsInv, NEW p \in Pods, Current(p), AskedFacts(p), Tick, Seen(p)' => Seen(p)
    PROVE  AskedFacts(p)'
<1> USE DEF FactsInv
<1> DEFINE n == NodeOf[p]
<1>0. /\ Settled /\ now' = now + 1 /\ now \in Nat
      /\ UNCHANGED <<podCache, cond, lastStart, queue, req, claim, due>>
  BY DEF Tick, Current, Calm, nodes, TypeOK, WorldType
<1>1. Judged(p) /\ podCache[p] \in PodStatus /\ podCache[p].start # 0
  BY <1>0, SettledJudged DEF Judged, Seen, TypeOK, WorkType
<1>2. ~Asked(p) /\ ~Asked(p)'
  BY <1>0, <1>1 DEF Judged, Asked
<1>3. StartAsked(p)'
  BY <1>0, <1>1, <1>2 DEF AskedFacts, StartAsked, Judged
<1>4. Aged(podCache[p], now)' <=> Aged(podCache[p], now + 1)
  BY <1>0 DEF Aged
<1>5. Aged(podCache[p], now) => Aged(podCache[p], now + 1)
  <2> SUFFICES ASSUME Aged(podCache[p], now), NEW c \in Containers
               PROVE  podCache[p].up[c] # 0 /\ (now + 1) - podCache[p].up[c] >= Grace
    BY DEF Aged
  <2>1. podCache[p].up[c] # 0 /\ now - podCache[p].up[c] >= Grace /\ podCache[p].up[c] \in Nat
    BY <1>1 DEF Aged, PodStatus
  <2> QED BY <1>0, <2>1, TimeAssumption
<1>6. JudgedRight(p)'
  <2> SUFFICES ASSUME Judged(p)' PROVE IsReady(n)' <=> Aged(podCache[p], now + 1)
    BY <1>4 DEF JudgedRight
  <2>1. IsReady(n)' <=> Aged(podCache[p], now)
    BY <1>0, <1>1 DEF AskedFacts, JudgedRight, IsReady
  <2>2. ASSUME ~Aged(podCache[p], now), Aged(podCache[p], now + 1) PROVE FALSE
    <3>1. Waits(podCache[p])
      BY <1>0, <1>1, <2>2, AgedNext
    <3>2. PICK c \in Youngest(podCache[p]) : due[p] # 0 /\ due[p] <= podCache[p].up[c] + Grace
      BY <1>1, <3>1 DEF AskedFacts, JudgedAgain
    <3>3. podCache[p].up[c] \in Nat /\ (now + 1) - podCache[p].up[c] >= Grace
      BY <1>1, <2>2, <3>2 DEF Aged, PodStatus, Youngest
    <3>4. due[p] \in 1 .. now + 1
      BY <1>0, <3>2, <3>3, TimeAssumption DEF TypeOK, WorkType
    <3> QED BY <1>0, <3>4 DEF Judged
  <2> QED BY <1>5, <2>1, <2>2
<1>7. JudgedAgain(p)'
  <2> SUFFICES ASSUME Waits(podCache[p])'
               PROVE  /\ due[p] # 0 /\ \E c \in Youngest(podCache[p]) : due[p] <= podCache[p].up[c] + Grace
                      /\ ~Accuses(cond[n], p)
    BY <1>0 DEF JudgedAgain, Youngest
  <2>1. Down(podCache[p]) = {}
    BY <1>0 DEF Waits, Down
  <2>2. PICK c \in Containers : podCache[p].up[c] # 0 /\ (now + 1) - podCache[p].up[c] < Grace
    BY <1>0 DEF Waits, Young
  <2>3. now - podCache[p].up[c] < Grace
    BY <1>0, <1>1, <2>2, TimeAssumption DEF PodStatus
  <2>4. Waits(podCache[p])
    BY <1>1, <2>1, <2>2, <2>3 DEF Waits, Young
  <2> QED BY <1>1, <2>4 DEF AskedFacts, JudgedAgain
<1> QED BY <1>3, <1>6, <1>7 DEF AskedFacts

LEMMA AskedStep ==
    ASSUME RestInv, [Next]_vars
    PROVE  AskedInv'
<1> USE DEF RestInv, FactsInv
<1> SUFFICES ASSUME NEW p \in Pods, Seen(p)' PROVE AskedFacts(p)'
  BY DEF AskedInv, AskedFacts, StartAsked, JudgedRight, JudgedAgain, Judged
<1> DEFINE n == NodeOf[p]
<1>0. /\ n \in Nodes /\ now \in Nat /\ p # None /\ p # Other
      /\ lastStart[n] \in Nat /\ due[p] \in Nat
      /\ due \in [Pods \cup {Other} -> Nat]
      /\ Current(p)' /\ podCache'[p] # None /\ podCache'[p].start # 0
  BY NodeAssumption, NoneAssumption DEF TypeOK, WorldType, WorkType, Seen
<1>a. Asked(p)' => AskedFacts(p)'
  BY DEF AskedFacts, StartAsked, JudgedRight, JudgedAgain, Judged
<1>1. CASE Boot
  <2>1. p \in queue'
    BY <1>0, <1>1 DEF Boot
  <2> QED BY <1>a, <2>1 DEF Asked
<1>2. CASE Changes /\ pod[p] # None /\ pod[p].start = 0 /\ Calm
  <2>1. podCache' = podCache
    BY <1>2, ChangeFrame DEF Changes, ChangeOf, process
  <2>2. podCache[p] \in Copies(p)
    BY <1>0, <2>1 DEF Copies
  <2> QED BY <1>0, <1>2, <2>1, <2>2, NotStarted
<1>3. CASE Current(p) /\ ~Boot
  <2>0. AskedFacts(p) /\ StaleFacts(p)
    BY <1>3 DEF AskedInv, AskedFacts, StaleInv, StaleFacts
  <2>1. CASE Worker
    <3>1. podCache' = podCache
      BY <2>1, WorkerFrame
    <3>2. Seen(p)
      BY <1>0, <1>3, <3>1 DEF Seen
    <3> QED BY <1>3, <2>0, <2>1, <3>2, AskedWorker
  <2>2. ASSUME NEW r \in Pods \cup {Other}, Take(r) PROVE AskedFacts(p)'
    <3>1. /\ UNCHANGED <<now, podCache, cond, lastStart, due, claim>> /\ req' = r /\ queue' = queue \ {r}
          /\ req = None
      BY <2>2 DEF Take, world, process, nodes
    <3>2. claim = None
      BY <3>1, NodeAssumption, NoneAssumption DEF TypeOK, WorkType
    <3>3. Asked(p) => Asked(p)'
      BY <1>0, <3>1, <3>2 DEF Asked
    <3>4. Seen(p)
      BY <1>0, <1>3, <3>1 DEF Seen
    <3> QED BY <1>0, <2>0, <3>1, <3>3, <3>4, AskedKept
  <2>3. ASSUME NEW r \in Pods \cup {Other}, RequeueDue(r) PROVE AskedFacts(p)'
    <3>1. /\ UNCHANGED <<now, podCache, cond, lastStart, claim, req>> /\ queue' = queue \cup {r}
          /\ due' = [due EXCEPT ![r] = 0]
      BY <2>3 DEF RequeueDue, world, process, nodes
    <3>2. CASE r = p
      BY <1>a, <3>1, <3>2 DEF Asked
    <3>3. CASE r # p
      <4>1. Asked(p) => Asked(p)'
        BY <3>1 DEF Asked
      <4>2. due'[p] = due[p]
        BY <1>0, <3>1, <3>3
      <4>3. Seen(p)
        BY <1>0, <1>3, <3>1 DEF Seen
      <4> QED BY <1>0, <2>0, <3>1, <4>1, <4>2, <4>3, AskedKept
    <3> QED BY <3>2, <3>3
  <2>4. ASSUME NEW q \in Pods, PodInformed(q) PROVE AskedFacts(p)'
    <3>1. UNCHANGED <<now, cond, lastStart, due, claim, req>> /\ queue' = queue \cup {q}
      BY <2>4 DEF PodInformed, world, nodes
    <3>2. CASE q = p
      BY <1>a, <3>1, <3>2 DEF Asked
    <3>3. CASE q # p
      <4>1. podCache'[p] = podCache[p]
        BY <2>4, <3>3 DEF PodInformed, TypeOK, WorkType
      <4>2. Seen(p)
        BY <1>0, <1>3, <4>1 DEF Seen
      <4>3. Asked(p) <=> Asked(p)'
        BY <3>1, <3>3 DEF Asked
      <4> QED BY <2>0, <3>1, <4>1, <4>2, <4>3
             DEF AskedFacts, StartAsked, JudgedRight, JudgedAgain, Judged, IsReady, Aged, Waits,
                 Down, Young, Youngest
    <3> QED BY <3>2, <3>3
  <2>5. CASE \/ \E k \in Nodes : NodeInformed(k) \/ NodeTouched(k)
             \/ Changes \/ UNCHANGED vars
    <3>1. UNCHANGED <<now, podCache, cond, lastStart, queue, due, claim, req>>
      <4>1. CASE Changes
        BY <4>1, ChangeFrame DEF Changes, ChangeOf, process, nodes
      <4>2. CASE \/ \E k \in Nodes : NodeInformed(k) \/ NodeTouched(k) \/ UNCHANGED vars
        BY <4>2 DEF NodeInformed, NodeTouched, vars, world, process, nodes
      <4> QED BY <2>5, <4>1, <4>2 DEF vars, world, process, nodes
    <3>2. Seen(p) /\ (Asked(p) => Asked(p)')
      BY <1>0, <1>3, <3>1 DEF Seen, Asked
    <3> QED BY <1>0, <2>0, <3>1, <3>2, AskedKept
  <2>6. CASE Tick
    <3>1. Seen(p)
      BY <1>0, <1>3, <2>6 DEF Tick, Seen
    <3> QED BY <1>3, <2>0, <2>6, <3>1, AskedTick
  <2>7. ~Crash
    BY <1>0 DEF Crash, Current, Calm
  <2> QED BY <1>3, <2>1, <2>2, <2>3, <2>4, <2>5, <2>6, <2>7 DEF Next
<1> QED BY <1>0, <1>1, <1>2, <1>3, CurrentStep
--------------------------------------------------------------------------------
(* Nodes at rest *)

LEMMA InitRest == Init => RestInv
<1> SUFFICES ASSUME Init PROVE RestInv
  OBVIOUS
<1>1. FactsInv /\ ~on
  BY InitFacts DEF Init
<1>2. \A p \in Pods : ~Current(p)
  BY <1>1 DEF Current, Calm
<1> QED
  BY <1>1, <1>2 DEF RestInv, NotedInv, OthersInv, StaleInv, AskedInv, StartAsked, JudgedRight,
     JudgedAgain, Judged, Seen, Calm

LEMMA RestStep == RestInv /\ [Next]_vars => RestInv'
<1> SUFFICES ASSUME RestInv, [Next]_vars PROVE RestInv'
  OBVIOUS
<1>1. FactsInv'
  BY WorldTypeStep, NodeTypeStep, WorkTypeStep, PodStep, StartStep, FreshStep, CopyStep, MessageStep
     DEF RestInv, FactsInv, TypeOK
<1> QED BY <1>1, NotedStep, OthersStep, StaleStep, AskedStep DEF RestInv

\* When nothing is left to do the agent of a node has been judged, and rightly.
LEMMA RestImpliesHonest ==
    ASSUME RestInv
    PROVE  RestHonest
<1> SUFFICES ASSUME restarts = 0, on, Settled, NEW p \in Pods, Newest(p), NodeOf[p] \notin blurred
             PROVE  IsReady(NodeOf[p]) = Aged(pod[p], now)
  BY DEF RestHonest
<1>1. Current(p)
  BY NodeAssumption DEF Newest, Current, Calm
<1>2. Judged(p) /\ podCache[p] = pod[p]
  BY <1>1, SettledJudged DEF RestInv
<1>3. IsReady(NodeOf[p]) <=> Aged(pod[p], now)
  BY <1>2 DEF RestInv, AskedInv, JudgedRight
<1>4. IsReady(NodeOf[p]) \in BOOLEAN /\ Aged(pod[p], now) \in BOOLEAN
  BY NodeAssumption DEF IsReady, Aged, RestInv, FactsInv, TypeOK, NodeType, Condition
<1> QED BY <1>3, <1>4

\* Until the operator restarts, every node is as its agent is whenever nothing is left to
\* do, whatever the number of agents, containers, changes, conflicts and failed calls
\* (CheckExistingAgentPods, assertNodeStatus, setNodeNetworkUnavailable and the
\* outdated-pod check, pod_status.go:136, 148, 192, 283).
THEOREM NodesRestHonest == Spec => []RestHonest
<1>1. Spec => []RestInv
  BY InitRest, RestStep, PTL DEF Spec
<1> QED BY <1>1, RestImpliesHonest, PTL
================================================================================
