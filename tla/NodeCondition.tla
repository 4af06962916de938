----------------------------- MODULE NodeCondition -----------------------------
(***************************************************************************)
(* pkg/controller/statusmanager/pod_status.go: the NetworkUnavailable      *)
(* condition of the nodes, set by the pod controller from the nodes'       *)
(* nsx-node-agent pods.  An agent counts as ready when all its containers  *)
(* have run for a grace time.  Pods and nodes are read from informer       *)
(* caches that lag behind the API server; requests wait in a work queue    *)
(* of one worker, some of them for a time (RequeueAfter).  A new operator  *)
(* process first handles all agent pods it can list.                       *)
(*                                                                         *)
(* Time: informers and worker keep up within a unit of time, in any order  *)
(* within it.  Abstracted: a message is the pod and the containers it      *)
(* names and whether it tells a running time, which makes it new every     *)
(* time; nodes are neither added nor removed; a pod that is not scheduled  *)
(* is ignored as an absent one is.                                         *)
(***************************************************************************)
EXTENDS Integers

CONSTANTS Nodes,
          Pods,       \* agent pods, numbered in the order of their creation
          NodeOf,     \* the node a pod is scheduled to
          Containers, \* of an agent pod
          Grace,      \* TimeBeforeRecoverNetwork
          Resync,     \* DefaultResyncPeriod
          None,
          MaxTime,    \* bound on the clock
          LastChange, \* bound on the time of changes of the pods
          MaxChanges, \* bound on their number
          MaxFaults,  \* bound on failed calls and updates of a node by others
          MaxRestarts \* bound on restarts of the operator

\* The request of an object that is no agent pod.
Other == 0

\* start: StartTime of the pod; up: when a container started, 0 if it does not run.
\* Before a pod has a StartTime it has no container statuses.
PodStatus == [start : Nat, up : [Containers -> Nat]]
NewPod    == [start |-> 0, up |-> [c \in Containers |-> 0]]

\* ready: Status False of NetworkUnavailable; the rest: the message.
Condition == [ready : BOOLEAN, of : Pods \cup {Other}, down : SUBSET Containers, young : BOOLEAN]

ASSUME NodeAssumption == Pods \subseteq Nat \ {Other} /\ NodeOf \in [Pods -> Nodes]
ASSUME NoneAssumption == /\ None \notin PodStatus /\ None \notin Condition
                         /\ None \notin Nat /\ None \notin [node : Nodes, ready : BOOLEAN]
ASSUME ContainersAssumption == Containers # {}
ASSUME TimeAssumption == Grace \in Nat \ {0} /\ Resync \in Nat \ {0}

VARIABLES
    now,       \* the time, from 1 on; 0: no time
    pod,       \* the agent pods in the API server
    podCache,  \* ... and in the informer cache
    cond,      \* the NetworkUnavailable condition of every node in the API server
    condCache, \* ... and in the informer cache
    fresh,     \* whether the cache holds the latest version of a node
    on,        \* the operator runs
    queue,     \* requests in the work queue
    due,       \* when a request is added to it; 0: it is not
    firstBoot, \* the global of the pod controller
    lastStart, \* sharedInfo.LastNodeAgentStartTime
    req,       \* the request under way
    todo,      \* the listed pods that the full sync has yet to handle
    waiting,   \* the nodes it has yet to handle when no pod was listed
    claim,     \* what assertNodeStatus is to check
    stable,    \* (auxiliary) pods that had run through a grace time when now began
    born,      \* the last pod that was created
    blurred,   \* (auxiliary) nodes with agents that the operator could not tell apart
    changes, faults, restarts

nodes   == <<cond, condCache, fresh>>
sync    == <<firstBoot, todo, waiting>>
world   == <<now, pod, stable, born, changes>>
process == <<podCache, on, restarts, blurred>>
vars == <<world, process, nodes, queue, due, sync, lastStart, req, claim, faults>>
--------------------------------------------------------------------------------
(* What a pod says *)

Down(s)  == {c \in Containers : s.up[c] = 0}
Young(s) == {c \in Containers : s.up[c] # 0 /\ now - s.up[c] < Grace}

Ready == [ready |-> TRUE, of |-> Other, down |-> {}, young |-> FALSE]
NotReady(p, s) == [ready |-> FALSE, of |-> p, down |-> Down(s), young |-> Young(s) # {}]

\* "Waiting for nsx-node-agent to be created"
NoAgent == [ready |-> FALSE, of |-> Other, down |-> {}, young |-> FALSE]
\* "nsx-node-agent not running: Pending."
Pending == [ready |-> FALSE, of |-> Other, down |-> Containers, young |-> FALSE]

\* Mutant: the container that started first decides.
JudgeOldest(p, s) ==
    IF s.start = 0 THEN Pending
    ELSE IF Down(s) = {} /\ Young(s) # Containers THEN Ready ELSE NotReady(p, s)

\* setNodeConditionFromPod and setNodeNetworkUnavailable: ready when every
\* container runs and the youngest has run for the grace time.
Judge(p, s) ==
    IF s.start = 0 THEN Pending
    ELSE IF Down(s) = {} /\ Young(s) = {} THEN Ready ELSE NotReady(p, s)

\* All containers run: the pod is looked at again when the grace time of the
\* youngest ends.
Waits(s) == s.start # 0 /\ Down(s) = {} /\ Young(s) # {}

\* lastStartedAt is the time one of these started.
Youngest(s) == {c \in Containers : \A d \in Containers : s.up[d] <= s.up[c]}

\* Mutant: nothing is outdated.
OutdatedNever(p, s) == FALSE

\* A pod of the node started later; a pod without StartTime is not checked.
Outdated(p, s) == s.start # 0 /\ s.start < lastStart[NodeOf[p]]

NoteStart(p, s) ==
    lastStart' = IF s.start = 0 THEN lastStart
                 ELSE [lastStart EXCEPT ![NodeOf[p]] = s.start]

\* SetNodeCondition: a running time makes a message new.
Changed(old, new) == old = None \/ new.young \/ old # new
--------------------------------------------------------------------------------
(* updateNodeStatus *)

Fault == faults < MaxFaults /\ faults' = faults + 1

\* Nothing to change according to the cache, or the node is written.
UpdateSucceeds(n, new) ==
    /\ \/ ~Changed(condCache[n], new) /\ UNCHANGED <<cond, fresh>>
       \/ /\ Changed(condCache[n], new) /\ fresh[n]
          /\ cond' = [cond EXCEPT ![n] = new] /\ fresh' = [fresh EXCEPT ![n] = FALSE]
    /\ UNCHANGED <<condCache, faults>>

\* The cached version is not the latest one, or the call fails.
UpdateFails(n, new) ==
    /\ Changed(condCache[n], new)
    /\ IF fresh[n] THEN Fault ELSE UNCHANGED faults
    /\ UNCHANGED nodes
--------------------------------------------------------------------------------
(* Reconcile *)

NoTodo == [p \in Pods |-> None]

\* Mutant: what is to be checked is not forgotten.
DoneWithClaim == req' = None /\ todo' = NoTodo /\ waiting' = {} /\ UNCHANGED claim

\* The request is done; on an error it is queued again.
Done  == req' = None /\ claim' = None /\ todo' = NoTodo /\ waiting' = {}
Retry == Done /\ queue' = queue \cup {req} /\ UNCHANGED <<due, firstBoot>>

\* RequeueAfter: an earlier time is kept.
Later(t) == due' = IF due[req] # 0 /\ due[req] <= t THEN due ELSE [due EXCEPT ![req] = t]

Listed == {p \in Pods : podCache[p] # None}

\* The worker takes a request; a new process lists all agent pods first, and all
\* nodes if there is none.
Take(r) ==
    /\ on /\ req = None /\ r \in queue
    /\ req' = r /\ queue' = queue \ {r}
    /\ todo' = IF firstBoot THEN podCache ELSE todo
    /\ waiting' = IF firstBoot /\ Listed = {} THEN Nodes ELSE {}
    /\ UNCHANGED <<world, process, nodes, due, firstBoot, lastStart, claim, faults>>

\* CheckExistingAgentPods without an agent: every node waits for one.
SyncNode(n) ==
    /\ req # None /\ firstBoot /\ n \in waiting
    /\ \/ /\ UpdateSucceeds(n, NoAgent)
          /\ waiting' = waiting \ {n}
          /\ UNCHANGED <<queue, due, firstBoot, todo, req, claim>>
       \/ UpdateFails(n, NoAgent) /\ Retry
    /\ UNCHANGED <<world, process, lastStart>>

\* CheckExistingAgentPods handles a listed pod as it was listed, without regard to
\* when it is to be looked at again.
SyncPod(p) ==
    LET s == todo[p]
    IN  /\ req # None /\ firstBoot /\ s # None
        /\ \/ /\ \/ Outdated(p, s) /\ UNCHANGED <<nodes, lastStart, faults>>
                 \/ /\ ~Outdated(p, s) /\ NoteStart(p, s)
                    /\ UpdateSucceeds(NodeOf[p], Judge(p, s))
              /\ todo' = [todo EXCEPT ![p] = None]
              /\ UNCHANGED <<queue, due, firstBoot, waiting, req, claim>>
           \/ /\ ~Outdated(p, s) /\ NoteStart(p, s)
              /\ UpdateFails(NodeOf[p], Judge(p, s)) /\ Retry
        /\ UNCHANGED <<world, process>>

\* The full sync is over, and Reconcile goes on with its request.
SyncDone ==
    /\ req # None /\ firstBoot /\ todo = NoTodo /\ waiting = {}
    /\ firstBoot' = FALSE
    /\ UNCHANGED <<world, process, nodes, queue, due, todo, waiting, lastStart, req, claim, faults>>

\* Not an agent pod, one that is gone, or one that is outdated.
Ignore ==
    /\ req # None /\ ~firstBoot /\ claim = None
    /\ req \in Listed => Outdated(req, podCache[req])
    /\ Done
    /\ UNCHANGED <<world, process, nodes, queue, due, firstBoot, lastStart, faults>>

\* SetNodeConditionFromPod: the node is updated, to be checked or looked at later.
SetNodeCondition ==
    /\ req \in Pods /\ ~firstBoot /\ claim = None /\ podCache[req] # None
    /\ LET s == podCache[req]  n == NodeOf[req]  new == Judge(req, s)
       IN  /\ ~Outdated(req, s) /\ NoteStart(req, s)
           /\ \/ /\ UpdateSucceeds(n, new)
                 /\ IF Waits(s) THEN Done /\ \E c \in Youngest(s) : Later(s.up[c] + Grace)
                    ELSE /\ claim' = [node |-> n, ready |-> new.ready]
                         /\ UNCHANGED <<due, req, todo, waiting>>
                 /\ UNCHANGED <<queue, firstBoot>>
              \/ UpdateFails(n, new) /\ Retry
    /\ UNCHANGED <<world, process>>

\* assertNodeStatus: the cached node should show what was written.
AssertNodeStatus ==
    /\ claim # None
    /\ LET c == condCache[claim.node]
       IN  IF c # None /\ c.ready = claim.ready THEN UNCHANGED due ELSE Later(now + Resync)
    /\ Done
    /\ UNCHANGED <<world, process, nodes, queue, firstBoot, lastStart, faults>>
--------------------------------------------------------------------------------
(* Informers, delayed requests and the process *)

PodInformed(p) ==
    /\ on /\ podCache[p] # pod[p]
    /\ podCache' = [podCache EXCEPT ![p] = pod[p]]
    /\ queue' = queue \cup {p}
    /\ UNCHANGED <<world, on, restarts, blurred, nodes, due, sync, lastStart, req, claim, faults>>

NodeInformed(n) ==
    /\ on /\ ~fresh[n]
    /\ condCache' = [condCache EXCEPT ![n] = cond[n]] /\ fresh' = [fresh EXCEPT ![n] = TRUE]
    /\ UNCHANGED <<world, process, cond, queue, due, sync, lastStart, req, claim, faults>>

RequeueDue(r) ==
    /\ on /\ due[r] # 0 /\ due[r] <= now
    /\ queue' = queue \cup {r} /\ due' = [due EXCEPT ![r] = 0]
    /\ UNCHANGED <<world, process, nodes, sync, lastStart, req, claim, faults>>

Crash ==
    /\ on /\ restarts < MaxRestarts
    /\ on' = FALSE /\ restarts' = restarts + 1
    /\ Done /\ queue' = {} /\ due' = [r \in Pods \cup {Other} |-> 0]
    /\ UNCHANGED <<world, podCache, blurred, nodes, firstBoot, lastStart, faults>>

\* Another pod replaces it: it only terminates from now on.
Replaced(p) == \E q \in Pods : q > p /\ NodeOf[q] = NodeOf[p] /\ pod[q] # None

\* Nodes with several agents, ...
Shared == {NodeOf[p] : p \in {p \in Pods : pod[p] # None /\ Replaced(p)}}

\* ... and with agents that do not start in the order of their creation.
Unordered ==
    {n \in Nodes : \E p, q \in Pods :
        /\ q < p /\ NodeOf[q] = n /\ NodeOf[p] = n /\ pod[q] # None /\ pod[p] # None
        /\ pod[q].start = 0 \/ pod[q].start = pod[p].start}

\* The caches are filled before the worker starts, and every object is an event.
Boot ==
    /\ ~on /\ on' = TRUE
    /\ podCache' = pod /\ condCache' = cond /\ fresh' = [n \in Nodes |-> TRUE]
    /\ queue' = {p \in Pods : pod[p] # None} \cup {Other}
    /\ firstBoot' = TRUE /\ lastStart' = [n \in Nodes |-> 0]
    /\ blurred' = Shared
    /\ UNCHANGED <<world, restarts, cond, due, todo, waiting, req, claim, faults>>
--------------------------------------------------------------------------------
(* The cluster *)

Cluster(status) ==
    /\ changes < MaxChanges /\ changes' = changes + 1 /\ now <= LastChange
    /\ pod' = status
    /\ UNCHANGED <<now, stable, process, nodes, queue, due, sync, lastStart, req, claim, faults>>

CreatePod(p) ==
    /\ p > born /\ born' = p
    /\ Cluster([pod EXCEPT ![p] = NewPod])

StartPod(p) ==
    /\ pod[p] # None /\ pod[p].start = 0 /\ ~Replaced(p) /\ UNCHANGED born
    /\ Cluster([pod EXCEPT ![p].start = now])

StartContainers(p, C) ==
    /\ pod[p] # None /\ pod[p].start # 0 /\ ~Replaced(p) /\ \A c \in C : pod[p].up[c] = 0
    /\ UNCHANGED born
    /\ Cluster([pod EXCEPT ![p].up = [c \in Containers |-> IF c \in C THEN now ELSE @[c]]])

StopContainers(p, C) ==
    /\ pod[p] # None /\ UNCHANGED born /\ \A c \in C : pod[p].up[c] # 0
    /\ Cluster([pod EXCEPT ![p].up = [c \in Containers |-> IF c \in C THEN 0 ELSE @[c]]])

DeletePod(p) == pod[p] # None /\ UNCHANGED born /\ Cluster([pod EXCEPT ![p] = None])

\* The kubelet and others update nodes too.
NodeTouched(n) ==
    /\ fresh[n] /\ Fault /\ fresh' = [fresh EXCEPT ![n] = FALSE]
    /\ UNCHANGED <<world, process, cond, condCache, queue, due, sync, lastStart, req, claim>>

\* Nothing is left to do before time passes.
Settled == /\ queue = {} /\ req = None
           /\ podCache = pod /\ \A n \in Nodes : fresh[n]
           /\ \A r \in Pods \cup {Other} : due[r] = 0 \/ due[r] > now

\* All containers of a pod run, and have run for the grace time.
Aged(s, t) == s # None /\ \A c \in Containers : s.up[c] # 0 /\ t - s.up[c] >= Grace

\* A process that is off starts again before LastChange has passed.
Tick ==
    /\ now < MaxTime /\ (on => Settled) /\ (~on => now <= LastChange)
    /\ now' = now + 1 /\ stable' = {p \in Pods : Aged(pod[p], now + 1)}
    /\ blurred' = blurred \cup Unordered
    /\ UNCHANGED <<pod, born, changes, podCache, on, restarts, nodes, queue, due, sync, lastStart, req, claim, faults>>
--------------------------------------------------------------------------------
(* Specification *)

\* Some pods of an earlier process run, and nodes may be ready because of them.
Init ==
    /\ now = Grace + 1
    /\ born \in {Other} \cup Pods
    /\ \A p, q \in Pods : p < q /\ q <= born => NodeOf[p] # NodeOf[q]
    /\ pod = [p \in Pods |-> IF p <= born THEN [start |-> 1, up |-> [c \in Containers |-> 1]]
                                         ELSE None]
    /\ cond = [n \in Nodes |-> None]
    /\ on = FALSE /\ podCache = [p \in Pods |-> None] /\ condCache = cond
    /\ fresh = [n \in Nodes |-> TRUE]
    /\ queue = {} /\ due = [r \in Pods \cup {Other} |-> 0]
    /\ firstBoot = TRUE /\ lastStart = [n \in Nodes |-> 0]
    /\ req = None /\ todo = NoTodo /\ waiting = {} /\ claim = None
    /\ stable = {p \in Pods : Aged(pod[p], now)}
    /\ blurred = {} /\ changes = 0 /\ faults = 0 /\ restarts = 0

Worker == \/ \E n \in Nodes : SyncNode(n)
          \/ \E p \in Pods : SyncPod(p)
          \/ SyncDone \/ Ignore \/ SetNodeCondition \/ AssertNodeStatus

Changes == \E p \in Pods : \/ CreatePod(p) \/ StartPod(p) \/ DeletePod(p)
                           \/ \E C \in (SUBSET Containers) \ {{}} :
                                 StartContainers(p, C) \/ StopContainers(p, C)

Next == \/ \E r \in Pods \cup {Other} : Take(r) \/ RequeueDue(r)
        \/ Worker
        \/ \E p \in Pods : PodInformed(p)
        \/ \E n \in Nodes : NodeInformed(n) \/ NodeTouched(n)
        \/ Changes \/ Crash \/ Boot \/ Tick

Spec == Init /\ [][Next]_vars
--------------------------------------------------------------------------------
(* Properties *)

WorldType ==
    /\ now \in Nat /\ born \in Nat /\ changes \in Nat
    /\ pod \in [Pods -> PodStatus \cup {None}] /\ stable \subseteq Pods

NodeType ==
    /\ cond \in [Nodes -> Condition \cup {None}] /\ condCache \in [Nodes -> Condition \cup {None}]
    /\ fresh \in [Nodes -> BOOLEAN] /\ faults \in Nat

WorkType ==
    /\ podCache \in [Pods -> PodStatus \cup {None}] /\ todo \in [Pods -> PodStatus \cup {None}]
    /\ on \in BOOLEAN /\ firstBoot \in BOOLEAN /\ restarts \in Nat /\ blurred \subseteq Nodes
    /\ queue \subseteq Pods \cup {Other} /\ req \in Pods \cup {Other, None}
    /\ due \in [Pods \cup {Other} -> Nat] /\ lastStart \in [Nodes -> Nat]
    /\ waiting \subseteq Nodes /\ claim \in [node : Nodes, ready : BOOLEAN] \cup {None}
    /\ (req = None \/ ~firstBoot) => (todo = NoTodo /\ waiting = {})
    /\ claim # None => (req \in Pods /\ claim.node = NodeOf[req] /\ ~firstBoot)
    /\ ~on => req = None

\* Types, and what the worker holds: work of a full sync only during one, a claim
\* only about the pod it handles (pod_status.go:103-143, 148-166).
TypeOK == WorldType /\ NodeType /\ WorkType

IsReady(n) == cond[n] # None /\ cond[n].ready

\* A node's network becomes available only when one of its agents has really run
\* through a grace time without a restart of a container, until this unit of time,
\* whatever pods come and go, requests are delayed and processes restarted
\* (setNodeNetworkUnavailable, pod_status.go:168-193).
NeverTooEarly ==
    [][\A n \in Nodes : ~IsReady(n) /\ IsReady(n)' => \E p \in stable : NodeOf[p] = n]_vars

\* The agent of its node: the last one created, and the others there started earlier.
Newest(p) ==
    /\ pod[p] # None /\ pod[p].start # 0
    /\ \A q \in Pods \ {p} : NodeOf[q] = NodeOf[p] =>
           /\ q <= born => q < p
           /\ pod[q] # None => pod[q].start \in 1 .. pod[p].start - 1

\* As long as the operator is not restarted, whenever nothing is left to do the nodes
\* are as their agents are: never available while the agent is down or young, and
\* available as soon as its grace time ends, without another event and even if only the
\* first full sync saw it start.  Stale caches, conflicts, a discarded RequeueAfter and
\* late events of replaced pods leave no node behind, except where several agents of
\* a node met the first full sync, or kept start times that do not tell which one is
\* the newer (CheckExistingAgentPods, assertNodeStatus, setNodeNetworkUnavailable and
\* the outdated-pod check, pod_status.go:136, 148, 192, 283).
RestHonest ==
    restarts = 0 /\ on /\ Settled => \A p \in Pods :
        Newest(p) /\ NodeOf[p] \notin blurred => IsReady(NodeOf[p]) = Aged(pod[p], now)
================================================================================
