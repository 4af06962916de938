----------------------------- MODULE NodeController -----------------------------
(***************************************************************************)
(* pkg/controller/node: the node controller tags the NSX segment port of   *)
(* every node with the names of the node and of the cluster, and reports   *)
(* failures as the ClusterNode level.  The ConfigMap controller switches   *)
(* it on and off (AddNodeTag) while its worker is under way.               *)
(*                                                                         *)
(* Abstracted: the look-up of a node's VM, its attachments and their ports *)
(* is one reading of NSX, with the state of the ports; a port is replaced  *)
(* only in its read version; the name of the cluster does not change; of   *)
(* the ClusterNode level only whether it is raised.                        *)
(***************************************************************************)
EXTENDS Integers, FiniteSets

CONSTANTS Nodes, Ports, Addresses, None,
          AddressSets, \* the combinations of addresses that a node or a port may have
          MaxChanges, \* bound on changes of nodes, ports and addNodeTag
          MaxFaults   \* bound on failed calls and restarts

ASSUME NoneAssumption == None \notin Nodes \cup Ports
ASSUME ClusterAssumption == "cluster" \notin Nodes
ASSUME AddressAssumption == AddressSets \subseteq SUBSET Addresses /\ IsFiniteSet(Addresses)
ASSUME PortAssumption == IsFiniteSet(Ports)
ASSUME BoundAssumption == MaxChanges \in Nat /\ MaxFaults \in Nat

VARIABLES
    addNodeTag,    \* in the spec of ncp-install
    AddNodeTag,    \* sharedInfo.AddNodeTag
    switching,     \* ConfigMap controller: between clearing the level and AddNodeTag
    level,         \* whether the status level ClusterNode has a fault
    cachedNodeSet, \* the nodes it knows: addresses and Success
    node,          \* the addresses of the nodes in the API server, None: no such node
    nodeCache,     \* ... and in the informer cache
    owner,         \* the node whose VM a segment port is attached to
    bound,         \* the addresses realized on a port
    tags,          \* of a port: "cluster" and nodes
    queue,         \* the nodes in the work queue
    req,           \* the node that is reconciled
    addrs,         \* its addresses as they were read
    port,          \* the port found for it
    moved,         \* (auxiliary) nodes whose ports have changed
    readdressed,   \* (auxiliary) nodes whose addresses have changed
    changes, faults

cluster == <<node, owner, bound, moved, readdressed>>
switch  == <<addNodeTag, AddNodeTag, switching>>
worker  == <<req, addrs, port>>
vars == <<cluster, switch, level, cachedNodeSet, nodeCache, tags, queue, worker, changes, faults>>

NodeStatus == [addresses : SUBSET Addresses, success : BOOLEAN]

\* An entry without addresses: not yet processed, or not read.
Failed(A) == [addresses |-> A, success |-> FALSE]

Known(set) == {n \in Nodes : set[n] # None}

Fault == faults < MaxFaults /\ faults' = faults + 1
--------------------------------------------------------------------------------
(* The worker *)

\* Mutant: the level is never cleared again.
SetFromNodesRaising(set) == level' = (level \/ \E n \in Known(set) : ~set[n].success)

\* SetFromNodes: the level is raised as long as one of the nodes has failed.
SetFromNodes(set) == level' = \E n \in Known(set) : ~set[n].success

\* Mutant: the next request starts with the port of this one.
IdleKeepsPort == req' = None /\ addrs' = {} /\ port' = port

\* No request is under way.
Idle == req' = None /\ addrs' = {} /\ port' = None

\* The result of a node is noted and published; an error queues it again.
Finish(status) ==
    /\ cachedNodeSet' = [cachedNodeSet EXCEPT ![req] = status]
    /\ SetFromNodes(cachedNodeSet')
    /\ queue' = IF status.success THEN queue ELSE queue \cup {req}
    /\ Idle

\* A new process lists the nodes, so that it knows all that are to succeed.
Filled == IF Known(cachedNodeSet) = {}
          THEN [n \in Nodes |-> IF nodeCache[n] = None THEN None ELSE Failed({})]
          ELSE cachedNodeSet

\* Mutant: the addresses of a processed node are not compared.
ProcessedOnce(set, n) == set[n] # None /\ set[n].success

Processed(set, n) ==
    set[n] # None /\ set[n].success /\ set[n].addresses = nodeCache[n]

\* Switched off: the request is dropped.
ReconcileOff(n) ==
    /\ req = None /\ n \in queue /\ ~AddNodeTag
    /\ queue' = queue \ {n}
    /\ UNCHANGED <<cluster, switch, level, cachedNodeSet, nodeCache, tags, worker, changes, faults>>

\* The node is gone: its status is forgotten.
ReconcileGone(n) ==
    /\ req = None /\ n \in queue /\ AddNodeTag /\ nodeCache[n] = None
    /\ cachedNodeSet' = [Filled EXCEPT ![n] = None]
    /\ SetFromNodes(cachedNodeSet')
    /\ queue' = queue \ {n}
    /\ UNCHANGED <<cluster, switch, nodeCache, tags, worker, changes, faults>>

\* Processed with the same addresses: nothing to do.
ReconcileSkip(n) ==
    /\ req = None /\ n \in queue /\ AddNodeTag /\ nodeCache[n] # None /\ Processed(Filled, n)
    /\ cachedNodeSet' = Filled /\ queue' = queue \ {n}
    /\ UNCHANGED <<cluster, switch, level, nodeCache, tags, worker, changes, faults>>

ReconcileStart(n) ==
    /\ req = None /\ n \in queue /\ AddNodeTag /\ nodeCache[n] # None /\ ~Processed(Filled, n)
    /\ cachedNodeSet' = Filled /\ queue' = queue \ {n}
    /\ req' = n /\ addrs' = nodeCache[n] /\ port' = None
    /\ UNCHANGED <<cluster, switch, level, nodeCache, tags, changes, faults>>

PortsOf(n) == {p \in Ports : owner[p] = n}

\* filterPortsByNodeAddresses: a port is counted once for every address it has.
Matches(n, A) == {m \in PortsOf(n) \X A : m[2] \in bound[m[1]]}

\* Mutant: several matches are no error.
CandidatesAny(n, A) ==
    IF Cardinality(PortsOf(n)) = 1 THEN PortsOf(n) ELSE {m[1] : m \in Matches(n, A)}

\* The port to tag: the only one, or the only match of the node's addresses.
Candidates(n, A) ==
    IF Cardinality(PortsOf(n)) = 1 THEN PortsOf(n)
    ELSE IF Cardinality(Matches(n, A)) = 1 THEN {m[1] : m \in Matches(n, A)} ELSE {}

Locate ==
    /\ req # None /\ port = None
    /\ \E p \in Candidates(req, addrs) : port' = p
    /\ UNCHANGED <<cluster, switch, level, cachedNodeSet, nodeCache, tags, queue, req, addrs,
                   changes, faults>>

\* No port, several, or NSX cannot be read.
LocateFails ==
    /\ req # None /\ port = None
    /\ IF Candidates(req, addrs) = {} THEN UNCHANGED faults ELSE Fault
    /\ Finish(Failed(addrs))
    /\ UNCHANGED <<cluster, switch, nodeCache, tags, changes>>

\* The missing tags are added to those the port has.
NewTags(n, p) == {n, "cluster"} \ tags[p]

\* The port is replaced as it was read, with the new tags.
Tag ==
    /\ port # None
    /\ owner[port] = req \/ NewTags(req, port) = {}
    /\ tags' = [tags EXCEPT ![port] = @ \cup NewTags(req, port)]
    /\ Finish([addresses |-> addrs, success |-> TRUE])
    /\ UNCHANGED <<cluster, switch, nodeCache, changes, faults>>

\* The port has changed since it was read, or the call fails.
TagFails ==
    /\ port # None /\ NewTags(req, port) # {}
    /\ IF owner[port] # req THEN UNCHANGED faults ELSE Fault
    /\ Finish(Failed(addrs))
    /\ UNCHANGED <<cluster, switch, nodeCache, tags, changes>>

Worker == Locate \/ LocateFails \/ Tag \/ TagFails
Reconcile(n) == ReconcileOff(n) \/ ReconcileGone(n) \/ ReconcileSkip(n) \/ ReconcileStart(n)
--------------------------------------------------------------------------------
(* The ConfigMap controller, when addNodeTag has changed *)

SwitchOff ==
    /\ ~switching /\ AddNodeTag /\ ~addNodeTag
    /\ level' = FALSE /\ switching' = TRUE
    /\ UNCHANGED <<cluster, addNodeTag, AddNodeTag, cachedNodeSet, nodeCache, tags, queue, worker,
                   changes, faults>>

SwitchedOff ==
    /\ switching /\ AddNodeTag' = FALSE /\ switching' = FALSE
    /\ UNCHANGED <<cluster, addNodeTag, level, cachedNodeSet, nodeCache, tags, queue, worker,
                   changes, faults>>

SwitchOn ==
    /\ ~switching /\ ~AddNodeTag /\ addNodeTag
    /\ AddNodeTag' = TRUE
    /\ UNCHANGED <<cluster, addNodeTag, switching, level, cachedNodeSet, nodeCache, tags, queue,
                   worker, changes, faults>>
--------------------------------------------------------------------------------
(* Informer, process and surroundings *)

NodeInformed(n) ==
    /\ nodeCache[n] # node[n]
    /\ nodeCache' = [nodeCache EXCEPT ![n] = node[n]] /\ queue' = queue \cup {n}
    /\ UNCHANGED <<cluster, switch, level, cachedNodeSet, tags, worker, changes, faults>>

\* The kubelet updates its node from time to time; each update is an event.
Heartbeat(n) ==
    /\ nodeCache[n] # None /\ node[n] = nodeCache[n] /\ n \notin queue
    /\ queue' = queue \cup {n}
    /\ UNCHANGED <<cluster, switch, level, cachedNodeSet, nodeCache, tags, worker, changes, faults>>

\* New memory; every node is an event.
Restart ==
    /\ Fault
    /\ Idle /\ cachedNodeSet' = [n \in Nodes |-> None] /\ level' = FALSE
    /\ nodeCache' = node /\ queue' = {n \in Nodes : node[n] # None}
    /\ AddNodeTag' = addNodeTag /\ switching' = FALSE
    /\ UNCHANGED <<cluster, addNodeTag, tags, changes>>

Change == /\ changes < MaxChanges /\ changes' = changes + 1
          /\ UNCHANGED <<AddNodeTag, switching, level, cachedNodeSet, nodeCache, tags, queue,
                         worker, faults>>

Toggle == Change /\ addNodeTag' = ~addNodeTag /\ UNCHANGED cluster

SetNode(n, A) ==
    /\ node[n] # A /\ Change /\ node' = [node EXCEPT ![n] = A]
    /\ readdressed' = readdressed \cup {n} /\ UNCHANGED <<owner, bound, moved, addNodeTag>>

MovePort(p, n, A) ==
    /\ <<owner[p], bound[p]>> # <<n, A>> /\ Change
    /\ owner' = [owner EXCEPT ![p] = n] /\ bound' = [bound EXCEPT ![p] = A]
    /\ moved' = moved \cup ({n, owner[p]} \cap Nodes) /\ UNCHANGED <<node, readdressed, addNodeTag>>

\* The operator starts on ports without tags.
Init ==
    /\ node \in [Nodes -> AddressSets \cup {None}] /\ nodeCache = node
    /\ owner \in [Ports -> Nodes \cup {None}] /\ bound \in [Ports -> AddressSets]
    /\ addNodeTag \in BOOLEAN /\ AddNodeTag = addNodeTag /\ switching = FALSE
    /\ level = FALSE /\ cachedNodeSet = [n \in Nodes |-> None]
    /\ tags = [p \in Ports |-> {}]
    /\ queue = {n \in Nodes : node[n] # None}
    /\ req = None /\ addrs = {} /\ port = None
    /\ moved = {} /\ readdressed = {} /\ changes = 0 /\ faults = 0

Changes == \/ Toggle
           \/ \E n \in Nodes, A \in AddressSets \cup {None} : SetNode(n, A)
           \/ \E p \in Ports, n \in Nodes \cup {None}, A \in AddressSets : MovePort(p, n, A)

Next == \/ Worker
        \/ SwitchOff \/ SwitchedOff \/ SwitchOn
        \/ \E n \in Nodes : Reconcile(n) \/ NodeInformed(n) \/ Heartbeat(n)
        \/ Restart \/ Changes

Spec == Init /\ [][Next]_vars

\* Both controllers and the informer run on, the work queue passes nobody over, and
\* kubelets keep updating their nodes.
Fairness == /\ WF_vars(Worker) /\ WF_vars(SwitchOff \/ SwitchedOff \/ SwitchOn)
            /\ \A n \in Nodes : /\ SF_vars(Reconcile(n))
                                /\ WF_vars(NodeInformed(n)) /\ WF_vars(Heartbeat(n))

FairSpec == Spec /\ Fairness
--------------------------------------------------------------------------------
(* Properties *)

TypeOK ==
    /\ addNodeTag \in BOOLEAN /\ AddNodeTag \in BOOLEAN
    /\ switching \in BOOLEAN /\ (switching => AddNodeTag)
    /\ level \in BOOLEAN
    /\ cachedNodeSet \in [Nodes -> NodeStatus \cup {None}]
    /\ node \in [Nodes -> AddressSets \cup {None}]
    /\ nodeCache \in [Nodes -> AddressSets \cup {None}]
    /\ owner \in [Ports -> Nodes \cup {None}] /\ bound \in [Ports -> AddressSets]
    /\ tags \in [Ports -> SUBSET (Nodes \cup {"cluster"})]
    /\ queue \subseteq Nodes /\ req \in Nodes \cup {None}
    /\ addrs \subseteq Addresses /\ port \in Ports \cup {None}
    /\ (req = None => addrs = {} /\ port = None)
    /\ moved \subseteq Nodes /\ readdressed \subseteq Nodes
    /\ changes \in 0 .. MaxChanges /\ faults \in 0 .. MaxFaults

\* Whatever is retried, restarted or switched meanwhile, the tag of a node whose VM stays
\* as it is ends up on a port of that VM only, and of several on the only one with an
\* address of the node (filterPortsByNodeAddresses and the tagging in Reconcile).
OwnTagOnly ==
    \A n \in Nodes \ (moved \cup readdressed), p \in Ports : n \in tags[p] =>
        /\ owner[p] = n
        /\ \A q \in Ports \ {p} : owner[q] = n =>
              bound[p] \cap node[n] # {} /\ bound[q] \cap node[n] = {}

\* Its port can be told.
Taggable(n) == node[n] # None /\ Cardinality(Candidates(n, node[n])) = 1

\* A node whose port can be told from some time on, also by new addresses, gets its tags on
\* it in the end, whatever failed before and even if tagging was off at first: nothing
\* queues the nodes again when it is switched on.  (Reconcile skips a node that was
\* processed, so not if its ports have moved; see the TODO there.)
EventuallyTagged ==
    \A n \in Nodes :
        <>[](addNodeTag /\ Taggable(n) /\ n \notin moved)
        => <>[](Taggable(n) => \A p \in Candidates(n, node[n]) : {n, "cluster"} \subseteq tags[p])

\* A failed node that was deleted, unnoticed while the controller was off.
Lingering(n) == node[n] = None /\ cachedNodeSet[n] # None /\ ~cachedNodeSet[n].success

\* Once all nodes can be tagged the ClusterNode level is cleared, for good (SetFromNodes,
\* and the set of nodes kept from one request to the next).
EventuallyCleared ==
    <>[](addNodeTag /\ \A n \in Nodes : node[n] # None => Taggable(n))
    => <>[](level => \E n \in Nodes : Lingering(n))

\* "Since addNodeTag is false, node statuses should be cleared" (operator_test.go): once
\* the ConfigMap controller has switched tagging off and nothing is under way.  Violated:
\* a request that was under way raises the level after it was cleared.
ClearedWhenOff == ~AddNodeTag /\ req = None => ~level
================================================================================
