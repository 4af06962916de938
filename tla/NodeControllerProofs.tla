-------------------------- MODULE NodeControllerProofs --------------------------
(***************************************************************************)
(* Proofs about NodeController: type correctness, and that the tag of a    *)
(* node is on no port but its own, for any number of nodes, ports, changes *)
(* and faults.  The inductive invariant says what the worker holds of a    *)
(* node that has not changed: the addresses and the port that Candidates   *)
(* would give now.                                                         *)
(***************************************************************************)
EXTENDS NodeController, FiniteSetTheorems, TLAPS

--------------------------------------------------------------------------------
(* Type correctness *)

LEMMA FilledType ==
  ASSUME TypeOK
  PROVE  Filled \in [Nodes -> NodeStatus \cup {None}]
BY DEF TypeOK, Filled, NodeStatus, Failed

LEMMA InitType == Init => TypeOK
<1> SUFFICES ASSUME Init PROVE TypeOK
  OBVIOUS
<1>1. addNodeTag \in BOOLEAN /\ AddNodeTag \in BOOLEAN /\ switching = FALSE /\ level = FALSE
  BY Zenon DEF Init
<1>2. cachedNodeSet = [n \in Nodes |-> None] /\ tags = [p \in Ports |-> {}]
  BY DEF Init
<1>3. changes = 0 /\ faults = 0 /\ moved = {} /\ readdressed = {}
  BY DEF Init
<1>4. /\ node \in [Nodes -> AddressSets \cup {None}] /\ nodeCache = node
      /\ owner \in [Ports -> Nodes \cup {None}] /\ bound \in [Ports -> AddressSets]
      /\ queue \subseteq Nodes /\ req = None /\ addrs = {} /\ port = None
  <2>1. queue = {n \in Nodes : node[n] # None}
    BY DEF Init
  <2>2. queue \subseteq Nodes
    BY <2>1
  <2> QED
    BY <2>2 DEF Init
<1>5. /\ cachedNodeSet \in [Nodes -> NodeStatus \cup {None}]
      /\ tags \in [Ports -> SUBSET (Nodes \cup {"cluster"})]
      /\ changes \in 0 .. MaxChanges /\ faults \in 0 .. MaxFaults
  BY <1>2, <1>3, BoundAssumption
<1>6. nodeCache \in [Nodes -> AddressSets \cup {None}]
  BY <1>4
<1> QED
  BY <1>1, <1>3, <1>4, <1>5, <1>6 DEF TypeOK

LEMMA WorkerType == TypeOK /\ Worker => TypeOK'
<1> SUFFICES ASSUME TypeOK, Worker PROVE TypeOK'
  OBVIOUS
<1> USE NoneAssumption, BoundAssumption
<1>1. CASE Locate
  BY <1>1 DEF Locate, TypeOK, Candidates, PortsOf, Matches, cluster, switch
<1>2. ASSUME NEW s \in NodeStatus, req \in Nodes, Finish(s)
      PROVE  /\ cachedNodeSet' \in [Nodes -> NodeStatus \cup {None}] /\ level' \in BOOLEAN
             /\ queue' \subseteq Nodes /\ req' = None /\ addrs' = {} /\ port' = None
  BY <1>2 DEF Finish, SetFromNodes, Idle, TypeOK
<1>3. Failed(addrs) \in NodeStatus /\ [addresses |-> addrs, success |-> TRUE] \in NodeStatus
  BY DEF Failed, NodeStatus, TypeOK
<1>4. req \in Nodes
  BY DEF Worker, Locate, LocateFails, Tag, TagFails, TypeOK
<1>5. CASE LocateFails
  <2>1. faults' \in 0 .. MaxFaults
    BY <1>5 DEF LocateFails, Fault, TypeOK
  <2> QED
    BY <1>5, <1>2, <1>3, <1>4, <2>1 DEF LocateFails, TypeOK, cluster, switch
<1>6. CASE Tag
  <2>1. tags' \in [Ports -> SUBSET (Nodes \cup {"cluster"})]
    BY <1>6, <1>4 DEF Tag, NewTags, TypeOK
  <2> QED
    BY <1>6, <1>2, <1>3, <1>4, <2>1 DEF Tag, TypeOK, cluster, switch
<1>7. CASE TagFails
  <2>1. faults' \in 0 .. MaxFaults
    BY <1>7 DEF TagFails, Fault, TypeOK
  <2> QED
    BY <1>7, <1>2, <1>3, <1>4, <2>1 DEF TagFails, TypeOK, cluster, switch
<1> QED
  BY <1>1, <1>5, <1>6, <1>7 DEF Worker

LEMMA ReconcileType ==
  ASSUME TypeOK, NEW n \in Nodes, Reconcile(n)
  PROVE  TypeOK'
<1> USE NoneAssumption, AddressAssumption, FilledType
<1>1. CASE ReconcileOff(n)
  BY <1>1 DEF ReconcileOff, TypeOK, cluster, switch, worker
<1>2. CASE ReconcileGone(n)
  <2>1. cachedNodeSet' \in [Nodes -> NodeStatus \cup {None}]
    BY <1>2 DEF ReconcileGone
  <2> QED
    BY <1>2, <2>1 DEF ReconcileGone, SetFromNodes, TypeOK, cluster, switch, worker
<1>3. CASE ReconcileSkip(n)
  BY <1>3 DEF ReconcileSkip, TypeOK, cluster, switch, worker
<1>4. CASE ReconcileStart(n)
  BY <1>4 DEF ReconcileStart, TypeOK, cluster, switch
<1> QED
  BY <1>1, <1>2, <1>3, <1>4 DEF Reconcile

LEMMA OtherType ==
  ASSUME TypeOK,
         \/ SwitchOff \/ SwitchedOff \/ SwitchOn \/ Restart \/ Changes
         \/ \E n \in Nodes : NodeInformed(n) \/ Heartbeat(n)
  PROVE  TypeOK'
<1> USE NoneAssumption, BoundAssumption
<1>1. CASE SwitchOff
  BY <1>1 DEF SwitchOff, TypeOK, cluster, worker
<1>2. CASE SwitchedOff
  BY <1>2 DEF SwitchedOff, TypeOK, cluster, worker
<1>3. CASE SwitchOn
  BY <1>3 DEF SwitchOn, TypeOK, cluster, worker
<1>4. CASE Restart
  <2>1. faults' \in 0 .. MaxFaults /\ UNCHANGED <<cluster, addNodeTag, tags, changes>>
    BY <1>4 DEF Restart, Fault, TypeOK
  <2>2. AddNodeTag' \in BOOLEAN /\ switching' = FALSE /\ level' = FALSE
    BY <1>4, Zenon DEF Restart, TypeOK
  <2>3. /\ cachedNodeSet' = [n \in Nodes |-> None] /\ nodeCache' = node /\ queue' \subseteq Nodes
        /\ req' = None /\ addrs' = {} /\ port' = None
    BY <1>4 DEF Restart, Idle
  <2> QED
    BY <2>1, <2>2, <2>3 DEF TypeOK, cluster
<1>5. ASSUME Change
      PROVE  /\ changes' \in 0 .. MaxChanges
             /\ UNCHANGED <<AddNodeTag, switching, level, cachedNodeSet, nodeCache, tags, queue,
                            worker, faults>>
  BY <1>5 DEF Change, TypeOK
<1>6. CASE Toggle
  BY <1>5, <1>6 DEF Toggle, TypeOK, cluster, worker
<1>7. ASSUME NEW n \in Nodes, NEW A \in AddressSets \cup {None}, SetNode(n, A)
      PROVE  TypeOK'
  BY <1>5, <1>7 DEF SetNode, TypeOK, worker
<1>8. ASSUME NEW p \in Ports, NEW n \in Nodes \cup {None}, NEW A \in AddressSets, MovePort(p, n, A)
      PROVE  TypeOK'
  BY <1>5, <1>8 DEF MovePort, TypeOK, worker
<1>9. ASSUME NEW n \in Nodes, NodeInformed(n) \/ Heartbeat(n)
      PROVE  TypeOK'
  BY <1>9 DEF NodeInformed, Heartbeat, TypeOK, cluster, switch, worker
<1> QED
  BY <1>1, <1>2, <1>3, <1>4, <1>6, <1>7, <1>8, <1>9 DEF Changes

LEMMA StepType == TypeOK /\ [Next]_vars => TypeOK'
<1> SUFFICES ASSUME TypeOK, [Next]_vars PROVE TypeOK'
  OBVIOUS
<1>1. CASE UNCHANGED vars
  BY <1>1 DEF vars, TypeOK, cluster, switch, worker
<1> QED
  BY <1>1, WorkerType, ReconcileType, OtherType DEF Next

\* The variables keep their types, and only a request that is under way holds addresses and
\* a port (Reconcile starts every request anew).
THEOREM TypeCorrect == Spec => []TypeOK
BY InitType, StepType, PTL DEF Spec
--------------------------------------------------------------------------------
(* The tag of a node is on its own port only *)

\* A node's port is told by elimination: there are no two candidates.
LEMMA OneCandidate ==
  ASSUME NEW n, NEW A, A \subseteq Addresses, NEW p \in Candidates(n, A)
  PROVE  Candidates(n, A) = {p}
<1>1. IsFiniteSet(PortsOf(n))
  BY PortAssumption, FS_Subset DEF PortsOf
<1>2. IsFiniteSet(A)
  BY AddressAssumption, FS_Subset
<1>3. IsFiniteSet(PortsOf(n) \X A)
  BY <1>1, <1>2, FS_Product
<1>4. IsFiniteSet(Matches(n, A))
  BY <1>3, FS_Subset DEF Matches
<1>5. CASE Cardinality(PortsOf(n)) = 1
  <2>1. \E q : PortsOf(n) = {q}
    BY <1>1, <1>5, FS_Singleton
  <2> QED
    BY <1>5, <2>1 DEF Candidates
<1>6. CASE Cardinality(PortsOf(n)) # 1 /\ Cardinality(Matches(n, A)) = 1
  <2>1. PICK m : Matches(n, A) = {m}
    BY <1>4, <1>6, FS_Singleton
  <2>2. Candidates(n, A) = {m[1]}
    BY <1>6, <2>1 DEF Candidates
  <2> QED
    BY <2>2
<1> QED
  BY <1>5, <1>6 DEF Candidates

\* It is a port of the node's VM, and no other one of these has an address of the node.
LEMMA OnlyOwn ==
  ASSUME NEW n, NEW A, A \subseteq Addresses, NEW p \in Ports, Candidates(n, A) = {p},
         NEW q \in Ports \ {p}, owner[q] = n
  PROVE  bound[p] \cap A # {} /\ bound[q] \cap A = {}
<1>1. IsFiniteSet(PortsOf(n))
  BY PortAssumption, FS_Subset DEF PortsOf
<1>2. IsFiniteSet(A)
  BY AddressAssumption, FS_Subset
<1>3. IsFiniteSet(PortsOf(n) \X A)
  BY <1>1, <1>2, FS_Product
<1>4. IsFiniteSet(Matches(n, A))
  BY <1>3, FS_Subset DEF Matches
<1>5. q \in PortsOf(n)
  BY DEF PortsOf
<1>6. PortsOf(n) # {p}
  BY <1>5
<1>7. Cardinality(PortsOf(n)) # 1
  BY <1>6 DEF Candidates
<1>8. Cardinality(Matches(n, A)) = 1
  BY <1>7 DEF Candidates
<1>9. PICK m : Matches(n, A) = {m}
  BY <1>4, <1>8, FS_Singleton
<1>10. m[1] = p /\ m[2] \in A /\ m[2] \in bound[p]
  <2>1. Candidates(n, A) = {m[1]}
    BY <1>7, <1>8, <1>9 DEF Candidates
  <2>2. m[1] = p
    BY <2>1
  <2>3. m \in PortsOf(n) \X A /\ m[2] \in bound[m[1]]
    BY <1>9 DEF Matches
  <2> QED
    BY <2>2, <2>3
<1>11. ASSUME NEW a \in bound[q] \cap A
       PROVE  FALSE
  <2>1. <<q, a>> \in Matches(n, A)
    BY <1>5 DEF Matches
  <2>2. <<q, a>> = m
    BY <1>9, <2>1
  <2> QED
    BY <1>10, <2>2
<1> QED
  BY <1>10, <1>11

\* A candidate is a port of the node's VM.
LEMMA CandidateIsOwned ==
  ASSUME NEW n, NEW A, NEW p \in Candidates(n, A)
  PROVE  owner[p] = n
<1>1. CASE p \in PortsOf(n)
  BY <1>1 DEF PortsOf
<1>2. CASE \E m \in Matches(n, A) : p = m[1]
  <2>1. PICK m \in Matches(n, A) : p = m[1]
    BY <1>2
  <2>2. m \in PortsOf(n) \X A
    BY <2>1 DEF Matches
  <2>3. p \in PortsOf(n)
    BY <2>1, <2>2
  <2> QED
    BY <2>3 DEF PortsOf
<1> QED
  BY <1>1, <1>2 DEF Candidates

\* What is known of a node that has not changed.
Settled(n) ==
    /\ nodeCache[n] = node[n]
    /\ req = n => node[n] # None /\ addrs = node[n]
    /\ req = n /\ port # None => Candidates(n, node[n]) = {port}
    /\ \A p \in Ports : n \in tags[p] => node[n] # None /\ Candidates(n, node[n]) = {p}

OwnInv == TypeOK /\ \A n \in Nodes \ (moved \cup readdressed) : Settled(n)

LEMMA InitOwn == Init => OwnInv
<1> SUFFICES ASSUME Init PROVE OwnInv
  OBVIOUS
<1>1. TypeOK
  BY InitType
<1> QED
  BY <1>1, NoneAssumption DEF Init, OwnInv, Settled

\* Where ports and nodes are as they were, so are the candidates.
LEMMA SameCandidates ==
  ASSUME NEW n \in Nodes, NEW A,
         {p \in Ports : owner'[p] = n} = {p \in Ports : owner[p] = n},
         \A p \in Ports : owner[p] = n => bound'[p] = bound[p]
  PROVE  Candidates(n, A)' = Candidates(n, A)
<1>1. PortsOf(n)' = PortsOf(n)
  BY DEF PortsOf
<1>2. Matches(n, A)' = Matches(n, A)
  BY <1>1 DEF Matches, PortsOf
<1> QED
  BY <1>1, <1>2 DEF Candidates

LEMMA WorkerOwn ==
  ASSUME OwnInv, Worker
  PROVE  OwnInv'
<1>1. TypeOK /\ TypeOK'
  BY StepType DEF OwnInv, Next
<1>2. UNCHANGED <<cluster, nodeCache>> /\ req \in Nodes
  BY <1>1 DEF Worker, Locate, LocateFails, Tag, TagFails, cluster, switch, TypeOK
<1> SUFFICES ASSUME NEW n \in Nodes \ (moved \cup readdressed), Settled(n)
             PROVE  Settled(n)'
  BY <1>1, <1>2 DEF OwnInv, cluster
<1>3. \A A : Candidates(n, A)' = Candidates(n, A)
  BY <1>2 DEF Candidates, PortsOf, Matches, cluster
<1>4. CASE Locate
  <2>1. req = n => Candidates(n, node[n]) = {port'}
    BY <1>1, <1>4, AddressAssumption, OneCandidate DEF Locate, Settled, TypeOK
  <2> QED
    BY <1>2, <1>3, <1>4, <2>1 DEF Locate, Settled, cluster
<1>5. CASE LocateFails \/ TagFails
  BY <1>1, <1>2, <1>3, <1>5, NoneAssumption
     DEF LocateFails, TagFails, Finish, Idle, Settled, cluster
<1>6. CASE Tag
  <2>1. \A p \in Ports : n \in tags'[p] => n \in tags[p] \/ (n = req /\ p = port)
    BY <1>1, <1>6, ClusterAssumption DEF Tag, NewTags, TypeOK
  <2>2. req' = None
    BY <1>6 DEF Tag, Finish, Idle
  <2>3. port # None
    BY <1>6 DEF Tag
  <2> QED
    BY <1>2, <1>3, <2>1, <2>2, <2>3, NoneAssumption DEF Settled, cluster
<1> QED
  BY <1>4, <1>5, <1>6 DEF Worker

LEMMA ReconcileOwn ==
  ASSUME OwnInv, NEW m \in Nodes, Reconcile(m)
  PROVE  OwnInv'
<1>1. TypeOK /\ TypeOK'
  BY StepType DEF OwnInv, Next
<1>2. UNCHANGED <<cluster, nodeCache, tags>>
  BY DEF Reconcile, ReconcileOff, ReconcileGone, ReconcileSkip, ReconcileStart
<1>3. \/ UNCHANGED worker
      \/ req' = m /\ addrs' = nodeCache[m] /\ nodeCache[m] # None /\ port' = None
  BY DEF Reconcile, ReconcileOff, ReconcileGone, ReconcileSkip, ReconcileStart
<1> SUFFICES ASSUME NEW n \in Nodes \ (moved \cup readdressed), Settled(n)
             PROVE  Settled(n)'
  BY <1>1, <1>2 DEF OwnInv, cluster
<1>4. \A A : Candidates(n, A)' = Candidates(n, A)
  BY <1>2 DEF Candidates, PortsOf, Matches, cluster
<1> QED
  BY <1>2, <1>3, <1>4 DEF Settled, cluster, worker

LEMMA OtherOwn ==
  ASSUME OwnInv,
         \/ SwitchOff \/ SwitchedOff \/ SwitchOn \/ Toggle \/ Restart
         \/ \E n \in Nodes : NodeInformed(n) \/ Heartbeat(n)
  PROVE  OwnInv'
<1>1. TypeOK /\ TypeOK'
  BY StepType DEF OwnInv, Next, Changes
<1>2. UNCHANGED <<cluster, tags>>
  BY DEF SwitchOff, SwitchedOff, SwitchOn, Restart, NodeInformed, Heartbeat, Toggle, Change
<1>3. UNCHANGED worker \/ req' = None
  BY DEF SwitchOff, SwitchedOff, SwitchOn, Restart, NodeInformed, Heartbeat, Toggle, Change, Idle
<1>4. \/ UNCHANGED nodeCache
      \/ nodeCache' = node
      \/ \E n \in Nodes : nodeCache' = [nodeCache EXCEPT ![n] = node[n]]
  BY DEF SwitchOff, SwitchedOff, SwitchOn, Restart, NodeInformed, Heartbeat, Toggle, Change
<1> SUFFICES ASSUME NEW n \in Nodes \ (moved \cup readdressed), Settled(n)
             PROVE  Settled(n)'
  BY <1>1, <1>2 DEF OwnInv, cluster
<1>5. \A A : Candidates(n, A)' = Candidates(n, A)
  BY <1>2 DEF Candidates, PortsOf, Matches, cluster
<1>6. nodeCache'[n] = node[n]
  BY <1>1, <1>4 DEF Settled, TypeOK
<1> QED
  BY <1>2, <1>3, <1>5, <1>6, NoneAssumption DEF Settled, cluster, worker

LEMMA ChangeOwn ==
  ASSUME OwnInv,
         \/ \E m \in Nodes, A \in AddressSets \cup {None} : SetNode(m, A)
         \/ \E p \in Ports, m \in Nodes \cup {None}, A \in AddressSets : MovePort(p, m, A)
  PROVE  OwnInv'
<1>1. TypeOK /\ TypeOK'
  BY StepType DEF OwnInv, Next, Changes
<1>2. moved \subseteq moved' /\ readdressed \subseteq readdressed'
  BY DEF SetNode, MovePort, Change
<1>3. UNCHANGED <<nodeCache, tags, worker>>
  BY DEF SetNode, MovePort, Change
<1> SUFFICES ASSUME NEW n \in Nodes, n \notin moved' \cup readdressed', Settled(n)
             PROVE  Settled(n)'
  BY <1>1, <1>2 DEF OwnInv
<1>4. node'[n] = node[n]
  BY <1>1 DEF SetNode, MovePort, TypeOK
<1>5. {p \in Ports : owner'[p] = n} = {p \in Ports : owner[p] = n}
  BY <1>1 DEF SetNode, MovePort, TypeOK
<1>6. \A p \in Ports : owner[p] = n => bound'[p] = bound[p]
  BY <1>1 DEF SetNode, MovePort, TypeOK
<1>7. \A A : Candidates(n, A)' = Candidates(n, A)
  BY <1>5, <1>6, SameCandidates
<1> QED
  BY <1>3, <1>4, <1>7 DEF Settled, worker

LEMMA StepOwn == OwnInv /\ [Next]_vars => OwnInv'
<1> SUFFICES ASSUME OwnInv, [Next]_vars PROVE OwnInv'
  OBVIOUS
<1>1. CASE UNCHANGED vars
  <2>1. \A n, A : Candidates(n, A)' = Candidates(n, A)
    BY <1>1 DEF Candidates, PortsOf, Matches, vars, cluster
  <2> QED
    BY <1>1, <2>1 DEF vars, OwnInv, Settled, TypeOK, cluster, switch, worker
<1> QED
  BY <1>1, WorkerOwn, ReconcileOwn, OtherOwn, ChangeOwn DEF Next, Changes

\* The tag of a node whose VM and addresses stay as they are is on a port of that VM only,
\* and of several on the only one with an address of the node: retries, stale requests,
\* restarts and switching the controller off and on put it on no other (Reconcile,
\* filterPortsByNodeAddresses).
THEOREM TagsOnOwnPort == Spec => []OwnTagOnly
<1>1. ASSUME OwnInv
      PROVE  OwnTagOnly
  <2> SUFFICES ASSUME NEW n \in Nodes \ (moved \cup readdressed), NEW p \in Ports, n \in tags[p]
               PROVE  /\ owner[p] = n
                      /\ \A q \in Ports \ {p} : owner[q] = n =>
                            bound[p] \cap node[n] # {} /\ bound[q] \cap node[n] = {}
    BY DEF OwnTagOnly
  <2>1. node[n] # None /\ Candidates(n, node[n]) = {p}
    BY <1>1 DEF OwnInv, Settled
  <2>2. node[n] \subseteq Addresses
    BY <1>1, <2>1, AddressAssumption DEF OwnInv, TypeOK
  <2> QED
    BY <2>1, <2>2, OnlyOwn, CandidateIsOwned
<1> QED
  BY <1>1, InitOwn, StepOwn, PTL DEF Spec
================================================================================
