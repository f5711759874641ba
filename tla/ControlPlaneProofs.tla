------------------------- MODULE ControlPlaneProofs -------------------------
(***************************************************************************)
(* Proofs about two parts of the control plane, for any nodes, Pods,       *)
(* servers and requests and any bounds: nodes leave the cluster without    *)
(* Pods lost or bindings left behind, and the metrics store is moved to    *)
(* its claim without losing what it copied.                                *)
(***************************************************************************)
EXTENDS Cluster, Metrics, TLAPS

-----------------------------------------------------------------------------
(* Nodes, Pods and servers.                                                *)

\* The rows of nodes and servers, and the Pods a controller owns.
Health == {"ready", "not_ready", "failed"}
NodeRow == [health : Health, cordoned : BOOLEAN, version : Nat]
ServerRow == [node : Nodes \cup {None}, role : {"", "worker", "control-plane"}]
Owned == {p \in Pods : Kind[p] # "bare"}

Drains == [op : {"cordon", "evict"}, node : Nodes, force : BOOLEAN, version : Nat, todo : SUBSET Owned]
Deletes == [op : {"delete"}, node : Nodes]
Unbinds == [op : {"unbind"}, node : Nodes]
Edits == [op : {"update", "release", "import"}, server : Servers, row : ServerRow]
Joins == [op : {"join"}, server : Servers, row : ServerRow, phase : {"check", "install", "wait", "bind"}]
Lists == [op : {"list"}, gone : SUBSET Nodes]
Slot == {Idle} \cup Drains \cup Deletes \cup Unbinds \cup Edits \cup Joins \cup Lists

Types ==
    /\ nodes \in [Nodes -> NodeRow \cup {None}]
    /\ at \in [Pods -> Nodes \cup {"pending", None}]
    /\ servers \in [Servers -> ServerRow \cup {None}]
    /\ slots \in [Slots -> Slot]
    /\ strayed \subseteq Pods /\ unbound \subseteq Nodes

\* A Pod without a controller stays where it is: none is on the list of a drain, none
\* waits for a node, and none was on a node whose removal has been allowed.
BareStays ==
    /\ bareLost = {}
    /\ \A p \in Pods \ Owned : at[p] # "pending"
    /\ \A s \in Slots : slots[s].op = "delete" => \A p \in Pods \ Owned : at[p] # slots[s].node

\* The Pods on the list of a drain are on its node or on none, unless one was placed anew.
Listed ==
    /\ strayed # {} => overlap
    /\ \A s \in Slots : slots[s].op \in {"cordon", "evict"} =>
          \A p \in slots[s].todo : at[p] \in Nodes => at[p] = slots[s].node \/ overlap

ClusterInv == Types /\ BareStays /\ Listed /\ RemovedUnbound

\* The shape of a request follows from what it does.
LEMMA Shapes ==
    ASSUME NEW r \in Slot
    PROVE  /\ r.op \in {"cordon", "evict"} => r \in Drains
           /\ r.op = "delete" => r \in Deletes
           /\ r.op = "unbind" => r \in Unbinds
           /\ r.op \in {"update", "release", "import"} => r \in Edits
           /\ r.op = "join" => r \in Joins
           /\ r.op = "list" => r \in Lists
BY DEF Slot, Drains, Deletes, Unbinds, Edits, Joins, Lists, Idle

\* All nodes that are up are ready, and no request has come.
LEMMA ClusterInit == Init => ClusterInv
<1> SUFFICES ASSUME Init PROVE ClusterInv
  OBVIOUS
<1>1. PICK up \in SUBSET Nodes :
       /\ nodes = [n \in Nodes |-> IF n \in up THEN [health |-> "ready",
                                       cordoned |-> FALSE, version |-> 1] ELSE None]
       /\ at \in [Pods -> up]
       /\ servers = [v \in Servers |-> [node |-> IF Host[v] \in up THEN Host[v] ELSE None,
                       role |-> IF Host[v] \in up THEN "worker" ELSE ""]]
  BY Zenon DEF Init
<1>2. /\ slots = [s \in Slots |-> Idle] /\ strayed = {} /\ bareLost = {} /\ unbound = {}
  BY Zenon DEF Init
<1>3. nodes \in [Nodes -> NodeRow \cup {None}]
  BY Zenon, <1>1 DEF NodeRow, Health
<1>4. servers \in [Servers -> ServerRow \cup {None}]
  BY Zenon, <1>1, ClusterAssumption DEF ServerRow
<1>5. at \in [Pods -> Nodes \cup {"pending", None}] /\ \A p \in Pods : at[p] # "pending"
  BY Zenon, <1>1, ClusterAssumption
<1>6. slots \in [Slots -> Slot] /\ \A s \in Slots : slots[s].op = "idle"
  BY <1>2 DEF Slot, Idle
<1>7. Types
  BY <1>2, <1>3, <1>4, <1>5, <1>6 DEF Types
<1>8. BareStays /\ Listed /\ RemovedUnbound
  BY <1>2, <1>5, <1>6 DEF BareStays, Listed, RemovedUnbound
<1> QED
  BY <1>7, <1>8 DEF ClusterInv

\* A request moves and the cluster stays.
LEMMA SlotTakes ==
    ASSUME ClusterInv, NEW s \in Slots, NEW r \in Slot, slots' = [slots EXCEPT ![s] = r],
           UNCHANGED <<nodes, at, strayed, overlap, bareLost>>,
           r.op = "delete" => \A p \in Pods \ Owned : at[p] # r.node,
           r.op \in {"cordon", "evict"} => \A p \in r.todo : at[p] \in Nodes => at[p] = r.node \/ overlap
    PROVE  slots' \in [Slots -> Slot] /\ BareStays' /\ Listed'
<1>1. slots' \in [Slots -> Slot] /\ slots'[s] = r /\ \A o \in Slots \ {s} : slots'[o] = slots[o]
  BY DEF ClusterInv, Types
<1>2. BareStays'
  BY <1>1 DEF ClusterInv, BareStays
<1>3. Listed'
  BY <1>1 DEF ClusterInv, Listed
<1> QED
  BY <1>1, <1>2, <1>3

\* A request that is answered is gone.
LEMMA Ends ==
    ASSUME ClusterInv, NEW s \in Slots, Done(s), UNCHANGED <<nodes, at, strayed, overlap, bareLost>>
    PROVE  slots' \in [Slots -> Slot] /\ BareStays' /\ Listed'
<1>1. Idle \in Slot /\ Idle.op = "idle" /\ slots' = [slots EXCEPT ![s] = Idle]
  BY DEF Slot, Idle, Done
<1> QED
  BY Zenon, <1>1, SlotTakes

\* A write of a node keeps its type.
LEMMA Updates ==
    ASSUME Types, NEW n \in Nodes, NEW node \in NodeRow, Update(n, node)
    PROVE  nodes' \in [Nodes -> NodeRow \cup {None}]
<1>1. [node EXCEPT !.version = @ + 1] \in NodeRow
  BY DEF NodeRow
<1> QED
  BY <1>1 DEF Types, Update

\* Writes of nodes alone.
LEMMA NodesOnly ==
    ASSUME ClusterInv, nodes' \in [Nodes -> NodeRow \cup {None}],
           UNCHANGED <<at, servers, slots, strayed, overlap, bareLost, stale, unbound>>
    PROVE  ClusterInv'
BY DEF ClusterInv, Types, BareStays, Listed, RemovedUnbound

\* Rows of nodes that exist, changed in one field.
LEMMA NodeRows ==
    ASSUME Types, NEW n \in Nodes, nodes[n] # None
    PROVE  /\ nodes[n] \in NodeRow
           /\ \A b \in BOOLEAN : [nodes[n] EXCEPT !.cordoned = b] \in NodeRow
           /\ \A h \in Health : [nodes[n] EXCEPT !.health = h] \in NodeRow
<1>1. nodes[n] \in NodeRow
  BY DEF Types
<1> QED
  BY <1>1 DEF NodeRow

\* A row of a server is written: one bound to a node that was removed is stale.
LEMMA Rebound ==
    ASSUME ClusterInv, NEW v \in Servers, NEW row \in ServerRow \cup {None},
           servers' = [servers EXCEPT ![v] = row],
           unbound' \subseteq unbound, stale \subseteq stale',
           row # None /\ row.node \in unbound' => v \in stale'
    PROVE  servers' \in [Servers -> ServerRow \cup {None}] /\ RemovedUnbound'
<1>1. servers'[v] = row /\ (\A w \in Servers \ {v} : servers'[w] = servers[w])
  BY DEF ClusterInv, Types
<1>2. servers' \in [Servers -> ServerRow \cup {None}]
  BY DEF ClusterInv, Types
<1>3. ASSUME NEW w \in Servers, servers'[w] # None, servers'[w].node \in unbound' PROVE w \in stale'
  <2>1. CASE w = v
    BY <1>1, <1>3, <2>1
  <2>2. CASE w # v
    BY <1>1, <1>3, <2>2 DEF ClusterInv, RemovedUnbound
  <2> QED
    BY <2>1, <2>2
<1> QED
  BY <1>2, <1>3 DEF RemovedUnbound

\* A request begins, or is answered at once.
LEMMA Requests ==
    ASSUME ClusterInv, NEW s \in Slots, Arrives(s)
    PROVE  ClusterInv'
<1>0. Types
  BY DEF ClusterInv
<1>a. ASSUME NEW r \in Slot, Start(s, r), UNCHANGED <<nodes, at, servers>>,
             r.op = "delete" => \A p \in Pods \ Owned : at[p] # r.node,
             r.op \in {"cordon", "evict"} => \A p \in r.todo : at[p] \in Nodes => at[p] = r.node \/ overlap
      PROVE  ClusterInv'
  <2>1. slots' = [slots EXCEPT ![s] = r] /\ UNCHANGED <<strayed, overlap, bareLost, stale, unbound>>
    BY <1>a DEF Start, ghosts
  <2>2. slots' \in [Slots -> Slot] /\ BareStays' /\ Listed'
    BY Zenon, <1>a, <2>1, SlotTakes
  <2> QED
    BY <1>a, <2>1, <2>2 DEF ClusterInv, Types, RemovedUnbound
<1>1. ASSUME NEW n \in Nodes, NEW e \in BOOLEAN, DrainNode(s, n, e) \/ ForceDrainNode(s, n, e) PROVE ClusterInv'
  <2> DEFINE todo == DrainPlan(n).evictable \cup DrainPlan(n).local
  <2>1. todo \subseteq Owned /\ \A p \in todo : at[p] = n
    BY DEF DrainPlan, Owned
  <2>2. /\ UNCHANGED <<nodes, at, servers>> /\ nodes[n] # None
        /\ \/ Start(s, [op |-> "cordon", node |-> n, force |-> FALSE, version |-> 0, todo |-> todo])
           \/ Start(s, [op |-> "cordon", node |-> n, force |-> TRUE, version |-> nodes[n].version, todo |-> todo])
    BY <1>1 DEF DrainNode, ForceDrainNode
  <2> HIDE DEF todo
  <2>3. nodes[n].version \in Nat
    BY <1>0, <2>2, NodeRows DEF NodeRow
  <2>4. PICK f \in BOOLEAN, v \in Nat : Start(s, [op |-> "cordon", node |-> n, force |-> f, version |-> v, todo |-> todo])
    BY Zenon, <2>2, <2>3
  <2> PICK r : r = [op |-> "cordon", node |-> n, force |-> f, version |-> v, todo |-> todo]
    BY Zenon
  <2>5. r \in Slot /\ r.op = "cordon" /\ r.todo = todo /\ r.node = n
    BY <2>1 DEF Slot, Drains
  <2> QED
    BY <1>a, <2>1, <2>2, <2>4, <2>5
<1>2. ASSUME NEW n \in Nodes, RejoinNode(s, n) \/ UpdateNodeLabels(s, n) PROVE ClusterInv'
  <2>1. /\ UNCHANGED <<at, servers, slots, strayed, overlap, bareLost, stale, unbound>> /\ nodes[n] # None
        /\ Update(n, [nodes[n] EXCEPT !.cordoned = FALSE]) \/ Update(n, nodes[n]) \/ UNCHANGED nodes
    BY <1>2 DEF RejoinNode, UpdateNodeLabels, ghosts
  <2>2. nodes' \in [Nodes -> NodeRow \cup {None}]
    BY Zenon, <1>0, <2>1, NodeRows, Updates DEF Types
  <2> QED
    BY <2>1, <2>2, NodesOnly
<1>3. ASSUME NEW n \in Nodes, RemoveNode(s, n) PROVE ClusterInv'
  <2>1. /\ UNCHANGED <<nodes, at, servers>> /\ nodes[n] # None
        /\ Start(s, [op |-> "delete", node |-> n])
        /\ DrainPlan(n) = [evictable |-> {}, local |-> {}, blocked |-> {}]
    BY <1>3 DEF RemoveNode, NodeRemovalCheck
  <2>2. DrainPlan(n).blocked = {}
    BY <2>1
  <2>3. \A p \in Pods \ Owned : at[p] # n
    BY <2>2 DEF DrainPlan, Owned
  <2> PICK r : r = [op |-> "delete", node |-> n]
    BY Zenon
  <2>5. r \in Slot /\ r.op = "delete" /\ r.node = n
    BY DEF Slot, Deletes
  <2> QED
    BY <1>a, <2>1, <2>3, <2>5
<1>4. ASSUME NEW v \in Servers, CreateServer(s, v) \/ DeleteServer(s, v) PROVE ClusterInv'
  <2>1. /\ UNCHANGED <<nodes, at, slots, strayed, overlap, bareLost, stale, unbound>>
        /\ \/ servers' = [servers EXCEPT ![v] = [node |-> None, role |-> ""]]
           \/ servers' = [servers EXCEPT ![v] = None]
    BY Zenon, <1>4 DEF CreateServer, DeleteServer, ghosts
  <2> PICK free : free = [node |-> None, role |-> ""]
    BY Zenon
  <2>a. free \in ServerRow /\ free.node = None
    BY Zenon DEF ServerRow
  <2>2. PICK row \in ServerRow \cup {None} :
          servers' = [servers EXCEPT ![v] = row] /\ (row # None => row.node = None)
    BY Zenon, <2>1, <2>a
  <2>3. None \notin unbound
    BY Zenon, <1>0, ClusterAssumption DEF Types
  <2>4. servers' \in [Servers -> ServerRow \cup {None}] /\ RemovedUnbound'
    BY Zenon, <2>1, <2>2, <2>3, Rebound
  <2> QED
    BY Zenon, <2>1, <2>4 DEF ClusterInv, Types, BareStays, Listed
<1>5. ASSUME NEW v \in Servers, JoinProgress(s, v) PROVE ClusterInv'
  <2>1. /\ UNCHANGED <<nodes, at, servers>> /\ servers[v] # None
        /\ Start(s, [op |-> "join", server |-> v, row |-> servers[v], phase |-> "check"])
    BY <1>5 DEF JoinProgress
  <2>2. servers[v] \in ServerRow
    BY <1>0, <2>1 DEF Types
  <2> PICK r : r = [op |-> "join", server |-> v, row |-> servers[v], phase |-> "check"]
    BY Zenon
  <2>3. r \in Slot /\ r.op = "join"
    BY <2>2 DEF Slot, Joins
  <2> QED
    BY Zenon, <1>a, <2>1, <2>3
<1>6. ASSUME NEW v \in Servers, NEW op \in {"update", "release", "import"}, ReadServer(s, v, op) PROVE ClusterInv'
  <2>1. /\ UNCHANGED <<nodes, at, servers>> /\ servers[v] # None
        /\ Start(s, [op |-> op, server |-> v, row |-> servers[v]])
    BY <1>6 DEF ReadServer
  <2>2. servers[v] \in ServerRow
    BY <1>0, <2>1 DEF Types
  <2> PICK r : r = [op |-> op, server |-> v, row |-> servers[v]]
    BY Zenon
  <2>3. r \in Slot /\ r.op = op
    BY <2>2 DEF Slot, Edits
  <2> QED
    BY <1>a, <2>1, <2>3
<1>7. CASE ListServers(s)
  <2> PICK gone : gone = {n \in Nodes : nodes[n] = None /\ \E v \in Servers : servers[v] # None /\ servers[v].node = n}
    BY Zenon
  <2> PICK r : r = [op |-> "list", gone |-> gone]
    BY Zenon
  <2>1. UNCHANGED <<nodes, at, servers>> /\ Start(s, r)
    BY <1>7 DEF ListServers
  <2>2. gone \subseteq Nodes
    OBVIOUS
  <2>3. r \in Slot /\ r.op = "list"
    BY <2>2 DEF Slot, Lists
  <2> QED
    BY <1>a, <2>1, <2>3
<1> QED
  BY <1>1, <1>2, <1>3, <1>4, <1>5, <1>6, <1>7 DEF Arrives

\* Several rows of servers are released from the nodes they are bound to.
LEMMA Released ==
    ASSUME ClusterInv, NEW released \in SUBSET Servers,
           servers' = [v \in Servers |-> IF v \in released THEN [node |-> None, role |-> ""] ELSE servers[v]],
           UNCHANGED stale, unbound' \in SUBSET Nodes,
           \A v \in Servers \ released : servers[v] # None /\ servers[v].node \in unbound'
                                           => servers[v].node \in unbound
    PROVE  servers' \in [Servers -> ServerRow \cup {None}] /\ RemovedUnbound'
<1> PICK free : free = [node |-> None, role |-> ""]
  BY Zenon
<1>1. free \in ServerRow /\ free.node = None
  BY Zenon DEF ServerRow
<1>2. servers' = [v \in Servers |-> IF v \in released THEN free ELSE servers[v]]
  BY Zenon
<1>3. servers' \in [Servers -> ServerRow \cup {None}]
  BY Zenon, <1>1, <1>2 DEF ClusterInv, Types
<1>4. None \notin unbound'
  BY Zenon, ClusterAssumption
<1>5. ASSUME NEW v \in Servers, servers'[v] # None, servers'[v].node \in unbound' PROVE v \in stale'
  <2>1. v \notin released
    BY Zenon, <1>1, <1>2, <1>4, <1>5
  <2>2. servers'[v] = servers[v]
    BY Zenon, <1>2, <2>1
  <2> QED
    BY Zenon, <1>5, <2>1, <2>2 DEF ClusterInv, RemovedUnbound
<1> QED
  BY Zenon, <1>3, <1>5 DEF RemovedUnbound

\* The steps of drains and removals.
LEMMA NodeSteps ==
    ASSUME ClusterInv, NEW s \in Slots, Cordon(s) \/ Evict(s) \/ DeleteNode(s) \/ RemoveUnbinds(s)
    PROVE  ClusterInv'
<1>0. Types /\ slots[s] \in Slot
  BY DEF ClusterInv, Types
<1>1. CASE Cordon(s)
  <2>1. slots[s] \in Drains /\ slots[s].op = "cordon"
    BY <1>0, <1>1, Shapes DEF Cordon
  <2> PICK n \in Nodes : n = slots[s].node
    BY <2>1 DEF Drains
  <2>2. UNCHANGED <<at, servers, strayed, overlap, bareLost, stale, unbound>>
    BY <1>1 DEF Cordon, ghosts
  <2>3. nodes' \in [Nodes -> NodeRow \cup {None}]
    <3>1. UNCHANGED nodes \/ (nodes[n] # None /\ Update(n, [nodes[n] EXCEPT !.cordoned = TRUE]))
      BY <1>1 DEF Cordon
    <3> QED
      BY Zenon, <1>0, <3>1, NodeRows, Updates DEF Types
  <2> PICK next : next = [slots[s] EXCEPT !.op = "evict"]
    BY Zenon
  <2>4. /\ next \in Drains /\ next.op = "evict" /\ next.todo = slots[s].todo /\ next.node = slots[s].node
    BY <2>1 DEF Drains
  <2>5. PICK r \in {Idle, next} : slots' = [slots EXCEPT ![s] = r]
    <3>1. slots' = [slots EXCEPT ![s] = Idle] \/ slots' = [slots EXCEPT ![s] = next]
      BY <1>0, <1>1 DEF Cordon, Done, Types
    <3> QED
      BY <3>1
  <2>6. r \in Slot /\ (r.op = "idle" \/ r = next)
    BY <2>4, <2>5 DEF Slot, Idle
  <2>7. slots' \in [Slots -> Slot] /\ slots'[s] = r /\ (\A o \in Slots \ {s} : slots'[o] = slots[o])
    BY <1>0, <2>5, <2>6 DEF Types
  <2> BareStays /\ Listed
    BY Zenon DEF ClusterInv
  <2>8. BareStays'
    <3>1. slots'[s].op # "delete"
      BY Zenon, <2>4, <2>6, <2>7
    <3> QED
      BY Zenon, <2>2, <2>7, <3>1 DEF BareStays
  <2>9. Listed'
    BY Zenon, <2>1, <2>2, <2>4, <2>6, <2>7 DEF Listed
  <2> QED
    BY <2>2, <2>3, <2>7, <2>8, <2>9 DEF ClusterInv, Types, RemovedUnbound
<1>2. CASE Evict(s)
  <2>1. slots[s] \in Drains /\ slots[s].op = "evict"
    BY <1>0, <1>2, Shapes DEF Evict
  <2>2. UNCHANGED <<nodes, servers, overlap, bareLost, stale, unbound>>
    BY <1>2 DEF Evict
  <2>3. PICK p \in slots[s].todo :
       /\ slots' = [slots EXCEPT ![s] = IF @.todo = {p} THEN Idle ELSE [@ EXCEPT !.todo = slots[s].todo \ {p}]]
       /\ \/ /\ at[p] \in Nodes
             /\ at' = [at EXCEPT ![p] = "pending"]
             /\ strayed' = IF at[p] # slots[s].node THEN strayed \cup {p} ELSE strayed
          \/ UNCHANGED <<at, strayed>>
    BY Zenon, <1>2 DEF Evict
  <2>4. p \in Owned /\ p \in Pods /\ slots[s].todo \subseteq Owned
    BY <2>1 DEF Drains, Owned
  <2> PICK next : next = [slots[s] EXCEPT !.todo = slots[s].todo \ {p}]
    BY Zenon
  <2>5. next \in Drains /\ next.op = "evict" /\ next.todo = slots[s].todo \ {p} /\ next.node = slots[s].node
    BY <2>1, <2>4 DEF Drains
  <2>6. PICK r \in {Idle, next} : slots' = [slots EXCEPT ![s] = r]
    <3>1. CASE slots[s].todo = {p}
      <4>1. slots' = [slots EXCEPT ![s] = Idle]
        BY <2>3, <3>1
      <4> QED
        BY <4>1
    <3>2. CASE slots[s].todo # {p}
      <4>1. slots' = [slots EXCEPT ![s] = [@ EXCEPT !.todo = slots[s].todo \ {p}]]
        BY <2>3, <3>2
      <4>2. slots' = [slots EXCEPT ![s] = next]
        BY <4>1
      <4> QED
        BY <4>2
    <3> QED
      BY <3>1, <3>2
  <2>7. r \in Slot /\ (r.op = "idle" \/ r = next)
    BY <2>5, <2>6 DEF Slot, Idle
  <2>8. slots' \in [Slots -> Slot] /\ slots'[s] = r /\ (\A o \in Slots \ {s} : slots'[o] = slots[o])
    BY <1>0, <2>6, <2>7 DEF Types
  <2>9. /\ at' \in [Pods -> Nodes \cup {"pending", None}]
        /\ \A q \in Pods \ {p} : at'[q] = at[q]
        /\ at'[p] = at[p] \/ at'[p] = "pending"
    BY <1>0, <2>3, <2>4 DEF Types
  <2>10. strayed' \subseteq Pods /\ (strayed' # {} => overlap)
    BY <1>0, <2>1, <2>3, <2>4 DEF Types, ClusterInv, Listed
  <2>11. BareStays'
    <3>1. \A q \in Pods \ Owned : at'[q] = at[q]
      BY <2>4, <2>9
    <3>2. \A o \in Slots : slots'[o].op = "delete" => slots'[o] = slots[o]
      BY Zenon, <2>5, <2>7, <2>8
    <3> QED
      BY <2>2, <3>1, <3>2 DEF ClusterInv, BareStays
  <2>12. Listed'
    <3>1. \A q \in Pods : at'[q] \in Nodes => at'[q] = at[q]
      BY Zenon, <2>9, ClusterAssumption
    <3>2. \A o \in Slots : slots[o].op \in {"cordon", "evict"} => slots[o].todo \subseteq Pods
      BY <1>0, Shapes DEF Types, Drains, Owned
    <3>3. ASSUME NEW o \in Slots, slots'[o].op \in {"cordon", "evict"}, NEW q \in slots'[o].todo, at'[q] \in Nodes
          PROVE  at'[q] = slots'[o].node \/ overlap
      <4>1. slots[o].op \in {"cordon", "evict"} /\ q \in slots[o].todo /\ slots'[o].node = slots[o].node
        BY Zenon, <2>1, <2>5, <2>7, <2>8, <3>3
      <4>2. at'[q] = at[q] /\ at[q] \in Nodes
        BY <3>1, <3>2, <3>3, <4>1
      <4> QED
        BY <4>1, <4>2 DEF ClusterInv, Listed
    <3> QED
      BY <2>2, <2>10, <3>3 DEF Listed
  <2> QED
    BY <2>2, <2>8, <2>9, <2>10, <2>11, <2>12 DEF ClusterInv, Types, RemovedUnbound
<1>3. CASE DeleteNode(s)
  <2>1. slots[s] \in Deletes /\ slots[s].op = "delete"
    BY <1>0, <1>3, Shapes DEF DeleteNode
  <2> PICK n \in Nodes : n = slots[s].node
    BY <2>1 DEF Deletes
  <2>2. UNCHANGED <<servers, strayed, overlap, stale, unbound>>
    BY <1>3 DEF DeleteNode
  <2>3. CASE nodes[n] = None
    <3>1. Done(s) /\ UNCHANGED <<nodes, at, bareLost>>
      BY <1>3, <2>3 DEF DeleteNode
    <3>2. slots' \in [Slots -> Slot] /\ BareStays' /\ Listed'
      BY <2>2, <3>1, Ends
    <3> QED
      BY Zenon, <2>2, <3>1, <3>2 DEF ClusterInv, Types, RemovedUnbound
  <2>4. CASE nodes[n] # None
    <3> PICK r : r = [op |-> "unbind", node |-> n]
      BY Zenon
    <3>1. /\ nodes' = [nodes EXCEPT ![n] = None]
          /\ at' = [p \in Pods |-> IF at[p] # n THEN at[p]
                                   ELSE IF Kind[p] = "bare" THEN None ELSE "pending"]
          /\ bareLost' = bareLost \cup {p \in Pods : at[p] = n /\ Kind[p] = "bare"}
          /\ slots' = [slots EXCEPT ![s] = r]
      BY <1>3, <2>4 DEF DeleteNode
    <3>2. r \in Slot /\ r.op = "unbind"
      BY DEF Slot, Unbinds
    <3>3. slots' \in [Slots -> Slot] /\ slots'[s] = r /\ (\A o \in Slots \ {s} : slots'[o] = slots[o])
      BY <1>0, <3>1, <3>2 DEF Types
    <3>4. nodes' \in [Nodes -> NodeRow \cup {None}] /\ at' \in [Pods -> Nodes \cup {"pending", None}]
      BY <1>0, <3>1 DEF Types
    <3>5. \A p \in Pods \ Owned : at[p] # n /\ at'[p] = at[p]
      BY <2>1, <3>1 DEF ClusterInv, BareStays
    <3>6. bareLost' = {}
      BY <3>1, <3>5 DEF ClusterInv, BareStays, Owned
    <3>7. BareStays'
      BY Zenon, <3>2, <3>3, <3>5, <3>6 DEF ClusterInv, BareStays
    <3>8. \A p \in Pods : at'[p] \in Nodes => at'[p] = at[p]
      BY Zenon, <3>1, ClusterAssumption
    <3>9. \A o \in Slots : slots[o].op \in {"cordon", "evict"} => slots[o].todo \subseteq Pods
      BY <1>0, Shapes DEF Types, Drains, Owned
    <3>10. ASSUME NEW o \in Slots, slots'[o].op \in {"cordon", "evict"}, NEW q \in slots'[o].todo, at'[q] \in Nodes
           PROVE  at'[q] = slots'[o].node \/ overlap
      <4>1. slots'[o] = slots[o]
        BY <3>2, <3>3, <3>10
      <4>2. at'[q] = at[q]
        BY <3>8, <3>9, <3>10, <4>1
      <4> QED
        BY <3>10, <4>1, <4>2 DEF ClusterInv, Listed
    <3>11. Listed'
      BY Zenon, <2>2, <3>10 DEF Listed, ClusterInv
    <3> QED
      BY <2>2, <3>3, <3>4, <3>7, <3>11 DEF ClusterInv, Types, RemovedUnbound
  <2> QED
    BY <2>3, <2>4
<1>4. CASE RemoveUnbinds(s)
  <2>1. slots[s] \in Unbinds
    BY <1>0, <1>4, Shapes DEF RemoveUnbinds
  <2> PICK n \in Nodes : n = slots[s].node
    BY <2>1 DEF Unbinds
  <2> PICK released : released = {v \in Servers : servers[v] # None /\ servers[v].node = n}
    BY Zenon
  <2>2. /\ servers' = [v \in Servers |-> IF v \in released THEN [node |-> None, role |-> ""] ELSE servers[v]]
        /\ unbound' = unbound \cup {n} /\ Done(s)
        /\ UNCHANGED <<nodes, at, strayed, overlap, bareLost, stale>>
    BY Zenon, <1>4 DEF RemoveUnbinds, UnbindServersFromClusterNode
  <2>3. slots' \in [Slots -> Slot] /\ BareStays' /\ Listed'
    BY Zenon, <2>2, Ends
  <2>4. unbound' \in SUBSET Nodes
    BY Zenon, <1>0, <2>2 DEF Types
  <2>5. servers' \in [Servers -> ServerRow \cup {None}] /\ RemovedUnbound'
    <3>1. \A v \in Servers \ released : servers[v] # None /\ servers[v].node \in unbound'
                                           => servers[v].node \in unbound
      BY Zenon, <2>2
    <3>2. released \in SUBSET Servers
      BY Zenon
    <3> QED
      BY Zenon, <2>2, <2>4, <3>1, <3>2, Released
  <2> QED
    BY Zenon, <2>2, <2>3, <2>4, <2>5 DEF ClusterInv, Types
<1> QED
  BY <1>1, <1>2, <1>3, <1>4

\* The steps that save the row of a server.
LEMMA Saves ==
    ASSUME ClusterInv, NEW s \in Slots,
           UpdateServer(s) \/ UnbindServer(s) \/ ConfirmImport(s) \/ JoinBind(s)
    PROVE  ClusterInv'
<1>0. Types /\ slots[s] \in Slot
  BY DEF ClusterInv, Types
<1>1. slots[s] \in Edits \/ slots[s] \in Joins
  BY Zenon, <1>0, Shapes DEF UpdateServer, UnbindServer, ConfirmImport, JoinBind
<1>2. slots[s].server \in Servers /\ slots[s].row \in ServerRow
  BY Zenon, <1>1 DEF Edits, Joins
<1> PICK v \in Servers : v = slots[s].server
  BY <1>2
<1>3. Done(s) /\ UNCHANGED <<nodes, at, strayed, overlap, bareLost>>
  BY Zenon DEF UpdateServer, UnbindServer, ConfirmImport, JoinBind
<1>4. slots' \in [Slots -> Slot] /\ BareStays' /\ Listed'
  BY <1>3, Ends
<1>5. ASSUME NEW row \in ServerRow, SaveServer(s, v, row), unbound' \subseteq unbound,
             row.node \notin unbound' \/ row = slots[s].row
      PROVE  ClusterInv'
  <2>1. servers' = [servers EXCEPT ![v] = row] /\ stale \subseteq stale'
    BY <1>5 DEF SaveServer
  <2>2. row.node \in unbound' => v \in stale'
    <3>1. CASE servers[v] # slots[s].row
      BY <1>5, <3>1 DEF SaveServer
    <3>2. CASE servers[v] = slots[s].row
      <4>1. servers[v] # None
        BY Zenon, <1>2, <3>2, ClusterAssumption DEF ServerRow
      <4> QED
        BY <1>5, <2>1, <3>2, <4>1 DEF ClusterInv, RemovedUnbound
    <3> QED
      BY Zenon, <3>1, <3>2
  <2>3. servers' \in [Servers -> ServerRow \cup {None}] /\ RemovedUnbound'
    BY Zenon, <1>5, <2>1, <2>2, Rebound
  <2> QED
    BY Zenon, <1>0, <1>3, <1>4, <1>5, <2>3 DEF ClusterInv, Types
<1>6. CASE UpdateServer(s)
  BY Zenon, <1>2, <1>5, <1>6 DEF UpdateServer
<1>7. CASE UnbindServer(s)
  <2> PICK row : row = [node |-> None, role |-> ""]
    BY Zenon
  <2>1. row \in ServerRow /\ row.node = None /\ None \notin unbound
    BY Zenon, <1>0, ClusterAssumption DEF ServerRow, Types
  <2>2. SaveServer(s, v, row) /\ UNCHANGED unbound
    BY Zenon, <1>7 DEF UnbindServer
  <2> QED
    BY Zenon, <1>5, <2>1, <2>2
<1>8. ASSUME NEW n \in Nodes \cup {None}, NEW role \in {"worker", "control-plane"},
             SaveServer(s, v, [node |-> n, role |-> role]), unbound' = unbound \ {n}
      PROVE  ClusterInv'
  <2> PICK row : row = [node |-> n, role |-> role]
    BY Zenon
  <2>1. row \in ServerRow /\ row.node = n
    BY Zenon DEF ServerRow
  <2> QED
    BY Zenon, <1>5, <1>8, <2>1
<1>9. CASE ConfirmImport(s)
  <2>1. Host[v] \in Nodes
    BY Zenon, ClusterAssumption
  <2> QED
    BY Zenon, <1>8, <1>9, <2>1 DEF ConfirmImport
<1>10. CASE JoinBind(s)
  <2>1. Host[v] \in Nodes /\ JoinNode(s) \in Nodes \cup {None}
    BY Zenon, <1>2, ClusterAssumption DEF JoinNode, ServerRow
  <2> QED
    BY Zenon, <1>8, <1>10, <2>1 DEF JoinBind
<1> QED
  BY <1>6, <1>7, <1>9, <1>10

\* Bindings that are reconciled, joins that go on, and requests that are cut off.
LEMMA OtherSteps ==
    ASSUME ClusterInv, NEW s \in Slots,
           Reconcile(s) \/ JoinChecks(s) \/ JoinInstall(s) \/ JoinWait(s) \/ JoinCut(s) \/ Fail(s)
    PROVE  ClusterInv'
<1>0. Types /\ slots[s] \in Slot
  BY DEF ClusterInv, Types
<1>1. CASE Reconcile(s)
  <2> PICK released : released = {v \in Servers : servers[v] # None /\ servers[v].node \in slots[s].gone}
    BY Zenon
  <2>1. /\ servers' = [v \in Servers |-> IF v \in released THEN [node |-> None, role |-> ""] ELSE servers[v]]
        /\ Done(s) /\ UNCHANGED <<nodes, at, strayed, overlap, bareLost, stale, unbound>>
    BY Zenon, <1>1 DEF Reconcile, ghosts
  <2>2. slots' \in [Slots -> Slot] /\ BareStays' /\ Listed'
    BY Zenon, <2>1, Ends
  <2>3. servers' \in [Servers -> ServerRow \cup {None}] /\ RemovedUnbound'
    <3>1. unbound' \in SUBSET Nodes
      BY Zenon, <1>0, <2>1 DEF Types
    <3>2. released \in SUBSET Servers
      BY Zenon
    <3> QED
      BY Zenon, <2>1, <3>1, <3>2, Released
  <2> QED
    BY Zenon, <2>1, <2>2, <2>3 DEF ClusterInv, Types
<1>2. CASE JoinCut(s) \/ Fail(s)
  <2>1. Done(s) /\ UNCHANGED <<nodes, at, servers, strayed, overlap, bareLost, stale, unbound>>
    BY Zenon, <1>2 DEF JoinCut, Fail, ghosts
  <2>2. slots' \in [Slots -> Slot] /\ BareStays' /\ Listed'
    BY <2>1, Ends
  <2> QED
    BY Zenon, <2>1, <2>2 DEF ClusterInv, Types, RemovedUnbound
<1>3. CASE JoinChecks(s) \/ JoinInstall(s) \/ JoinWait(s)
  <2>1. slots[s] \in Joins
    BY <1>0, <1>3, Shapes DEF JoinChecks, JoinInstall, JoinWait
  <2>2. UNCHANGED <<at, servers, strayed, overlap, bareLost, stale, unbound>>
    BY <1>3 DEF JoinChecks, JoinInstall, JoinWait, ghosts
  <2>3. nodes' \in [Nodes -> NodeRow \cup {None}]
    <3> PICK n \in Nodes : n = Host[slots[s].server]
      BY Zenon, <2>1, ClusterAssumption DEF Joins
    <3> PICK node : node = [health |-> "not_ready", cordoned |-> FALSE, version |-> 0]
      BY Zenon
    <3>1. node \in NodeRow
      BY Zenon DEF NodeRow, Health
    <3>2. UNCHANGED nodes \/ nodes' = [nodes EXCEPT ![n] = node]
      BY <1>3 DEF JoinChecks, JoinInstall, JoinWait
    <3> QED
      BY Zenon, <1>0, <3>1, <3>2 DEF Types
  <2>4. PICK r \in Slot : slots' = [slots EXCEPT ![s] = r] /\ r.op \in {"idle", "join"}
    <3>1. CASE Done(s)
      <4>1. Idle \in Slot /\ Idle.op = "idle"
        BY DEF Slot, Idle
      <4> QED
        BY Zenon, <3>1, <4>1 DEF Done
    <3>2. ASSUME NEW phase \in {"install", "wait", "bind"}, slots' = [slots EXCEPT ![s].phase = phase]
          PROVE  \E r \in Slot : slots' = [slots EXCEPT ![s] = r] /\ r.op \in {"idle", "join"}
      <4> PICK r : r = [slots[s] EXCEPT !.phase = phase]
        BY Zenon
      <4>1. r \in Joins /\ r.op = "join"
        BY <2>1 DEF Joins
      <4>2. slots' = [slots EXCEPT ![s] = r]
        BY <3>2
      <4> QED
        BY Zenon, <4>1, <4>2 DEF Slot
    <3> QED
      BY <1>3, <3>1, <3>2 DEF JoinChecks, JoinInstall, JoinWait
  <2>5. slots' \in [Slots -> Slot] /\ slots'[s] = r /\ (\A o \in Slots \ {s} : slots'[o] = slots[o])
    BY <1>0, <2>4 DEF Types
  <2>6. BareStays'
    BY <2>2, <2>4, <2>5 DEF ClusterInv, BareStays
  <2>7. Listed'
    BY Zenon, <2>2, <2>4, <2>5 DEF ClusterInv, Listed
  <2> QED
    BY Zenon, <2>2, <2>3, <2>5, <2>6, <2>7 DEF ClusterInv, Types, RemovedUnbound
<1> QED
  BY <1>1, <1>2, <1>3

\* The cluster itself.
LEMMA ClusterSteps ==
    ASSUME ClusterInv, Schedule \/ HealthChanges \/ Registers
    PROVE  ClusterInv'
<1>0. Types
  BY DEF ClusterInv
<1>1. CASE Schedule
  <2>1. PICK p \in Pods, n \in Nodes :
       /\ at[p] = "pending" /\ at' = [at EXCEPT ![p] = n]
       /\ overlap' = (overlap \/ \E s \in Slots :
                        slots[s].op \in {"cordon", "evict"} /\ p \in slots[s].todo)
    BY Zenon, <1>1 DEF Schedule
  <2>2. UNCHANGED <<nodes, servers, slots, strayed, bareLost, stale, unbound>>
    BY <1>1 DEF Schedule
  <2>3. at' \in [Pods -> Nodes \cup {"pending", None}] /\ (\A q \in Pods \ {p} : at'[q] = at[q])
    BY <1>0, <2>1 DEF Types
  <2>4. p \in Owned
    BY Zenon, <2>1 DEF ClusterInv, BareStays
  <2>5. BareStays'
    BY <2>2, <2>3, <2>4 DEF ClusterInv, BareStays
  <2>6. Listed'
    <3>1. overlap => overlap'
      BY Zenon, <2>1
    <3>2. ASSUME NEW o \in Slots, slots[o].op \in {"cordon", "evict"}, NEW q \in slots[o].todo, at'[q] \in Nodes
          PROVE  at'[q] = slots[o].node \/ overlap'
      <4>1. CASE q = p
        BY Zenon, <2>1, <3>2, <4>1
      <4>2. CASE q # p
        <5>1. q \in Pods
          BY <1>0, <3>2, Shapes DEF Types, Drains, Owned
        <5>2. at'[q] = at[q]
          BY Zenon, <2>3, <4>2, <5>1
        <5> QED
          BY <3>1, <3>2, <5>2 DEF ClusterInv, Listed
      <4> QED
        BY <4>1, <4>2
    <3> QED
      BY <2>2, <3>1, <3>2 DEF ClusterInv, Listed
  <2> QED
    BY <2>2, <2>3, <2>5, <2>6 DEF ClusterInv, Types, RemovedUnbound
<1>2. CASE HealthChanges \/ Registers
  <2>1. PICK n \in Nodes, h \in Health : nodes[n] # None /\ Update(n, [nodes[n] EXCEPT !.health = h])
    BY Zenon, <1>2 DEF HealthChanges, Registers, Health
  <2>2. UNCHANGED <<at, servers, slots, strayed, overlap, bareLost, stale, unbound>>
    BY <1>2 DEF HealthChanges, Registers, ghosts
  <2>3. nodes' \in [Nodes -> NodeRow \cup {None}]
    BY <1>0, <2>1, NodeRows, Updates
  <2> QED
    BY <2>2, <2>3, NodesOnly
<1> QED
  BY <1>1, <1>2

\* Every step keeps the invariant.
LEMMA ClusterStep == ClusterInv /\ [Next]_vars => ClusterInv'
<1>1. ASSUME ClusterInv, UNCHANGED vars PROVE ClusterInv'
  BY <1>1 DEF ClusterInv, Types, BareStays, Listed, RemovedUnbound, vars
<1>2. ASSUME ClusterInv, Next PROVE ClusterInv'
  BY <1>2, Requests, NodeSteps, Saves, OtherSteps, ClusterSteps DEF Next, Step
<1> QED
  BY <1>1, <1>2

\* The nodes' state keeps its types; a drain evicts only Pods of the node it was asked
\* for unless one on its list was placed anew, neither a drain nor the removal of a node
\* loses a Pod without a controller, and no server stays bound to a node the platform
\* has removed, unless a row read before was saved after (NodesLeaveClean).
THEOREM LeaveClean == Spec => []NodesLeaveClean
<1>1. ClusterInv => NodesLeaveClean
  BY Zenon DEF ClusterInv, Types, BareStays, Listed, NodesLeaveClean, TypeOK, DrainsSafe, NodeRow, Health, ServerRow
<1> QED
  BY ClusterInit, ClusterStep, <1>1, PTL DEF Spec

-----------------------------------------------------------------------------
(* The metrics store.                                                      *)

\* The requests, by what they are for.
Config == [node : Hosts, legacy : BOOLEAN]
Installs == [pc : {"claim", "deploy", "exporter", "status"}, op : {"install"}, config : Config]
Removals == [pc : {"remove-exporter", "remove"}, op : {"uninstall"}]
Migrations == [pc : {"job", "claim", "stop", "copy", "resume", "status"}, op : {"migrate"}, config : Config]
Reads == [pc : {"status", "recover"}, op : {"status"}]
Cutovers == [pc : {"cutover", "drop-job"}, op : {"status"}, config : Config]
InFlight == {NoRequest} \cup Installs \cup Removals \cup Migrations \cup Reads \cup Cutovers

\* The store writes the directory.
OnDirectory == deploy # Missing /\ deploy.legacy

\* A migration that is about to stop the store or to create the Job, or puts things back.
Stopping(r) == r.pc \in {"claim", "stop", "copy", "resume"} /\ r.op = "migrate"

\* The claim holds what the directory does.
Holds == claim # Missing /\ host \subseteq claim.data

\* What a Job has copied stays copied while nobody writes the directory.
Copied == job # Missing /\ job.state \in {"copied", "succeeded"} /\ ~mixed => Holds

\* While no request acted on what had changed, a store that left the directory does
\* not return to it: a Pod on the claim, a cutover made and a Job dropped tell so, and
\* a Job at work tells the opposite.
Left ==
    /\ "claim" \in pods \/ cut => ~OnDirectory
    /\ Copying /\ ~rebuilt => OnDirectory
    /\ \A s \in Callers : inflight[s].pc = "drop-job" => ~OnDirectory

\* A cutover that is due has its Job, or came too late.
Due == \A s \in Callers : inflight[s].pc = "cutover" => IF job = Missing THEN ~OnDirectory ELSE job.state = "succeeded"

\* A store on the claim runs, and one that does not run will again.
Runs ==
    /\ deploy # Missing /\ ~deploy.legacy => deploy.replicas = 1
    /\ deploy # Missing /\ deploy.replicas = 0 /\ broken = 0 => job # Missing \/ \E s \in Callers : Stopping(inflight[s])

MetricsInv ==
    /\ MetricsTypeOK /\ inflight \in [Callers -> InFlight]
    /\ "claim" \in pods => claim # Missing
    /\ Copied
    /\ ~outdated => Left /\ Due /\ Runs /\ (cut /\ ~mixed => Holds)

\* A store that has just been installed, or has not, satisfies the invariant.
LEMMA MetricsInvInit == MetricsInit => MetricsInv
<1> SUFFICES ASSUME MetricsInit PROVE MetricsInv
  OBVIOUS
<1> USE MetricsAssumption DEF MetricsInit
<1>1. deploy \in {Missing} \cup [node : Hosts, legacy : BOOLEAN, replicas : {0, 1}] /\ (deploy # Missing => deploy.replicas = 1)
  <2>1. [node |-> Home, legacy |-> TRUE, replicas |-> 1] \in [node : Hosts, legacy : BOOLEAN, replicas : {0, 1}]
    OBVIOUS
  <2> QED
    BY Zenon, <2>1
<1>2. MetricsTypeOK
  <2>1. {exporter, cut, mixed, rebuilt, outdated} \subseteq BOOLEAN
    BY Zenon
  <2> QED
    BY <1>1, <2>1 DEF MetricsTypeOK
<1>3. inflight \in [Callers -> InFlight] /\ \A s \in Callers : inflight[s].pc = "idle"
  BY DEF InFlight, NoRequest
<1>4. Copied /\ Left /\ Due
  BY <1>3 DEF Copied, Left, Due, Copying
<1>5. Runs
  BY <1>1 DEF Runs
<1>6. "claim" \notin pods
  OBVIOUS
<1> QED
  BY <1>2, <1>3, <1>4, <1>5, <1>6 DEF MetricsInv

\* What the place of a request tells about it.
LEMMA RequestShapes ==
    ASSUME NEW r \in InFlight
    PROVE  /\ r.pc \in {"deploy", "exporter"} => r \in Installs
           /\ r.pc \in {"job", "stop", "copy", "resume"} => r \in Migrations
           /\ r.pc = "claim" /\ r.op = "install" => r \in Installs
           /\ r.pc = "claim" /\ r.op = "migrate" => r \in Migrations
           /\ r.pc \in {"remove-exporter", "remove"} => r \in Removals
           /\ r.pc \in {"cutover", "drop-job"} => r \in Cutovers
           /\ r.pc = "idle" => r = NoRequest
           /\ Stopping(r) => r \in Migrations
BY DEF InFlight, NoRequest, Installs, Removals, Migrations, Reads, Cutovers, Stopping

\* A request changes its own entry only.
LEMMA RequestMoves ==
    ASSUME inflight \in [Callers -> InFlight], NEW s \in Callers, NEW r \in InFlight, inflight' = [inflight EXCEPT ![s] = r]
    PROVE  inflight' \in [Callers -> InFlight] /\ inflight'[s] = r /\ \A o \in Callers \ {s} : inflight'[o] = inflight[o]
OBVIOUS

\* A request that goes on keeps what it is for.
LEMMA RequestProceeds ==
    ASSUME inflight \in [Callers -> InFlight], NEW s \in Callers, NEW pc, Proceed(s, pc),
           \/ inflight[s] \in Installs /\ pc \in {"claim", "deploy", "exporter", "status"}
           \/ inflight[s] \in Removals /\ pc \in {"remove-exporter", "remove"}
           \/ inflight[s] \in Migrations /\ pc \in {"job", "claim", "stop", "copy", "resume", "status"}
           \/ inflight[s] \in Cutovers /\ pc \in {"cutover", "drop-job"}
    PROVE  /\ inflight' \in [Callers -> InFlight] /\ \A o \in Callers \ {s} : inflight'[o] = inflight[o]
           /\ inflight'[s].pc = pc /\ inflight'[s].op = inflight[s].op
<1> DEFINE r == [inflight[s] EXCEPT !.pc = pc]
<1>1. r \in InFlight /\ r.pc = pc /\ r.op = inflight[s].op
  BY DEF InFlight, Installs, Removals, Migrations, Cutovers
<1>2. inflight' = [inflight EXCEPT ![s] = r]
  BY Zenon DEF Proceed
<1> HIDE DEF r
<1> QED
  BY <1>1, <1>2, RequestMoves

\* Steps of requests that touch neither the store, its data nor the Job keep the
\* invariant: the request does not come to a cutover, and a migration that holds
\* the store down goes on doing so unless a call failed.
LEMMA RequestOnly ==
    ASSUME MetricsInv, NEW s \in Callers,
           UNCHANGED <<deploy, claim, job, kubernetes, metricsGhosts>>,
           exporter' \in BOOLEAN, received' \in 0 .. MaxReceived, broken' \in 0 .. MaxBroken, broken <= broken',
           inflight' \in [Callers -> InFlight], \A o \in Callers \ {s} : inflight'[o] = inflight[o],
           inflight'[s].pc \notin {"cutover", "drop-job"},
           Stopping(inflight[s]) => Stopping(inflight'[s]) \/ job # Missing \/ broken' # 0 \/ deploy = Missing
    PROVE  MetricsInv'
<1> USE DEF MetricsInv, kubernetes, metricsGhosts
<1>1. MetricsTypeOK'
  <2>1. {exporter', cut', mixed', rebuilt', outdated'} \subseteq BOOLEAN
    BY Zenon DEF MetricsTypeOK
  <2> QED
    BY Zenon, <2>1 DEF MetricsTypeOK
<1>2. Copied'
  BY Zenon DEF Copied, Holds
<1>3. Left => Left'
  BY DEF Left, OnDirectory, Copying
<1>4. Due => Due'
  BY DEF Due, OnDirectory
<1>5. Runs => Runs'
  <2>1. broken' = 0 => broken = 0
    BY MetricsAssumption DEF MetricsTypeOK
  <2> QED
    BY <2>1 DEF Runs
<1>6. (cut /\ ~mixed => Holds)' <=> (cut /\ ~mixed => Holds)
  BY Zenon DEF Holds
<1> QED
  BY <1>1, <1>2, <1>3, <1>4, <1>5, <1>6

\* The counters and the node-exporter are what MetricsTypeOK says.
LEMMA Counts ==
    MetricsInv =>
        /\ broken \in 0 .. MaxBroken /\ broken <= broken
        /\ received \in 0 .. MaxReceived /\ exporter \in BOOLEAN
<1>1. MetricsInv => broken \in 0 .. MaxBroken /\ received \in 0 .. MaxReceived /\ exporter \in BOOLEAN
  BY Zenon DEF MetricsInv, MetricsTypeOK
<1>2. \A b \in 0 .. MaxBroken : b <= b
  BY MetricsAssumption
<1> QED
  BY Zenon, <1>1, <1>2

\* A call that fails is counted.
LEMMA Counted == MetricsInv /\ CallFails => broken' \in 0 .. MaxBroken /\ broken <= broken' /\ broken' # 0
<1>1. \A b \in 0 .. MaxBroken : b < MaxBroken => b + 1 \in 0 .. MaxBroken /\ b <= b + 1 /\ b + 1 # 0
  BY MetricsAssumption
<1> QED
  BY Zenon, <1>1, Counts DEF CallFails

\* A request that failed answers with the status and changes nothing else.
LEMMA GivesUp ==
    ASSUME MetricsInv, NEW s \in Callers, inflight[s] \in Installs \cup Migrations, Failing(s),
           UNCHANGED <<deploy, exporter, claim, job, kubernetes, metricsGhosts, received>>
    PROVE  MetricsInv'
<1>1. inflight' \in [Callers -> InFlight] /\ (\A o \in Callers \ {s} : inflight'[o] = inflight[o]) /\ inflight'[s].pc = "status"
  BY RequestProceeds DEF Failing, MetricsInv
<1>2. /\ exporter' \in BOOLEAN /\ received' \in 0 .. MaxReceived
      /\ broken' \in 0 .. MaxBroken /\ broken <= broken' /\ broken' # 0
  BY Zenon, Counts, Counted DEF Failing
<1> QED
  BY Zenon, <1>1, <1>2, RequestOnly

\* Requests that arrive, and the removal of the node-exporter, keep the invariant.
LEMMA Accepts ==
    ASSUME MetricsInv, NEW s \in Callers, NEW r \in InFlight, r.pc \notin {"cutover", "drop-job"}, Accept(s, r)
    PROVE  MetricsInv'
<1>1. inflight' \in [Callers -> InFlight] /\ inflight'[s] = r /\ \A o \in Callers \ {s} : inflight'[o] = inflight[o]
  BY RequestMoves DEF Accept, MetricsInv
<1>2. ~Stopping(inflight[s])
  BY DEF Accept, Stopping, NoRequest
<1>3. exporter' \in BOOLEAN /\ received' \in 0 .. MaxReceived /\ broken' \in 0 .. MaxBroken /\ broken <= broken'
  BY MetricsAssumption DEF MetricsInv, MetricsTypeOK, Accept
<1>4. UNCHANGED <<deploy, claim, job, kubernetes, metricsGhosts>>
  BY DEF Accept, kubernetes, metricsGhosts
<1> QED
  BY Zenon, <1>1, <1>2, <1>3, <1>4, RequestOnly

\* The Deployment's configuration is one.
LEMMA Configured == MetricsInv /\ deploy # Missing => victoriaMetricsConfigFromDeployment(deploy) \in Config
BY Zenon DEF MetricsInv, MetricsTypeOK, victoriaMetricsConfigFromDeployment, Config

\* The requests of users arrive.
LEMMA Arrivals ==
    ASSUME MetricsInv, NEW s \in Callers,
           \/ \E n \in Hosts : installVictoriaMetrics(s, n)
           \/ Accept(s, [pc |-> "remove-exporter", op |-> "uninstall"])
           \/ StartMigration(s)
           \/ VictoriaMetricsStatus(s)
    PROVE  MetricsInv'
<1>1. ASSUME NEW n \in Hosts, installVictoriaMetrics(s, n) PROVE MetricsInv'
  <2> DEFINE config == IF deploy = Missing THEN [node |-> n, legacy |-> FALSE] ELSE victoriaMetricsConfigFromDeployment(deploy)
             r == [pc |-> IF config.legacy THEN "deploy" ELSE "claim", op |-> "install", config |-> config]
  <2>1. config \in Config
    BY Configured DEF Config
  <2>2. Accept(s, r)
    BY Zenon, <1>1 DEF installVictoriaMetrics
  <2>3. r \in InFlight /\ r.pc \notin {"cutover", "drop-job"}
    <3> HIDE DEF config
    <3> QED
      BY <2>1 DEF InFlight, Installs
  <2> HIDE DEF r
  <2> QED
    BY <2>2, <2>3, Accepts
<1>2. CASE Accept(s, [pc |-> "remove-exporter", op |-> "uninstall"])
  BY <1>2, Accepts DEF InFlight, Removals
<1>3. CASE StartMigration(s)
  <2> DEFINE r == [pc |-> "job", op |-> "migrate", config |-> victoriaMetricsConfigFromDeployment(deploy)]
  <2>1. Accept(s, r)
    BY Zenon, <1>3 DEF StartMigration
  <2>2. r \in InFlight /\ r.pc \notin {"cutover", "drop-job"}
    BY Zenon, <1>3, Configured DEF StartMigration, InFlight, Migrations
  <2> HIDE DEF r
  <2> QED
    BY <2>1, <2>2, Accepts
<1>4. CASE VictoriaMetricsStatus(s)
  BY <1>4, Accepts DEF VictoriaMetricsStatus, InFlight, Reads
<1> QED
  BY <1>1, <1>2, <1>3, <1>4

\* A step that keeps the Job, the samples, the directory and the Pods, does not put the
\* store back on the directory and leaves it running keeps the invariant.
LEMMA StoreWritten ==
    ASSUME MetricsInv, NEW s \in Callers,
           UNCHANGED <<exporter, claim, job, kubernetes, mixed, received>>,
           deploy' \in {Missing} \cup [node : Hosts, legacy : BOOLEAN, replicas : {0, 1}],
           cut' \in BOOLEAN, rebuilt' \in BOOLEAN, outdated' \in BOOLEAN, outdated => outdated', rebuilt => rebuilt',
           broken' \in 0 .. MaxBroken, broken <= broken',
           inflight' \in [Callers -> InFlight], \A o \in Callers \ {s} : inflight'[o] = inflight[o],
           inflight'[s].pc # "cutover",
           ~outdated' =>
               /\ OnDirectory' => OnDirectory /\ inflight'[s].pc # "drop-job" /\ ~cut'
               /\ Copying /\ ~rebuilt' => OnDirectory'
               /\ Runs'
               /\ cut' /\ ~mixed => Holds
    PROVE  MetricsInv'
<1> USE DEF MetricsInv, kubernetes
<1>1. MetricsTypeOK'
  <2>1. {exporter', cut', mixed', rebuilt', outdated'} \subseteq BOOLEAN
    BY Zenon DEF MetricsTypeOK
  <2> QED
    BY Zenon, <2>1 DEF MetricsTypeOK
<1>2. Copied'
  BY Zenon DEF Copied, Holds
<1>3. ~outdated' => Left'
  BY Zenon DEF Left, Copying
<1>4. ~outdated' => Due'
  BY DEF Due
<1>5. ~outdated' => (cut /\ ~mixed => Holds)'
  BY Zenon DEF Holds
<1> QED
  BY <1>1, <1>2, <1>3, <1>4, <1>5

\* The steps that write the Deployment keep the invariant: only a request that acts on
\* what had changed puts a store back on the directory or stops one on the claim.
LEMMA StoreSteps ==
    ASSUME MetricsInv, NEW s \in Callers,
           \/ InstallDeployment(s) \/ uninstallVictoriaMetrics(s)
           \/ StopStore(s) \/ ResumeStore(s) \/ Recover(s) \/ Cutover(s)
    PROVE  MetricsInv'
<1>0. /\ MetricsTypeOK /\ inflight \in [Callers -> InFlight] /\ inflight[s] \in InFlight
      /\ ~outdated => Left /\ Due /\ Runs /\ (cut /\ ~mixed => Holds)
  BY DEF MetricsInv
<1>n. broken \in 0 .. MaxBroken /\ broken <= broken /\ received \in 0 .. MaxReceived
  BY Zenon, Counts
<1>b. cut \in BOOLEAN /\ mixed \in BOOLEAN /\ rebuilt \in BOOLEAN /\ outdated \in BOOLEAN /\ exporter \in BOOLEAN
  BY Zenon, <1>0 DEF MetricsTypeOK
<1>i. NoRequest \in InFlight /\ NoRequest.pc = "idle"
  BY DEF InFlight, NoRequest
\* Scaling keeps the node and the storage.
<1>s. ASSUME NEW k \in {0, 1}, scaleVictoriaMetrics(k)
      PROVE  /\ deploy # Missing /\ deploy' \in [node : Hosts, legacy : BOOLEAN, replicas : {0, 1}]
             /\ deploy' # Missing /\ deploy'.legacy = deploy.legacy /\ deploy'.replicas = k
  BY <1>s, <1>0, MetricsAssumption DEF scaleVictoriaMetrics, MetricsTypeOK
<1>1. CASE InstallDeployment(s)
  <2>1. inflight[s] \in Installs /\ inflight[s].config \in Config
    BY Zenon, <1>0, <1>1, RequestShapes DEF InstallDeployment, Installs
  <2>2. CASE Failing(s) /\ UNCHANGED <<deploy, cut, outdated>>
    BY Zenon, <1>1, <2>1, <2>2, GivesUp DEF InstallDeployment, metricsGhosts
  <2>3. ASSUME upsertVictoriaMetricsDeployment(inflight[s].config),
               Noticed(IF deploy = Missing THEN ~inflight[s].config.legacy
                                        ELSE inflight[s].config = victoriaMetricsConfigFromDeployment(deploy)),
               cut' = (cut /\ ~inflight[s].config.legacy), Proceed(s, "exporter"), UNCHANGED broken
        PROVE  MetricsInv'
    <3>1. /\ inflight' \in [Callers -> InFlight] /\ \A o \in Callers \ {s} : inflight'[o] = inflight[o]
          /\ inflight'[s].pc = "exporter"
      BY <1>0, <2>1, <2>3, RequestProceeds
    <3>2. /\ deploy' \in [node : Hosts, legacy : BOOLEAN, replicas : {0, 1}] /\ deploy' # Missing
          /\ deploy'.legacy = inflight[s].config.legacy /\ deploy'.replicas = 1
      BY Zenon, <2>1, <2>3, MetricsAssumption DEF upsertVictoriaMetricsDeployment, Config
    <3>3. outdated' \in BOOLEAN /\ cut' \in BOOLEAN /\ (outdated => outdated') /\ (cut' => cut)
      BY Zenon, <2>3, <1>b DEF Noticed
    <3>4. ASSUME ~outdated' PROVE inflight[s].config.legacy <=> OnDirectory
      <4>1. IF deploy = Missing THEN ~inflight[s].config.legacy ELSE inflight[s].config = victoriaMetricsConfigFromDeployment(deploy)
        BY Zenon, <2>3, <3>4 DEF Noticed
      <4>2. victoriaMetricsConfigFromDeployment(deploy).legacy = deploy.legacy
        BY DEF victoriaMetricsConfigFromDeployment
      <4> QED
        BY Zenon, <4>1, <4>2 DEF OnDirectory
    <3>5. OnDirectory' <=> inflight[s].config.legacy
      BY <3>2 DEF OnDirectory
    <3>6. Runs'
      BY <3>2 DEF Runs
    <3>7. ~outdated' => /\ OnDirectory' => OnDirectory /\ inflight'[s].pc # "drop-job" /\ ~cut'
                        /\ Copying /\ ~rebuilt' => OnDirectory'
                        /\ cut' /\ ~mixed => Holds
      BY Zenon, <1>0, <1>1, <2>3, <3>1, <3>3, <3>4, <3>5 DEF InstallDeployment, Left
    <3>8. UNCHANGED <<exporter, claim, job, kubernetes, mixed, rebuilt, received, broken>>
      BY Zenon, <1>1, <2>3 DEF InstallDeployment
    <3> QED
      BY Zenon, <1>n, <1>b, <3>1, <3>2, <3>3, <3>6, <3>7, <3>8, StoreWritten
  <2> QED
    BY Zenon, <1>1, <2>2, <2>3 DEF InstallDeployment
<1>2. CASE uninstallVictoriaMetrics(s)
  <2>1. CASE Accept(s, [pc |-> "remove-exporter", op |-> "uninstall"])
    BY <2>1, Arrivals
  <2>2. ASSUME inflight[s].pc = "remove-exporter",
               \/ exporter' = FALSE /\ Proceed(s, "remove") /\ UNCHANGED broken
               \/ CallFails /\ Answer(s) /\ UNCHANGED exporter,
               UNCHANGED <<deploy, claim, job, kubernetes, metricsGhosts, received>>
        PROVE  MetricsInv'
    <3>1. inflight[s] \in Removals /\ ~Stopping(inflight[s])
      BY <1>0, <2>2, RequestShapes DEF Stopping
    <3>2. /\ inflight' \in [Callers -> InFlight] /\ \A o \in Callers \ {s} : inflight'[o] = inflight[o]
          /\ inflight'[s].pc \in {"idle", "remove"}
      BY Zenon, <1>0, <1>i, <2>2, <3>1, RequestProceeds, RequestMoves DEF Answer
    <3>3. exporter' \in BOOLEAN
      BY Zenon, <2>2, <1>b
    <3>4. received' \in 0 .. MaxReceived /\ broken' \in 0 .. MaxBroken /\ broken <= broken'
      BY Zenon, <1>n, <2>2, Counted
    <3> QED
      BY Zenon, <2>2, <3>1, <3>2, <3>3, <3>4, RequestOnly
  <2>3. ASSUME inflight[s].pc = "remove", Answer(s),
               \/ deploy' = Missing /\ rebuilt' = (rebuilt \/ Copying) /\ UNCHANGED broken
               \/ CallFails /\ UNCHANGED <<deploy, rebuilt>>,
               UNCHANGED <<exporter, claim, job, kubernetes, cut, mixed, outdated, received>>
        PROVE  MetricsInv'
    <3>1. ~Stopping(inflight[s])
      BY Zenon, <2>3 DEF Stopping
    <3>2. inflight' \in [Callers -> InFlight] /\ inflight'[s].pc = "idle" /\ \A o \in Callers \ {s} : inflight'[o] = inflight[o]
      BY <1>0, <1>i, <2>3, RequestMoves DEF Answer
    <3>3. CASE CallFails /\ UNCHANGED <<deploy, rebuilt>>
      <4>1. received' \in 0 .. MaxReceived /\ broken' \in 0 .. MaxBroken /\ broken <= broken' /\ exporter' \in BOOLEAN
        BY Zenon, <1>b, <1>n, <2>3, <3>3, Counted
      <4> QED
        BY Zenon, <2>3, <3>1, <3>2, <3>3, <4>1, RequestOnly DEF metricsGhosts
    <3>4. CASE deploy' = Missing /\ rebuilt' = (rebuilt \/ Copying) /\ UNCHANGED broken
      <4>1. rebuilt' \in BOOLEAN /\ (rebuilt => rebuilt') /\ (Copying => rebuilt')
        BY Zenon, <3>4, <1>b DEF Copying
      <4>2. ~OnDirectory' /\ Runs'
        BY <3>4 DEF OnDirectory, Runs
      <4> QED
        BY Zenon, <1>0, <1>b, <1>n, <2>3, <3>2, <3>4, <4>1, <4>2, StoreWritten
    <3> QED
      BY Zenon, <2>3, <3>3, <3>4
  <2> QED
    BY Zenon, <1>2, <2>1, <2>2, <2>3 DEF uninstallVictoriaMetrics
<1>3. CASE StopStore(s)
  <2>1. inflight[s] \in Migrations
    BY Zenon, <1>0, <1>3, RequestShapes DEF StopStore
  <2>2. CASE Failing(s) /\ UNCHANGED <<deploy, outdated>>
    BY Zenon, <1>3, <2>1, <2>2, GivesUp DEF StopStore, metricsGhosts
  <2>3. CASE deploy = Missing /\ Proceed(s, "status") /\ UNCHANGED <<deploy, outdated, broken>>
    <3>1. /\ inflight' \in [Callers -> InFlight] /\ \A o \in Callers \ {s} : inflight'[o] = inflight[o]
          /\ inflight'[s].pc = "status"
      BY <1>0, <2>1, <2>3, RequestProceeds
    <3>2. received' \in 0 .. MaxReceived /\ broken' \in 0 .. MaxBroken /\ broken <= broken' /\ exporter' \in BOOLEAN
      BY Zenon, <1>0, <1>b, <1>n, <1>3, <2>3 DEF MetricsTypeOK, StopStore
    <3> QED
      BY Zenon, <1>3, <2>3, <3>1, <3>2, RequestOnly DEF StopStore, metricsGhosts
  <2>4. ASSUME scaleVictoriaMetrics(0), Noticed(deploy.legacy), Proceed(s, "copy"), UNCHANGED broken
        PROVE  MetricsInv'
    <3>1. /\ inflight' \in [Callers -> InFlight] /\ \A o \in Callers \ {s} : inflight'[o] = inflight[o]
          /\ inflight'[s].pc = "copy" /\ inflight'[s].op = inflight[s].op
      BY <1>0, <2>1, <2>4, RequestProceeds
    <3>2. Stopping(inflight'[s])
      BY Zenon, <2>1, <3>1 DEF Stopping, Migrations
    <3>3. outdated' \in BOOLEAN /\ (outdated => outdated') /\ (~outdated' => deploy.legacy)
      BY Zenon, <2>4, <1>b DEF Noticed
    <3>4. /\ deploy # Missing /\ deploy' \in [node : Hosts, legacy : BOOLEAN, replicas : {0, 1}]
          /\ deploy' # Missing /\ deploy'.legacy = deploy.legacy
      BY <1>s, <2>4
    <3>5. OnDirectory' <=> OnDirectory
      BY <3>4 DEF OnDirectory
    <3>6. ~outdated' => Runs'
      BY <3>2, <3>3, <3>4 DEF Runs
    <3>7. UNCHANGED <<exporter, claim, job, kubernetes, cut, mixed, rebuilt, received, broken>>
      BY Zenon, <1>3, <2>4 DEF StopStore
    <3>8. ~outdated' => /\ OnDirectory' => OnDirectory /\ inflight'[s].pc # "drop-job" /\ ~cut'
                        /\ Copying /\ ~rebuilt' => OnDirectory'
                        /\ cut' /\ ~mixed => Holds
      BY <1>0, <3>1, <3>3, <3>5, <3>7 DEF Left
    <3> QED
      BY Zenon, <1>n, <1>b, <3>1, <3>3, <3>4, <3>6, <3>7, <3>8, StoreWritten
  <2> QED
    BY Zenon, <1>3, <2>2, <2>3, <2>4 DEF StopStore
\* A store that is started again, by a migration that gave up or by a status read.
<1>4. ASSUME inflight' \in [Callers -> InFlight], \A o \in Callers \ {s} : inflight'[o] = inflight[o],
             inflight'[s].pc \in {"idle", "status"},
             \/ scaleVictoriaMetrics(1) /\ UNCHANGED broken
             \/ deploy = Missing /\ UNCHANGED <<deploy, broken>>
             \/ CallFails /\ UNCHANGED deploy,
             UNCHANGED <<exporter, claim, job, kubernetes, metricsGhosts, received>>
      PROVE  MetricsInv'
  <2>1. received' \in 0 .. MaxReceived /\ broken' \in 0 .. MaxBroken /\ broken <= broken' /\ exporter' \in BOOLEAN
    BY Zenon, <1>b, <1>n, <1>4, Counted DEF scaleVictoriaMetrics
  <2>2. CASE deploy = Missing /\ UNCHANGED <<deploy, broken>>
    BY Zenon, <1>4, <2>1, <2>2, RequestOnly
  <2>3. CASE CallFails /\ UNCHANGED deploy
    <3>1. broken' # 0
      BY Zenon, <2>3, Counted
    <3> QED
      BY Zenon, <1>4, <2>1, <2>3, <3>1, RequestOnly
  <2>4. CASE scaleVictoriaMetrics(1)
    <3>1. /\ deploy # Missing /\ deploy' \in [node : Hosts, legacy : BOOLEAN, replicas : {0, 1}]
          /\ deploy' # Missing /\ deploy'.legacy = deploy.legacy /\ deploy'.replicas = 1
      BY <1>s, <2>4
    <3>2. (OnDirectory' <=> OnDirectory) /\ Runs'
      BY <3>1 DEF OnDirectory, Runs
    <3>3. UNCHANGED <<cut, mixed, rebuilt, outdated>>
      BY Zenon, <1>4 DEF metricsGhosts
    <3>4. ~outdated' => /\ OnDirectory' => OnDirectory /\ inflight'[s].pc # "drop-job" /\ ~cut'
                        /\ Copying /\ ~rebuilt' => OnDirectory'
                        /\ cut' /\ ~mixed => Holds
      BY <1>0, <1>4, <3>2, <3>3 DEF Left
    <3> QED
      BY Zenon, <1>b, <1>4, <2>1, <3>1, <3>2, <3>3, <3>4, StoreWritten
  <2> QED
    BY Zenon, <1>4, <2>2, <2>3, <2>4
<1>5. CASE ResumeStore(s)
  <2>1. inflight[s] \in Migrations
    BY Zenon, <1>0, <1>5, RequestShapes DEF ResumeStore
  <2>2. /\ inflight' \in [Callers -> InFlight] /\ \A o \in Callers \ {s} : inflight'[o] = inflight[o]
        /\ inflight'[s].pc = "status"
    BY Zenon, <1>0, <1>5, <2>1, RequestProceeds DEF ResumeStore
  <2> QED
    BY Zenon, <1>4, <1>5, <2>2 DEF ResumeStore
<1>6. CASE Recover(s)
  <2>1. inflight' \in [Callers -> InFlight] /\ inflight'[s].pc = "idle" /\ \A o \in Callers \ {s} : inflight'[o] = inflight[o]
    BY <1>0, <1>i, <1>6, RequestMoves DEF Answer, Recover
  <2> QED
    BY Zenon, <1>4, <1>6, <2>1 DEF Recover
<1>7. CASE Cutover(s)
  <2>1. inflight[s] \in Cutovers /\ inflight[s].config \in Config /\ ~Stopping(inflight[s])
    BY <1>0, <1>7, RequestShapes DEF Cutover, Cutovers, Stopping
  <2>2. CASE CallFails /\ Answer(s) /\ UNCHANGED <<deploy, cut, outdated>>
    <3>1. inflight' \in [Callers -> InFlight] /\ inflight'[s].pc = "idle" /\ \A o \in Callers \ {s} : inflight'[o] = inflight[o]
      BY <1>0, <1>i, <2>2, RequestMoves DEF Answer
    <3>2. UNCHANGED <<exporter, claim, job, kubernetes, metricsGhosts, received>>
      BY <1>7, <2>2 DEF Cutover, metricsGhosts
    <3> QED
      BY Zenon, <1>4, <2>2, <3>1, <3>2
  <2>3. ASSUME upsertVictoriaMetricsDeployment([inflight[s].config EXCEPT !.legacy = FALSE]),
               Noticed(job # Missing /\ deploy # Missing), cut' = TRUE, Proceed(s, "drop-job"), UNCHANGED broken
        PROVE  MetricsInv'
    <3>1. /\ inflight' \in [Callers -> InFlight] /\ \A o \in Callers \ {s} : inflight'[o] = inflight[o]
          /\ inflight'[s].pc = "drop-job"
      BY <1>0, <2>1, <2>3, RequestProceeds
    <3>2. /\ deploy' \in [node : Hosts, legacy : BOOLEAN, replicas : {0, 1}] /\ deploy' # Missing
          /\ ~deploy'.legacy /\ deploy'.replicas = 1
      BY Zenon, <2>1, <2>3, MetricsAssumption DEF upsertVictoriaMetricsDeployment, Config
    <3>3. outdated' \in BOOLEAN /\ cut' \in BOOLEAN /\ (outdated => outdated') /\ (~outdated' => job # Missing)
      BY Zenon, <2>3, <1>b DEF Noticed
    <3>4. ~OnDirectory' /\ Runs'
      BY <3>2 DEF OnDirectory, Runs
    \* The Job this request saw succeed is still there, so the claim holds the directory.
    <3>5. ~outdated' => job # Missing /\ job.state = "succeeded"
      BY <1>0, <1>7, <3>3 DEF Due, Cutover
    <3>6. ~outdated' => ~Copying /\ (~mixed => Holds)
      BY <3>5 DEF Copying, MetricsInv, Copied
    <3>7. UNCHANGED <<exporter, claim, job, kubernetes, mixed, rebuilt, received, broken>>
      BY Zenon, <1>7, <2>3 DEF Cutover
    <3> QED
      BY Zenon, <1>n, <1>b, <3>1, <3>2, <3>3, <3>4, <3>6, <3>7, StoreWritten
  <2> QED
    BY Zenon, <1>7, <2>2, <2>3 DEF Cutover
<1> QED
  BY <1>1, <1>2, <1>3, <1>5, <1>6, <1>7

\* A step of a request that keeps the Deployment, the Pods and the directory, and keeps
\* the claim or makes an empty one, keeps the invariant if what it does to the Job fits.
LEMMA JobWritten ==
    ASSUME MetricsInv, NEW s \in Callers,
           UNCHANGED <<deploy, exporter, kubernetes, cut, rebuilt, received>>,
           claim' = claim \/ (claim = Missing /\ claim' \in [node : Hosts \cup {Missing}, data : SUBSET (1..MaxSamples)]),
           job' \in {Missing} \cup [node : Hosts, state : {"copying", "copied", "succeeded", "failed"}],
           job' = job \/ job' = Missing \/ job'.state = "copying",
           mixed' \in BOOLEAN, outdated' \in BOOLEAN, outdated => outdated', mixed => mixed' \/ job' # job,
           broken' \in 0 .. MaxBroken, broken <= broken',
           inflight' \in [Callers -> InFlight], \A o \in Callers \ {s} : inflight'[o] = inflight[o],
           inflight'[s].pc \notin {"cutover", "drop-job"},
           ~outdated' =>
               /\ Runs'
               /\ Copying' => Copying \/ OnDirectory
               /\ job' = job \/ ~OnDirectory \/ \A o \in Callers \ {s} : inflight[o].pc # "cutover"
               /\ job' = job \/ job' = Missing \/ \A o \in Callers \ {s} : inflight[o].pc # "cutover"
               /\ mixed' = mixed \/ ~cut
    PROVE  MetricsInv'
<1> USE DEF MetricsInv, kubernetes
<1>1. MetricsTypeOK'
  <2>1. {exporter', cut', mixed', rebuilt', outdated'} \subseteq BOOLEAN
    BY Zenon DEF MetricsTypeOK
  <2>2. claim' \in {Missing} \cup [node : Hosts \cup {Missing}, data : SUBSET (1..MaxSamples)]
    BY Zenon DEF MetricsTypeOK
  <2> QED
    BY Zenon, <2>1, <2>2 DEF MetricsTypeOK
<1>2. Holds => Holds'
  <2>1. CASE UNCHANGED claim
    BY Zenon, <2>1 DEF Holds
  <2>2. CASE claim = Missing
    BY Zenon, <2>2 DEF Holds
  <2> QED
    BY Zenon, <2>1, <2>2
<1>3. Copied'
  BY Zenon, <1>2 DEF Copied
<1>4. OnDirectory' <=> OnDirectory
  BY Zenon DEF OnDirectory
<1>5. ~outdated' => Left'
  BY Zenon, <1>4 DEF Left
<1>6. ~outdated' => Due'
  BY Zenon, <1>4 DEF Due
<1>7. "claim" \in pods' => claim' # Missing
  BY Zenon
<1> QED
  BY Zenon, <1>1, <1>2, <1>3, <1>5, <1>6, <1>7

\* The steps of requests on the claim, the node-exporter and the Job keep the invariant.
LEMMA JobSteps ==
    ASSUME MetricsInv, NEW s \in Callers,
           \/ InstallClaim(s) \/ MigrationClaim(s) \/ upsertNodeExporter(s)
           \/ ClearFailedJob(s) \/ createVictoriaMetricsMigrationJob(s) \/ DropJob(s)
    PROVE  MetricsInv'
<1>0. /\ MetricsTypeOK /\ inflight \in [Callers -> InFlight] /\ inflight[s] \in InFlight
      /\ ~outdated => Left /\ Due /\ Runs /\ (cut /\ ~mixed => Holds)
  BY DEF MetricsInv
<1>n. broken \in 0 .. MaxBroken /\ broken <= broken /\ received \in 0 .. MaxReceived
  BY Zenon, Counts
<1>b. cut \in BOOLEAN /\ mixed \in BOOLEAN /\ rebuilt \in BOOLEAN /\ outdated \in BOOLEAN /\ exporter \in BOOLEAN
  BY Zenon, <1>0 DEF MetricsTypeOK
<1>j. job \in {Missing} \cup [node : Hosts, state : {"copying", "copied", "succeeded", "failed"}]
  BY Zenon, <1>0 DEF MetricsTypeOK
<1>i. NoRequest \in InFlight /\ NoRequest.pc = "idle"
  BY DEF InFlight, NoRequest
<1>c. ASSUME upsertVictoriaMetricsPVC
      PROVE  claim' = claim \/ (claim = Missing /\ claim' \in [node : Hosts \cup {Missing}, data : SUBSET (1..MaxSamples)])
  BY <1>c DEF upsertVictoriaMetricsPVC
<1>1. ASSUME InstallClaim(s) \/ MigrationClaim(s) PROVE MetricsInv'
  <2>1. /\ inflight[s] \in Installs \cup Migrations
        /\ inflight[s].op = "install" => inflight[s] \in Installs
        /\ inflight[s].op = "migrate" => inflight[s] \in Migrations
    BY Zenon, <1>0, <1>1, RequestShapes DEF InstallClaim, MigrationClaim
  <2>2. CASE Failing(s) /\ UNCHANGED claim
    <3>1. UNCHANGED <<deploy, exporter, claim, job, kubernetes, metricsGhosts, received>>
      BY Zenon, <1>1, <2>2 DEF InstallClaim, MigrationClaim
    <3> QED
      BY Zenon, <2>1, <2>2, <3>1, GivesUp
  <2>3. ASSUME upsertVictoriaMetricsPVC, UNCHANGED broken,
               inflight' \in [Callers -> InFlight], \A o \in Callers \ {s} : inflight'[o] = inflight[o],
               inflight'[s].pc \in {"deploy", "stop"}, Stopping(inflight[s]) => Stopping(inflight'[s])
        PROVE  MetricsInv'
    <3>1. UNCHANGED <<deploy, exporter, job, kubernetes, metricsGhosts, received>>
      BY Zenon, <1>1 DEF InstallClaim, MigrationClaim
    <3>2. Runs => Runs'
      BY Zenon, <2>3, <3>1 DEF Runs
    <3>3. Copying' <=> Copying
      BY <3>1 DEF Copying
    <3> QED
      BY Zenon, <1>0, <1>n, <1>b, <1>j, <1>c, <2>3, <3>1, <3>2, <3>3, JobWritten DEF metricsGhosts
  <2>4. CASE InstallClaim(s)
    <3>1. inflight[s].op = "install" /\ ~Stopping(inflight[s])
      BY Zenon, <2>4 DEF InstallClaim, Stopping
    <3>2. CASE upsertVictoriaMetricsPVC /\ Proceed(s, "deploy") /\ UNCHANGED broken
      BY Zenon, <1>0, <2>1, <2>3, <3>1, <3>2, RequestProceeds
    <3> QED
      BY Zenon, <2>2, <2>4, <3>2 DEF InstallClaim
  <2>5. CASE MigrationClaim(s)
    <3>1. inflight[s].op = "migrate"
      BY Zenon, <2>5 DEF MigrationClaim
    <3>2. CASE upsertVictoriaMetricsPVC /\ Proceed(s, "stop") /\ UNCHANGED broken
      BY Zenon, <1>0, <2>1, <2>3, <3>1, <3>2, RequestProceeds DEF Stopping
    <3> QED
      BY Zenon, <2>2, <2>5, <3>2 DEF MigrationClaim
  <2> QED
    BY <1>1, <2>4, <2>5
<1>2. CASE upsertNodeExporter(s)
  <2>1. inflight[s] \in Installs /\ ~Stopping(inflight[s])
    BY <1>0, <1>2, RequestShapes DEF upsertNodeExporter, Stopping
  <2>2. CASE Failing(s) /\ UNCHANGED exporter
    BY Zenon, <1>2, <2>1, <2>2, GivesUp DEF upsertNodeExporter
  <2>3. CASE exporter' = TRUE /\ Proceed(s, "status") /\ UNCHANGED broken
    <3>1. /\ inflight' \in [Callers -> InFlight] /\ \A o \in Callers \ {s} : inflight'[o] = inflight[o]
          /\ inflight'[s].pc = "status"
      BY <1>0, <2>1, <2>3, RequestProceeds
    <3>2. received' \in 0 .. MaxReceived /\ broken' \in 0 .. MaxBroken /\ broken <= broken' /\ exporter' \in BOOLEAN
      BY Zenon, <1>0, <1>n, <1>2, <2>3 DEF MetricsTypeOK, upsertNodeExporter
    <3> QED
      BY Zenon, <1>2, <2>1, <3>1, <3>2, RequestOnly DEF upsertNodeExporter
  <2> QED
    BY Zenon, <1>2, <2>2, <2>3 DEF upsertNodeExporter
<1>3. CASE ClearFailedJob(s)
  <2>1. inflight[s] \in Migrations /\ ~Stopping(inflight[s])
    BY Zenon, <1>0, <1>3, RequestShapes DEF ClearFailedJob, Stopping
  <2>2. CASE Failing(s) /\ UNCHANGED job
    BY Zenon, <1>3, <2>1, <2>2, GivesUp DEF ClearFailedJob
  <2>3. ASSUME NEW pc \in {"claim", "status"}, Proceed(s, pc), UNCHANGED broken,
               job' = job \/ (job # Missing /\ job.state = "failed" /\ job' = Missing /\ pc = "claim")
        PROVE  MetricsInv'
    <3>1. /\ inflight' \in [Callers -> InFlight] /\ \A o \in Callers \ {s} : inflight'[o] = inflight[o]
          /\ inflight'[s].pc = pc /\ inflight'[s].op = "migrate"
      BY Zenon, <1>0, <2>1, <2>3, RequestProceeds DEF Migrations
    <3>2. pc = "claim" => Stopping(inflight'[s])
      BY Zenon, <3>1 DEF Stopping
    <3>3. UNCHANGED <<deploy, exporter, claim, kubernetes, metricsGhosts, received>>
      BY Zenon, <1>3 DEF ClearFailedJob
    <3>4. Runs => Runs'
      BY Zenon, <2>1, <2>3, <3>1, <3>2, <3>3 DEF Runs
    <3>5. Copying' => Copying
      BY <2>3 DEF Copying
    \* No request that is about to switch the store saw this Job fail.
    <3>6. ~outdated' => job' = job \/ \A o \in Callers : inflight[o].pc # "cutover"
      BY <1>0, <2>3, <3>3 DEF Due, metricsGhosts
    <3>7. job' \in {Missing} \cup [node : Hosts, state : {"copying", "copied", "succeeded", "failed"}]
      BY <1>j, <2>3
    <3> QED
      BY Zenon, <1>0, <1>n, <1>b, <2>3, <3>1, <3>3, <3>4, <3>5, <3>6, <3>7, JobWritten DEF metricsGhosts
  <2> QED
    BY Zenon, <1>3, <2>2, <2>3 DEF ClearFailedJob
<1>4. CASE createVictoriaMetricsMigrationJob(s)
  <2>1. inflight[s] \in Migrations /\ inflight[s].config.node \in Hosts
    BY Zenon, <1>0, <1>4, RequestShapes DEF createVictoriaMetricsMigrationJob, Migrations, Config
  <2>2. ASSUME broken' \in 0 .. MaxBroken, broken <= broken', Proceed(s, "resume"), UNCHANGED <<job, mixed, outdated>>
        PROVE  MetricsInv'
    <3>1. /\ inflight' \in [Callers -> InFlight] /\ \A o \in Callers \ {s} : inflight'[o] = inflight[o]
          /\ inflight'[s].pc = "resume" /\ inflight'[s].op = "migrate"
      BY Zenon, <1>0, <2>1, <2>2, RequestProceeds DEF Migrations
    <3>2. received' \in 0 .. MaxReceived /\ exporter' \in BOOLEAN
      BY Zenon, <1>0, <1>b, <1>4 DEF MetricsTypeOK, createVictoriaMetricsMigrationJob
    <3> QED
      BY Zenon, <1>4, <2>2, <3>1, <3>2, RequestOnly DEF createVictoriaMetricsMigrationJob, Stopping, metricsGhosts
  <2>3. CASE job # Missing /\ Proceed(s, "resume") /\ UNCHANGED <<job, mixed, outdated, broken>>
    BY <1>n, <2>2, <2>3
  <2>4. CASE CallFails /\ Proceed(s, "resume") /\ UNCHANGED <<job, mixed, outdated>>
    <3>1. broken' \in 0 .. MaxBroken /\ broken <= broken'
      BY Zenon, <1>n, <2>4, Counted
    <3> QED
      BY <2>2, <2>4, <3>1
  <2>5. ASSUME job = Missing, job' = [node |-> inflight[s].config.node, state |-> "copying"],
               Noticed(IF deploy = Missing THEN FALSE ELSE deploy.legacy),
               mixed' = FALSE, Proceed(s, "status"), UNCHANGED broken
        PROVE  MetricsInv'
    <3>1. /\ inflight' \in [Callers -> InFlight] /\ \A o \in Callers \ {s} : inflight'[o] = inflight[o]
          /\ inflight'[s].pc = "status"
      BY Zenon, <1>0, <2>1, <2>5, RequestProceeds
    <3>2. /\ job' \in [node : Hosts, state : {"copying", "copied", "succeeded", "failed"}]
          /\ job' # Missing /\ job'.state = "copying"
      BY Zenon, <2>1, <2>5, MetricsAssumption
    <3>3. outdated' \in BOOLEAN /\ (outdated => outdated') /\ (~outdated' => IF deploy = Missing THEN FALSE ELSE deploy.legacy)
      BY Zenon, <2>5, <1>b DEF Noticed
    <3>4. ~outdated' => OnDirectory
      BY <3>3 DEF OnDirectory
    <3>5. UNCHANGED <<deploy, exporter, claim, kubernetes, cut, rebuilt, received>>
      BY Zenon, <1>4 DEF createVictoriaMetricsMigrationJob
    \* The store is still on the directory: nobody has switched it, nor is about to.
    <3>6. ~outdated' => ~cut /\ \A o \in Callers : inflight[o].pc # "cutover"
      BY Zenon, <1>0, <2>5, <3>3, <3>4 DEF Left, Due
    <3>7. ~outdated' => Runs'
      BY Zenon, <1>0, <3>2, <3>3, <3>5 DEF Runs
    <3>8. mixed' \in BOOLEAN /\ job' # job
      BY Zenon, <2>5, <3>2
    <3> QED
      BY Zenon, <1>n, <2>5, <3>1, <3>2, <3>3, <3>4, <3>5, <3>6, <3>7, <3>8, JobWritten
  <2> QED
    BY Zenon, <1>4, <2>3, <2>4, <2>5 DEF createVictoriaMetricsMigrationJob
<1>5. CASE DropJob(s)
  <2>1. inflight[s] \in Cutovers /\ ~Stopping(inflight[s])
    BY Zenon, <1>0, <1>5, RequestShapes DEF DropJob, Stopping
  <2>2. inflight' \in [Callers -> InFlight] /\ inflight'[s].pc = "idle" /\ \A o \in Callers \ {s} : inflight'[o] = inflight[o]
    BY <1>0, <1>i, <1>5, RequestMoves DEF Answer, DropJob
  <2>3. UNCHANGED <<deploy, exporter, claim, kubernetes, metricsGhosts, received>>
    BY Zenon, <1>5 DEF DropJob
  <2>4. CASE CallFails /\ UNCHANGED job
    <3>1. received' \in 0 .. MaxReceived /\ exporter' \in BOOLEAN /\ broken' \in 0 .. MaxBroken /\ broken <= broken'
      BY Zenon, <1>b, <1>n, <2>3, <2>4, Counted
    <3> QED
      BY Zenon, <2>1, <2>2, <2>3, <2>4, <3>1, RequestOnly
  <2>5. CASE job' = Missing /\ UNCHANGED broken
    \* The store is on the claim by now, and runs.
    <3>1. ~outdated' => ~OnDirectory /\ Runs
      BY <1>0, <1>5, <2>3 DEF Left, DropJob, metricsGhosts
    <3>2. ~outdated' => Runs'
      BY <2>3, <3>1 DEF Runs, OnDirectory
    <3>3. ~Copying'
      BY <2>5 DEF Copying
    <3> QED
      BY Zenon, <1>n, <1>b, <2>2, <2>3, <2>5, <3>1, <3>2, <3>3, JobWritten DEF metricsGhosts
  <2> QED
    BY Zenon, <1>5, <2>4, <2>5 DEF DropJob
<1> QED
  BY <1>1, <1>2, <1>3, <1>4, <1>5

\* A status read that looks at the Job keeps the invariant: it comes to a cutover only
\* with a Job that has succeeded and a store that is on the directory.
LEMMA Reconciles ==
    ASSUME MetricsInv, NEW s \in Callers, reconcileVictoriaMetricsMigration(s)
    PROVE  MetricsInv'
<1>1. PICK r : inflight' = [inflight EXCEPT ![s] = r] /\ r \in InFlight /\
               (r.pc = "cutover" => job # Missing /\ job.state = "succeeded") /\ r.pc # "drop-job"
  <2>1. NoRequest \in InFlight /\ NoRequest.pc = "idle"
    BY DEF InFlight, NoRequest
  <2>2. [pc |-> "recover", op |-> "status"] \in InFlight
    BY DEF InFlight, Reads
  <2> DEFINE c == [pc |-> "cutover", op |-> "status", config |-> victoriaMetricsConfigFromDeployment(deploy)]
  <2>3. deploy # Missing => c \in InFlight
    BY Configured DEF InFlight, Cutovers
  <2>4. job # Missing /\ JobStep \notin {"idle", "recover"} => job.state = "succeeded"
    BY DEF JobStep, MetricsInv, MetricsTypeOK
  <2>5. c.pc = "cutover"
    OBVIOUS
  <2> DEFINE n == IF deploy = Missing \/ job = Missing THEN NoRequest
                  ELSE IF JobStep = "idle" THEN NoRequest
                  ELSE IF JobStep = "recover" THEN [pc |-> "recover", op |-> "status"]
                  ELSE IF deploy.legacy THEN c ELSE NoRequest
  <2>6. inflight' = [inflight EXCEPT ![s] = n]
    BY Zenon DEF reconcileVictoriaMetricsMigration
  <2>7. n \in InFlight /\ (n.pc = "cutover" => job # Missing /\ job.state = "succeeded") /\ n.pc # "drop-job"
    <3> HIDE DEF c
    <3> QED
      BY Zenon, <2>1, <2>2, <2>3, <2>4, <2>5
  <2> HIDE DEF n
  <2> QED
    BY Zenon, <2>6, <2>7
<1>2. inflight' \in [Callers -> InFlight] /\ inflight'[s] = r /\ \A o \in Callers \ {s} : inflight'[o] = inflight[o]
  BY <1>1, RequestMoves DEF MetricsInv
<1>3. ~Stopping(inflight[s])
  BY Zenon DEF reconcileVictoriaMetricsMigration, Stopping
<1>4. UNCHANGED <<deploy, exporter, claim, job, kubernetes, metricsGhosts, received, broken>>
  BY Zenon DEF reconcileVictoriaMetricsMigration
<1> USE DEF MetricsInv, kubernetes, metricsGhosts
<1>5. MetricsTypeOK'
  <2>1. {exporter', cut', mixed', rebuilt', outdated'} \subseteq BOOLEAN
    BY Zenon, <1>4 DEF MetricsTypeOK
  <2> QED
    BY Zenon, <1>4, <2>1 DEF MetricsTypeOK
<1>6. Copied' /\ ((cut /\ ~mixed => Holds)' <=> (cut /\ ~mixed => Holds))
  BY Zenon, <1>4 DEF Copied, Holds
<1>7. Left => Left'
  BY Zenon, <1>1, <1>2, <1>4 DEF Left, OnDirectory, Copying
<1>8. Due => Due'
  BY Zenon, <1>1, <1>2, <1>4 DEF Due, OnDirectory
<1>9. Runs => Runs'
  BY Zenon, <1>2, <1>3, <1>4 DEF Runs
<1> QED
  BY Zenon, <1>2, <1>4, <1>5, <1>6, <1>7, <1>8, <1>9

\* Pods, the store, the Job and a restart of the platform keep the invariant: while the
\* directory is copied, or has been, a Pod that writes it leaves a mark.
LEMMA OutsideSteps ==
    ASSUME MetricsInv,
           \/ PodStarts \/ (\E p \in pods : PodStops(p) \/ Write(p)) \/ (\E x \in host : Expire(x))
           \/ JobCopies \/ JobCompares \/ JobFails \/ Restart
    PROVE  MetricsInv'
<1> USE DEF MetricsInv
<1>b. cut \in BOOLEAN /\ mixed \in BOOLEAN /\ rebuilt \in BOOLEAN /\ outdated \in BOOLEAN /\ exporter \in BOOLEAN
  BY Zenon DEF MetricsTypeOK
<1>g. ASSUME UNCHANGED <<exporter, cut, rebuilt, outdated>>, mixed' \in BOOLEAN
      PROVE  {exporter', cut', mixed', rebuilt', outdated'} \subseteq BOOLEAN
  BY Zenon, <1>b, <1>g
<1>1. CASE PodStarts
  <2>1. /\ deploy # Missing /\ pods' = pods \cup {Storage}
        /\ UNCHANGED <<deploy, exporter, job, host, samples, inflight, metricsGhosts, received, broken>>
    BY Zenon, <1>1 DEF PodStarts
  <2>2. /\ claim' \in {Missing} \cup [node : Hosts \cup {Missing}, data : SUBSET (1..MaxSamples)]
        /\ claim = Missing => claim' = Missing
        /\ claim # Missing => claim' # Missing /\ claim'.data = claim.data
        /\ ~deploy.legacy => claim # Missing
    <3>1. claim \in {Missing} \cup [node : Hosts \cup {Missing}, data : SUBSET (1..MaxSamples)]
      BY Zenon DEF MetricsTypeOK
    <3>2. CASE deploy.legacy
      <4>1. claim' = claim
        BY <1>1, <3>2 DEF PodStarts
      <4> QED
        BY Zenon, <3>1, <3>2, <4>1
    <3>3. CASE ~deploy.legacy
      <4>1. claim # Missing /\ claim' = [claim EXCEPT !.node = deploy.node]
        BY <1>1, <3>3 DEF PodStarts, Usable
      <4>2. deploy.node \in Hosts
        BY Zenon, <2>1 DEF MetricsTypeOK
      <4> QED
        BY <3>1, <4>1, <4>2, MetricsAssumption
    <3> QED
      BY Zenon, <3>2, <3>3
  <2>3. MetricsTypeOK'
    BY Zenon, <1>b, <1>g, <2>1, <2>2 DEF MetricsTypeOK, Storage, metricsGhosts
  <2>4. Holds' <=> Holds
    BY Zenon, <2>1, <2>2 DEF Holds
  <2>5. Copied'
    BY <2>1, <2>4 DEF Copied, metricsGhosts
  <2>6. Left => Left'
    BY Zenon, <2>1 DEF Left, OnDirectory, Copying, Storage, metricsGhosts
  <2>7. (Due => Due') /\ (Runs => Runs')
    BY Zenon, <2>1 DEF Due, Runs, OnDirectory
  <2>8. "claim" \in pods' => claim' # Missing
    BY Zenon, <2>1, <2>2 DEF Storage
  <2> QED
    BY Zenon, <2>1, <2>3, <2>4, <2>5, <2>6, <2>7, <2>8 DEF metricsGhosts
<1>2. ASSUME NEW p \in pods, PodStops(p) PROVE MetricsInv'
  <2>1. /\ pods' = pods \ {p}
        /\ UNCHANGED <<deploy, exporter, claim, job, host, samples, inflight, cut, mixed, rebuilt, outdated, received, broken>>
    BY Zenon, <1>2 DEF PodStops, metricsGhosts
  <2>2. MetricsTypeOK'
    BY Zenon, <1>b, <1>g, <2>1 DEF MetricsTypeOK
  <2>3. Copied' /\ ((cut /\ ~mixed => Holds)' <=> (cut /\ ~mixed => Holds))
    BY Zenon, <2>1 DEF Copied, Holds
  <2>4. (Left => Left') /\ (Due => Due') /\ (Runs => Runs')
    BY Zenon, <2>1 DEF Left, Due, Runs, OnDirectory, Copying
  <2> QED
    BY Zenon, <2>1, <2>2, <2>3, <2>4
<1>3. ASSUME NEW p \in pods, Write(p) PROVE MetricsInv'
  <2>1. /\ samples < MaxSamples /\ samples' = samples + 1
        /\ UNCHANGED <<deploy, exporter, job, pods, inflight, cut, rebuilt, outdated, received, broken>>
    BY Zenon, <1>3 DEF Write
  <2>2. samples' \in 1 .. MaxSamples /\ 1 .. samples \subseteq 1 .. samples' /\ samples' \in 1 .. samples'
    BY <2>1, MetricsAssumption DEF MetricsTypeOK
  <2>3. (Left => Left') /\ (Due => Due') /\ (Runs => Runs')
    BY Zenon, <2>1 DEF Left, Due, Runs, OnDirectory, Copying
  <2>4. CASE p = "host"
    <3>1. host' = host \cup {samples'} /\ Mixes /\ claim' = claim
      BY <1>3, <2>4 DEF Write
    <3>2. /\ mixed' \in BOOLEAN /\ (mixed => mixed') /\ (cut => mixed')
          /\ job # Missing /\ job.state \in {"copied", "succeeded"} => mixed'
      BY Zenon, <1>b, <3>1 DEF Mixes, Copying
    <3>3. MetricsTypeOK'
      BY <1>b, <1>g, <2>1, <2>2, <3>1, <3>2 DEF MetricsTypeOK
    <3>4. Copied'
      BY <2>1, <3>2 DEF Copied
    <3> QED
      BY Zenon, <2>1, <2>3, <3>1, <3>2, <3>3, <3>4
  <2>5. CASE p # "host"
    <3>1. claim' = [claim EXCEPT !.data = @ \cup {samples'}] /\ host' = host /\ mixed' = mixed
      BY <1>3, <2>5 DEF Write
    <3>2. claim # Missing /\ claim \in [node : Hosts \cup {Missing}, data : SUBSET (1..MaxSamples)]
      BY Zenon, <1>3, <2>5 DEF MetricsTypeOK
    <3>3. claim' \in [node : Hosts \cup {Missing}, data : SUBSET (1..MaxSamples)] /\ claim.data \subseteq claim'.data
      BY <2>2, <3>1, <3>2
    <3>4. claim' # Missing
      BY Zenon, <3>3, MetricsAssumption
    <3>5. MetricsTypeOK'
      BY <1>b, <1>g, <2>1, <2>2, <3>1, <3>3 DEF MetricsTypeOK
    <3>6. Holds => Holds'
      BY <3>1, <3>3, <3>4 DEF Holds
    <3>7. Copied'
      BY <2>1, <3>1, <3>6 DEF Copied
    <3> QED
      BY <2>1, <2>3, <3>1, <3>4, <3>5, <3>6, <3>7
  <2> QED
    BY Zenon, <2>4, <2>5
<1>4. ASSUME NEW x \in host, Expire(x) PROVE MetricsInv'
  <2>1. /\ host' = host \ {x} /\ Mixes
        /\ UNCHANGED <<deploy, exporter, claim, job, pods, samples, inflight, cut, rebuilt, outdated, received, broken>>
    BY Zenon, <1>4 DEF Expire
  <2>2. mixed' \in BOOLEAN /\ (mixed => mixed')
    BY Zenon, <1>b, <2>1 DEF Mixes
  <2>3. MetricsTypeOK'
    BY Zenon, <1>b, <1>g, <2>1, <2>2 DEF MetricsTypeOK
  <2>4. Holds => Holds'
    BY Zenon, <2>1 DEF Holds
  <2>5. Copied'
    BY <2>1, <2>2, <2>4 DEF Copied
  <2>6. (Left => Left') /\ (Due => Due') /\ (Runs => Runs')
    BY Zenon, <2>1 DEF Left, Due, Runs, OnDirectory, Copying
  <2> QED
    BY Zenon, <2>1, <2>2, <2>3, <2>4, <2>5, <2>6
\* The Job goes on.
<1>5. ASSUME NEW state \in {"copied", "succeeded", "failed"}, Copying, job' = [job EXCEPT !.state = state],
             UNCHANGED <<deploy, exporter, kubernetes, inflight, metricsGhosts, received, broken>>,
             claim' \in {Missing} \cup [node : Hosts \cup {Missing}, data : SUBSET (1..MaxSamples)],
             claim # Missing => claim' # Missing, Holds => Holds', state \in {"copied", "succeeded"} /\ ~mixed => Holds'
      PROVE  MetricsInv'
  <2>1. /\ job' \in [node : Hosts, state : {"copying", "copied", "succeeded", "failed"}] /\ job' # Missing
        /\ job'.state = state
    BY <1>5, MetricsAssumption DEF Copying, MetricsTypeOK
  <2>2. MetricsTypeOK'
    BY <1>b, <1>g, <1>5, <2>1 DEF MetricsTypeOK, kubernetes, metricsGhosts
  <2>3. Copied'
    BY <1>5, <2>1 DEF Copied, metricsGhosts
  <2>4. Left => Left'
    BY <1>5 DEF Left, OnDirectory, kubernetes, metricsGhosts
  \* A Job at work has no cutover that is due.
  <2>5. Left /\ Due => Due'
    BY <1>5 DEF Due, Copying
  <2>6. Runs => Runs'
    BY <1>5, <2>1 DEF Runs
  <2> QED
    BY <1>5, <2>2, <2>3, <2>4, <2>5, <2>6 DEF kubernetes, metricsGhosts
<1>6. CASE JobCopies
  <2>1. /\ Copying /\ claim # Missing /\ job.node \in Hosts
        /\ claim \in [node : Hosts \cup {Missing}, data : SUBSET (1..MaxSamples)]
    BY <1>6 DEF JobCopies, Copying, Usable, MetricsTypeOK
  <2>2. claim' = [node |-> job.node, data |-> claim.data \cup host] /\ host' = host
    BY Zenon, <1>6 DEF JobCopies
  <2>3. host \subseteq 1 .. MaxSamples
    BY MetricsAssumption DEF MetricsTypeOK
  <2>4. claim' \in [node : Hosts \cup {Missing}, data : SUBSET (1..MaxSamples)] /\ host' \subseteq claim'.data
    BY Zenon, <2>1, <2>2, <2>3
  <2>5. claim' # Missing /\ Holds'
    BY Zenon, <2>4, MetricsAssumption DEF Holds
  <2>6. /\ job' = [job EXCEPT !.state = "copied"]
        /\ UNCHANGED <<deploy, exporter, kubernetes, inflight, metricsGhosts, received, broken>>
    BY <1>6 DEF JobCopies, kubernetes
  <2> QED
    BY <1>5, <2>1, <2>4, <2>5, <2>6
<1>7. CASE JobCompares
  <2>1. Copying /\ job # Missing /\ job.state = "copied"
    BY <1>7 DEF JobCompares, Copying
  <2>2. UNCHANGED <<deploy, exporter, claim, kubernetes, inflight, metricsGhosts, received, broken>>
    BY Zenon, <1>7 DEF JobCompares
  <2>3. ~mixed => Holds
    BY <2>1 DEF Copied
  <2>4. Holds' <=> Holds
    BY Zenon, <2>2 DEF Holds, kubernetes
  <2>5. \E state \in {"succeeded", "failed"} : job' = [job EXCEPT !.state = state]
    BY Zenon, <1>7 DEF JobCompares
  <2>6. claim' \in {Missing} \cup [node : Hosts \cup {Missing}, data : SUBSET (1..MaxSamples)]
    BY Zenon, <2>2 DEF MetricsTypeOK
  <2> QED
    BY Zenon, <1>5, <2>1, <2>2, <2>3, <2>4, <2>5, <2>6
<1>8. CASE JobFails
  <2>1. Copying /\ job' = [job EXCEPT !.state = "failed"]
    BY <1>8 DEF JobFails, Copying
  <2>2. UNCHANGED <<deploy, exporter, claim, kubernetes, inflight, metricsGhosts, received, broken>>
    BY Zenon, <1>8 DEF JobFails
  <2>3. Holds' <=> Holds
    BY <2>2 DEF Holds, kubernetes
  <2>4. claim' \in {Missing} \cup [node : Hosts \cup {Missing}, data : SUBSET (1..MaxSamples)]
    BY <2>2 DEF MetricsTypeOK
  <2> QED
    BY Zenon, <1>5, <2>1, <2>2, <2>3, <2>4
<1>9. CASE Restart
  <2>1. /\ CallFails /\ inflight' = [s \in Callers |-> NoRequest]
        /\ UNCHANGED <<deploy, exporter, claim, job, pods, host, samples, cut, mixed, rebuilt, outdated, received>>
    BY Zenon, <1>9 DEF Restart, kubernetes, metricsGhosts
  <2>2. broken' \in 0 .. MaxBroken /\ broken' # 0
    BY Zenon, <2>1, Counted
  <2>3. inflight' \in [Callers -> InFlight] /\ \A s \in Callers : inflight'[s].pc = "idle"
    BY Zenon, <2>1 DEF InFlight, NoRequest
  <2>4. MetricsTypeOK'
    BY Zenon, <1>b, <1>g, <2>1, <2>2 DEF MetricsTypeOK
  <2>5. Copied' /\ ((cut /\ ~mixed => Holds)' <=> (cut /\ ~mixed => Holds))
    BY Zenon, <2>1 DEF Copied, Holds
  <2>6. (Left => Left') /\ Due' /\ (Runs => Runs')
    BY Zenon, <2>1, <2>2, <2>3 DEF Left, Due, Runs, OnDirectory, Copying
  <2> QED
    BY Zenon, <2>1, <2>3, <2>4, <2>5, <2>6
<1> QED
  BY Zenon, <1>1, <1>2, <1>3, <1>4, <1>6, <1>7, <1>8, <1>9

\* Every step keeps the invariant.
LEMMA MetricsInvStep == MetricsInv /\ [MetricsNext]_metricsVars => MetricsInv'
<1> SUFFICES ASSUME MetricsInv, [MetricsNext]_metricsVars PROVE MetricsInv'
  OBVIOUS
<1>1. ASSUME NEW s \in Callers, MetricsRequest(s) \/ MetricsStep(s) PROVE MetricsInv'
  BY Zenon, <1>1, Arrivals, StoreSteps, JobSteps, Reconciles DEF MetricsRequest, MetricsStep
<1>2. CASE UNCHANGED metricsVars
  <2>1. {exporter', cut', mixed', rebuilt', outdated'} \subseteq BOOLEAN
    BY Zenon, <1>2 DEF metricsVars, MetricsInv, MetricsTypeOK
  <2>2. MetricsTypeOK'
    BY Zenon, <1>2, <2>1 DEF metricsVars, MetricsInv, MetricsTypeOK
  <2>3. (Holds' <=> Holds) /\ (OnDirectory' <=> OnDirectory) /\ (Copying' <=> Copying)
    BY Zenon, <1>2 DEF metricsVars, Holds, OnDirectory, Copying
  <2>4. (Copied' <=> Copied) /\ (Left' <=> Left)
    BY Zenon, <1>2, <2>3 DEF metricsVars, Copied, Left
  <2>5. (Due' <=> Due) /\ (Runs' <=> Runs)
    BY Zenon, <1>2, <2>3 DEF metricsVars, Due, Runs
  <2> QED
    BY Zenon, <1>2, <2>2, <2>3, <2>4, <2>5 DEF metricsVars, MetricsInv
<1> QED
  BY Zenon, <1>1, <1>2, OutsideSteps DEF MetricsNext

\* The move of the metrics store from the directory to the claim, for any nodes,
\* requests, samples, failing calls and restarts: what was copied is there after the
\* cutover, the store is stopped only for a copy, and a copy has the claim to itself.
THEOREM SamplesKept == MetricsSpec => []MetricsKept
<1>1. MetricsInv => MetricsKept
  <2>1. MetricsInv => CutoverKeepsSamples
    BY Zenon DEF MetricsInv, CutoverKeepsSamples, Holds
  <2>2. MetricsInv => StoppedOnlyForJob
    BY RequestShapes DEF MetricsInv, StoppedOnlyForJob, Runs, Stopping, NoRequest
  <2>3. MetricsInv => CopyAlone
    BY DEF MetricsInv, CopyAlone, Left
  <2> QED
    BY <2>1, <2>2, <2>3 DEF MetricsInv, MetricsKept
<1> QED
  BY <1>1, MetricsInvInit, MetricsInvStep, PTL DEF MetricsSpec
=============================================================================
