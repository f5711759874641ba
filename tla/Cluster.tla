------------------------------- MODULE Cluster -------------------------------
(* Nodes of the cluster and the servers the platform knows by SSH: drain,     *)
(* forced drain of a failed node, return and removal of a node, import and    *)
(* join of a server, and the binding of a server row to a node.               *)
(*                                                                            *)
(* A drain works off a plan made before the node is cordoned, and names Pods  *)
(* by their names: a Pod of a StatefulSet that was recreated on another node  *)
(* has the name it had.  A server row is read, changed and saved as a whole,  *)
(* so that a save writes back what other requests have changed in between.    *)
EXTENDS Naturals, FiniteSets

CONSTANTS
  Nodes,          \* names of cluster nodes
  ControlPlane,   \* those that run the control plane
  Pods,           \* names of Pods
  Kind,           \* Kind[p]: "managed", "local" (with an emptyDir), "bare", "daemon"
  Servers,        \* rows of the server table
  Host,           \* Host[v]: the node name the host of a server registers with
  Slots, MaxRequests, MaxFaults, None

\* No node is taken for another value of the field it is in, every server has a host,
\* and a row of a server is not what stands for none.
ASSUME ClusterAssumption ==
  /\ {None, "pending"} \cap Nodes = {} /\ ControlPlane \subseteq Nodes
  /\ Host \in [Servers -> Nodes]
  /\ \A row \in [node : Nodes \cup {None}, role : {"", "worker", "control-plane"}] : row # None

VARIABLES
  nodes,     \* None or [health, cordoned, version]; version counts the writes
  at,        \* node a Pod runs on, "pending" while it waits for one, or None
  servers,   \* None or [node, role]: the row of a server
  slots,     \* requests being served
  strayed,   \* Pods a drain disrupted while they ran on another node
  overlap,   \* a Pod on the list of a running drain was placed anew
  bareLost,  \* Pods without a controller that the platform made disappear
  stale,     \* servers saved from a row that had changed since it was read
  unbound,   \* nodes removed with all servers unbound
  requests, faults

vars == <<nodes, at, servers, slots, strayed, overlap, bareLost, stale, unbound,
          requests, faults>>

ghosts == <<strayed, overlap, bareLost, stale, unbound>>

Idle == [op |-> "idle"]

Start(s, slot) ==
  /\ slots[s] = Idle
  /\ requests < MaxRequests
  /\ requests' = requests + 1
  /\ slots' = [slots EXCEPT ![s] = slot]
  /\ UNCHANGED <<ghosts, faults>>

Done(s) == slots' = [slots EXCEPT ![s] = Idle]

-----------------------------------------------------------------------------
(* Nodes.                                                                     *)

nodeReady(n) == nodes[n].health = "ready"

PlanAll(n) ==
  [evictable |-> {p \in Pods : at[p] \in Nodes /\ Kind[p] = "managed"},
   local |-> {p \in Pods : at[p] = n /\ Kind[p] = "local"},
   blocked |-> {p \in Pods : at[p] = n /\ Kind[p] = "bare"}]

(* DaemonSet and static Pods are skipped, Pods without a controller block.    *)
DrainPlan(n) ==
  [evictable |-> {p \in Pods : at[p] = n /\ Kind[p] = "managed"},
   local |-> {p \in Pods : at[p] = n /\ Kind[p] = "local"},
   blocked |-> {p \in Pods : at[p] = n /\ Kind[p] = "bare"}]

Update(n, node) == nodes' = [nodes EXCEPT ![n] = [node EXCEPT !.version = @ + 1]]

(* The plan is made and judged first; the node is read again to be cordoned.  *)
DrainNode(s, n, emptyDirs) ==
  /\ nodes[n] # None
  /\ LET plan == DrainPlan(n)
     IN /\ plan.blocked = {}
        /\ plan.local # {} => emptyDirs
        /\ Start(s, [op |-> "cordon", node |-> n, force |-> FALSE, version |-> 0,
                     todo |-> plan.evictable \cup plan.local])
  /\ UNCHANGED <<nodes, at, servers>>

(* A forced drain is for a failed worker, and writes back the node it judged. *)
(* Pods without a controller do not block it; they are left alone.            *)
ForceDrainNode(s, n, emptyDirs) ==
  /\ nodes[n] # None
  /\ n \notin ControlPlane
  /\ nodes[n].health = "failed"
  /\ LET plan == DrainPlan(n)
     IN /\ plan.local # {} => emptyDirs
        /\ Start(s, [op |-> "cordon", node |-> n, force |-> TRUE,
                     version |-> nodes[n].version,
                     todo |-> plan.evictable \cup plan.local])
  /\ UNCHANGED <<nodes, at, servers>>

(* The API server refuses a node that has changed since it was read.          *)
Cordon(s) ==
  /\ slots[s].op = "cordon"
  /\ LET n == slots[s].node
     IN IF nodes[n] = None \/ (slots[s].force /\ nodes[n].version # slots[s].version)
        THEN Done(s) /\ UNCHANGED nodes
        ELSE /\ Update(n, [nodes[n] EXCEPT !.cordoned = TRUE])
             /\ slots' = [slots EXCEPT ![s] =
                  IF @.todo = {} THEN Idle ELSE [@ EXCEPT !.op = "evict"]]
  /\ UNCHANGED <<at, servers, ghosts, requests, faults>>

(* One candidate after the other, by name.  An eviction may be refused by a   *)
(* disruption budget and is then left pending; a forced deletion is not.      *)
(* The controller makes the Pod anew, and it waits for a node.                *)
Evict(s) ==
  /\ slots[s].op = "evict"
  /\ \E p \in slots[s].todo :
       /\ slots' = [slots EXCEPT ![s] =
            IF @.todo = {p} THEN Idle ELSE [@ EXCEPT !.todo = slots[s].todo \ {p}]]
       /\ \/ /\ at[p] \in Nodes
             /\ at' = [at EXCEPT ![p] = "pending"]
             /\ strayed' = IF at[p] # slots[s].node THEN strayed \cup {p} ELSE strayed
          \/ /\ ~slots[s].force \/ at[p] \notin Nodes
             /\ UNCHANGED <<at, strayed>>
  /\ UNCHANGED <<nodes, servers, overlap, bareLost, stale, unbound,
                 requests, faults>>

RejoinNode(s, n) ==
  /\ nodes[n] # None
  /\ slots[s] = Idle
  /\ requests < MaxRequests
  /\ requests' = requests + 1
  /\ IF nodes[n].cordoned THEN Update(n, [nodes[n] EXCEPT !.cordoned = FALSE])
     ELSE UNCHANGED nodes
  /\ UNCHANGED <<at, servers, slots, ghosts, faults>>

(* Removal wants the node cordoned, stopped and empty.                        *)
NodeRemovalCheck(n) ==
  /\ nodes[n].cordoned
  /\ ~nodeReady(n)
  /\ DrainPlan(n) = [evictable |-> {}, local |-> {}, blocked |-> {}]

RemoveNode(s, n) ==
  /\ nodes[n] # None
  /\ NodeRemovalCheck(n)
  /\ Start(s, [op |-> "delete", node |-> n])
  /\ UNCHANGED <<nodes, at, servers>>

(* The node object goes whatever has become of it since the check; the Pods   *)
(* still placed on it go with it, and come back if a controller owns them.    *)
DeleteNode(s) ==
  /\ slots[s].op = "delete"
  /\ LET n == slots[s].node
     IN IF nodes[n] = None
        THEN Done(s) /\ UNCHANGED <<nodes, at, bareLost>>
        ELSE /\ nodes' = [nodes EXCEPT ![n] = None]
             /\ at' = [p \in Pods |-> IF at[p] # n THEN at[p]
                                      ELSE IF Kind[p] = "bare" THEN None ELSE "pending"]
             /\ bareLost' = bareLost \cup {p \in Pods : at[p] = n /\ Kind[p] = "bare"}
             /\ slots' = [slots EXCEPT ![s] = [op |-> "unbind", node |-> n]]
  /\ UNCHANGED <<servers, strayed, overlap, stale, unbound, requests, faults>>

UnbindNone(n) == servers

(* One statement for every server bound to the node.                          *)
UnbindServersFromClusterNode(n) ==
  [v \in Servers |-> IF servers[v] # None /\ servers[v].node = n
                     THEN [node |-> None, role |-> ""] ELSE servers[v]]

RemoveUnbinds(s) ==
  /\ slots[s].op = "unbind"
  /\ servers' = UnbindServersFromClusterNode(slots[s].node)
  /\ unbound' = unbound \cup {slots[s].node}
  /\ Done(s)
  /\ UNCHANGED <<nodes, at, strayed, overlap, bareLost, stale, requests, faults>>

(* Labels under a protected prefix are refused; any other change is a write   *)
(* of the node.                                                               *)
UpdateNodeLabels(s, n) ==
  /\ nodes[n] # None
  /\ slots[s] = Idle
  /\ requests < MaxRequests
  /\ requests' = requests + 1
  /\ Update(n, nodes[n])
  /\ UNCHANGED <<at, servers, slots, ghosts, faults>>

-----------------------------------------------------------------------------
(* Servers.                                                                   *)

(* Saving a row writes every column, and brings a deleted row back.           *)
SaveServer(s, v, row) ==
  /\ servers' = [servers EXCEPT ![v] = row]
  /\ stale' = IF servers[v] # slots[s].row THEN stale \cup {v} ELSE stale

CreateServer(s, v) ==
  /\ servers[v] = None /\ v \notin stale
  /\ slots[s] = Idle
  /\ requests < MaxRequests
  /\ requests' = requests + 1
  /\ servers' = [servers EXCEPT ![v] = [node |-> None, role |-> ""]]
  /\ UNCHANGED <<nodes, at, slots, ghosts, faults>>

DeleteServer(s, v) ==
  /\ servers[v] # None
  /\ slots[s] = Idle
  /\ requests < MaxRequests
  /\ requests' = requests + 1
  /\ servers' = [servers EXCEPT ![v] = None]
  /\ UNCHANGED <<nodes, at, slots, ghosts, faults>>

(* Update, unbinding and confirmed import read the row and save it.           *)
ReadServer(s, v, op) ==
  /\ servers[v] # None
  /\ Start(s, [op |-> op, server |-> v, row |-> servers[v]])
  /\ UNCHANGED <<nodes, at, servers>>

UpdateServer(s) ==
  /\ slots[s].op = "update"
  /\ SaveServer(s, slots[s].server, slots[s].row)
  /\ Done(s)
  /\ UNCHANGED <<nodes, at, strayed, overlap, bareLost, unbound, requests, faults>>

UnbindServer(s) ==
  /\ slots[s].op = "release"
  /\ SaveServer(s, slots[s].server, [node |-> None, role |-> ""])
  /\ Done(s)
  /\ UNCHANGED <<nodes, at, strayed, overlap, bareLost, unbound, requests, faults>>

(* An import is proposed for a ready node that has the host's name or address *)
(* and confirmed by a second request, which looks at no node any more.        *)
PreImportServer(v) ==
  nodes[Host[v]] # None /\ nodeReady(Host[v])

ConfirmImport(s) ==
  /\ slots[s].op = "import"
  /\ LET v == slots[s].server
         n == Host[v]
     IN /\ SaveServer(s, v, [node |-> n,
                             role |-> IF n \in ControlPlane THEN "control-plane" ELSE "worker"])
        /\ unbound' = unbound \ {n}
  /\ Done(s)
  /\ UNCHANGED <<nodes, at, strayed, overlap, bareLost, requests, faults>>

(* Listing the servers drops the bindings to nodes that are gone, unless the  *)
(* nodes cannot be read.  Nodes are read before the bindings are dropped.     *)
ListServers(s) ==
  /\ Start(s, [op |-> "list",
               gone |-> {n \in Nodes : /\ nodes[n] = None
                                       /\ \E v \in Servers : servers[v] # None /\ servers[v].node = n}])
  /\ UNCHANGED <<nodes, at, servers>>

Reconcile(s) ==
  /\ slots[s].op = "list"
  /\ servers' = [v \in Servers |->
       IF servers[v] # None /\ servers[v].node \in slots[s].gone
       THEN [node |-> None, role |-> ""] ELSE servers[v]]
  /\ Done(s)
  /\ UNCHANGED <<nodes, at, ghosts, requests, faults>>

-----------------------------------------------------------------------------
(* Join of a server as a worker, driven by a goroutine that reports over a    *)
(* web socket.  The five checks, the installation and the start of the agent  *)
(* run over SSH on the context of the request; a client that closes the       *)
(* socket, or the end of the handler, stops it where it is.                   *)

JoinProgress(s, v) ==
  /\ servers[v] # None
  /\ Start(s, [op |-> "join", server |-> v, row |-> servers[v], phase |-> "check"])
  /\ UNCHANGED <<nodes, at, servers>>

(* The five checks.                                                          *)
JoinChecks(s) ==
  /\ slots[s].op = "join" /\ slots[s].phase = "check"
  /\ slots' = [slots EXCEPT ![s].phase = "install"]
  /\ UNCHANGED <<nodes, at, servers, ghosts, requests, faults>>

JoinInstall(s) ==
  /\ slots[s].op = "join" /\ slots[s].phase = "install"
  /\ LET n == Host[slots[s].server] IN
       nodes' = IF nodes[n] # None THEN nodes
                ELSE [nodes EXCEPT ![n] = [health |-> "not_ready", cordoned |-> FALSE,
                                           version |-> 0]]
  /\ slots' = [slots EXCEPT ![s].phase = "wait"]
  /\ UNCHANGED <<at, servers, ghosts, requests, faults>>

(* The wait looks for the node the row named when the join began.             *)
JoinNode(s) == slots[s].row.node

JoinReady(s) == JoinNode(s) # None /\ nodes[JoinNode(s)] # None /\ nodeReady(JoinNode(s))

JoinWait(s) ==
  /\ slots[s].op = "join" /\ slots[s].phase = "wait"
  /\ IF JoinReady(s) THEN slots' = [slots EXCEPT ![s].phase = "bind"] ELSE Done(s)
  /\ UNCHANGED <<nodes, at, servers, ghosts, requests, faults>>

(* The row saved is the one read before the installation; the name of the    *)
(* host is asked for once more, and kept as it was if that fails.             *)
JoinBind(s) ==
  /\ slots[s].op = "join" /\ slots[s].phase = "bind"
  /\ \E n \in {Host[slots[s].server], JoinNode(s)} :
       /\ SaveServer(s, slots[s].server, [node |-> n, role |-> "worker"])
       /\ unbound' = unbound \ {n}
  /\ Done(s)
  /\ UNCHANGED <<nodes, at, strayed, overlap, bareLost, requests, faults>>

(* The handler returns as soon as the join has begun, which ends the context  *)
(* the join works on; or the client closes the socket.                        *)
JoinCut(s) ==
  /\ slots[s].op = "join"
  /\ Done(s)
  /\ UNCHANGED <<nodes, at, servers, ghosts, requests, faults>>

-----------------------------------------------------------------------------
(* The cluster.                                                               *)

(* A waiting Pod is placed on a ready node that is not cordoned.  Placing a   *)
(* Pod a running drain still has on its list makes that list stale.           *)
Schedule ==
  /\ \E p \in Pods, n \in Nodes :
       /\ at[p] = "pending"
       /\ nodes[n] # None /\ nodeReady(n) /\ ~nodes[n].cordoned
       /\ at' = [at EXCEPT ![p] = n]
       /\ overlap' = (overlap \/ \E s \in Slots :
                        slots[s].op \in {"cordon", "evict"} /\ p \in slots[s].todo)
  /\ UNCHANGED <<nodes, servers, slots, strayed, bareLost, stale, unbound,
                 requests, faults>>

(* A node stops reporting, is taken for failed after five minutes, and comes  *)
(* back; a status report is a write of the node.                              *)
HealthChanges ==
  /\ \E n \in Nodes :
       /\ nodes[n] # None
       /\ \E h \in {"ready", "not_ready", "failed"} :
            /\ nodes[n].health # h
            /\ h = "failed" => nodes[n].health = "not_ready"
            /\ h = "not_ready" => nodes[n].health = "ready"
            /\ Update(n, [nodes[n] EXCEPT !.health = h])
  /\ UNCHANGED <<at, servers, slots, ghosts, requests>>
  /\ faults < MaxFaults /\ faults' = faults + 1

(* A node that was just installed becomes ready.                              *)
Registers ==
  /\ \E n \in Nodes :
       /\ nodes[n] # None /\ nodes[n].version = 0 /\ nodes[n].health = "not_ready"
       /\ Update(n, [nodes[n] EXCEPT !.health = "ready"])
  /\ UNCHANGED <<at, servers, slots, ghosts, requests, faults>>

(* A call fails, the client goes away or the platform stops.                  *)
Fail(s) ==
  /\ slots[s] # Idle
  /\ faults < MaxFaults
  /\ faults' = faults + 1
  /\ Done(s)
  /\ UNCHANGED <<nodes, at, servers, ghosts, requests>>

Arrives(s) ==
  \/ \E n \in Nodes, e \in BOOLEAN : DrainNode(s, n, e) \/ ForceDrainNode(s, n, e)
  \/ \E n \in Nodes : RejoinNode(s, n) \/ RemoveNode(s, n) \/ UpdateNodeLabels(s, n)
  \/ \E v \in Servers :
       \/ CreateServer(s, v) \/ DeleteServer(s, v) \/ JoinProgress(s, v)
       \/ ReadServer(s, v, "update") \/ ReadServer(s, v, "release")
       \/ PreImportServer(v) /\ ReadServer(s, v, "import")
  \/ ListServers(s)

Step(s) ==
  \/ Cordon(s) \/ Evict(s) \/ DeleteNode(s) \/ RemoveUnbinds(s)
  \/ UpdateServer(s) \/ UnbindServer(s) \/ ConfirmImport(s) \/ Reconcile(s)
  \/ JoinChecks(s) \/ JoinInstall(s) \/ JoinWait(s) \/ JoinBind(s) \/ JoinCut(s) \/ Fail(s)

(* A cluster of ready nodes, some of them not joined yet; the server of a     *)
(* node that runs may be bound to it.                                         *)
Init ==
  /\ \E up \in SUBSET Nodes :
       /\ ControlPlane \subseteq up
       /\ nodes = [n \in Nodes |-> IF n \in up THEN [health |-> "ready",
                                       cordoned |-> FALSE, version |-> 1] ELSE None]
       /\ at \in [Pods -> up]
       /\ servers = [v \in Servers |-> [node |-> IF Host[v] \in up THEN Host[v] ELSE None,
                       role |-> IF Host[v] \in up THEN "worker" ELSE ""]]
  /\ slots = [s \in Slots |-> Idle]
  /\ strayed = {} /\ overlap = FALSE /\ bareLost = {} /\ stale = {} /\ unbound = {}
  /\ requests = 0 /\ faults = 0

Next ==
  \/ \E s \in Slots : Arrives(s) \/ Step(s)
  \/ Schedule \/ HealthChanges \/ Registers

Spec == Init /\ [][Next]_vars

-----------------------------------------------------------------------------
TypeOK ==
  /\ \A n \in Nodes : nodes[n] # None =>
       nodes[n].health \in {"ready", "not_ready", "failed"} /\ nodes[n].cordoned \in BOOLEAN
  /\ \A p \in Pods : at[p] \in Nodes \cup {"pending", None}
  /\ \A v \in Servers : servers[v] # None =>
       servers[v].role \in {"", "worker", "control-plane"}
  /\ strayed \cup bareLost \subseteq Pods

(* A drain, forced or not, disrupts only Pods of the node it was asked for,   *)
(* unless a Pod on its list was recreated elsewhere while it worked; and no   *)
(* Pod without a controller is ever lost to a drain or to the removal of a    *)
(* node.                                                                      *)
DrainsSafe ==
  /\ strayed # {} => overlap
  /\ bareLost = {}

(* After the platform has removed a node no server is bound to it, until a    *)
(* server is imported or joined again, or a row read before is saved after.   *)
RemovedUnbound ==
  \A v \in Servers :
    servers[v] # None /\ servers[v].node \in unbound => v \in stale

(* A drain evicts only what its plan allows, and a node that was removed is   *)
(* bound to no server.                                                        *)
NodesLeaveClean == TypeOK /\ DrainsSafe /\ RemovedUnbound
=============================================================================
