--------------------------- MODULE RegistryProxies ---------------------------
(***************************************************************************)
(* Pull-through registry proxies: one row per instance, and a Deployment   *)
(* and a NodePort Service named after the row's resource name.  Deploy,    *)
(* Cleanup, Diagnose, MigrateResourceName and the status refresh each read *)
(* a row, call the cluster and save the whole row.                         *)
(***************************************************************************)
EXTENDS Naturals, FiniteSets

CONSTANTS Ids,             \* row ids
          Hosts,           \* registry domains; "docker.io" is one of them
          Ports, Slots,
          MaxRequests,     \* bound: requests and faults, together
          None

VARIABLES proxies,         \* registry_proxies: a row or None
          deployments,     \* by resource name: what the Deployment serves, or None
          services,        \* by resource name: the NodePort, or None
          wanted,          \* ghost: the outbound proxy the user last configured
          applied,         \* ghost: the last apply for the row succeeded
          slots,
          raced,           \* ghost: two deployments passed the port check together
          overlap,         \* ghost: two applying requests met, or two rows shared a name
          lost,            \* ghost: a row was saved from a stale read
          used

vars == <<proxies, deployments, services, wanted, applied, slots, raced, overlap, lost, used>>

Legacy == "cylism-registry-proxy"
Names == {Legacy} \cup Ids
Outbound == {"none", "a", "b"}   \* no outbound proxy, or one of two
NewRow == [host |-> None, port |-> None, res |-> None, out |-> "none", status |-> "new"]
Idle == [op |-> "idle", pc |-> "", id |-> None, row |-> None, read |-> None]
Cluster == <<deployments, services>>
Rows == {i \in Ids : proxies[i] # None}
Fault == used.requests + used.faults < MaxRequests /\ used' = [used EXCEPT !.faults = @ + 1]
End(s) == slots' = [slots EXCEPT ![s] = Idle]
Goto(s, pc) == slots' = [slots EXCEPT ![s].pc = pc]

Writers == {"deploy", "migrate"}

Begin(s, op, pc, i, row) ==
  /\ slots[s].op = "idle" /\ used.requests + used.faults < MaxRequests
  /\ used' = [used EXCEPT !.requests = @ + 1]
  /\ slots' = [slots EXCEPT ![s] = [op |-> op, pc |-> pc, id |-> i, row |-> row,
                                    read |-> IF i = None THEN None ELSE proxies[i]]]
  /\ overlap' = (overlap \/ (op \in Writers /\ \E o \in Slots \ {s} : slots[o].op \in Writers))

\* db.Save writes the whole row in memory.
SaveRegistryProxy(i, row, read) ==
  /\ proxies' = [proxies EXCEPT ![i] = row]
  /\ lost' = (lost \/ proxies[i] # read)

\* Rows from before instances had names keep the legacy resource name.
NormalizeRegistryProxy(row) ==
  [row EXCEPT !.host = IF @ = None THEN "docker.io" ELSE @,
              !.res = IF @ = None THEN Legacy ELSE @]

ProxyResourceName(row, i) == IF row.res # None THEN row.res ELSE i

validateNodePortAvailable(id, port) ==
  \A other \in Rows : other # id => proxies[other].port # port

\* A request without an outbound proxy keeps the stored one.
setOutboundProxy(row, input) ==
  CASE input = "clear" -> [row EXCEPT !.out = "none"]
    [] input = "keep" -> row
    [] OTHER -> [row EXCEPT !.out = input]

Init ==
  /\ proxies = [i \in Ids |-> None]
  /\ deployments = [n \in Names |-> None] /\ services = [n \in Names |-> None]
  /\ wanted = [i \in Ids |-> "none"] /\ applied = [i \in Ids |-> FALSE]
  /\ slots = [s \in Slots |-> Idle] /\ raced = FALSE /\ overlap = FALSE /\ lost = FALSE
  /\ used = [requests |-> 0, faults |-> 0]

(***************************************************************************)
(* Deploy: read, check the port, save, apply.                              *)
(***************************************************************************)

\* proxyForRequest: the row of the id in the path, or an empty row.
Deploy(s) ==
  /\ \/ \E i \in Rows : Begin(s, "deploy", "check", i, proxies[i])
     \/ Rows # Ids /\ Begin(s, "deploy", "check", None, NewRow)
  /\ UNCHANGED <<proxies, Cluster, wanted, applied, raced, lost>>

Saving(s) == {o \in Slots \ {s} : slots[o].op = "deploy" /\ slots[o].pc = "save"}

\* PrepareDeployment up to the save; the row it is handed is never nil, so it is
\* always normalised first.
PrepareDeployment(s) ==
  /\ slots[s].op = "deploy" /\ slots[s].pc = "check"
  /\ \E host \in Hosts, port \in Ports, input \in {"clear", "keep", "a", "b"} :
       LET row == setOutboundProxy([NormalizeRegistryProxy(slots[s].row) EXCEPT !.host = host, !.port = port], input)
       IN  IF validateNodePortAvailable(slots[s].id, port)
             THEN /\ slots' = [slots EXCEPT ![s].pc = "save", ![s].row = [row EXCEPT !.status = "deploying"]]
                  /\ raced' = (raced \/ Saving(s) # {})
             ELSE End(s) /\ UNCHANGED raced
  /\ UNCHANGED <<overlap, proxies, Cluster, wanted, applied, lost, used>>

\* A row without a resource name is saved a second time under its own.
PrepareDeploymentSave(s) ==
  /\ slots[s].op = "deploy" /\ slots[s].pc = "save"
  /\ \E i \in IF slots[s].id = None THEN Ids \ Rows ELSE {slots[s].id} :
       LET row == [slots[s].row EXCEPT !.res = ProxyResourceName(slots[s].row, i)]
       IN  /\ SaveRegistryProxy(i, row, slots[s].read)
           /\ slots' = [slots EXCEPT ![s].pc = "deployment", ![s].id = i, ![s].row = row, ![s].read = row]
           /\ wanted' = [wanted EXCEPT ![i] = row.out]
           /\ applied' = [applied EXCEPT ![i] = FALSE]
           /\ overlap' = (overlap \/ \E j \in Rows \ {i} : proxies[j].res = row.res)
  /\ UNCHANGED <<Cluster, raced, used>>

(***************************************************************************)
(* Apply: the Deployment, then the Service.                                *)
(***************************************************************************)

Serves(row) == [host |-> row.host, out |-> row.out]

\* The registry is part of the Deployment's selector, which cannot be changed.
SelectorFixed(row) == deployments[row.res] # None /\ deployments[row.res].host # row.host

\* Mutant: an existing Deployment is left as it is.
ApplyDeploymentOnce(s) ==
  /\ slots[s].pc = "deployment"
  /\ deployments' = [deployments EXCEPT ![slots[s].row.res] = IF @ = None THEN Serves(slots[s].row) ELSE @]
  /\ Goto(s, "service")
  /\ UNCHANGED <<overlap, proxies, services, wanted, applied, raced, lost, used>>

ApplyDeployment(s) ==
  LET row == slots[s].row
  IN  /\ slots[s].pc = "deployment"
      /\ ~SelectorFixed(row)
      /\ deployments' = [deployments EXCEPT ![row.res] = Serves(row)]
      /\ Goto(s, "service")
      /\ UNCHANGED <<overlap, proxies, services, wanted, applied, raced, lost, used>>

PortTaken(s) == \E n \in Names \ {slots[s].row.res} : services[n] = slots[s].row.port

\* The cluster refuses a NodePort another Service holds.
ApplyService(s) ==
  /\ slots[s].pc = "service" /\ ~PortTaken(s)
  /\ services' = [services EXCEPT ![slots[s].row.res] = slots[s].row.port]
  /\ applied' = [applied EXCEPT ![slots[s].id] = TRUE]
  /\ End(s)
  /\ UNCHANGED <<overlap, proxies, deployments, wanted, raced, lost, used>>

\* MarkFailed saves the row with the error.
MarkFailed(s) ==
  /\ \/ slots[s].pc = "deployment" /\ SelectorFixed(slots[s].row) /\ UNCHANGED used
     \/ slots[s].pc = "service" /\ PortTaken(s) /\ UNCHANGED used
     \/ slots[s].pc \in {"deployment", "service"} /\ Fault
  /\ SaveRegistryProxy(slots[s].id, [slots[s].row EXCEPT !.status = "failed"], slots[s].read)
  /\ applied' = [applied EXCEPT ![slots[s].id] = FALSE]
  /\ End(s)
  /\ UNCHANGED <<overlap, Cluster, wanted, raced>>

(***************************************************************************)
(* Status refresh (List, Get and the background pass), Cleanup, Diagnose.  *)
(***************************************************************************)

\* redactProxy blanks the outbound proxy in the copy that is answered.
redactProxy(row) == [row EXCEPT !.out = "none"]

RefreshRead(s, i) ==
  /\ i \in Rows
  /\ Begin(s, "refresh", "status", i, NormalizeRegistryProxy(proxies[i]))
  /\ UNCHANGED <<proxies, Cluster, wanted, applied, raced, lost>>

\* Mutant: the row is redacted before it is saved.
RefreshRedacted(s) ==
  /\ slots[s].pc = "status"
  /\ SaveRegistryProxy(slots[s].id, [redactProxy(slots[s].row) EXCEPT !.status = "ready"], slots[s].read)
  /\ End(s)
  /\ UNCHANGED <<overlap, Cluster, wanted, applied, raced, used>>

\* An available Deployment whose cleanup is due also loses its Pods.
Refresh(s) ==
  /\ slots[s].pc = "status"
  /\ \E status \in IF deployments[slots[s].row.res] = None THEN {"missing", "failed"}
                   ELSE {"ready", "deploying", "failed"} :
       SaveRegistryProxy(slots[s].id, [slots[s].row EXCEPT !.status = status], slots[s].read)
  /\ End(s)
  /\ UNCHANGED <<overlap, Cluster, wanted, applied, raced, used>>

\* ClearCache deletes Pods by name label; Diagnose only runs a probe in one.
ReadForCall(s, i) ==
  /\ i \in Rows
  /\ \E op \in {"cleanup", "diagnose"} : Begin(s, op, "call", i, NormalizeRegistryProxy(proxies[i]))
  /\ UNCHANGED <<proxies, Cluster, wanted, applied, raced, lost>>

Cleanup(s) ==
  /\ slots[s].op = "cleanup"
  /\ \/ /\ SaveRegistryProxy(slots[s].id, [slots[s].row EXCEPT !.status = "deploying"], slots[s].read)
        /\ UNCHANGED used
     \/ Fault /\ UNCHANGED <<proxies, lost>>
  /\ End(s)
  /\ UNCHANGED <<overlap, Cluster, wanted, applied, raced>>

Diagnose(s) ==
  /\ slots[s].op = "diagnose"
  /\ SaveRegistryProxy(slots[s].id, slots[s].row, slots[s].read)
  /\ End(s)
  /\ UNCHANGED <<overlap, Cluster, wanted, applied, raced, used>>

(***************************************************************************)
(* MigrateResourceName: delete the legacy objects, save, apply.            *)
(***************************************************************************)

MigrateResourceName(s, i) ==
  /\ i \in Rows
  /\ LET row == NormalizeRegistryProxy(proxies[i])
     IN  /\ row.res = Legacy /\ row.host = "docker.io"
         /\ Begin(s, "migrate", "delete", i, [row EXCEPT !.res = i, !.status = "deploying"])
  /\ UNCHANGED <<proxies, Cluster, wanted, applied, raced, lost>>

\* The Service first; its deletion failing leaves both, the Deployment's failing
\* leaves the Deployment.
DeleteLegacyResources(s) ==
  /\ slots[s].pc = "delete"
  /\ \/ /\ services' = [services EXCEPT ![Legacy] = None]
        /\ deployments' = [deployments EXCEPT ![Legacy] = None]
        /\ Goto(s, "rename") /\ UNCHANGED used
     \/ /\ Fault /\ End(s) /\ UNCHANGED deployments
        /\ services' \in {services, [services EXCEPT ![Legacy] = None]}
  /\ applied' = [applied EXCEPT ![slots[s].id] = FALSE]
  /\ UNCHANGED <<overlap, proxies, wanted, raced, lost>>

MigrateSave(s) ==
  /\ slots[s].pc = "rename"
  /\ SaveRegistryProxy(slots[s].id, slots[s].row, slots[s].read)
  /\ slots' = [slots EXCEPT ![s].pc = "deployment", ![s].read = slots[s].row]
  /\ UNCHANGED <<overlap, Cluster, wanted, applied, raced, used>>

\* The process stops, or the client goes away, in the middle of a request.
Crash(s) ==
  /\ slots[s].op # "idle" /\ Fault /\ End(s)
  /\ UNCHANGED <<overlap, proxies, Cluster, wanted, applied, raced, lost>>

Next ==
  \E s \in Slots :
    \/ Deploy(s) \/ PrepareDeployment(s) \/ PrepareDeploymentSave(s)
    \/ ApplyDeployment(s) \/ ApplyService(s) \/ MarkFailed(s)
    \/ Refresh(s) \/ Cleanup(s) \/ Diagnose(s) \/ DeleteLegacyResources(s) \/ MigrateSave(s) \/ Crash(s)
    \/ \E i \in Ids : RefreshRead(s, i) \/ ReadForCall(s, i) \/ MigrateResourceName(s, i)

Spec == Init /\ [][Next]_vars

(***************************************************************************)
(* Properties.                                                             *)
(***************************************************************************)

TypeOK ==
  /\ \A i \in Rows : /\ proxies[i].host \in Hosts \cup {None} /\ proxies[i].port \in Ports
                     /\ proxies[i].res \in Names /\ proxies[i].out \in Outbound
  /\ \A n \in Names : services[n] \in Ports \cup {None}
  /\ {lost, raced, overlap} \subseteq BOOLEAN

\* Two instances are stored with one NodePort only when two deployments passed
\* the port check together or a stale save put an old port back.
NodePortUnique ==
  raced \/ lost \/ \A i, j \in Rows : i # j => proxies[i].port # proxies[j].port

\* The stored outbound proxy is the one the user configured: the copies that are
\* redacted for an answer are never the ones that are saved.
OutboundProxyAsConfigured == lost \/ \A i \in Rows : proxies[i].out = wanted[i]

Shared(i) == \E j \in Rows \ {i} : proxies[j].res = proxies[i].res
Quiet == \A s \in Slots : slots[s].op = "idle"

\* With nothing in flight, an instance whose last apply succeeded and whose
\* resource name was never another's is served with the configuration its row
\* holds.
ServedAsStored ==
  Quiet /\ ~lost /\ ~overlap =>
    \A i \in Rows : applied[i] =>
      /\ deployments[proxies[i].res] = Serves(proxies[i])
      /\ services[proxies[i].res] = proxies[i].port

\* Every instance has Kubernetes resources of its own.
IndependentResources == \A i \in Rows : ~Shared(i)
=============================================================================
