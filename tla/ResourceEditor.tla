--------------------------- MODULE ResourceEditor ---------------------------
(***************************************************************************)
(* The console's editor of cluster resources: ConfigMaps and Opaque        *)
(* Secrets (api/infrastructure/kubernetes/k8s_handler.go over              *)
(* k8s/config.go), namespaces, replica counts, images and rollbacks of     *)
(* workloads (k8s/workload.go), Services and plain Ingresses.              *)
(*                                                                         *)
(* Requests run side by side and every call to the API server is a step of *)
(* its own.  An update reads the object and writes it back with the        *)
(* resourceVersion it read, so the API server refuses it when somebody     *)
(* else wrote in between.  A deletion carries no version: it asks three    *)
(* lists of workloads and the database who uses the object, one after the  *)
(* other, and then deletes by name.                                        *)
(*                                                                         *)
(* All contents live in the namespace Home, which holds one ConfigMap, one *)
(* Secret, one workload of each kind, one Service and one Ingress.         *)
(***************************************************************************)
EXTENDS Naturals, FiniteSets, Functions

CONSTANTS
    Namespaces,      \* names of namespaces
    Home,            \* the namespace whose contents are modelled
    Protected,       \* the names isProtectedNamespace lists
    Edits,           \* what a request may send as data: functions from some keys to values
    Blank,           \* the value "" of a key
    Images,          \* container images
    Containers,      \* container names a request may send
    Main,            \* the container a workload really has
    Slots,           \* requests in flight
    MaxRequests,     \* bound: requests in a behaviour
    MaxFaults,       \* bound: API calls or database reads that fail
    MaxWrites,       \* bound: writes of a workload by somebody else
    None

VARIABLES
    namespaces,   \* namespace -> its labels, or None when it does not exist
    objects,      \* kind -> the ConfigMap or Secret, or None
    workloads,    \* kind -> the workload, or None
    mounts,       \* kinds that a saved template or release mounts a file from
    service,      \* the Service exists
    ingress,      \* the Service port the Ingress sends to, or None
    slots,        \* the requests in flight
    requests, faults, writes

vars == <<namespaces, objects, workloads, mounts, service, ingress, slots, requests, faults, writes>>

Kinds == {"ConfigMap", "Secret"}
WorkloadKinds == {"Deployment", "StatefulSet", "DaemonSet"}

\* Where a workload names an object: in a container's environment or a volume,
\* or in a place the search never opens (an init container, a projected volume,
\* an image pull secret).
Places == {"container", "elsewhere"}
References == [kind : Kinds, place : Places]

Idle == [pc |-> "idle", kind |-> None, edit |-> None, read |-> None, used |-> FALSE, blind |-> {}]

Labels == {"platform", "sent"}
Pcs == {"idle", "namespaceWrite", "update", "get", "Deployment", "StatefulSet", "DaemonSet",
        "references", "recheck", "delete", "scale", "rollback", "serviceWrite"}

\* One state of each variable has its shape; versions count the writes of an object.
TypeOK ==
    /\ namespaces \in [Namespaces -> Labels \cup {None}]
    /\ \A k \in Kinds : objects[k] = None
         \/ /\ objects[k].type \in {"ConfigMap", "Opaque", "tls"}
            /\ objects[k].version \in Nat
    /\ \A w \in WorkloadKinds : workloads[w] = None
         \/ /\ workloads[w].refs \subseteq References
            /\ workloads[w].replicas \in Nat
            /\ workloads[w].version \in Nat
    /\ mounts \subseteq Kinds
    /\ service \in BOOLEAN
    /\ ingress \in {"number", "name", None}
    /\ \A s \in Slots : slots[s].pc \in Pcs /\ slots[s].blind \subseteq WorkloadKinds \cup {"database"}
    /\ requests \in 0 .. MaxRequests /\ faults \in 0 .. MaxFaults /\ writes \in 0 .. MaxWrites

Workload(refs, image) == [refs |-> refs, images |-> [c \in {Main} |-> image], replicas |-> 1, version |-> 0]

Init ==
    /\ namespaces = [n \in Namespaces |-> IF n = Home \/ n \in Protected THEN "platform" ELSE None]
    /\ \E secret \in {"Opaque", "tls"}, data \in Edits :
         objects = [k \in Kinds |-> [type |-> IF k = "Secret" THEN secret ELSE "ConfigMap", data |-> data, version |-> 0]]
    /\ workloads = [w \in WorkloadKinds |-> Workload({}, CHOOSE i \in Images : TRUE)]
    /\ mounts = {}
    /\ service = TRUE /\ ingress = None
    /\ slots = [s \in Slots |-> Idle]
    /\ requests = 0 /\ faults = 0 /\ writes = 0

-----------------------------------------------------------------------------
(* Requests: one slot each, every API call one step.                       *)

Arrive(s) == slots[s].pc = "idle" /\ requests < MaxRequests /\ requests' = requests + 1
Enter(s, r) == slots' = [slots EXCEPT ![s] = r]
Done(s) == slots' = [slots EXCEPT ![s] = Idle]
At(s, pc) == slots[s].pc = pc
Go(s, pc) == slots' = [slots EXCEPT ![s].pc = pc]
Present == namespaces[Home] # None

\* Any call to the API server or the database may fail; the handler answers
\* with the error and changes nothing.  A failing list of workloads is the
\* exception: see ListRefs.
Fail(s) ==
    /\ slots[s].pc \notin {"idle"} \cup WorkloadKinds
    /\ faults < MaxFaults /\ faults' = faults + 1
    /\ Done(s)
    /\ UNCHANGED <<namespaces, objects, workloads, mounts, service, ingress, requests, writes>>

-----------------------------------------------------------------------------
(* Namespaces.                                                             *)

\* A namespace is created with the labels the request sends.
CreateNamespace(s, n) ==
    /\ Arrive(s) /\ namespaces[n] = None
    /\ namespaces' = [namespaces EXCEPT ![n] = "sent"]
    /\ UNCHANGED <<objects, workloads, mounts, service, ingress, slots, faults, writes>>

\* UpdateNamespace reads the namespace ...
UpdateNamespace(s, n) ==
    /\ Arrive(s) /\ namespaces[n] # None
    /\ Enter(s, [Idle EXCEPT !.pc = "namespaceWrite", !.read = n])
    /\ UNCHANGED <<namespaces, objects, workloads, mounts, service, ingress, faults, writes>>

\* ... and replaces all of its labels and annotations by those sent.
UpdateNamespaceWrite(s) ==
    /\ At(s, "namespaceWrite")
    /\ namespaces' = [namespaces EXCEPT ![slots[s].read] = IF @ = None THEN None ELSE "sent"]
    /\ Done(s)
    /\ UNCHANGED <<objects, workloads, mounts, service, ingress, requests, faults, writes>>

isProtectedNamespace(n) == n \in Protected

\* Deleting a namespace takes everything in it along.  Nobody asks whether an
\* environment is bound to it.
DeleteNamespace(s, n) ==
    /\ Arrive(s) /\ ~isProtectedNamespace(n) /\ namespaces[n] # None
    /\ namespaces' = [namespaces EXCEPT ![n] = None]
    /\ IF n = Home
       THEN /\ objects' = [k \in Kinds |-> None]
            /\ workloads' = [w \in WorkloadKinds |-> None]
            /\ service' = FALSE /\ ingress' = None
       ELSE UNCHANGED <<objects, workloads, service, ingress>>
    /\ UNCHANGED <<mounts, slots, faults, writes>>

-----------------------------------------------------------------------------
(* ConfigMaps and Opaque Secrets.                                          *)

TypeOf(kind) == IF kind = "ConfigMap" THEN "ConfigMap" ELSE "Opaque"

\* validateResourceDataRequest: the names and keys must be ones Kubernetes accepts.
validateResourceDataRequest(edit) == edit \in Edits

CreateConfigMapContext(edit) == [type |-> "ConfigMap", data |-> edit, version |-> 0]
CreateOpaqueSecretContext(edit) == [type |-> "Opaque", data |-> edit, version |-> 0]

CreateConfigMap(s, edit) ==
    /\ Arrive(s) /\ validateResourceDataRequest(edit)
    /\ Present /\ objects["ConfigMap"] = None
    /\ objects' = [objects EXCEPT !["ConfigMap"] = CreateConfigMapContext(edit)]
    /\ UNCHANGED <<namespaces, workloads, mounts, service, ingress, slots, faults, writes>>

CreateOpaqueSecret(s, edit) ==
    /\ Arrive(s) /\ validateResourceDataRequest(edit)
    /\ Present /\ objects["Secret"] = None
    /\ objects' = [objects EXCEPT !["Secret"] = CreateOpaqueSecretContext(edit)]
    /\ UNCHANGED <<namespaces, workloads, mounts, service, ingress, slots, faults, writes>>

\* Both updates start by reading the object; one that is missing, or a Secret
\* of another type, is refused.
UpdateConfigMap(s, edit) ==
    /\ Arrive(s) /\ validateResourceDataRequest(edit) /\ objects["ConfigMap"] # None
    /\ Enter(s, [Idle EXCEPT !.pc = "update", !.kind = "ConfigMap", !.edit = edit, !.read = objects["ConfigMap"]])
    /\ UNCHANGED <<namespaces, objects, workloads, mounts, service, ingress, faults, writes>>

UpdateOpaqueSecret(s, edit) ==
    /\ Arrive(s) /\ validateResourceDataRequest(edit)
    /\ objects["Secret"] # None /\ objects["Secret"].type = "Opaque"
    /\ Enter(s, [Idle EXCEPT !.pc = "update", !.kind = "Secret", !.edit = edit, !.read = objects["Secret"]])
    /\ UNCHANGED <<namespaces, objects, workloads, mounts, service, ingress, faults, writes>>

\* The data written: a ConfigMap's is replaced; in a Secret's a key sent blank
\* keeps the value that was read, because the form never shows it.
UpdateConfigMapContext(read, edit) == [read EXCEPT !.data = edit, !.version = @ + 1]
UpdateOpaqueSecretContext(read, edit) ==
    [read EXCEPT !.data = [k \in DOMAIN edit |-> IF edit[k] = Blank /\ k \in DOMAIN read.data THEN read.data[k] ELSE edit[k]],
                 !.version = @ + 1]

\* The API server takes a write only at the version it was read at.
VersionHolds(now, read) == now # None /\ now.version = read.version

UpdateWrite(s) ==
    /\ At(s, "update")
    /\ LET r == slots[s]
           now == objects[r.kind] IN
       IF VersionHolds(now, r.read)
       THEN objects' = [objects EXCEPT ![r.kind] = IF r.kind = "ConfigMap"
                                                   THEN UpdateConfigMapContext(r.read, r.edit)
                                                   ELSE UpdateOpaqueSecretContext(r.read, r.edit)]
       ELSE UNCHANGED objects
    /\ Done(s)
    /\ UNCHANGED <<namespaces, workloads, mounts, service, ingress, requests, faults, writes>>

\* A deletion first reads the object, and then searches its users.
GetConfigMapContext == [Idle EXCEPT !.pc = "Deployment", !.kind = "ConfigMap", !.read = objects["ConfigMap"]]
GetSecretContext == [Idle EXCEPT !.pc = "Deployment", !.kind = "Secret", !.read = objects["Secret"]]

DeleteConfigMap(s) ==
    /\ Arrive(s) /\ objects["ConfigMap"] # None
    /\ Enter(s, GetConfigMapContext)
    /\ UNCHANGED <<namespaces, objects, workloads, mounts, service, ingress, faults, writes>>

DeleteOpaqueSecret(s) ==
    /\ Arrive(s) /\ objects["Secret"] # None
    /\ Enter(s, GetSecretContext)
    /\ UNCHANGED <<namespaces, objects, workloads, mounts, service, ingress, faults, writes>>

Named(w, kind) == workloads[w] # None /\ [kind |-> kind, place |-> "container"] \in workloads[w].refs

NotListed(kind) == FALSE
findRefsInDeployments(kind) == Named("Deployment", kind)
findRefsInStatefulSets(kind) == Named("StatefulSet", kind)
findRefsInDaemonSets(kind) == Named("DaemonSet", kind)

Found(w, kind) ==
    CASE w = "Deployment" -> findRefsInDeployments(kind)
      [] w = "StatefulSet" -> findRefsInStatefulSets(kind)
      [] w = "DaemonSet" -> findRefsInDaemonSets(kind)

Following == [w \in WorkloadKinds |->
    CASE w = "Deployment" -> "StatefulSet" [] w = "StatefulSet" -> "DaemonSet" [] w = "DaemonSet" -> "get"]

\* findConfigRefs: one list per workload kind.  A list that fails counts as one
\* that found nothing; the request stays blind to that kind.
findConfigRefs(s, w) ==
    /\ At(s, w)
    /\ \/ /\ slots' = [slots EXCEPT ![s].pc = Following[w], ![s].used = @ \/ Found(w, slots[s].kind)]
          /\ UNCHANGED faults
       \/ /\ faults < MaxFaults /\ faults' = faults + 1
          /\ slots' = [slots EXCEPT ![s].pc = Following[w], ![s].blind = @ \cup {w}]
    /\ UNCHANGED <<namespaces, objects, workloads, mounts, service, ingress, requests, writes>>

\* The handlers refuse an object with users, and a Secret of another type.
Refused(s) == slots[s].used \/ slots[s].read.type # TypeOf(slots[s].kind)

GetWithUsers(s) ==
    /\ At(s, "get")
    /\ IF Refused(s) THEN Done(s) ELSE Go(s, "references")
    /\ UNCHANGED <<namespaces, objects, workloads, mounts, service, ingress, requests, faults, writes>>

\* resourceIsReferenced: templates and releases in the database whose file
\* mounts name the object.
ListResourceReferences(kind) == kind \in mounts

resourceIsReferenced(s) == ListResourceReferences(slots[s].kind)

DeleteReferences(s) ==
    /\ At(s, "references")
    /\ IF resourceIsReferenced(s) THEN Done(s) ELSE Go(s, IF slots[s].kind = "Secret" THEN "recheck" ELSE "delete")
    /\ UNCHANGED <<namespaces, objects, workloads, mounts, service, ingress, requests, faults, writes>>

\* DeleteOpaqueSecretContext reads the Secret's type once more.
DeleteOpaqueSecretContext(s) ==
    /\ At(s, "recheck")
    /\ IF objects["Secret"] # None /\ objects["Secret"].type = "Opaque" THEN Go(s, "delete") ELSE Done(s)
    /\ UNCHANGED <<namespaces, objects, workloads, mounts, service, ingress, requests, faults, writes>>

\* The deletion itself goes by name alone.
DeleteConfigMapContext(s) ==
    /\ At(s, "delete")
    /\ objects' = [objects EXCEPT ![slots[s].kind] = None]
    /\ Done(s)
    /\ UNCHANGED <<namespaces, workloads, mounts, service, ingress, requests, faults, writes>>

-----------------------------------------------------------------------------
(* Workloads, Services and Ingresses.                                      *)

\* ScaleDeploymentContext reads the whole Deployment, ScaleStatefulSetContext
\* the scale of a StatefulSet; both write back at the version read.
ScaleDeployment(s, n) ==
    /\ Arrive(s) /\ workloads["Deployment"] # None
    /\ Enter(s, [Idle EXCEPT !.pc = "scale", !.kind = "Deployment", !.edit = n, !.read = workloads["Deployment"]])
    /\ UNCHANGED <<namespaces, objects, workloads, mounts, service, ingress, faults, writes>>

ScaleStatefulSet(s, n) ==
    /\ Arrive(s) /\ workloads["StatefulSet"] # None
    /\ Enter(s, [Idle EXCEPT !.pc = "scale", !.kind = "StatefulSet", !.edit = n, !.read = workloads["StatefulSet"]])
    /\ UNCHANGED <<namespaces, objects, workloads, mounts, service, ingress, faults, writes>>

ScaleDeploymentContext(read, n) == [read EXCEPT !.replicas = n, !.version = @ + 1]
ScaleStatefulSetContext(now, n) == [now EXCEPT !.replicas = n, !.version = @ + 1]

ScaleWrite(s) ==
    /\ At(s, "scale")
    /\ LET r == slots[s]
           now == workloads[r.kind] IN
       IF VersionHolds(now, r.read)
       THEN workloads' = [workloads EXCEPT ![r.kind] = IF r.kind = "Deployment"
                                                       THEN ScaleDeploymentContext(r.read, r.edit)
                                                       ELSE ScaleStatefulSetContext(now, r.edit)]
       ELSE UNCHANGED workloads
    /\ Done(s)
    /\ UNCHANGED <<namespaces, objects, mounts, service, ingress, requests, faults, writes>>

\* A strategic merge patch by container name: a name the Deployment does not
\* have becomes a container of its own.
UpdateDeploymentImageContext(w, c, i) ==
    [w EXCEPT !.images = [d \in DOMAIN @ \cup {c} |-> IF d = c THEN i ELSE @[d]], !.version = @ + 1]

UpdateDeploymentImage(s, c, i) ==
    /\ Arrive(s) /\ workloads["Deployment"] # None
    /\ workloads' = [workloads EXCEPT !["Deployment"] = UpdateDeploymentImageContext(@, c, i)]
    /\ UNCHANGED <<namespaces, objects, mounts, service, ingress, slots, faults, writes>>

\* RollbackDeployment reads the Deployment and annotates only its own copy ...
RollbackDeployment(s) ==
    /\ Arrive(s) /\ workloads["Deployment"] # None
    /\ Enter(s, [Idle EXCEPT !.pc = "rollback"])
    /\ UNCHANGED <<namespaces, objects, workloads, mounts, service, ingress, faults, writes>>

\* ... and patches spec.rollbackTo, a field apps/v1 Deployments do not have and
\* the API server drops: the answer is a success and the workload is as it was.
RollbackDeploymentContext(s) ==
    /\ At(s, "rollback") /\ Done(s)
    /\ UNCHANGED <<namespaces, objects, workloads, mounts, service, ingress, requests, faults, writes>>

\* UpdateService reads the Service, ignores the ports sent and writes it back.
UpdateService(s) ==
    /\ Arrive(s) /\ service
    /\ Enter(s, [Idle EXCEPT !.pc = "serviceWrite"])
    /\ UNCHANGED <<namespaces, objects, workloads, mounts, service, ingress, faults, writes>>

UpdateServiceWrite(s) ==
    /\ At(s, "serviceWrite") /\ Done(s)
    /\ UNCHANGED <<namespaces, objects, workloads, mounts, service, ingress, requests, faults, writes>>

DeleteService(s) ==
    /\ Arrive(s) /\ service /\ service' = FALSE
    /\ UNCHANGED <<namespaces, objects, workloads, mounts, ingress, slots, faults, writes>>

\* A backend port that reads as a number is set by number, any other by name.
CreateIngressContext(port) == port

CreateStandardIngress(s, port) ==
    /\ Arrive(s) /\ Present /\ ingress = None
    /\ ingress' = CreateIngressContext(port)
    /\ UNCHANGED <<namespaces, objects, workloads, mounts, service, slots, faults, writes>>

DeleteStandardIngress(s) ==
    /\ Arrive(s) /\ ingress # None /\ ingress' = None
    /\ UNCHANGED <<namespaces, objects, workloads, mounts, service, slots, faults, writes>>

-----------------------------------------------------------------------------
(* The rest of the platform: releases write workloads, templates and       *)
(* releases name files to mount.                                           *)

\* Requests that have already looked at this source do not see what it names now.
Unseen(source, passed) ==
    slots' = [s \in Slots |-> IF slots[s].pc \in passed THEN [slots[s] EXCEPT !.blind = @ \cup {source}] ELSE slots[s]]

Passed == [w \in WorkloadKinds |->
    {"get", "references", "recheck", "delete"}
      \cup (IF w = "DaemonSet" THEN {} ELSE {"DaemonSet"})
      \cup (IF w = "Deployment" THEN {"StatefulSet"} ELSE {})]

WriteWorkload(w, refs, image) ==
    /\ writes < MaxWrites /\ writes' = writes + 1
    /\ workloads[w] # None
    /\ workloads' = [workloads EXCEPT ![w] = [@ EXCEPT !.refs = refs, !.images[Main] = image, !.version = @ + 1]]
    /\ Unseen(w, Passed[w])
    /\ UNCHANGED <<namespaces, objects, mounts, service, ingress, requests, faults>>

SaveMount(kind) ==
    /\ writes < MaxWrites /\ writes' = writes + 1
    /\ mounts' = mounts \cup {kind}
    /\ Unseen("database", {"recheck", "delete"})
    /\ UNCHANGED <<namespaces, objects, workloads, service, ingress, requests, faults>>

RequestNext(s) ==
    \/ \E n \in Namespaces : CreateNamespace(s, n) \/ UpdateNamespace(s, n) \/ DeleteNamespace(s, n)
    \/ \E e \in Edits : \/ CreateConfigMap(s, e) \/ CreateOpaqueSecret(s, e)
                        \/ UpdateConfigMap(s, e) \/ UpdateOpaqueSecret(s, e)
    \/ DeleteConfigMap(s) \/ DeleteOpaqueSecret(s)
    \/ \E n \in {0, 2} : ScaleDeployment(s, n) \/ ScaleStatefulSet(s, n)
    \/ \E c \in Containers, i \in Images : UpdateDeploymentImage(s, c, i)
    \/ RollbackDeployment(s) \/ UpdateService(s) \/ DeleteService(s)
    \/ \E p \in {"number", "name"} : CreateStandardIngress(s, p)
    \/ DeleteStandardIngress(s)

StepNext(s) ==
    \/ UpdateNamespaceWrite(s) \/ UpdateWrite(s) \/ GetWithUsers(s) \/ DeleteReferences(s)
    \/ \E w \in WorkloadKinds : findConfigRefs(s, w)
    \/ DeleteOpaqueSecretContext(s) \/ DeleteConfigMapContext(s)
    \/ ScaleWrite(s) \/ RollbackDeploymentContext(s) \/ UpdateServiceWrite(s)
    \/ Fail(s)

\* One reference at a time is enough to tell the places apart.
RefSets == {{}} \cup {{r} : r \in References}

Next ==
    \/ \E s \in Slots : RequestNext(s) \/ StepNext(s)
    \/ \E w \in WorkloadKinds : \/ \E refs \in RefSets : WriteWorkload(w, refs, CHOOSE i \in Images : TRUE)
                               \/ \E i \in Images : WriteWorkload(w, {}, i)
    \/ \E k \in Kinds : SaveMount(k)

Spec == Init /\ [][Next]_vars

-----------------------------------------------------------------------------
(* Properties.                                                             *)

Users(kind) == {w \in WorkloadKinds : Named(w, kind)} \cup (IF kind \in mounts THEN {"database"} ELSE {})

\* DeleteConfigMap and DeleteOpaqueSecret refuse an object in use: when one of
\* them removes an object, every workload or saved release that still names it
\* did so only after the request had looked there, or in a list that failed.
\* Removing the whole namespace is another matter.
DeletionSeesUsers ==
    \A k \in Kinds : (objects[k] # None /\ objects'[k] = None /\ namespaces'[Home] # None) =>
       \E s \in Slots : slots[s].pc = "delete" /\ slots[s].kind = k /\ Users(k) \subseteq slots[s].blind

\* Two editors at once lose nothing they did not mean to change: a key of a
\* Secret sent blank has after the write the value it had just before it, and a
\* change of replicas leaves the images of the workload as they are, although
\* both write back what they read one call earlier.
EditsKeepTheRest ==
    \A s \in Slots :
      /\ (slots[s].pc = "update" /\ slots[s].kind = "Secret" /\ objects' # objects /\ slots'[s].pc = "idle") =>
            \A k \in DOMAIN slots[s].edit \cap DOMAIN objects["Secret"].data :
               slots[s].edit[k] = Blank => objects'["Secret"].data[k] = objects["Secret"].data[k]
      /\ (slots[s].pc = "scale" /\ workloads' # workloads /\ slots'[s].pc = "idle") =>
            workloads'[slots[s].kind].images = workloads[slots[s].kind].images
=============================================================================
