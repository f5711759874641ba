------------------------- MODULE ApplicationResources -------------------------
(***************************************************************************)
(* What a release writes to the cluster for one application, object by     *)
(* object, and the change of its workload kind.  A specification is        *)
(* reduced to the configuration and secret keys it defines, switches off   *)
(* and mounts; a workload to the objects its pods refer to.                *)
(***************************************************************************)
EXTENDS Naturals, Sequences

CONSTANTS Keys,         \* of ConfigMaps and Secrets
          Specs,        \* the specifications the templates of the application hold
          MaxReleases, MaxTrouble, None

Kinds == {"deployment", "statefulset"}
Objects == {"pull", "config", "secret", "deployment", "statefulset", "otherConfig", "otherSecret"}

VARIABLES kind,        \* the workload kind in the application's row
          cluster,     \* the application's objects, and a ConfigMap and a Secret of others
          foreign,     \* object names taken by objects the platform does not manage
          pods,        \* the controllers whose pods run
          releases,    \* of each release the stored specification and whether it succeeded
          job,         \* the executing release
          change,      \* the executing change of kind
          current,     \* the controller applied last
          excuse,      \* why that controller may refer to something missing
          trouble

vars == <<kind, cluster, foreign, pods, releases, job, change, current, excuse, trouble>>

Idle == [pc |-> "idle"]
Other(k) == CHOOSE other \in Kinds : other # k
Fault == trouble < MaxTrouble /\ trouble' = trouble + 1

(***************************************************************************)
(* Specifications.                                                         *)
(***************************************************************************)

Mounts == [source : {"application_config", "application_secret", "configmap", "secret"}, key : Keys]

\* The keys defined, the keys switched off, the secrets whose value is known,
\* a file mount, whether the registry asks for credentials and they are resolved,
\* and whether ports, probes, volumes and resources are well-formed.
SpecType == [config : SUBSET Keys, configOff : SUBSET Keys, secrets : SUBSET Keys, secretsOff : SUBSET Keys,
             values : SUBSET Keys, mount : Mounts \cup {None}, private : BOOLEAN, auth : BOOLEAN, sound : BOOLEAN]

enabledStringMap(keys, disabled) == keys \ disabled

validateFileMounts(spec) ==
  spec.mount # None =>
    CASE spec.mount.source = "application_config" -> spec.mount.key \in enabledStringMap(spec.config, spec.configOff)
      [] spec.mount.source = "application_secret" -> spec.mount.key \in enabledStringMap(spec.secrets, spec.secretsOff)
      [] OTHER -> TRUE

ValidateReleaseSpec(spec) == spec.sound /\ validateFileMounts(spec)

\* The stored specification keeps the names of the secrets, and neither their
\* values nor the registry's credential.
SanitizeReleaseSpec(spec) == [spec EXCEPT !.values = {}, !.auth = FALSE]

resolveFileMountSources(mount) ==
  CASE mount.source = "application_config" -> [object |-> "config", key |-> mount.key]
    [] mount.source = "application_secret" -> [object |-> "secret", key |-> mount.key]
    [] mount.source = "configmap" -> [object |-> "otherConfig", key |-> mount.key]
    [] mount.source = "secret" -> [object |-> "otherSecret", key |-> mount.key]

\* What the pods read: the objects for the environment, and the mounted key.
References(spec) ==
  [objects |-> (IF enabledStringMap(spec.config, spec.configOff) # {} THEN {"config"} ELSE {})
          \cup (IF enabledStringMap(spec.secrets, spec.secretsOff) # {} THEN {"secret"} ELSE {})
          \cup (IF spec.auth THEN {"pull"} ELSE {}),
   mounts |-> IF spec.mount = None THEN {} ELSE {resolveFileMountSources(spec.mount)}]

\* The objects of a release.  A Secret without any value is referred to, not
\* rendered.  None when the project or the environment has no name.
RenderResources(context, spec) ==
  IF ~(context.named /\ ValidateReleaseSpec(spec)) THEN None
  ELSE [pull |-> IF spec.auth THEN Keys ELSE None,
        config |-> LET on == enabledStringMap(spec.config, spec.configOff)
                   IN  IF on = {} THEN None ELSE on,
        secret |-> LET on == enabledStringMap(spec.secrets, spec.secretsOff)
                   IN  IF on \cap spec.values = {} THEN None ELSE on,
        workload |-> [refs |-> References(spec), replicas |-> 1]]

(***************************************************************************)
(* The cluster.                                                            *)
(***************************************************************************)

Has(object) == cluster[object] # None

Startable(workload) ==
  /\ \A o \in workload.refs.objects : Has(o)
  /\ \A m \in workload.refs.mounts : Has(m.object) /\ m.key \in cluster[m.object]

Running(k) == Has(k) /\ cluster[k].replicas > 0

\* Create or update; an object of that name that is not managed stays as it is.
ApplyObject(object, content) ==
  /\ object \notin foreign
  /\ cluster' = [cluster EXCEPT ![object] = content]

scaleManagedWorkload(k, replicas) ==
  /\ Has(k) /\ k \notin foreign
  /\ cluster' = [cluster EXCEPT ![k].replicas = replicas]

Init ==
  /\ kind = "deployment"
  /\ cluster \in {[o \in Objects |-> IF o = "otherConfig" THEN other ELSE None] : other \in {None, Keys}}
  /\ foreign \in {{}, {"config"}, {"deployment"}}
  /\ pods = {} /\ releases = <<>> /\ job = Idle /\ change = Idle
  /\ current = None /\ excuse = {} /\ trouble = 0

(***************************************************************************)
(* A release, created from a template or from the stored specification of  *)
(* an earlier release.  Its execution renders the objects, checks what the *)
(* mounts need and applies the objects one after the other.                *)
(***************************************************************************)

\* The project's registry is looked up again, and its credential decrypted.
PrepareRegistrySpec(spec) == [spec EXCEPT !.auth = spec.private]

StartRelease(spec) ==
  /\ job = Idle /\ Len(releases) < MaxReleases
  /\ ValidateReleaseSpec(spec)
  /\ releases' = Append(releases, [spec |-> SanitizeReleaseSpec(spec), ok |-> FALSE])
  /\ job' = [pc |-> "preflight", spec |-> spec, kind |-> kind, id |-> Len(releases) + 1,
             resources |-> RenderResources([named |-> TRUE], spec), todo |-> <<>>, exposed |-> FALSE]
  /\ UNCHANGED <<kind, cluster, foreign, pods, change, current, excuse, trouble>>

CreateFromTemplate == \E spec \in Specs : StartRelease(PrepareRegistrySpec(spec))

RetryRelease == \E i \in DOMAIN releases : StartRelease(PrepareRegistrySpec(releases[i].spec))

ValidateFileMountSources(spec) ==
  spec.mount # None /\ spec.mount.source \in {"configmap", "secret"} =>
    LET m == resolveFileMountSources(spec.mount) IN Has(m.object) /\ m.key \in cluster[m.object]

FailRelease == job' = Idle /\ UNCHANGED releases

WorkloadFirst(resources, k) ==
  SelectSeq(<<k, "pull", "config", "secret">>, LAMBDA o : o \in Kinds \/ resources[o] # None)

\* The objects Apply writes, in its order.
ApplyOrder(resources, k) ==
  SelectSeq(<<"pull", "config", "secret", k>>, LAMBDA o : o \in Kinds \/ resources[o] # None)

\* A failing image check, namespace or API call has the same effect as a missing source.
Preflight ==
  /\ job.pc = "preflight"
  /\ \/ /\ ValidateFileMountSources(job.spec)
        /\ job' = [job EXCEPT !.pc = "apply", !.todo = ApplyOrder(job.resources, job.kind), !.exposed = FALSE]
        /\ UNCHANGED <<releases, trouble>>
     \/ ~ValidateFileMountSources(job.spec) /\ FailRelease /\ UNCHANGED trouble
     \/ Fault /\ FailRelease
  /\ UNCHANGED <<kind, cluster, foreign, pods, change, current, excuse>>

\* Ghost: a written object may no longer hold what the controller applied
\* before refers to; once the new controller is written, only a change made by
\* others since the preflight, or a Secret that was not rendered, is an excuse.
Excuses(object) ==
  IF object \in Kinds
    THEN (IF job.exposed THEN {"outside"} ELSE {})
      \cup (IF "secret" \in job.resources.workload.refs.objects /\ job.resources.secret = None THEN {"bare"} ELSE {})
    ELSE excuse \cup {"partial"}

\* One object of Apply.  A refused call ends the release where it is.
Apply ==
  /\ job.pc = "apply" /\ job.todo # <<>>
  /\ LET object == Head(job.todo) IN
       \/ /\ ApplyObject(object, IF object \in Kinds THEN job.resources.workload ELSE job.resources[object])
          /\ job' = [job EXCEPT !.todo = Tail(job.todo)]
          /\ current' = IF object \in Kinds THEN object ELSE current
          /\ excuse' = Excuses(object)
          /\ UNCHANGED <<releases, trouble>>
       \/ object \in foreign /\ FailRelease /\ UNCHANGED <<cluster, current, excuse, trouble>>
       \/ Fault /\ FailRelease /\ UNCHANGED <<cluster, current, excuse>>
  /\ UNCHANGED <<kind, foreign, pods, change>>

\* Ready, a terminal reason such as CreateContainerConfigError, or the deadline.
WaitReady ==
  /\ job.pc = "apply" /\ job.todo = <<>>
  /\ LET ready == Running(job.kind) /\ Startable(cluster[job.kind]) IN
       \/ ready /\ releases' = [releases EXCEPT ![job.id].ok = TRUE] /\ job' = Idle /\ UNCHANGED trouble
       \/ ~ready /\ FailRelease /\ UNCHANGED trouble
       \/ Fault /\ FailRelease
  /\ UNCHANGED <<kind, cluster, foreign, pods, change, current, excuse>>

(***************************************************************************)
(* The change of kind.  The context it builds has neither the project's    *)
(* nor the environment's name, so what follows the rendering in            *)
(* MigrateWorkloadKind is not reached.                                     *)
(***************************************************************************)

applicationContextFor == [named |-> FALSE]

Succeeded == {i \in DOMAIN releases : releases[i].ok}
LatestSuccessful == CHOOSE i \in Succeeded : \A other \in Succeeded : other <= i

\* Without a successful release the row alone changes.
UpdateKind ==
  /\ change = Idle
  /\ IF Succeeded = {} THEN kind' = Other(kind) /\ UNCHANGED change
     ELSE /\ change' = [pc |-> "scale", from |-> kind, spec |-> releases[LatestSuccessful].spec,
                        previous |-> 0, failed |-> FALSE]
          /\ ValidateFileMountSources(releases[LatestSuccessful].spec)
          /\ UNCHANGED kind
  /\ UNCHANGED <<cluster, foreign, pods, releases, job, current, excuse, trouble>>

MigrateScaleDown ==
  /\ change.pc = "scale"
  /\ \/ /\ scaleManagedWorkload(change.from, 0)
        /\ change' = [change EXCEPT !.pc = "stop", !.previous = cluster[change.from].replicas]
        /\ UNCHANGED trouble
     \/ Fault /\ change' = Idle /\ UNCHANGED cluster
  /\ UNCHANGED <<kind, foreign, pods, releases, job, current, excuse>>

waitForWorkloadPodsStopped ==
  /\ change.pc = "stop"
  /\ \/ pods = {} /\ change' = [change EXCEPT !.pc = "render"] /\ UNCHANGED trouble
     \/ pods # {} /\ Fault /\ change' = [change EXCEPT !.pc = "restore", !.failed = TRUE]
  /\ UNCHANGED <<kind, cluster, foreign, pods, releases, job, current, excuse>>

MigrateRender ==
  /\ change.pc = "render"
  /\ RenderResources(applicationContextFor, change.spec) = None
  /\ change' = [change EXCEPT !.pc = "restore"]
  /\ UNCHANGED <<kind, cluster, foreign, pods, releases, job, current, excuse, trouble>>

\* The request's context: a client that has gone away fails this call too.
restoreManagedWorkload ==
  /\ change.pc = "restore"
  /\ change' = Idle
  /\ \/ scaleManagedWorkload(change.from, change.previous) /\ UNCHANGED trouble
     \/ Fault /\ UNCHANGED cluster
  /\ UNCHANGED <<kind, foreign, pods, releases, job, current, excuse>>

(***************************************************************************)
(* The controllers and other users of the namespace.                       *)
(***************************************************************************)

PodsStart(k) ==
  /\ k \notin pods /\ Running(k) /\ Startable(cluster[k])
  /\ pods' = pods \cup {k}
  /\ UNCHANGED <<kind, cluster, foreign, releases, job, change, current, excuse, trouble>>

PodsStop(k) ==
  /\ k \in pods /\ ~Running(k)
  /\ pods' = pods \ {k}
  /\ UNCHANGED <<kind, cluster, foreign, releases, job, change, current, excuse, trouble>>

\* Someone deletes an object with kubectl.
OutsideDelete(object) ==
  /\ object \notin Kinds /\ Has(object)
  /\ Fault
  /\ cluster' = [cluster EXCEPT ![object] = None]
  /\ excuse' = excuse \cup {"outside"}
  /\ job' = IF job = Idle THEN job ELSE [job EXCEPT !.exposed = TRUE]
  /\ UNCHANGED <<kind, foreign, pods, releases, change, current>>

Next ==
  \/ CreateFromTemplate \/ RetryRelease \/ Preflight \/ Apply \/ WaitReady
  \/ UpdateKind \/ MigrateScaleDown \/ waitForWorkloadPodsStopped \/ MigrateRender \/ restoreManagedWorkload
  \/ \E k \in Kinds : PodsStart(k) \/ PodsStop(k)
  \/ \E object \in Objects : OutsideDelete(object)

Spec == Init /\ [][Next]_vars

TypeOK ==
  /\ kind \in Kinds /\ pods \subseteq Kinds /\ current \in Kinds \cup {None}
  /\ DOMAIN cluster = Objects /\ Specs \subseteq SpecType /\ excuse \subseteq {"outside", "partial", "bare"}
  /\ job.pc \in {"idle", "preflight", "apply"}
  /\ change.pc \in {"idle", "scale", "stop", "render", "restore"}

(***************************************************************************)
(* Properties.                                                             *)
(***************************************************************************)

\* Everything the controller applied last refers to (the ConfigMap and Secret
\* its environment comes from, the keys its files are projected from, its pull
\* secret) is in the cluster.  The exceptions: another user removed an object
\* the preflight had seen; a release stopped between the first object it wrote
\* and the controller; a retry referred to a Secret it could not render.
ReferencesResolved == current # None /\ excuse = {} => Startable(cluster[current])

\* The kind follows the request: a change of kind for an application with a
\* successful release is undone only when a call failed or the old pods did not
\* stop (workload.go: "migrates the active Kubernetes workload when a
\* successful release already exists").
KindMigrates == change.pc = "restore" /\ change'.pc = "idle" => change.failed
=============================================================================
