--------------------------------- MODULE Metrics ---------------------------------
(***************************************************************************)
(* The metrics store: one VictoriaMetrics Deployment that keeps its data   *)
(* in a hostPath directory (installations of old) or in the platform's     *)
(* claim, and the migration from the one to the other.  The migration is   *)
(* a Job; no goroutine follows it.  Every read of the component's status   *)
(* looks at the Job and finishes or undoes the migration.                  *)
(*                                                                         *)
(* A sample is a file of the store.  Pods and the copy Job are Kubernetes' *)
(* and take their own time; each call of a request may fail, and the       *)
(* platform may restart between two calls.                                 *)
(***************************************************************************)
EXTENDS Naturals, FiniteSets

CONSTANTS Hosts, Home,              \* nodes, and the one the hostPath directory is on
          Callers,                  \* requests in flight at a time
          MaxSamples, MaxReceived,  \* bounds: samples, requests
          MaxBroken,                \* bound: calls that fail, restarts of the platform
          Missing

\* The directory is on a node, and no object is what stands for none.
ASSUME MetricsAssumption ==
  /\ Home \in Hosts /\ {MaxSamples, MaxReceived, MaxBroken} \subseteq Nat
  /\ \A d \in [node : Hosts, legacy : BOOLEAN, replicas : {0, 1}] : d # Missing
  /\ \A c \in [node : Hosts \cup {Missing}, data : SUBSET (1..MaxSamples)] : c # Missing
  /\ \A j \in [node : Hosts, state : {"copying", "copied", "succeeded", "failed"}] : j # Missing

VARIABLES deploy,     \* [node, legacy, replicas] of the Deployment, or Missing
          exporter,   \* the node-exporter DaemonSet exists
          claim,      \* [node, data] of the claim (node = Missing until a Pod uses it), or Missing
          job,        \* [node, state] of the copy Job, or Missing
          pods,       \* the storages ("host", "claim") a metrics Pod has open
          host,       \* the samples in the hostPath directory
          samples,    \* samples written so far
          inflight,   \* the requests in flight
          cut,        \* the Deployment was switched to the claim after a copy
          mixed,      \* the directory changed while it was copied, or after
          rebuilt,    \* the store was uninstalled while the Job was at work
          outdated,   \* a request acted on a Deployment or a Job that had changed since it read it
          received,   \* requests so far
          broken      \* calls that failed, and restarts

metricsVars ==
  <<deploy, exporter, claim, job, pods, host, samples, inflight, cut, mixed, rebuilt, outdated, received, broken>>

NoRequest == [pc |-> "idle"]
CallFails == broken < MaxBroken /\ broken' = broken + 1
Copying == job # Missing /\ job.state \in {"copying", "copied"}

\* Installed of old on a directory, or not installed yet.
MetricsInit ==
  /\ deploy \in {Missing, [node |-> Home, legacy |-> TRUE, replicas |-> 1]}
  /\ exporter = (deploy # Missing)
  /\ pods = IF deploy = Missing THEN {} ELSE {"host"}
  /\ claim = Missing /\ job = Missing /\ host = {} /\ samples = 0
  /\ inflight = [s \in Callers |-> NoRequest]
  /\ cut = FALSE /\ mixed = FALSE /\ rebuilt = FALSE /\ outdated = FALSE /\ received = 0 /\ broken = 0

kubernetes == <<pods, host, samples>>
metricsGhosts == <<cut, mixed, rebuilt, outdated>>

Proceed(s, pc) == inflight' = [inflight EXCEPT ![s] = [@ EXCEPT !.pc = pc]]
Answer(s) == inflight' = [inflight EXCEPT ![s] = NoRequest]

\* A call that fails ends the request, which answers with the component's status.
Failing(s) == CallFails /\ Proceed(s, "status")

Accept(s, r) ==
  /\ inflight[s] = NoRequest /\ received < MaxReceived
  /\ received' = received + 1
  /\ inflight' = [inflight EXCEPT ![s] = r]
  /\ UNCHANGED <<deploy, exporter, claim, job, pods, host, samples, cut, mixed, rebuilt, outdated, broken>>

\* What a request read is not what its next call meets.
Noticed(same) == outdated' = (outdated \/ ~same)

victoriaMetricsConfigFromDeployment(d) == [node |-> d.node, legacy |-> d.legacy]

\* An existing claim keeps its size and its data.
upsertVictoriaMetricsPVC == claim' = IF claim = Missing THEN [node |-> Missing, data |-> {}] ELSE claim

\* Whatever replicas the Deployment had, it has one again.
upsertVictoriaMetricsDeployment(config) ==
  deploy' = [node |-> config.node, legacy |-> config.legacy, replicas |-> 1]

scaleVictoriaMetrics(n) == deploy # Missing /\ deploy' = [deploy EXCEPT !.replicas = n]

(***************************************************************************)
(* installVictoriaMetrics: also how the run configuration is saved.        *)
(***************************************************************************)

\* An installed store keeps its node and its storage; a new one is on the claim.
installVictoriaMetrics(s, n) ==
  /\ deploy # Missing => deploy.node = n
  /\ LET config == IF deploy = Missing THEN [node |-> n, legacy |-> FALSE]
                                    ELSE victoriaMetricsConfigFromDeployment(deploy)
     IN  Accept(s, [pc |-> IF config.legacy THEN "deploy" ELSE "claim", op |-> "install", config |-> config])

InstallClaim(s) ==
  /\ inflight[s].pc = "claim" /\ inflight[s].op = "install"
  /\ \/ upsertVictoriaMetricsPVC /\ Proceed(s, "deploy") /\ UNCHANGED broken
     \/ Failing(s) /\ UNCHANGED claim
  /\ UNCHANGED <<deploy, exporter, job, kubernetes, metricsGhosts, received>>

InstallDeployment(s) ==
  /\ inflight[s].pc = "deploy"
  /\ \/ /\ upsertVictoriaMetricsDeployment(inflight[s].config)
        /\ Noticed(IF deploy = Missing THEN ~inflight[s].config.legacy
                                  ELSE inflight[s].config = victoriaMetricsConfigFromDeployment(deploy))
        /\ cut' = (cut /\ ~inflight[s].config.legacy)
        /\ Proceed(s, "exporter") /\ UNCHANGED broken
     \/ Failing(s) /\ UNCHANGED <<deploy, cut, outdated>>
  /\ UNCHANGED <<exporter, claim, job, kubernetes, mixed, rebuilt, received>>

upsertNodeExporter(s) ==
  /\ inflight[s].pc = "exporter"
  /\ \/ exporter' = TRUE /\ Proceed(s, "status") /\ UNCHANGED broken
     \/ Failing(s) /\ UNCHANGED exporter
  /\ UNCHANGED <<deploy, claim, job, kubernetes, metricsGhosts, received>>

\* The node-exporter, then the Deployment; the claim, the directory and the Job stay.
uninstallVictoriaMetrics(s) ==
  \/ Accept(s, [pc |-> "remove-exporter", op |-> "uninstall"])
  \/ /\ inflight[s].pc = "remove-exporter"
     /\ \/ exporter' = FALSE /\ Proceed(s, "remove") /\ UNCHANGED broken
        \/ CallFails /\ Answer(s) /\ UNCHANGED exporter
     /\ UNCHANGED <<deploy, claim, job, kubernetes, metricsGhosts, received>>
  \/ /\ inflight[s].pc = "remove"
     /\ Answer(s)
     /\ \/ deploy' = Missing /\ rebuilt' = (rebuilt \/ Copying) /\ UNCHANGED broken
        \/ CallFails /\ UNCHANGED <<deploy, rebuilt>>
     /\ UNCHANGED <<exporter, claim, job, kubernetes, cut, mixed, outdated, received>>

(***************************************************************************)
(* startVictoriaMetricsHostPathMigration.                                  *)
(***************************************************************************)

StartMigration(s) ==
  /\ deploy # Missing /\ deploy.legacy
  /\ Accept(s, [pc |-> "job", op |-> "migrate", config |-> victoriaMetricsConfigFromDeployment(deploy)])

\* A failed Job makes room for another; any other Job refuses the request.
ClearFailedJob(s) ==
  /\ inflight[s].pc = "job"
  /\ \/ job = Missing /\ Proceed(s, "claim") /\ UNCHANGED <<job, broken>>
     \/ job # Missing /\ job.state = "failed" /\ job' = Missing /\ Proceed(s, "claim") /\ UNCHANGED broken
     \/ job # Missing /\ job.state # "failed" /\ Proceed(s, "status") /\ UNCHANGED <<job, broken>>
     \/ Failing(s) /\ UNCHANGED job
  /\ UNCHANGED <<deploy, exporter, claim, kubernetes, metricsGhosts, received>>

MigrationClaim(s) ==
  /\ inflight[s].pc = "claim" /\ inflight[s].op = "migrate"
  /\ \/ upsertVictoriaMetricsPVC /\ Proceed(s, "stop") /\ UNCHANGED broken
     \/ Failing(s) /\ UNCHANGED claim
  /\ UNCHANGED <<deploy, exporter, job, kubernetes, metricsGhosts, received>>

\* The Job is created without waiting for the Pod to be gone.
StopStore(s) ==
  /\ inflight[s].pc = "stop"
  /\ \/ scaleVictoriaMetrics(0) /\ Noticed(deploy.legacy) /\ Proceed(s, "copy") /\ UNCHANGED broken
     \/ deploy = Missing /\ Proceed(s, "status") /\ UNCHANGED <<deploy, outdated, broken>>
     \/ Failing(s) /\ UNCHANGED <<deploy, outdated>>
  /\ UNCHANGED <<exporter, claim, job, kubernetes, cut, mixed, rebuilt, received>>

createVictoriaMetricsMigrationJob(s) ==
  /\ inflight[s].pc = "copy"
  /\ \/ /\ job = Missing
        /\ job' = [node |-> inflight[s].config.node, state |-> "copying"]
        /\ Noticed(IF deploy = Missing THEN FALSE ELSE deploy.legacy)
        /\ mixed' = FALSE /\ Proceed(s, "status") /\ UNCHANGED broken
     \/ job # Missing /\ Proceed(s, "resume") /\ UNCHANGED <<job, mixed, outdated, broken>>
     \/ CallFails /\ Proceed(s, "resume") /\ UNCHANGED <<job, mixed, outdated>>
  /\ UNCHANGED <<deploy, exporter, claim, kubernetes, cut, rebuilt, received>>

\* The error of this call is dropped.
ResumeStore(s) ==
  /\ inflight[s].pc = "resume"
  /\ Proceed(s, "status")
  /\ \/ scaleVictoriaMetrics(1) /\ UNCHANGED broken
     \/ deploy = Missing /\ UNCHANGED <<deploy, broken>>
     \/ CallFails /\ UNCHANGED deploy
  /\ UNCHANGED <<exporter, claim, job, kubernetes, metricsGhosts, received>>

(***************************************************************************)
(* VictoriaMetricsStatus and reconcileVictoriaMetricsMigration.            *)
(***************************************************************************)

VictoriaMetricsStatus(s) == Accept(s, [pc |-> "status", op |-> "status"])

\* Mutant: any Job that is not at work any more is taken for a finished one.
AnyJobStep == CASE job.state = "copying" -> "idle" [] OTHER -> "cutover"

\* What the Job's state asks for.
JobStep == CASE job.state = "failed" -> "recover" [] job.state = "succeeded" -> "cutover" [] OTHER -> "idle"

reconcileVictoriaMetricsMigration(s) ==
  /\ inflight[s].pc = "status"
  /\ inflight' = [inflight EXCEPT ![s] =
       IF deploy = Missing \/ job = Missing THEN NoRequest
       ELSE IF JobStep = "idle" THEN NoRequest
       ELSE IF JobStep = "recover" THEN [pc |-> "recover", op |-> "status"]
       ELSE IF deploy.legacy
              THEN [pc |-> "cutover", op |-> "status", config |-> victoriaMetricsConfigFromDeployment(deploy)]
              ELSE NoRequest]
  /\ UNCHANGED <<deploy, exporter, claim, job, kubernetes, metricsGhosts, received, broken>>

Recover(s) ==
  /\ inflight[s].pc = "recover"
  /\ Answer(s)
  /\ \/ scaleVictoriaMetrics(1) /\ UNCHANGED broken
     \/ deploy = Missing /\ UNCHANGED <<deploy, broken>>
     \/ CallFails /\ UNCHANGED deploy
  /\ UNCHANGED <<exporter, claim, job, kubernetes, metricsGhosts, received>>

Cutover(s) ==
  /\ inflight[s].pc = "cutover"
  /\ \/ /\ upsertVictoriaMetricsDeployment([inflight[s].config EXCEPT !.legacy = FALSE])
        /\ Noticed(job # Missing /\ deploy # Missing)
        /\ cut' = TRUE /\ Proceed(s, "drop-job") /\ UNCHANGED broken
     \/ CallFails /\ Answer(s) /\ UNCHANGED <<deploy, cut, outdated>>
  /\ UNCHANGED <<exporter, claim, job, kubernetes, mixed, rebuilt, received>>

\* The Job's name says nothing of which migration it belongs to.
DropJob(s) ==
  /\ inflight[s].pc = "drop-job"
  /\ Answer(s)
  /\ \/ job' = Missing /\ UNCHANGED broken
     \/ CallFails /\ UNCHANGED job
  /\ UNCHANGED <<deploy, exporter, claim, kubernetes, metricsGhosts, received>>

(***************************************************************************)
(* Kubernetes, the store itself and the copy.                              *)
(***************************************************************************)

Storage == IF deploy.legacy THEN "host" ELSE "claim"
Usable(n) == claim # Missing /\ claim.node \in {Missing, n}

PodStarts ==
  /\ deploy # Missing /\ deploy.replicas = 1 /\ Storage \notin pods
  /\ IF deploy.legacy THEN UNCHANGED claim
                      ELSE Usable(deploy.node) /\ claim' = [claim EXCEPT !.node = deploy.node]
  /\ pods' = pods \cup {Storage}
  /\ UNCHANGED <<deploy, exporter, job, host, samples, inflight, metricsGhosts, received, broken>>

PodStops(p) ==
  /\ p \in pods
  /\ \/ deploy = Missing
     \/ deploy # Missing /\ (deploy.replicas = 0 \/ Storage # p)
  /\ pods' = pods \ {p}
  /\ UNCHANGED <<deploy, exporter, claim, job, host, samples, inflight, metricsGhosts, received, broken>>

\* The directory changes under a copy, or under a Deployment that left it.
Mixes == mixed' = (mixed \/ cut \/ Copying \/ (job # Missing /\ job.state = "succeeded"))

Write(p) ==
  /\ p \in pods /\ samples < MaxSamples
  /\ samples' = samples + 1
  /\ IF p = "host" THEN host' = host \cup {samples'} /\ Mixes /\ UNCHANGED claim
                   ELSE claim' = [claim EXCEPT !.data = @ \cup {samples'}] /\ UNCHANGED <<host, mixed>>
  /\ UNCHANGED <<deploy, exporter, job, pods, inflight, cut, rebuilt, outdated, received, broken>>

\* A merge or the retention removes a file.
Expire(x) ==
  /\ "host" \in pods /\ x \in host
  /\ host' = host \ {x}
  /\ Mixes
  /\ UNCHANGED <<deploy, exporter, claim, job, pods, samples, inflight, cut, rebuilt, outdated, received, broken>>

\* tar reads the directory; then the numbers of files are compared.
JobCopies ==
  /\ job # Missing /\ job.state = "copying" /\ Usable(job.node)
  /\ job' = [job EXCEPT !.state = "copied"]
  /\ claim' = [node |-> job.node, data |-> claim.data \cup host]
  /\ UNCHANGED <<deploy, exporter, pods, host, samples, inflight, metricsGhosts, received, broken>>

JobCompares ==
  /\ job # Missing /\ job.state = "copied"
  /\ job' = [job EXCEPT !.state = IF Cardinality(host) = Cardinality(claim.data) THEN "succeeded" ELSE "failed"]
  /\ UNCHANGED <<deploy, exporter, claim, kubernetes, inflight, metricsGhosts, received, broken>>

JobFails ==
  /\ job # Missing /\ job.state = "copying"
  /\ job' = [job EXCEPT !.state = "failed"]
  /\ UNCHANGED <<deploy, exporter, claim, kubernetes, inflight, metricsGhosts, received, broken>>

\* The platform stops; its requests are gone.
Restart ==
  /\ \E s \in Callers : inflight[s] # NoRequest
  /\ CallFails
  /\ inflight' = [s \in Callers |-> NoRequest]
  /\ UNCHANGED <<deploy, exporter, claim, job, kubernetes, metricsGhosts, received>>

MetricsRequest(s) ==
  \/ \E n \in Hosts : installVictoriaMetrics(s, n)
  \/ uninstallVictoriaMetrics(s) \/ StartMigration(s) \/ VictoriaMetricsStatus(s)

MetricsStep(s) ==
  \/ InstallClaim(s) \/ InstallDeployment(s) \/ upsertNodeExporter(s)
  \/ ClearFailedJob(s) \/ MigrationClaim(s) \/ StopStore(s) \/ createVictoriaMetricsMigrationJob(s) \/ ResumeStore(s)
  \/ reconcileVictoriaMetricsMigration(s) \/ Recover(s) \/ Cutover(s) \/ DropJob(s)

MetricsNext ==
  \/ \E s \in Callers : MetricsRequest(s) \/ MetricsStep(s)
  \/ PodStarts \/ \E p \in pods : PodStops(p) \/ Write(p)
  \/ \E x \in host : Expire(x)
  \/ JobCopies \/ JobCompares \/ JobFails \/ Restart

MetricsSpec == MetricsInit /\ [][MetricsNext]_metricsVars

(***************************************************************************)
(* Properties.                                                             *)
(***************************************************************************)

MetricsTypeOK ==
  /\ deploy \in {Missing} \cup [node : Hosts, legacy : BOOLEAN, replicas : {0, 1}]
  /\ claim \in {Missing} \cup [node : Hosts \cup {Missing}, data : SUBSET (1..MaxSamples)]
  /\ job \in {Missing} \cup [node : Hosts, state : {"copying", "copied", "succeeded", "failed"}]
  /\ pods \subseteq {"host", "claim"}
  /\ host \subseteq 1..samples /\ samples \in 0..MaxSamples
  /\ {exporter, cut, mixed, rebuilt, outdated} \subseteq BOOLEAN
  /\ received \in 0..MaxReceived /\ broken \in 0..MaxBroken

\* A store that was switched to the claim finds there every sample the
\* directory holds, unless a Pod went on writing the directory while it was
\* copied (neither the migration nor the Job waits for the old Pod to be
\* gone, and an installation during the copy starts it again), or a request acted
\* on what had changed (a status read may switch on the strength of a Job long gone).
CutoverKeepsSamples == (cut /\ ~mixed /\ ~outdated /\ deploy # Missing /\ ~deploy.legacy) => host \subseteq claim.data

\* The store is held at no replicas only while there is a Job whose end will
\* bring it back, or a migration that is on its way there, or a call failed
\* or the platform restarted between stopping the store and creating the Job.
StoppedOnlyForJob ==
  (deploy # Missing /\ deploy.replicas = 0 /\ broken = 0 /\ ~outdated) =>
    job # Missing \/ \E s \in Callers : inflight[s] # NoRequest /\ inflight[s].op = "migrate"

\* The copy never writes a claim a metrics Pod has open, unless the store was
\* uninstalled and installed again while the Job was at work, or a request acted on
\* what had changed since it read it.
CopyAlone == (Copying /\ "claim" \in pods) => rebuilt \/ outdated

\* The move of the metrics store to a claim loses no sample that was copied
\* (CutoverKeepsSamples), stops the store only while a copy is under way
\* (StoppedOnlyForJob), and nobody writes while the copy runs (CopyAlone).
MetricsKept == MetricsTypeOK /\ CutoverKeepsSamples /\ StoppedOnlyForJob /\ CopyAlone
====
