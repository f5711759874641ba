----------------------------- MODULE SystemComponents -----------------------------
(***************************************************************************)
(* The components K3s ships (CoreDNS, metrics-server, Traefik, ...) and    *)
(* the configuration the platform keeps for them.  A component is owned by *)
(* a HelmChart, or is a static Deployment, or is neither; the platform     *)
(* looks before every change.  K3s writes its static manifests again when  *)
(* it restarts, so a loop replays the stored configurations every five     *)
(* minutes.  Requests and the loop interleave; each call may fail.         *)
(***************************************************************************)
EXTENDS Naturals, FiniteSets

CONSTANTS Charts, Nodes, Values,      \* Values: the configurations a request may carry
          Slots, MaxRequests, MaxPasses, MaxEvents, MaxFaults, None

VARIABLES chart,       \* components with a HelmChart
          deploy,      \* component -> [replicas, node] of its Deployment, or None
          helmConfig,  \* component -> the values of its HelmChartConfig, or None
          ready,       \* the nodes that are ready and schedulable
          rows,        \* component -> [mode, values, status], or None
          recon,       \* the loop's pass: the rows it listed and has not replayed, and the one at hand
          slots,       \* the requests in flight
          drift,       \* components the cluster changed, or an operation left half done
          raced,       \* components two operations worked on together
          requests, passes, events, faults

vars == <<chart, deploy, helmConfig, ready, rows, recon, slots, drift, raced, requests, passes, events, faults>>

Idle == [pc |-> "idle"]
NoPass == [todo |-> {}, rows |-> [c \in Charts |-> None], cur |-> None]
Default == [replicas |-> 1, node |-> None]
Fault == faults < MaxFaults /\ faults' = faults + 1

Init ==
  /\ chart \in SUBSET Charts
  /\ deploy \in [Charts -> {Default, None}]
  /\ helmConfig = [c \in Charts |-> None] /\ rows = [c \in Charts |-> None]
  /\ ready = Nodes
  /\ recon = NoPass /\ slots = [s \in Slots |-> Idle]
  /\ drift = {} /\ raced = {} /\ requests = 0 /\ passes = 0 /\ events = 0 /\ faults = 0

cluster == <<chart, ready, events>>
counters == <<requests, passes, raced>>

\* A HelmChart takes precedence over a Deployment of the same name.
DetectSystemComponent(c) ==
  IF c \in chart THEN "helm" ELSE IF deploy[c] # None THEN "static" ELSE "unknown"

\* What a component's availability profile allows.
profile(c) == IF c = "coredns" THEN [ha |-> TRUE, placement |-> TRUE] ELSE [ha |-> FALSE, placement |-> FALSE]

ParseStaticDeploymentConfig(v) == v.replicas >= 1

ValidateNode(v) == v.node = None \/ v.node \in ready

\* More replicas need two nodes to go to, and a component that is healthy now.
ValidateHAIncrease(v, healthy) == v.replicas >= 2 => v.node = None /\ healthy /\ Cardinality(ready) >= 2

\* Every check of a change to a static Deployment.
Accepts(c, v, healthy) ==
  /\ ParseStaticDeploymentConfig(v) /\ ValidateNode(v)
  /\ deploy[c] # None
  /\ ~profile(c).ha => v.replicas = deploy[c].replicas
  /\ v.node # None => profile(c).placement
  /\ (profile(c).ha /\ v.replicas > deploy[c].replicas) => ValidateHAIncrease(v, healthy)

\* Mutant: the write is skipped.
ApplyNothing(c, v) == UNCHANGED deploy

ApplyStaticDeploymentConfig(c, v) == deploy' = [deploy EXCEPT ![c] = v]

RestoreStaticDeploymentDefaults(c) == ApplyStaticDeploymentConfig(c, Default)

ApplyHelmChartConfig(c, v) == helmConfig' = [helmConfig EXCEPT ![c] = v]

DeleteHelmChartConfig(c) == helmConfig' = [helmConfig EXCEPT ![c] = None]

UpsertSystemComponentConfig(c, row) == rows' = [rows EXCEPT ![c] = row]

DeleteSystemComponentConfig(c) == rows' = [rows EXCEPT ![c] = None]

\* The Deployment is as the platform wrote it, if it is still the static one.
Settled(c) == drift' = IF DetectSystemComponent(c) = "static" THEN drift \ {c} ELSE drift

Goto(s, pc) == slots' = [slots EXCEPT ![s].pc = pc]
Respond(s) == slots' = [slots EXCEPT ![s] = Idle]
Working(c) == recon.rows[c] # None \/ \E s \in Slots : slots[s] # Idle /\ slots[s].chart = c

Start(s, r) ==
  /\ slots[s] = Idle /\ requests < MaxRequests
  /\ requests' = requests + 1
  /\ slots' = [slots EXCEPT ![s] = r]
  /\ raced' = IF Working(r.chart) THEN raced \cup {r.chart} ELSE raced
  /\ UNCHANGED <<chart, deploy, helmConfig, ready, rows, recon, drift, passes, events, faults>>

(***************************************************************************)
(* Update.                                                                 *)
(***************************************************************************)

Update(s, c, v) ==
  /\ DetectSystemComponent(c) # "unknown"
  /\ Start(s, [pc |-> DetectSystemComponent(c), op |-> "update", chart |-> c, values |-> v,
               mode |-> DetectSystemComponent(c), status |-> "succeeded"])

\* A change that could not be made is stored all the same, as a failed one.
Refused(s) == slots' = [slots EXCEPT ![s].pc = "save", ![s].status = "failed"]

UpdateHelm(s) ==
  /\ slots[s].pc = "helm" /\ slots[s].op = "update"
  /\ \/ ApplyHelmChartConfig(slots[s].chart, slots[s].values) /\ Goto(s, "save") /\ UNCHANGED <<drift, faults>>
     \/ Fault /\ Refused(s) /\ drift' = drift \cup {slots[s].chart} /\ UNCHANGED helmConfig
  /\ UNCHANGED <<cluster, deploy, rows, recon, counters>>

UpdateCheck(s) ==
  /\ slots[s].pc = "static" /\ slots[s].op = "update"
  /\ \E healthy \in BOOLEAN :
       IF Accepts(slots[s].chart, slots[s].values, healthy) THEN Goto(s, "unhelm") ELSE Refused(s)
  /\ UNCHANGED <<cluster, deploy, helmConfig, rows, recon, drift, counters, faults>>

UpdateUnhelm(s) ==
  /\ slots[s].pc = "unhelm" /\ slots[s].op = "update"
  /\ \/ DeleteHelmChartConfig(slots[s].chart) /\ Goto(s, "write") /\ UNCHANGED <<drift, faults>>
     \/ Fault /\ Refused(s) /\ drift' = drift \cup {slots[s].chart} /\ UNCHANGED helmConfig
  /\ UNCHANGED <<cluster, deploy, rows, recon, counters>>

UpdateWrite(s) ==
  /\ slots[s].pc = "write" /\ slots[s].op = "update"
  /\ LET c == slots[s].chart IN
       \/ /\ deploy[c] # None
          /\ ApplyStaticDeploymentConfig(c, slots[s].values)
          /\ Goto(s, "save") /\ Settled(c) /\ UNCHANGED faults
       \/ deploy[c] = None /\ Refused(s) /\ drift' = drift \cup {c} /\ UNCHANGED <<deploy, faults>>
       \/ Fault /\ Refused(s) /\ drift' = drift \cup {c} /\ UNCHANGED deploy
  /\ UNCHANGED <<cluster, helmConfig, rows, recon, counters>>

\* The error of saving a failed change is dropped.
UpdateSave(s) ==
  /\ slots[s].pc = "save"
  /\ Respond(s)
  /\ LET c == slots[s].chart IN
       \/ /\ UpsertSystemComponentConfig(c, [mode |-> slots[s].mode, values |-> slots[s].values, status |-> slots[s].status])
          /\ UNCHANGED <<drift, faults>>
       \/ Fault /\ drift' = drift \cup {c} /\ UNCHANGED rows
  /\ UNCHANGED <<cluster, deploy, helmConfig, recon, counters>>

(***************************************************************************)
(* RevertManaged: the HelmChartConfig, the static fields, then the row.    *)
(***************************************************************************)

RevertManaged(s, c) ==
  /\ DetectSystemComponent(c) # "unknown"
  /\ Start(s, [pc |-> "unhelm", op |-> "revert", chart |-> c, mode |-> DetectSystemComponent(c)])

RevertUnhelm(s) ==
  /\ slots[s].pc = "unhelm" /\ slots[s].op = "revert"
  /\ \/ /\ DeleteHelmChartConfig(slots[s].chart)
        /\ Goto(s, IF slots[s].mode = "static" THEN "restore" ELSE "delete")
        /\ UNCHANGED <<drift, faults>>
     \/ Fault /\ Respond(s) /\ drift' = drift \cup {slots[s].chart} /\ UNCHANGED helmConfig
  /\ UNCHANGED <<cluster, deploy, rows, recon, counters>>

Restore(s) ==
  /\ slots[s].pc = "restore"
  /\ LET c == slots[s].chart IN
       \/ deploy[c] # None /\ RestoreStaticDeploymentDefaults(c) /\ Goto(s, "delete") /\ Settled(c) /\ UNCHANGED faults
       \/ deploy[c] = None /\ Respond(s) /\ drift' = drift \cup {c} /\ UNCHANGED <<deploy, faults>>
       \/ Fault /\ Respond(s) /\ drift' = drift \cup {c} /\ UNCHANGED deploy
  /\ UNCHANGED <<cluster, helmConfig, rows, recon, counters>>

Revert(s) ==
  /\ slots[s].pc = "delete"
  /\ Respond(s)
  /\ LET c == slots[s].chart IN
       \/ DeleteSystemComponentConfig(c) /\ UNCHANGED <<drift, faults>>
       \/ Fault /\ drift' = drift \cup {c} /\ UNCHANGED rows
  /\ UNCHANGED <<cluster, deploy, helmConfig, recon, counters>>

(***************************************************************************)
(* Reconcile: the loop lists the rows once and works on the copies.        *)
(***************************************************************************)

Run ==
  /\ recon = NoPass /\ passes < MaxPasses
  /\ passes' = passes + 1
  /\ LET todo == {c \in Charts : rows[c] # None} IN
       /\ todo # {}
       /\ recon' = [todo |-> todo, rows |-> rows, cur |-> None]
       /\ raced' = raced \cup {c \in todo : \E s \in Slots : slots[s] # Idle /\ slots[s].chart = c}
  /\ UNCHANGED <<cluster, deploy, helmConfig, rows, slots, drift, requests, faults>>

Outcome(c, status) == recon' = [recon EXCEPT !.cur = [chart |-> c, status |-> status], !.todo = @ \ {c}]

\* The row's values are parsed and its node looked at; the profile and the
\* preflight of an update are not asked.  Values for a HelmChart are not replayed.
Reconcile(c) ==
  /\ recon.cur = None /\ c \in recon.todo
  /\ LET row == recon.rows[c]
         mode == DetectSystemComponent(c)
         replays == row.mode = mode /\ mode = "static" /\ ParseStaticDeploymentConfig(row.values) /\ ValidateNode(row.values)
         passes_over == row.mode = mode /\ mode = "helm"
     IN  \/ replays /\ ApplyStaticDeploymentConfig(c, row.values) /\ Outcome(c, "succeeded") /\ Settled(c) /\ UNCHANGED faults
         \/ passes_over /\ Outcome(c, row.status) /\ UNCHANGED <<deploy, drift, faults>>
         \/ ~replays /\ ~passes_over /\ Outcome(c, "failed") /\ UNCHANGED <<deploy, drift, faults>>
         \/ Fault /\ Outcome(c, "failed") /\ UNCHANGED <<deploy, drift>>
  /\ UNCHANGED <<cluster, helmConfig, rows, slots, counters>>

\* The listed row with its outcome; a row deleted since is inserted again.
SaveReplayed(c) ==
  UpsertSystemComponentConfig(c, [recon.rows[c] EXCEPT !.status = recon.cur.status])

ReconcileSave ==
  /\ recon.cur # None
  /\ LET c == recon.cur.chart IN
       /\ recon' = IF recon.todo = {} THEN NoPass ELSE [recon EXCEPT !.cur = None, !.rows[c] = None]
       /\ \/ SaveReplayed(c) /\ UNCHANGED <<drift, faults>>
          \/ Fault /\ drift' = drift \cup {c} /\ UNCHANGED rows
  /\ UNCHANGED <<cluster, deploy, helmConfig, slots, counters>>

(***************************************************************************)
(* The cluster.                                                            *)
(***************************************************************************)

Happens == events < MaxEvents /\ events' = events + 1
             /\ UNCHANGED <<helmConfig, rows, recon, slots, raced, requests, passes, faults>>

\* K3s restarts and writes its static manifest again.
ManifestWritten(c) ==
  /\ deploy[c] # None /\ c \notin chart
  /\ deploy' = [deploy EXCEPT ![c] = Default] /\ drift' = drift \cup {c}
  /\ Happens /\ UNCHANGED <<chart, ready>>

\* An upgrade of K3s changes what owns a component.
ControlSourceChanges(c) ==
  /\ chart' = IF c \in chart THEN chart \ {c} ELSE chart \cup {c}
  /\ deploy' = [deploy EXCEPT ![c] = Default] /\ drift' = drift \cup {c}
  /\ Happens /\ UNCHANGED ready

NodeChanges(n) ==
  /\ ready' = IF n \in ready THEN ready \ {n} ELSE ready \cup {n}
  /\ Happens /\ UNCHANGED <<chart, deploy, drift>>

Step(s) ==
  \/ UpdateHelm(s) \/ UpdateCheck(s) \/ UpdateUnhelm(s) \/ UpdateWrite(s) \/ UpdateSave(s)
  \/ RevertUnhelm(s) \/ Restore(s) \/ Revert(s)

Next ==
  \/ \E s \in Slots, c \in Charts : RevertManaged(s, c) \/ \E v \in Values : Update(s, c, v)
  \/ \E s \in Slots : Step(s)
  \/ Run \/ ReconcileSave \/ \E c \in Charts : Reconcile(c) \/ ManifestWritten(c) \/ ControlSourceChanges(c)
  \/ \E n \in Nodes : NodeChanges(n)

Spec == Init /\ [][Next]_vars

(***************************************************************************)
(* Properties.                                                             *)
(***************************************************************************)

TypeOK ==
  /\ chart \subseteq Charts /\ ready \subseteq Nodes
  /\ deploy \in [Charts -> Values \cup {Default, None}]
  /\ helmConfig \in [Charts -> Values \cup {None}]
  /\ rows \in [Charts -> [mode : {"helm", "static"}, values : Values, status : {"succeeded", "failed"}] \cup {None}]
  /\ recon.todo \subseteq Charts /\ drift \subseteq Charts /\ raced \subseteq Charts

\* At rest, a row that says it succeeded is what the component runs with, and
\* a component without a row runs with K3s's defaults.  Excused are components
\* the cluster changed and no pass has replayed yet, operations that failed
\* half way, and two operations on one component at a time: the loop writes
\* back the row it listed, over an update made since and over a revert.
ConfigInForce ==
  \A c \in Charts \ (drift \cup raced) :
    ~Working(c) =>
      IF rows[c] = None
        THEN helmConfig[c] = None /\ deploy[c] \in {Default, None}
        ELSE rows[c].status = "succeeded" =>
               IF rows[c].mode = "static" THEN deploy[c] = rows[c].values ELSE helmConfig[c] = rows[c].values

\* "A failed preflight returns a structured blocker and makes no Deployment
\* change": a component whose profile knows no high availability keeps its one
\* replica, and is not pinned to a node, whatever was asked of the platform.
ProfileKept ==
  \A c \in Charts : (deploy[c] # None /\ ~profile(c).ha) => deploy[c] = Default
====
