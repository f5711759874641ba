------------------------------- MODULE Addons -------------------------------
(* The optional add-ons the platform installs in the cluster next to the      *)
(* metrics store: alerting (Alertmanager, vmalert, kube-state-metrics),       *)
(* logging (Loki and Alloy) and cert-manager with the webhook of a DNS        *)
(* provider.                                                                  *)
(*                                                                            *)
(* An installation is a list of upserts on the API server, made one after     *)
(* the other on the context of the request; nothing undoes the first ones     *)
(* when a later one fails, and two requests may interleave.  Storage stays    *)
(* behind on purpose: the claims of Alertmanager and Loki survive an          *)
(* uninstallation, and with them the node their volume lives on.              *)
EXTENDS Naturals, Sequences

CONSTANTS
  Nodes,        \* nodes of the cluster
  Rules,        \* sets of alert rules an administrator may configure
  Days,         \* retention periods for logs
  CRDs,         \* number of custom resource definitions cert-manager brings
  Slots,        \* requests the platform serves at the same time
  MaxRequests,  \* bound on the requests
  MaxFaults,    \* bound on failing calls, lost requests and outside changes
  None

VARIABLES
  settings,  \* ConfigMap of the alerting settings: None or [node, rules]
  alerting,  \* [rules, ksm, am, vmalert]: the generated rules, kube-state-
             \* metrics, the node of Alertmanager, the rules vmalert was
             \* rolled with
  scrape,    \* [config, hash]: whether the scrape configuration, and the Pod
             \* of the metrics store, include kube-state-metrics
  ready,     \* the metrics store has a ready replica
  logging,   \* [config, loki, alloy]: retention in the ConfigMap, StatefulSet
             \* (None or [node, days]), collector
  lokiPod,   \* None or [days]: the retention the running Loki has loaded
  bound,     \* node the volume of a claim lives on, for "am" and "loki"
  certs,     \* [crds, chart, up, webhook] of cert-manager
  slots,     \* requests being served
  addon,     \* the add-on the requests are about; the three share no object,
             \* so that one behaviour works on one of them
  partial,   \* a request stopped between two of its writes
  raced,     \* two requests worked on the add-on at the same time
  moved,     \* Loki was installed again on another node than its volume's
  requests, faults

vars == <<settings, alerting, scrape, ready, logging, lokiPod, bound, certs,
          slots, addon, partial, raced, moved, requests, faults>>

alertVars == <<settings, alerting, scrape>>
logVars == <<logging, moved>>

Idle == [op |-> "idle"]

(* Upserts of one request, in the order of the code.                          *)
InstallSteps == <<"settings", "rules", "ksm", "am", "vmalert", "scrape", "roll">>
UninstallSteps == <<"novmalert", "noam", "noksm", "norules", "scrape", "roll">>
LogSteps == <<"config", "loki", "alloy">>
UnlogSteps == <<"noalloy", "noloki", "noconfig">>

(* A request takes a slot; another one overlaps with it.                      *)
Start(s, about, slot) ==
  /\ addon = about
  /\ slots[s] = Idle
  /\ requests < MaxRequests
  /\ requests' = requests + 1
  /\ slots' = [slots EXCEPT ![s] = slot]
  /\ raced' = (raced \/ \E t \in Slots \ {s} : slots[t] # Idle)
  /\ UNCHANGED addon

-----------------------------------------------------------------------------
(* Alerting.                                                                  *)

(* Installing checks that the metrics store is ready, that the node exists    *)
(* and that the stored settings, which outlive an uninstallation, name no     *)
(* other node.                                                                *)
NodePinned(n) == settings # None => settings.node = n

installAlerting(s, n, r) ==
  /\ ready
  /\ NodePinned(n)
  /\ Start(s, "alerts", [op |-> "install", todo |-> InstallSteps, node |-> n,
               rules |-> r])
  /\ UNCHANGED <<alertVars, logVars, ready, lokiPod, bound, certs, partial, faults>>

(* An update takes the node from the settings.  They are kept when alerting   *)
(* is removed, so an update afterwards installs it again.                     *)
updateAlerting(s, r) ==
  settings # None /\ installAlerting(s, settings.node, r)

uninstallAlerting(s) ==
  /\ Start(s, "alerts", [op |-> "uninstall", todo |-> UninstallSteps])
  /\ UNCHANGED <<alertVars, logVars, ready, lokiPod, bound, certs, partial, faults>>

(* A request moves to its next step, or answers after the last one.           *)
Proceed(s) ==
  slots' = [slots EXCEPT ![s] = IF Len(@.todo) = 1 THEN Idle
                                ELSE [@ EXCEPT !.todo = Tail(@)]]

upsertAlertingSettings(s) ==
  /\ settings' = [node |-> slots[s].node, rules |-> slots[s].rules]
  /\ UNCHANGED <<alerting, scrape>>

upsertAlertingRules(s) ==
  /\ alerting' = [alerting EXCEPT !.rules = slots[s].rules]
  /\ UNCHANGED <<settings, scrape>>

upsertKubeStateMetricsDeployment(s) ==
  /\ alerting' = [alerting EXCEPT !.ksm = TRUE]
  /\ UNCHANGED <<settings, scrape>>

upsertAlertmanagerDeployment(s) ==
  /\ alerting' = [alerting EXCEPT !.am = slots[s].node]
  /\ UNCHANGED <<settings, scrape>>

(* The hash of the rules is an annotation of the Pods of vmalert, so that a   *)
(* change of the rules rolls them.                                            *)
vmalertUnhashed(s) ==
  /\ alerting' = [alerting EXCEPT !.vmalert = IF @ = None THEN slots[s].rules ELSE @]
  /\ UNCHANGED <<settings, scrape>>

upsertVMAlertDeployment(s) ==
  /\ alerting' = [alerting EXCEPT !.vmalert = slots[s].rules]
  /\ UNCHANGED <<settings, scrape>>

removeAlerting(f) ==
  /\ alerting' = [alerting EXCEPT ![f] = IF f = "ksm" THEN FALSE ELSE None]
  /\ UNCHANGED <<settings, scrape>>

(* The scrape configuration is rendered from the kube-state-metrics           *)
(* Deployment found at that moment, and so is the hash the metrics Pod is     *)
(* rolled with.                                                               *)
kubeStateMetricsInstalled == alerting.ksm

upsertVictoriaMetricsConfig ==
  /\ scrape' = [scrape EXCEPT !.config = kubeStateMetricsInstalled]
  /\ UNCHANGED <<settings, alerting>>

refreshVictoriaMetricsScrapeConfig ==
  /\ scrape' = [scrape EXCEPT !.hash = kubeStateMetricsInstalled]
  /\ UNCHANGED <<settings, alerting>>

AlertingStep(s) ==
  /\ slots[s].op \in {"install", "uninstall"}
  /\ LET step == Head(slots[s].todo)
     IN \/ step = "settings" /\ upsertAlertingSettings(s)
        \/ step = "rules" /\ upsertAlertingRules(s)
        \/ step = "ksm" /\ upsertKubeStateMetricsDeployment(s)
        \/ step = "am" /\ upsertAlertmanagerDeployment(s)
        \/ step = "vmalert" /\ upsertVMAlertDeployment(s)
        \/ step = "novmalert" /\ removeAlerting("vmalert")
        \/ step = "noam" /\ removeAlerting("am")
        \/ step = "noksm" /\ removeAlerting("ksm")
        \/ step = "norules" /\ removeAlerting("rules")
        \/ step = "scrape" /\ upsertVictoriaMetricsConfig
        \/ step = "roll" /\ refreshVictoriaMetricsScrapeConfig
  /\ Proceed(s)
  /\ partial' = (partial /\ ~(Len(slots[s].todo) = 1 /\ slots[s].op = "install"))
  /\ UNCHANGED <<addon, logVars, ready, lokiPod, bound, certs, raced, requests, faults>>

-----------------------------------------------------------------------------
(* Logging.                                                                   *)

(* The node is pinned by the StatefulSet alone: once it is gone another node  *)
(* is accepted although the volume with the logs stays where it is.           *)
installLogging(s, n, d) ==
  /\ logging.loki # None => logging.loki.node = n
  /\ Start(s, "logs", [op |-> "log", todo |-> LogSteps, node |-> n, days |-> d])
  /\ UNCHANGED <<alertVars, logVars, ready, lokiPod, bound, certs, partial, faults>>

uninstallLogging(s) ==
  /\ Start(s, "logs", [op |-> "unlog", todo |-> UnlogSteps])
  /\ UNCHANGED <<alertVars, logVars, ready, lokiPod, bound, certs, partial, faults>>

upsertLoggingConfig(s) ==
  /\ logging' = [logging EXCEPT !.config = slots[s].days]
  /\ UNCHANGED moved

upsertLokiStatefulSet(s) ==
  /\ logging' = [logging EXCEPT !.loki = [node |-> slots[s].node, days |-> slots[s].days]]
  /\ moved' = (moved \/ (bound.loki # None /\ bound.loki # slots[s].node))

upsertAlloyDaemonSet == logging' = [logging EXCEPT !.alloy = TRUE] /\ UNCHANGED moved

removeLogging(f) ==
  /\ logging' = [logging EXCEPT ![f] = IF f = "alloy" THEN FALSE ELSE None]
  /\ UNCHANGED moved

LoggingStep(s) ==
  /\ slots[s].op \in {"log", "unlog"}
  /\ LET step == Head(slots[s].todo)
     IN \/ step = "config" /\ upsertLoggingConfig(s)
        \/ step = "loki" /\ upsertLokiStatefulSet(s)
        \/ step = "alloy" /\ upsertAlloyDaemonSet
        \/ step = "noalloy" /\ removeLogging("alloy")
        \/ step = "noloki" /\ removeLogging("loki")
        \/ step = "noconfig" /\ removeLogging("config")
  /\ Proceed(s)
  /\ partial' = (partial /\ Len(slots[s].todo) > 1)
  /\ UNCHANGED <<addon, alertVars, ready, lokiPod, bound, certs, raced, requests, faults>>

-----------------------------------------------------------------------------
(* cert-manager and the webhook of a DNS provider, installed as HelmCharts    *)
(* the controller of K3s works off.                                           *)

Broken(c) == c = "failed"

CertManagerStatus ==
  IF certs.crds < CRDs
  THEN IF certs.chart = "absent" THEN "NotInstalled"
       ELSE IF Broken(certs.chart) THEN "Degraded" ELSE "Installing"
  ELSE IF certs.up THEN "Ready"
  ELSE IF certs.chart # "absent" /\ ~Broken(certs.chart) THEN "Installing"
  ELSE "Degraded"

(* Any resource definition found without a working installation belongs to    *)
(* somebody else, and the installation is refused.                            *)
MayInstall == CertManagerStatus \notin {"Ready", "Installing"} /\ certs.crds = 0

InstallCertManager(s) ==
  /\ MayInstall
  /\ Start(s, "certs", [op |-> "chart"])
  /\ UNCHANGED <<alertVars, logVars, ready, lokiPod, bound, certs, partial, faults>>

(* A chart that is there already is no error: installing again after a failed *)
(* installation answers "installing" and changes nothing.                     *)
CreateChart(s) ==
  /\ slots[s].op = "chart"
  /\ certs' = IF certs.chart = "absent" THEN [certs EXCEPT !.chart = "installing"] ELSE certs
  /\ slots' = [slots EXCEPT ![s] = Idle]
  /\ UNCHANGED <<addon, alertVars, logVars, ready, lokiPod, bound, partial, raced, requests, faults>>

DNSProviderStatus ==
  IF CertManagerStatus # "Ready" THEN CertManagerStatus
  ELSE CASE certs.webhook = "absent" -> "NotInstalled"
         [] certs.webhook = "failed" -> "Degraded"
         [] certs.webhook = "deployed" -> "Ready"
         [] OTHER -> "Installing"

(* The webhook's chart is created in the namespace cert-manager lives in.     *)
WebhookWanted == CertManagerStatus = "Ready" /\ DNSProviderStatus = "NotInstalled"

InstallDNSProvider(s) ==
  /\ WebhookWanted
  /\ Start(s, "certs", [op |-> "webhook"])
  /\ UNCHANGED <<alertVars, logVars, ready, lokiPod, bound, certs, partial, faults>>

CreateWebhookChart(s) ==
  /\ slots[s].op = "webhook"
  /\ certs' = IF certs.webhook = "absent" THEN [certs EXCEPT !.webhook = "installing"] ELSE certs
  /\ slots' = [slots EXCEPT ![s] = Idle]
  /\ UNCHANGED <<addon, alertVars, logVars, ready, lokiPod, bound, partial, raced, requests, faults>>

-----------------------------------------------------------------------------
(* The cluster.                                                               *)

(* A Pod of Alertmanager or Loki needs its volume, which is made on the node  *)
(* of the first Pod and stays there.                                          *)
AlertmanagerStarts ==
  /\ alerting.am # None /\ bound.am = None
  /\ bound' = [bound EXCEPT !.am = alerting.am]
  /\ UNCHANGED <<addon, alertVars, logVars, ready, lokiPod, certs, slots, partial,
                 raced, requests, faults>>

(* Loki reads its configuration when it starts and at no other time.          *)
LokiStarts ==
  /\ logging.loki # None /\ logging.config # None /\ lokiPod = None
  /\ bound.loki \in {None, logging.loki.node}
  /\ bound' = [bound EXCEPT !.loki = logging.loki.node]
  /\ lokiPod' = [days |-> logging.config]
  /\ UNCHANGED <<addon, alertVars, logVars, ready, certs, slots, partial, raced, requests, faults>>

(* The Pod goes with its StatefulSet.  An update that only changes the        *)
(* annotation of the StatefulSet itself leaves the Pod alone.                 *)
LokiStops ==
  /\ logging.loki = None /\ lokiPod # None
  /\ lokiPod' = None
  /\ UNCHANGED <<addon, alertVars, logVars, ready, bound, certs, slots, partial, raced,
                 requests, faults>>

(* The Helm controller of K3s creates the resource definitions one after the  *)
(* other, then the workloads become available; either may fail.               *)
HelmInstalls ==
  /\ \/ /\ certs.chart = "installing" /\ certs.crds < CRDs
        /\ certs' = [certs EXCEPT !.crds = @ + 1]
     \/ /\ certs.chart = "installing" /\ certs.crds = CRDs
        /\ certs' = [certs EXCEPT !.chart = "deployed", !.up = TRUE]
     \/ /\ certs.webhook = "installing"
        /\ certs' = [certs EXCEPT !.webhook = "deployed"]
  /\ UNCHANGED <<addon, alertVars, logVars, ready, lokiPod, bound, slots, partial, raced,
                 requests, faults>>

(* Trouble: a chart fails, somebody applies cert-manager by hand, the metrics *)
(* store goes away or comes back.                                             *)
Trouble ==
  /\ faults < MaxFaults
  /\ faults' = faults + 1
  /\ \/ /\ \/ certs.chart = "installing" /\ certs' = [certs EXCEPT !.chart = "failed"]
           \/ certs.webhook = "installing" /\ certs' = [certs EXCEPT !.webhook = "failed"]
           \/ certs.crds = 0 /\ certs.chart = "absent" /\ certs' = [certs EXCEPT !.crds = 1]
        /\ UNCHANGED ready
     \/ ready' = ~ready /\ UNCHANGED certs
  /\ UNCHANGED <<addon, alertVars, logVars, lokiPod, bound, slots, partial, raced, requests>>

(* A call fails, or the caller goes away: what was written stays.             *)
Fail(s) ==
  /\ slots[s] # Idle
  /\ faults < MaxFaults
  /\ faults' = faults + 1
  /\ slots' = [slots EXCEPT ![s] = Idle]
  /\ partial' = TRUE
  /\ UNCHANGED <<addon, alertVars, logVars, ready, lokiPod, bound, certs, raced, requests>>

Request(s) ==
  \/ \E n \in Nodes, r \in Rules : installAlerting(s, n, r)
  \/ \E r \in Rules : updateAlerting(s, r)
  \/ uninstallAlerting(s)
  \/ \E n \in Nodes, d \in Days : installLogging(s, n, d)
  \/ uninstallLogging(s)
  \/ InstallCertManager(s)
  \/ InstallDNSProvider(s)

Step(s) ==
  \/ AlertingStep(s) \/ LoggingStep(s)
  \/ CreateChart(s) \/ CreateWebhookChart(s) \/ Fail(s)

Init ==
  /\ settings = None
  /\ alerting = [rules |-> None, ksm |-> FALSE, am |-> None, vmalert |-> None]
  /\ scrape = [config |-> FALSE, hash |-> FALSE]
  /\ ready = TRUE
  /\ logging = [config |-> None, loki |-> None, alloy |-> FALSE]
  /\ lokiPod = None
  /\ bound = [am |-> None, loki |-> None]
  /\ certs = [crds |-> 0, chart |-> "absent", up |-> FALSE, webhook |-> "absent"]
  /\ slots = [s \in Slots |-> Idle]
  /\ addon \in {"alerts", "logs", "certs"}
  /\ partial = FALSE /\ raced = FALSE /\ moved = FALSE
  /\ requests = 0 /\ faults = 0

Next ==
  \/ \E s \in Slots : Request(s) \/ Step(s)
  \/ AlertmanagerStarts \/ LokiStarts \/ LokiStops \/ HelmInstalls \/ Trouble

Spec == Init /\ [][Next]_vars

-----------------------------------------------------------------------------
TypeOK ==
  /\ settings = None \/ settings \in [node : Nodes, rules : Rules]
  /\ alerting \in [rules : Rules \cup {None}, ksm : BOOLEAN, am : Nodes \cup {None},
                   vmalert : Rules \cup {None}]
  /\ scrape \in [config : BOOLEAN, hash : BOOLEAN]
  /\ logging.loki = None \/ logging.loki \in [node : Nodes, days : Days]
  /\ bound \in [am : Nodes \cup {None}, loki : Nodes \cup {None}]
  /\ certs.crds \in 0..CRDs
  /\ {partial, raced, moved} \subseteq BOOLEAN

(* No request is served, and none failed half way or overlapped with another. *)
Settled == ~partial /\ ~raced /\ \A s \in Slots : slots[s] = Idle

(* After any sequence of installations, updates and removals the alert rules  *)
(* the stored settings name, the generated rule file and the rules vmalert    *)
(* was rolled with are the same, and the metrics store scrapes                *)
(* kube-state-metrics exactly while it is installed.                          *)
AlertsInForce ==
  Settled =>
    /\ alerting.vmalert # None =>
         /\ settings # None
         /\ alerting.vmalert = settings.rules
         /\ alerting.rules = settings.rules
    /\ scrape.config = alerting.ksm
    /\ scrape.hash = alerting.ksm

(* Alertmanager is never placed on another node than the one its volume lives *)
(* on, even after alerting was removed and installed again, because the       *)
(* settings that name the node are kept; Loki is so only as long as it was    *)
(* not installed anew elsewhere.                                              *)
StoragePinned ==
  /\ ~raced /\ alerting.am # None /\ bound.am # None
       => alerting.am = bound.am
  /\ ~raced /\ ~moved /\ logging.loki # None /\ bound.loki # None
       => logging.loki.node = bound.loki

(* The retention shown on the StatefulSet of Loki is the one in the           *)
(* configuration it mounts, and the collector runs next to it.                *)
LogsInForce ==
  Settled /\ logging.loki # None =>
    logging.config = logging.loki.days /\ logging.alloy

(* The webhook of a DNS provider is never installed before cert-manager works *)
(* and never over somebody else's half installation of it.                    *)
WebhookAfterManager ==
  certs.webhook # "absent" => certs.chart = "deployed" /\ certs.up /\ certs.crds = CRDs
=============================================================================
