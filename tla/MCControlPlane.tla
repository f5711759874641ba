--------------------------- MODULE MCControlPlane ---------------------------
(***************************************************************************)
(* The infrastructure side of the control plane, each part on a small      *)
(* instance of its own: certificates and DNS, the metrics store, system    *)
(* components, add-ons, nodes, runtimes, a chain of volume migrations, the *)
(* registries with their mirrors, catalog and proxies, and the platform's  *)
(* own releases, webhook and HTTPS entry.  They share no state: `active`   *)
(* names the part a behaviour belongs to.  Webhook, nodes and metrics store *)
(* keep the variables of their modules; x1 to x15 hold those of any other  *)
(* part, in the order in which its module declares them.                   *)
(***************************************************************************)
EXTENDS Cluster, PlatformWebhook, Metrics, Sequences, TLC

CONSTANTS Parts,                    \* the parts to check
          Charts,                   \* the charts of system components
          a1, a2, h1, k1, n1, n2, p1, p2, p3, r1, r2, v1, v2

VARIABLES active, x1, x2, x3, x4, x5, x6, x7, x8, x9, x10, x11, x12, x13, x14, x15

\* The parts with variables of their own.
kept == <<vars, webhookVars, metricsVars>>
state == <<x1, x2, x3, x4, x5, x6, x7, x8, x9, x10, x11, x12, x13, x14, x15>>

\* One or two replicas, none, or one pinned to a node.
ChartValues == [replicas : {0, 1, 2}, node : {None}] \cup [replicas : {1}, node : {n1, n2}]

\* A Pod of a controller, one of none, one with local storage; a server that is a node.
PodKinds == p1 :> "managed" @@ p2 :> "bare" @@ p3 :> "local"
ServerNodes == v1 :> n2

\* A runtime as it is, renamed, external, without a model, on a claim of its own.
Whole == [name |-> a1, mode |-> "managed", model |-> TRUE, claim |-> None]
RuntimeEdits == {Whole, [Whole EXCEPT !.name = a2], [Whole EXCEPT !.mode = "external"],
                 [Whole EXCEPT !.model = FALSE], [Whole EXCEPT !.claim = a2]}

\* What releases and templates may name: a pinned digest, a tag, the whole repository.
ImageReferences == {[kind |-> "release", tag |-> "t1", digest |-> "d1"],
                    [kind |-> "template", tag |-> "t2", digest |-> None],
                    [kind |-> "template", tag |-> None, digest |-> None]}

HostNames == {<<"a", "x">>, <<"b", "x">>, <<"*", "x">>}
WildcardOf == [k \in {k1} |-> {<<"*", "x">>}]

-----------------------------------------------------------------------------
Issuance == INSTANCE Issuance WITH
    Namespaces <- {n1, n2}, Values <- {v1, v2}, Issuers <- {a1}, Resolvers <- {r1, r2}, Host <- h1, MaxCredentials <- 1,
    MaxRequests <- 3, MaxFaults <- 1,
    creds <- x1, secrets <- x2, issuers <- x3, corefile <- x4, policies <- x5, made <- x6, slots <- x7,
    moved <- x8, unsynced <- x9, unsaved <- x10, raced <- x11, requests <- x12, faults <- x13

Components == INSTANCE SystemComponents WITH
    Nodes <- {n1, n2}, Values <- ChartValues, MaxRequests <- 2, MaxPasses <- 2, MaxEvents <- 1, MaxFaults <- 1,
    chart <- x1, deploy <- x2, helmConfig <- x3, ready <- x4, rows <- x5, recon <- x6, slots <- x7,
    drift <- x8, raced <- x9, requests <- x10, passes <- x11, events <- x12, faults <- x13

Addons == INSTANCE Addons WITH
    Nodes <- {n1, n2}, Rules <- {r1, r2}, Days <- {1, 2}, CRDs <- 2, MaxRequests <- 3, MaxFaults <- 1,
    settings <- x1, alerting <- x2, scrape <- x3, ready <- x4, logging <- x5, lokiPod <- x6, bound <- x7,
    certs <- x8, slots <- x9, addon <- x10, partial <- x11, raced <- x12, moved <- x13, requests <- x14,
    faults <- x15

Runtimes == INSTANCE Runtimes WITH
    Names <- {a1, a2}, Edits <- RuntimeEdits, MaxRequests <- 2, MaxFaults <- 1,
    row <- x1, claims <- x2, accounts <- x3, configs <- x4, services <- x5, secrets <- x6, deploys <- x7,
    grants <- x8, slots <- x9, keys <- x10, raced <- x11, renamed <- x12, lost <- x13, requests <- x14,
    faults <- x15

Chain == INSTANCE PVCMigration WITH
    Migration <- {p1, p2}, Origin <- p3, Node <- {n1, n2}, Home <- n1, Template <- {k1}, Deletable <- {p3}, Faults <- {"refused"},
    MaxFaults <- 0, MaxDBFaults <- 0, MaxDeadlines <- 0, MaxCrashes <- 0, MaxReleases <- 1, MaxWrites <- 0,
    row <- x1, exec <- x2, cleaner <- x3, deleter <- x4, dep <- x5, tpl <- x6, pvc <- x7, holder <- x8,
    pods <- x9, vol <- x10, writes <- x11, used <- x12

Mirroring == INSTANCE NodeMirrors WITH
    Mirrors <- {a1, a2}, ManagedRules <- {a2}, Existing <- {a1, a2}, Servers <- {n1, n2}, KeyServers <- {n1}, Written <- {n1},
    Defs <- {1, 2}, AuthDefs <- {2}, BareDefs <- {}, Aliased <- {}, MaxTrouble <- 1, MaxApplies <- 2,
    mirrors <- x1, statuses <- x2, running <- x3, nodes <- x4, slots <- x5, lost <- x6, restarted <- x7,
    used <- x8

Managed == INSTANCE ManagedRegistry WITH
    Ids <- {1, 2}, Configs <- {1, 2}, Claims <- {v1, v2}, MaxRequests <- 3,
    rows <- x1, images <- x2, mirrors <- x3, objects <- x4, busyClaims <- x5, refs <- x6, raced <- x7,
    slots <- x8, lost <- x9, used <- x10

Catalog == INSTANCE RegistryCatalog WITH
    Tags <- {"t1", "t2"}, Digests <- {"d1", "d2"}, References <- ImageReferences, MaxPushes <- 3, MaxRefs <- 1,
    tags <- x1, refs <- x2, slots <- x3, pushes <- x4, refChanges <- x5

Proxies == INSTANCE RegistryProxies WITH
    Ids <- {r1, r2}, Hosts <- {"docker.io", "quay"}, Ports <- {v1, v2}, MaxRequests <- 3,
    proxies <- x1, deployments <- x2, services <- x3, wanted <- x4, applied <- x5, slots <- x6,
    raced <- x7, overlap <- x8, lost <- x9, used <- x10

Platform == INSTANCE PlatformRelease WITH
    MaxId <- 2, Image <- {v1, v2}, BadImage <- {v2}, Request <- {a1}, Task <- k1, Faults <- {"refused", "lost"},
    MaxFaults <- 0, MaxDBFaults <- 1, MaxCrashes <- 0,
    row <- x1, age <- x2, thread <- x3, updateMu <- x4, deploy <- x5, pod <- x6, deployed <- x7, used <- x8

Entry == INSTANCE PlatformEndpoint WITH
    Hosts <- HostNames, Certs <- {k1}, DomainsOf <- WildcardOf, Own <- "own", Handmade <- {"hand"}, Outside <- {"app"},
    Secrets <- {1, 2}, MaxRequests <- 2, MaxEvents <- 1, MaxFaults <- 1,
    row <- x1, ingresses <- x2, certs <- x3, domains <- x4, slots <- x5, synced <- x6, raced <- x7, astray <- x8,
    requests <- x9, events <- x10, faults <- x11

-----------------------------------------------------------------------------
\* The places a part does not use.
Unused15 == x15 = None
Unused14 == x14 = None /\ Unused15
Unused13 == x13 = None /\ Unused14
Unused12 == x12 = None /\ Unused13
Unused11 == x11 = None /\ Unused12
Unused10 == x10 = None /\ Unused11
Unused9 == x9 = None /\ Unused10
Unused8 == x8 = None /\ Unused9
Unused7 == x7 = None /\ Unused8
Unused6 == x6 = None /\ Unused7
Unused1 == x1 = None /\ x2 = None /\ x3 = None /\ x4 = None /\ x5 = None /\ Unused6

MCInit ==
    /\ active \in Parts
    /\ WebhookInit /\ Init /\ MetricsInit
    /\ active # "cluster" => (\A n \in Nodes : nodes[n] # None) /\ (\A p \in Pods : at[p] \in ControlPlane)
    /\ active # "metrics" => deploy = Missing
    /\ \/ active = "issuance" /\ Issuance!Init /\ Unused14
       \/ active = "metrics" /\ Unused1
       \/ active = "components" /\ Components!Init /\ Unused14
       \/ active = "addons" /\ Addons!Init
       \/ active = "cluster" /\ Unused1
       \/ active = "runtimes" /\ Runtimes!Init
       \/ active = "chain" /\ Chain!Init /\ Unused13
       \/ active = "mirrors" /\ Mirroring!Init /\ Unused9
       \/ active = "managed" /\ Managed!Init /\ Unused11
       \/ active = "catalog" /\ Catalog!Init /\ Unused6
       \/ active = "proxies" /\ Proxies!Init /\ Unused11
       \/ active = "platform" /\ Platform!Init /\ Unused9
       \/ active = "endpoint" /\ Entry!Init /\ Unused12
       \/ active = "webhook" /\ Unused1

MCNext ==
    \/ active = "issuance" /\ Issuance!Next /\ UNCHANGED <<active, kept, x14, x15>>
    \/ active = "metrics" /\ MetricsNext /\ UNCHANGED <<active, vars, webhookVars, state>>
    \/ active = "components" /\ Components!Next /\ UNCHANGED <<active, kept, x14, x15>>
    \/ active = "addons" /\ Addons!Next /\ UNCHANGED <<active, kept>>
    \/ active = "cluster" /\ Next /\ UNCHANGED <<active, webhookVars, metricsVars, state>>
    \/ active = "runtimes" /\ Runtimes!Next /\ UNCHANGED <<active, kept>>
    \/ active = "chain" /\ Chain!Next /\ UNCHANGED <<active, kept, x13, x14, x15>>
    \/ active = "mirrors" /\ Mirroring!Next /\ UNCHANGED <<active, kept, x9, x10, x11, x12, x13, x14, x15>>
    \/ active = "managed" /\ Managed!Next /\ UNCHANGED <<active, kept, x11, x12, x13, x14, x15>>
    \/ active = "catalog" /\ Catalog!Next /\ UNCHANGED <<active, kept, x6, x7, x8, x9, x10, x11, x12, x13, x14, x15>>
    \/ active = "proxies" /\ Proxies!Next /\ UNCHANGED <<active, kept, x11, x12, x13, x14, x15>>
    \/ active = "platform" /\ Platform!Next /\ UNCHANGED <<active, kept, x9, x10, x11, x12, x13, x14, x15>>
    \/ active = "endpoint" /\ Entry!Next /\ UNCHANGED <<active, kept, x12, x13, x14, x15>>
    \/ active = "webhook" /\ WebhookNext /\ UNCHANGED <<active, vars, metricsVars, state>>

MCSpec == MCInit /\ [][MCNext]_<<active, kept, state>>

Symmetry == Permutations(Slots)

\* Bounds.  Migrations of a chain come one after the other; most parts meet three
\* requests, or two and a failing call, or a failing call or an event beside them.
Bounds ==
    /\ active = "chain" => Chain!OneAtATime
    /\ active = "issuance" => x12 + x13 <= 3
    /\ active = "metrics" => received + broken <= 3
    /\ active = "addons" => x14 + x15 <= 3
    /\ active = "cluster" => requests + faults <= 3
    /\ active = "components" => x12 + x13 <= 1
    /\ active = "endpoint" => x10 + x11 <= 1

\* The first request takes the first of the names that are interchangeable: the row, its
\* port, claim, configuration and outbound proxy, and the host of an Ingress made by hand.
FirstNames ==
    /\ active = "managed" /\ x10.requests = 1 =>
        x10.ids \subseteq {1} /\ \A s \in Slots : x8[s].row.cfg # 2 /\ x8[s].row.claim # v2
    /\ active = "proxies" /\ x10.requests = 1 =>
        x1[r2] = None /\ \A s \in Slots : x6[s].row # None => x6[s].row.port # v2 /\ x6[s].row.out # "b"
    /\ active = "endpoint" /\ x9 = 0 => \A n \in DOMAIN x2 : x2[n] # None => x2[n].host # <<"b", "x">>

-----------------------------------------------------------------------------
\* What was accepted is in force: DNS credentials in the Secrets of their namespace
\* (CredentialInForce), solvers that name a credential (IssuerResolves), the newest
\* policy in CoreDNS (PolicyMatches), chart values of system components
\* (ConfigInForce), alert rules in the running vmalert (AlertsInForce), the log
\* collection (LogsInForce), the node of stored data (StoragePinned), cert-manager's
\* webhook only after its manager (WebhookAfterManager), the release the platform's
\* own Deployment names, also with a failing database (DeploymentRecorded,
\* SucceededDeployed), and its one HTTPS entry (EndpointServed, OneEntry).
ConfigurationInForce ==
    /\ active = "issuance" =>
          Issuance!TypeOK /\ Issuance!CredentialInForce /\ Issuance!IssuerResolves /\ Issuance!PolicyMatches
    /\ active = "components" => Components!TypeOK /\ Components!ConfigInForce
    /\ active = "addons" => /\ Addons!TypeOK /\ Addons!AlertsInForce /\ Addons!StoragePinned
                            /\ Addons!LogsInForce /\ Addons!WebhookAfterManager
    /\ active = "platform" => Platform!TypeOK /\ Platform!DeploymentRecorded /\ Platform!SucceededDeployed
    /\ active = "endpoint" => Entry!TypeOK /\ Entry!EndpointServed /\ Entry!OneEntry
    /\ active = "webhook" => WebhookTypeOK

\* A runtime reported in force runs its stored generation (ObservedInForce), an
\* uninstalled one leaves no object (NothingLeft), and tools are taken away
\* before the agent that may use them changes (RevokedFirst).
RuntimesInForce ==
    active = "runtimes" =>
        Runtimes!TypeOK /\ Runtimes!ObservedInForce /\ Runtimes!NothingLeft /\ Runtimes!RevokedFirst

\* Registries, their mirrors and their clients agree: one managed registry whose
\* associations match it (OneRegistry, AssociationsAgree, NoDanglingReference), proxies
\* on ports of their own served as stored (NodePortUnique, OutboundProxyAsConfigured,
\* ServedAsStored), and at most one push per mirror rule, which leaves on a server what
\* it reports (SingleFlight, ApplyingHasTask, SuccessInstalled, InspectAgrees).
RegistriesAgree ==
    /\ active = "managed" =>
          Managed!TypeOK /\ Managed!OneRegistry /\ Managed!AssociationsAgree /\ Managed!NoDanglingReference
    /\ active = "proxies" =>
          Proxies!TypeOK /\ Proxies!NodePortUnique /\ Proxies!OutboundProxyAsConfigured /\ Proxies!ServedAsStored
    /\ active = "mirrors" => /\ Mirroring!TypeOK /\ Mirroring!SingleFlight /\ Mirroring!ApplyingHasTask
                             /\ Mirroring!SuccessInstalled /\ Mirroring!InspectAgrees
    /\ active = "catalog" => Catalog!TypeOK

\* No step takes away what is in use: a catalog deletion removes only confirmed tags
\* and keeps what releases and templates name (DeletesConfirmedTags,
\* ReferencedContentKept), a registry keeps its claim and a repair restores its
\* objects (ClaimFixed, RepairRestores), a script that fails puts the previous file
\* back (RestoreKeepsPrevious), a push is reported as succeeded only when every
\* server it selected was (SucceededCoversSelection), and an Ingress made by hand is
\* changed for the platform's entry only by its adoption (ForeignKept).
NothingTakenAway ==
    [][/\ active = "catalog" => Catalog!DeletesConfirmedTags /\ Catalog!ReferencedContentKept
       /\ active = "managed" => Managed!ClaimFixed /\ Managed!RepairRestores
       /\ active = "mirrors" => Mirroring!RestoreKeepsPrevious /\ Mirroring!SucceededCoversSelection
       /\ active = "endpoint" => Entry!ForeignKept]_<<active, state>>

\* A volume that is migrated twice, with releases, cleanups and deletions of old
\* claims in between: the Deployment stays where its volume is, no claim that is
\* still referred to is deleted, and one migration per claim is unfinished.
MigrationChain ==
    active = "chain" => Chain!TypeOK /\ Chain!DeploymentOnVolumeNode /\ Chain!ReferencedClaimKept /\ Chain!OneActiveMigration

-----------------------------------------------------------------------------
\* Every registry proxy has Kubernetes resources of its own.
IndependentResources == active = "proxies" => Proxies!IndependentResources

\* A component without high availability keeps its one replica.
ProfileKept == active = "components" => Components!ProfileKept
=============================================================================
