--------------------------- MODULE MCApplications ---------------------------
(***************************************************************************)
(* The application side of the control plane, each part on a small         *)
(* instance of its own: releases, the workspace, deployment templates, the *)
(* objects of a release, domains and routes, the resource editor and       *)
(* integration consoles.  They share no state: `active` names the part a   *)
(* behaviour belongs to.  The releases keep the variables of Release; x1   *)
(* to x13 hold those of the part that is active, in the order in which its *)
(* module declares them.                                                   *)
(***************************************************************************)
EXTENDS Release, Sequences, FiniteSets, TLC

CONSTANTS
    Parts,            \* the parts to check
    Serial,           \* releases of the rollbacks, and their requests, by number
    SerialFaults, SerialCrashes,
    Apps, EnvironmentOf, ProjectOf, Capabilities, Contents, Sessions, ConsoleRequests, MaxTokens,   \* of the consoles
    a1, a2, e1, e2, h1, h2, i1, k1, n1, n2, p1, p2, r1

ASSUME PartsAssumption ==
    /\ None \notin Serial \cup Request /\ Contents # {}
    /\ {SerialFaults, SerialCrashes, ConsoleRequests, MaxTokens} \subseteq Nat
    /\ \A row \in [app : Apps, used : BOOLEAN, open : BOOLEAN, live : BOOLEAN, token : 0 .. MaxTokens] : row # None

VARIABLES active, x1, x2, x3, x4, x5, x6, x7, x8, x9, x10, x11, x12, x13

state == <<x1, x2, x3, x4, x5, x6, x7, x8, x9, x10, x11, x12, x13>>

\* Two environments of two projects that were bound to one namespace before
\* the platform kept namespaces apart.
SharedBefore == e1 :> [project |-> p1, ns |-> n1] @@ e2 :> [project |-> p2, ns |-> n1]

\* Templates with a mounted key, a key switched off, secrets for a private
\* registry, a mounted secret, another application's ConfigMap, and a bad port.
Plain == [config |-> {}, configOff |-> {}, secrets |-> {}, secretsOff |-> {}, values |-> {}, mount |-> None,
          private |-> FALSE, auth |-> FALSE, sound |-> TRUE]
ReleaseSpecs ==
    {[Plain EXCEPT !.config = {"k", "l"}, !.mount = [source |-> "application_config", key |-> "k"]],
     [Plain EXCEPT !.config = {"k", "l"}, !.configOff = {"k"}],
     [Plain EXCEPT !.secrets = {"k", "l"}, !.values = {"k", "l"}, !.private = TRUE],
     [Plain EXCEPT !.secrets = {"k", "l"}, !.values = {"k", "l"}, !.secretsOff = {"l"},
                   !.mount = [source |-> "application_secret", key |-> "k"]],
     [Plain EXCEPT !.mount = [source |-> "configmap", key |-> "l"]],
     [Plain EXCEPT !.sound = FALSE]}

\* A form that sets a key, and one that sends it blank.
FormEdits == {"k" :> "v", "k" :> ""}

\* Two environments of one project, an application in each.
AppEnvironments == a1 :> "e1" @@ a2 :> "e2"
AppProjects == a1 :> "p" @@ a2 :> "p"

-----------------------------------------------------------------------------
Rollbacks == INSTANCE Release WITH
    ReleaseId <- Serial, Request <- Serial, MaxDBFaults <- SerialFaults, MaxCrashes <- SerialCrashes,
    rel <- x1, op <- x2, req <- x3, exec <- x4, cluster <- x5, ready <- x6, readied <- x7, solo <- x8, dbFaults <- x9, crashes <- x10

Workspace == INSTANCE Workspace WITH
    Slots <- Request, Projects <- {p1, p2}, Environments <- {e1, e2}, Applications <- {a1}, Namespaces <- {n1, n2}, Registries <- {r1},
    Shared <- SharedBefore, MaxRequests <- 4,
    projects <- x1, environments <- x2, applications <- x3, registries <- x4, released <- x5,
    namespaces <- x6, unique <- x7, slots <- x8, raced <- x9, stale <- x10, requests <- x11

Templates == INSTANCE Templates WITH
    Slots <- Request, Ids <- {1, 2}, Keys <- {k1}, MaxRequests <- 3,
    templates <- x1, default <- x2, files <- x3, released <- x4, lastId <- x5, slots <- x6, raced <- x7,
    stale <- x8, requests <- x9

Resources == INSTANCE ApplicationResources WITH
    Keys <- {"k", "l"}, Specs <- ReleaseSpecs, MaxReleases <- 2, MaxTrouble <- 1,
    kind <- x1, cluster <- x2, foreign <- x3, pods <- x4, releases <- x5, job <- x6, change <- x7,
    current <- x8, excuse <- x9, trouble <- x10

Domains == INSTANCE Domains WITH
    Slots <- Request, Apps <- {a1}, Hosts <- {h1, h2}, OwnHost <- h2, Paths <- {"/"}, Ports <- {1}, MaxDomains <- 2, MaxEndpoints <- 2,
    MaxRequests <- 3, MaxFaults <- 1,
    domains <- x1, certs <- x2, secrets <- x3, endpoints <- x4, ingress <- x5, port <- x6, made <- x7,
    slots <- x8, drift <- x9, overlap <- x10, renamed <- x11, requests <- x12, faults <- x13

Editor == INSTANCE ResourceEditor WITH
    Slots <- Request, Namespaces <- {"app", "kube-system"}, Home <- "app", Protected <- {"kube-system"}, Edits <- FormEdits, Blank <- "",
    Images <- {"i1", "i2"}, Containers <- {"main", "side"}, Main <- "main", MaxRequests <- 2, MaxFaults <- 1, MaxWrites <- 1,
    namespaces <- x1, objects <- x2, workloads <- x3, mounts <- x4, service <- x5, ingress <- x6,
    slots <- x7, requests <- x8, faults <- x9, writes <- x10

Consoles == INSTANCE Integration WITH
    Slots <- Request, MaxRequests <- ConsoleRequests,
    capabilities <- x1, sessions <- x2, handed <- x3, delegations <- x4, templates <- x5, default <- x6,
    releases <- x7, mutex <- x8, slots <- x9, requests <- x10

-----------------------------------------------------------------------------
\* The places a part does not use.
Unused13 == x13 = None
Unused12 == x12 = None /\ Unused13
Unused11 == x11 = None /\ Unused12
Unused10 == x10 = None /\ Unused11
Unused9 == x9 = None /\ Unused10
Unused8 == x8 = None /\ Unused9
Unused7 == x7 = None /\ Unused8
Unused6 == x6 = None /\ Unused7
Unused5 == x5 = None /\ Unused6
Unused4 == x4 = None /\ Unused5
Unused3 == x3 = None /\ Unused4
Unused2 == x2 = None /\ Unused3
Unused1 == x1 = None /\ Unused2

MCInit ==
    /\ active \in Parts
    /\ Init
    /\ \/ active = "releases" /\ Unused1
       \/ active = "rollbacks" /\ Rollbacks!Init /\ Unused11
       \/ active = "workspace" /\ Workspace!Init /\ Unused12
       \/ active = "templates" /\ Templates!Init /\ Unused10
       \/ active = "resources" /\ Resources!Init /\ Unused11
       \/ active = "domains" /\ Domains!Init
       \/ active = "editor" /\ Editor!Init /\ Unused11
       \/ active = "integration" /\ Consoles!Init /\ Unused11

MCNext ==
    \/ active = "releases" /\ Next /\ UNCHANGED <<active, state>>
    \/ active = "rollbacks" /\ Rollbacks!Next /\ UNCHANGED <<active, vars, x11, x12, x13>>
    \/ active = "workspace" /\ Workspace!Next /\ UNCHANGED <<active, vars, x12, x13>>
    \/ active = "templates" /\ Templates!Next /\ UNCHANGED <<active, vars, x10, x11, x12, x13>>
    \/ active = "resources" /\ Resources!Next /\ UNCHANGED <<active, vars, x11, x12, x13>>
    \/ active = "domains" /\ Domains!Next /\ UNCHANGED <<active, vars>>
    \/ active = "editor" /\ Editor!Next /\ UNCHANGED <<active, vars, x11, x12, x13>>
    \/ active = "integration" /\ Consoles!Next /\ UNCHANGED <<active, vars, x11, x12, x13>>

MCSpec == MCInit /\ [][MCNext]_<<active, vars, state>>

Symmetry == Permutations(Request)

\* Releases come in the order of their numbers, and the first one deploys the first
\* image: identifiers are interchangeable, and so are images.
InOrder(rows, n) ==
    /\ \A r \in 2 .. n : rows[r - 1].seq = 0 => rows[r].seq = 0
    /\ rows[1].image \in {None, i1}

\* Bounds.  Two releases overlap in every way, with one fault or one crash.  Three
\* requests come one at a time, in the order of their numbers, beside one execution.
\* The fourth request on the workspace overlaps no other.  Domains meet three requests,
\* or two and a failing call; the resource editor meets one failing call or one write of
\* somebody else.  A console's first delegation is for the first application.
Bounds ==
    /\ active = "releases" => InOrder(rel, 2) /\ dbFaults + crashes <= 1
    /\ active = "rollbacks" =>
        /\ InOrder(x1, 3)
        /\ Cardinality({q \in 1 .. 3 : x3[q].pc \notin {"idle", "done"}}) <= 1
        /\ \A q \in 2 .. 3 : x3[q - 1].pc = "idle" => x3[q].pc = "idle"
        /\ Cardinality({r \in 1 .. 3 : x4[r].pc \notin {"none", "done"}}) <= 1
    /\ active = "workspace" => x11 < 4 \/ \E s \in Request : x8[s].op = "idle"
    /\ active = "domains" => x12 + x13 <= 3
    /\ active = "integration" /\ x10 = 0 => \A d \in x4 : d.environments = {"e1"}
    /\ active = "editor" => x9 + x10 <= 1

-----------------------------------------------------------------------------
\* What a rollback or a restart deploys is what an earlier release deployed with
\* success, also when its queries race with the execution of another release.
RollbackSources == active = "rollbacks" => Rollbacks!DerivedFromSuccess

\* Environments, applications and templates point at rows that exist and at
\* namespaces that are their own: each namespace carries the labels of one
\* environment (NamespaceOwner), a default registry is one the project may use
\* (DefaultAuthorized), no row outlives its project or environment (NoOrphans),
\* releases and the default point at stored templates (ReferencesHold), and the
\* default is enabled and its managed keys are registered (DefaultInForce), and what
\* the resource editor stores is well formed.
WorkspaceReferences ==
    /\ active = "workspace" =>
          Workspace!TypeOK /\ Workspace!NamespaceOwner /\ Workspace!DefaultAuthorized /\ Workspace!NoOrphans
    /\ active = "templates" => Templates!TypeOK /\ Templates!ReferencesHold /\ Templates!DefaultInForce
    /\ active = "editor" => Editor!TypeOK

\* No handler takes over, writes over or deletes what its user could not know to be
\* someone else's: a namespace bound to another environment (NamespaceBoundOnce), a
\* template edited with a revision (EditKeepsUnseen), a managed ConfigMap replaced by
\* a console (ReplaceSeen), keys sent blank and images of a scaled workload in the
\* resource editor (EditsKeepTheRest), a ConfigMap or Secret in use (DeletionSeesUsers).
EditsKeepOthersWork ==
    [][/\ active = "workspace" => Workspace!NamespaceBoundOnce
       /\ active = "templates" => Templates!EditKeepsUnseen
       /\ active = "integration" => Consoles!ReplaceSeen
       /\ active = "editor" => Editor!EditsKeepTheRest /\ Editor!DeletionSeesUsers]_<<active, state>>

\* Everything the controller a release applied last refers to is in the cluster.
ReferencesResolved == active = "resources" => Resources!TypeOK /\ Resources!ReferencesResolved

\* The Ingress of an application is what its endpoints ask for (IngressMatches),
\* endpoints stand on stored domains (EndpointsSound), and a route with TLS names
\* a certificate its domain has been issued (TLSServed).
RoutesServed ==
    active = "domains" => Domains!TypeOK /\ Domains!IngressMatches /\ Domains!EndpointsSound /\ Domains!TLSServed

\* A handoff code opens one console session (HandoffOnce), and the release a
\* console asks for will carry the content it saved (RestartReadsSaved).
ConsoleSessions == active = "integration" => Consoles!TypeOK /\ Consoles!HandoffOnce /\ Consoles!RestartReadsSaved

-----------------------------------------------------------------------------
\* A change of workload kind is carried out unless a call fails.
KindMigrates == [][active = "resources" => Resources!KindMigrates]_<<active, state>>
=============================================================================
