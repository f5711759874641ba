-------------------------- MODULE PlatformEndpoint --------------------------
(***************************************************************************)
(* The HTTPS entry of the platform itself: one row (model/platform.go),    *)
(* the handlers that store, reconcile and adopt it                         *)
(* (api/delivery/platform_handler.go) and the Ingress they maintain        *)
(* (k8s/platform.go).  An Ingress that somebody made by hand is touched    *)
(* only after it was adopted; the check that it is ours, the check that    *)
(* the host is free and the write are calls of their own.                  *)
(*                                                                         *)
(* A host name is the sequence of its labels.                              *)
(***************************************************************************)
EXTENDS Naturals, Sequences, FiniteSets

CONSTANTS
    Hosts,        \* host names a request or an Ingress may carry
    Certs,        \* certificates of the namespace
    DomainsOf,    \* the host names a certificate was issued for
    Own,          \* platformDeploymentName, the name of an Ingress made by the platform
    Handmade,     \* names of other Ingresses of the namespace
    Outside,      \* Ingresses of other namespaces
    Secrets,      \* TLS Secrets
    Slots, None,
    MaxRequests,  \* bound: requests
    MaxEvents,    \* bound: what others do meanwhile
    MaxFaults     \* bound: calls that fail

VARIABLES
    row,          \* the PlatformEndpoint, or None
    ingresses,    \* name -> None or the Ingress
    certs,        \* certificate -> its state and its Secret
    domains,      \* host names of managed domains
    slots,        \* requests under way
    synced,       \* the last reconciliation succeeded and nothing was touched since
    raced,        \* since the last request that began alone, something happened beside it
    astray,       \* the row came to name another Ingress while the old one stood, an adoption
                  \* broke off after it labelled one, or two requests were under way at once
    requests, events, faults

vars == <<row, ingresses, certs, domains, slots, synced, raced, astray, requests, events, faults>>
ghosts == <<synced, raced, astray>>

Names == {Own} \cup Handmade \cup Outside
Endpoint == [host : Hosts \cup {<<>>}, ingress : Handmade \cup {Own, None}, cert : Certs \cup {None},
             tls : Secrets \cup {None}, enabled : BOOLEAN]
Ingress == [host : Hosts, tls : Secrets \cup {None}, managed : BOOLEAN, root : BOOLEAN]
Blank == [host |-> <<>>, ingress |-> None, cert |-> None, tls |-> None, enabled |-> FALSE]
\* An Ingress made by hand; one of the namespace routes to the platform.
ByHand(n, h) == [host |-> h, tls |-> None, managed |-> FALSE, root |-> n \notin Outside]
Idle == [pc |-> "idle", op |-> None, endpoint |-> None, name |-> None, seen |-> None]

Init ==
    /\ row = None /\ domains = {}
    /\ \E handmade \in BOOLEAN, h \in Hosts :
          ingresses = [n \in Names |-> IF handmade /\ n \in Handmade THEN ByHand(n, h) ELSE None]
    /\ certs = [k \in Certs |-> [ready |-> TRUE, secret |-> CHOOSE secret \in Secrets : TRUE]]
    /\ slots = [s \in Slots |-> Idle]
    /\ synced = FALSE /\ raced = FALSE /\ astray = FALSE
    /\ requests = 0 /\ events = 0 /\ faults = 0

Fault == faults < MaxFaults /\ faults' = faults + 1
NoFault == UNCHANGED faults
At(s, pc) == slots[s].pc = pc
Go(s, rec) == slots' = [slots EXCEPT ![s] = rec]
Goto(s, pc) == Go(s, [slots[s] EXCEPT !.pc = pc])
Leave(s) == Go(s, Idle)
Busy == \E s \in Slots : slots[s].pc # "idle"

\* A call fails and the handler returns.
Fails(s) ==
    /\ Fault /\ Leave(s)
    /\ astray' = (astray \/ (slots[s].op = "adopt" /\ slots[s].name # None))
    /\ UNCHANGED <<row, ingresses, certs, domains, synced, raced, requests, events>>

\* The handler returns an error.
Refuse(s) ==
    /\ Leave(s) /\ NoFault
    /\ astray' = (astray \/ (slots[s].op = "adopt" /\ slots[s].name # None))
    /\ UNCHANGED <<row, ingresses, certs, domains, synced, raced, requests, events>>

-----------------------------------------------------------------------------
\* At least two labels, and no wildcard.
validPlatformHostname(host) == Len(host) >= 2 /\ host[1] # "*"

\* The same name, or a wildcard for the first label alone.
certificateCoversHostname(domain, host) ==
    domain = host \/ (domain[1] = "*" /\ Len(host) = Len(domain) /\ Tail(host) = Tail(domain))

\* The certificate is named, ready, has a Secret and covers the host.
platformEndpointCertificate(endpoint) ==
    /\ endpoint.cert # None /\ certs[endpoint.cert].ready
    /\ \E domain \in DomainsOf[endpoint.cert] : certificateCoversHostname(domain, endpoint.host)

platformIngressName(name) == IF name = None THEN Own ELSE name

Abandons(name) ==
    /\ row # None
    /\ LET old == platformIngressName(row.ingress) IN old # platformIngressName(name) /\ ingresses[old] # None

\* The platform's Ingress for a host.
platformIngress(host, tls) == [host |-> host, tls |-> tls, managed |-> TRUE, root |-> TRUE]

-----------------------------------------------------------------------------
(* UpdateEndpoint, ReconcileEndpoint and AdoptEndpointIngress.             *)

Arrive(s, rec) ==
    /\ At(s, "idle") /\ requests < MaxRequests
    /\ requests' = requests + 1 /\ Go(s, rec)
    /\ raced' = Busy /\ astray' = (astray \/ Busy)
    /\ synced' = (synced /\ ~raced)
    /\ UNCHANGED <<row, ingresses, certs, domains, events, faults>>

\* What is stored: the Ingress that was adopted stays with its host; a request
\* that disables the entry keeps what it does not name.
RequestedEndpoint(host, cert, enabled) ==
    LET current == IF row = None THEN Blank ELSE row IN
    [host |-> IF ~enabled /\ host = <<>> THEN current.host ELSE host,
     cert |-> IF ~enabled /\ cert = None THEN current.cert ELSE cert,
     tls |-> IF enabled THEN None ELSE current.tls,
     ingress |-> IF ~enabled \/ host = current.host THEN current.ingress ELSE None,
     enabled |-> enabled]

UpdateEndpoint(s, host, cert, enabled) ==
    Arrive(s, [Idle EXCEPT !.op = "update", !.endpoint = RequestedEndpoint(host, cert, enabled),
                           !.pc = IF enabled THEN "check" ELSE "save"])

\* Host name, ingress controller, certificate, and the domains of projects.
CheckEndpoint(s) ==
    /\ At(s, "check")
    /\ LET endpoint == slots[s].endpoint
           sound == validPlatformHostname(endpoint.host) /\ platformEndpointCertificate(endpoint)
                      /\ endpoint.host \notin domains
       IN IF sound
          THEN /\ NoFault
               /\ Go(s, [slots[s] EXCEPT !.pc = "save", !.endpoint.tls = certs[endpoint.cert].secret])
               /\ UNCHANGED <<row, ingresses, certs, domains, ghosts, requests, events>>
          ELSE Refuse(s)

\* SavePlatformEndpoint writes the whole row.
SavePlatformEndpoint(s) ==
    /\ At(s, "save")
    /\ row' = slots[s].endpoint /\ synced' = FALSE
    /\ astray' = (astray \/ Abandons(slots[s].endpoint.ingress))
    /\ Goto(s, IF slots[s].op = "adopt" THEN "candidates" ELSE "reconcile") /\ NoFault
    /\ UNCHANGED <<ingresses, certs, domains, raced, requests, events>>

ReconcileEndpoint(s) == Arrive(s, [Idle EXCEPT !.op = "reconcile", !.pc = "reconcile"])

\* reconcilePlatformEndpoint reads the row again.
reconcilePlatformEndpoint(s) ==
    /\ At(s, "reconcile")
    /\ IF row = None THEN Refuse(s)
       ELSE LET name == platformIngressName(row.ingress) IN
            /\ NoFault
            /\ Go(s, [slots[s] EXCEPT !.endpoint = row, !.name = name, !.pc = IF row.enabled THEN "certificate" ELSE "remove"])
            /\ UNCHANGED <<row, ingresses, certs, domains, ghosts, requests, events>>

\* The certificate must still do, and a Secret that changed is stored first.
Certificate(s) ==
    /\ At(s, "certificate")
    /\ LET endpoint == slots[s].endpoint IN
       IF ~platformEndpointCertificate(endpoint) THEN Refuse(s)
       ELSE LET tls == certs[endpoint.cert].secret IN
            /\ row' = IF endpoint.tls # tls THEN [endpoint EXCEPT !.tls = tls] ELSE row
            /\ Go(s, [slots[s] EXCEPT !.endpoint.tls = tls, !.pc = "available"]) /\ NoFault
            /\ UNCHANGED <<ingresses, certs, domains, ghosts, requests, events>>

\* AdoptEndpointIngress: the entry is enabled and its certificate does; the row
\* that was read is saved with the Secret.
AdoptEndpointIngress(s) == row # None /\ row.enabled /\ Arrive(s, [Idle EXCEPT !.op = "adopt", !.endpoint = row, !.pc = "adopt"])

AdoptCertificate(s) ==
    /\ At(s, "adopt")
    /\ LET endpoint == slots[s].endpoint IN
       IF ~platformEndpointCertificate(endpoint) THEN Refuse(s)
       ELSE /\ Go(s, [slots[s] EXCEPT !.endpoint.tls = certs[endpoint.cert].secret, !.pc = "save"]) /\ NoFault
            /\ UNCHANGED <<row, ingresses, certs, domains, ghosts, requests, events>>

\* The row is saved a second time, with the name of the Ingress.
AdoptSave(s) ==
    /\ At(s, "adopted")
    /\ row' = [slots[s].endpoint EXCEPT !.ingress = slots[s].name]
    /\ synced' = TRUE /\ astray' = (astray \/ Abandons(slots[s].name))
    /\ Leave(s) /\ NoFault
    /\ UNCHANGED <<ingresses, certs, domains, raced, requests, events>>

-----------------------------------------------------------------------------
(* AdoptPlatformIngressContext, ensurePlatformIngress and                  *)
(* RemovePlatformEndpointContext.                                          *)

matchesPlatformIngress(ingress, host) == ingress # None /\ ingress.host = host /\ ingress.root

Candidates(host) == {n \in {Own} \cup Handmade : matchesPlatformIngress(ingresses[n], host)}

\* One Ingress of the namespace routes the host to the platform.
ListCandidates(s) ==
    /\ At(s, "candidates")
    /\ LET found == Candidates(slots[s].endpoint.host) IN
       IF Cardinality(found) # 1 THEN Refuse(s)
       ELSE LET name == CHOOSE n \in found : TRUE IN
            /\ Go(s, [slots[s] EXCEPT !.name = name, !.seen = ingresses[name],
                        !.pc = IF ingresses[name].managed THEN "available" ELSE "label"])
            /\ NoFault /\ UNCHANGED <<row, ingresses, certs, domains, ghosts, requests, events>>

\* The label is written to the version that was listed.
Label(s) ==
    /\ At(s, "label")
    /\ IF ingresses[slots[s].name] # slots[s].seen THEN Refuse(s)
       ELSE /\ ingresses' = [ingresses EXCEPT ![slots[s].name].managed = TRUE]
            /\ Goto(s, "available") /\ NoFault
            /\ UNCHANGED <<row, certs, domains, ghosts, requests, events>>

\* No other Ingress of any namespace has the host.
HostFree(host, name) == \A n \in Names \ {name} : ingresses[n] # None => ingresses[n].host # host

ensurePlatformHostnameAvailable(s) ==
    /\ At(s, "available")
    /\ IF HostFree(slots[s].endpoint.host, slots[s].name)
       THEN Goto(s, "get") /\ NoFault /\ UNCHANGED <<row, ingresses, certs, domains, ghosts, requests, events>>
       ELSE Refuse(s)

\* An Ingress that exists must carry the label.
OursUnchecked(ingress) == TRUE
Ours(ingress) == ingress.managed

GetIngress(s) ==
    /\ At(s, "get")
    /\ LET existing == ingresses[slots[s].name] IN
       IF existing # None /\ ~Ours(existing) THEN Refuse(s)
       ELSE /\ Go(s, [slots[s] EXCEPT !.seen = existing, !.pc = "write"]) /\ NoFault
            /\ UNCHANGED <<row, ingresses, certs, domains, ghosts, requests, events>>

\* Create, or Update with the version that was read; both fail when it changed.
Desired(s) == platformIngress(slots[s].endpoint.host, slots[s].endpoint.tls)
WriteIngress(s) ==
    /\ At(s, "write")
    /\ IF ingresses[slots[s].name] # slots[s].seen THEN Refuse(s)
       ELSE /\ ingresses' = [ingresses EXCEPT ![slots[s].name] = Desired(s)]
            /\ synced' = (slots[s].op # "adopt" \/ synced)
            /\ IF slots[s].op = "adopt" THEN Goto(s, "adopted") ELSE Leave(s)
            /\ NoFault /\ UNCHANGED <<row, certs, domains, raced, astray, requests, events>>

\* A removal looks at the label, then deletes by name.
RemoveGet(s) ==
    /\ At(s, "remove")
    /\ LET existing == ingresses[slots[s].name] IN
       \/ /\ existing = None /\ synced' = TRUE /\ Leave(s) /\ NoFault
          /\ UNCHANGED <<row, ingresses, certs, domains, raced, astray, requests, events>>
       \/ existing # None /\ ~Ours(existing) /\ Refuse(s)
       \/ /\ existing # None /\ Ours(existing)
          /\ Go(s, [slots[s] EXCEPT !.seen = existing, !.pc = "delete"]) /\ NoFault
          /\ UNCHANGED <<row, ingresses, certs, domains, ghosts, requests, events>>

RemoveDelete(s) ==
    /\ At(s, "delete")
    /\ ingresses' = [ingresses EXCEPT ![slots[s].name] = None]
    /\ synced' = TRUE /\ Leave(s) /\ NoFault
    /\ UNCHANGED <<row, certs, domains, raced, astray, requests, events>>

-----------------------------------------------------------------------------
(* Others: someone edits an Ingress by hand, a certificate is renewed or   *)
(* expires, a project takes a domain.                                      *)

Event ==
    /\ events < MaxEvents /\ events' = events + 1
    /\ raced' = (raced \/ Busy)
    /\ UNCHANGED <<slots, astray, requests, faults>>

EditIngress(n, ingress) ==
    /\ Event /\ ingresses[n] # ingress
    /\ ingresses' = [ingresses EXCEPT ![n] = ingress]
    /\ synced' = FALSE
    /\ UNCHANGED <<row, certs, domains>>

EditCertificate(k, ready, secret) ==
    /\ Event /\ certs[k] # [ready |-> ready, secret |-> secret]
    /\ certs' = [certs EXCEPT ![k] = [ready |-> ready, secret |-> secret]]
    /\ synced' = FALSE
    /\ UNCHANGED <<row, ingresses, domains>>

TakeDomain(h) ==
    /\ Event /\ domains' = domains \cup {h}
    /\ UNCHANGED <<row, ingresses, certs, synced>>

Step(s) ==
    \/ CheckEndpoint(s) \/ SavePlatformEndpoint(s) \/ reconcilePlatformEndpoint(s) \/ Certificate(s)
    \/ AdoptCertificate(s) \/ ListCandidates(s) \/ Label(s) \/ ensurePlatformHostnameAvailable(s)
    \/ GetIngress(s) \/ WriteIngress(s) \/ AdoptSave(s) \/ RemoveGet(s) \/ RemoveDelete(s)

Others ==
    \/ \E n \in Names, h \in Hosts : EditIngress(n, ByHand(n, h))
    \/ \E n \in Names : EditIngress(n, None)
    \/ \E k \in Certs, ready \in BOOLEAN, secret \in Secrets : EditCertificate(k, ready, secret)
    \/ \E h \in Hosts : TakeDomain(h)

Next ==
    \/ Others
    \/ \E s \in Slots :
          \/ \E h \in Hosts \cup {<<>>}, k \in Certs \cup {None}, enabled \in BOOLEAN : UpdateEndpoint(s, h, k, enabled)
          \/ ReconcileEndpoint(s) \/ AdoptEndpointIngress(s) \/ Step(s)
          \/ ~At(s, "idle") /\ Fails(s)

Spec == Init /\ [][Next]_vars

-----------------------------------------------------------------------------
TypeOK ==
    /\ row \in Endpoint \cup {None} /\ domains \subseteq Hosts
    /\ \A n \in Names : ingresses[n] = None \/ ingresses[n] \in Ingress
    /\ certs \in [Certs -> [ready : BOOLEAN, secret : Secrets]]
    /\ \A s \in Slots : slots[s].endpoint \in Endpoint \cup {None} /\ slots[s].name \in Names \cup {None}
    /\ requests \in 0 .. MaxRequests /\ events \in 0 .. MaxEvents /\ faults \in 0 .. MaxFaults

\* platformEndpointInfo: what the page says of an enabled entry.
State ==
    LET ingress == ingresses[platformIngressName(row.ingress)] IN
    IF ~row.enabled THEN "disabled"
    ELSE IF ~certs[row.cert].ready THEN "waiting_certificate"
    ELSE IF ingress # None /\ ingress.managed THEN "ready" ELSE "waiting_ingress"

\* After a reconciliation that succeeded the cluster serves what is stored: an
\* enabled entry has its Ingress with its host, the Secret of its certificate and
\* a page that says so, a disabled one has none.
EndpointServed ==
    synced /\ ~raced /\ ~Busy =>
        LET ingress == ingresses[platformIngressName(row.ingress)] IN
        IF row.enabled THEN ingress = platformIngress(row.host, certs[row.cert].secret) /\ State = "ready" ELSE ingress = None

\* There is one entry: an Ingress with the platform's label is the one the row
\* names, unless one went astray.
OneEntry ==
    ~astray /\ ~Busy =>
        \A n \in Names : ingresses[n] # None /\ ingresses[n].managed => row # None /\ n = platformIngressName(row.ingress)

\* An Ingress without the label changes by a handler only when it is adopted, and
\* then it routed the host of the entry to the platform already. (A removal that
\* looked at a labelled Ingress deletes whatever has its name by then.)
ForeignKept ==
    \A s \in Slots, n \in Names :
        /\ slots'[s] # slots[s] /\ ingresses'[n] # ingresses[n] /\ ingresses[n] # None /\ ~ingresses[n].managed
        /\ ~(At(s, "delete") /\ ingresses[n] # slots[s].seen)
        => At(s, "label") /\ matchesPlatformIngress(ingresses[n], slots[s].endpoint.host)
=============================================================================
