-------------------------------- MODULE Domains --------------------------------
(***************************************************************************)
(* Managed domains, their certificates, and the endpoints that publish the *)
(* applications of one environment under them.  The rows are in the        *)
(* database; certificates, TLS Secrets and one Ingress per application are *)
(* in the cluster.  Requests run concurrently, step by step.               *)
(***************************************************************************)
EXTENDS Naturals

CONSTANTS Apps, Hosts, OwnHost,   \* OwnHost: the host of a certificate made by hand
          Paths, Ports,
          MaxDomains, MaxEndpoints, Slots, MaxRequests, MaxFaults, None

Ids == 1..MaxDomains
Certs == 0..MaxDomains            \* cylism-domain-<id>, and 0 the certificate made by hand
EndpointIds == 1..MaxEndpoints

VARIABLES domains,      \* id -> [host, bound, imported, enabled, cert], or None
          certs,        \* certificate -> [host, ready], or None
          secrets,      \* certificate -> the host of the issued TLS Secret, or None
          endpoints,    \* id -> [app, domain, host, path, tls, ingress, port], or None
          ingress,      \* application -> the rules of its Ingress
          port,         \* application -> the Service port of its last successful release
          made,         \* the ids handed out so far
          slots,        \* the requests in flight
          drift,        \* applications whose Ingress may differ from the rows
          overlap,      \* which requests ran at once: "endpoints", or "domains" with any other
          renamed,      \* the domains whose host was changed
          requests, faults

vars == <<domains, certs, secrets, endpoints, ingress, port, made, slots, drift, overlap, renamed, requests, faults>>

Idle == [pc |-> "idle", app |-> None]
Stored(table) == {i \in DOMAIN table : table[i] # None}
Others(s) == {t \in Slots \ {s} : slots[t] # Idle}
Fault == faults < MaxFaults /\ faults' = faults + 1
NoFault == UNCHANGED faults

\* A domain from before environments owned domains: it has a namespace only.
Historic(h) == [host |-> h, bound |-> FALSE, imported |-> FALSE, enabled |-> TRUE, cert |-> None]

\* One domain is there: a historic one, or one bound to the environment and issued.
Init ==
  \E h \in Hosts, issued \in BOOLEAN :
  /\ domains = [d \in Ids |-> IF d # 1 THEN None ELSE IF issued THEN [Historic(h) EXCEPT !.bound = TRUE, !.cert = 1] ELSE Historic(h)]
  /\ secrets = [c \in Certs |-> IF c = 0 THEN OwnHost ELSE IF c = 1 /\ issued THEN h ELSE None]
  /\ certs = [c \in Certs |-> IF secrets[c] = None THEN None ELSE [host |-> secrets[c], ready |-> TRUE]]
  /\ endpoints = [e \in EndpointIds |-> None]
  /\ ingress = [a \in Apps |-> {}]
  /\ port \in [Apps -> {CHOOSE p \in Ports : TRUE}]
  /\ made = [domains |-> 1, endpoints |-> 0]
  /\ slots = [s \in Slots |-> Idle]
  /\ drift = {} /\ overlap = {} /\ renamed = {} /\ requests = 0 /\ faults = 0

(***************************************************************************)
(* Requests.  A request on endpoints names its application.                *)
(***************************************************************************)

Start(s, r) ==
  /\ requests' = requests + 1
  /\ slots' = [t \in Slots |-> IF t = s THEN [r EXCEPT !.lone = Others(s) = {}]
                               ELSE IF slots[t] = Idle THEN Idle ELSE [slots[t] EXCEPT !.lone = FALSE]]
  /\ overlap' = overlap \cup {IF r.app = None \/ slots[t].app = None THEN "domains" ELSE "endpoints" : t \in Others(s)}
  /\ drift' = drift \cup {a \in Apps : a = r.app /\ \E t \in Others(s) : slots[t].app = a}

Goto(s, pc) == slots' = [slots EXCEPT ![s].pc = pc]
Respond(s) == slots' = [slots EXCEPT ![s] = Idle]

OnDomain(pc, d, row, last) == [pc |-> pc, app |-> None, lone |-> TRUE, id |-> d, row |-> row, last |-> last]

(***************************************************************************)
(* Domains.                                                                *)
(***************************************************************************)

HostFree(h, d) == \A other \in Stored(domains) \ {d} : domains[other].host # h

assignManagedCertificateNames(row, d) == IF row.cert = None THEN [row EXCEPT !.cert = d] ELSE row

\* The row a request makes of the current one.  A bound domain keeps its environment.
BuildManagedDomain(h, enabled, current) ==
  [host |-> h, bound |-> TRUE, imported |-> current.imported, enabled |-> enabled, cert |-> current.cert]

CreateDomain(s, h) ==
  LET d == made.domains + 1
      row == BuildManagedDomain(h, TRUE, Historic(h))
  IN  /\ d \in Ids /\ HostFree(h, d)
      /\ Start(s, OnDomain("save", d, assignManagedCertificateNames(row, d), "ensure"))
      /\ domains' = [domains EXCEPT ![d] = row]
      /\ made' = [made EXCEPT !.domains = d]
      /\ UNCHANGED <<certs, secrets, endpoints, ingress, port, renamed, faults>>

UpdateDomain(s, d, h, enabled) ==
  /\ d \in Stored(domains)
  /\ LET row == assignManagedCertificateNames(BuildManagedDomain(h, enabled, domains[d]), d)
     IN  Start(s, OnDomain("save", d, row, IF row.imported THEN "end" ELSE "ensure"))
  /\ UNCHANGED <<domains, certs, secrets, endpoints, ingress, port, made, renamed, faults>>

\* A historic domain is bound to the environment whose namespace it names.
Claim(s, d) ==
  /\ d \in Stored(domains) /\ ~domains[d].bound
  /\ Start(s, OnDomain("save", d, [domains[d] EXCEPT !.bound = TRUE], "end"))
  /\ UNCHANGED <<domains, certs, secrets, endpoints, ingress, port, made, renamed, faults>>

\* Save writes the whole row, and inserts it again when it is gone.
UpdateManagedDomain(s) ==
  /\ slots[s].pc = "save"
  /\ LET r == slots[s] IN
         IF HostFree(r.row.host, r.id)
           THEN /\ domains' = [domains EXCEPT ![r.id] = r.row]
                /\ renamed' = renamed \cup {d \in Stored(domains) : d = r.id /\ domains[d].host # r.row.host}
                /\ IF r.last = "end" THEN Respond(s) ELSE Goto(s, r.last)
           ELSE Respond(s) /\ UNCHANGED <<domains, renamed>>
  /\ UNCHANGED <<certs, secrets, endpoints, ingress, port, made, drift, overlap, requests, faults>>

\* Create or update the Certificate.  Its status stays as it was until
\* cert-manager has seen the change.
EnsureCertificate(c, h) ==
  certs' = [certs EXCEPT ![c] = [host |-> h, ready |-> certs[c] # None /\ certs[c].ready]]

ensureManagedDomainCertificate(s) ==
  /\ slots[s].pc = "ensure"
  /\ Respond(s)
  /\ \/ EnsureCertificate(slots[s].row.cert, slots[s].row.host) /\ NoFault
     \/ Fault /\ UNCHANGED certs
  /\ UNCHANGED <<domains, secrets, endpoints, ingress, port, made, drift, overlap, renamed, requests>>

RetryCertificate(s, d) ==
  /\ d \in Stored(domains) /\ ~domains[d].imported /\ domains[d].cert # None
  /\ Start(s, OnDomain("ensure", d, domains[d], "end"))
  /\ UNCHANGED <<domains, certs, secrets, endpoints, ingress, port, made, renamed, faults>>

\* The certificate made by hand becomes a domain; certificate and Secret stay as they are.
ImportCertificate(s) ==
  LET d == made.domains + 1 IN
  /\ d \in Ids /\ certs[0] # None /\ HostFree(OwnHost, d)
  /\ domains' = [domains EXCEPT ![d] = [host |-> OwnHost, bound |-> TRUE, imported |-> TRUE, enabled |-> TRUE, cert |-> 0]]
  /\ made' = [made EXCEPT !.domains = d]
  /\ requests' = requests + 1
  /\ UNCHANGED <<certs, secrets, endpoints, ingress, port, slots, drift, overlap, renamed, faults>>

CountApplicationEndpointsByDomain(d) == {e \in Stored(endpoints) : endpoints[e].domain = d}

ValidateDomainDeletion(d) == CountApplicationEndpointsByDomain(d) = {}

DeleteDomain(s, d) ==
  /\ d \in Stored(domains) /\ ValidateDomainDeletion(d)
  /\ Start(s, OnDomain(IF domains[d].imported \/ domains[d].cert = None THEN "delete" ELSE "certificate", d, domains[d], "end"))
  /\ UNCHANGED <<domains, certs, secrets, endpoints, ingress, port, made, renamed, faults>>

DeleteCertificate(s) ==
  /\ slots[s].pc = "certificate"
  /\ \/ certs' = [certs EXCEPT ![slots[s].row.cert] = None] /\ Goto(s, "tls") /\ NoFault
     \/ Fault /\ Respond(s) /\ UNCHANGED certs
  /\ UNCHANGED <<domains, secrets, endpoints, ingress, port, made, drift, overlap, renamed, requests>>

DeleteTLSSecret(s) ==
  /\ slots[s].pc = "tls"
  /\ \/ secrets' = [secrets EXCEPT ![slots[s].row.cert] = None] /\ Goto(s, "delete") /\ NoFault
     \/ Fault /\ Respond(s) /\ UNCHANGED secrets
  /\ UNCHANGED <<domains, certs, endpoints, ingress, port, made, drift, overlap, renamed, requests>>

DeleteManagedDomain(s) ==
  /\ slots[s].pc = "delete"
  /\ domains' = [domains EXCEPT ![slots[s].id] = None]
  /\ Respond(s)
  /\ UNCHANGED <<certs, secrets, endpoints, ingress, port, made, drift, overlap, renamed, requests, faults>>

(***************************************************************************)
(* Endpoints.  The Ingress is written first, from the rows as they will    *)
(* be, and the row afterwards.                                             *)
(***************************************************************************)

Of(app) == {endpoints[e] : e \in {i \in Stored(endpoints) : endpoints[i].app = app}}

\* One rule for each endpoint that is not metadata only.
applicationEndpointsIngress(list) ==
  {[host |-> e.host, path |-> e.path, tls |-> e.tls, port |-> e.port] : e \in {x \in list : x.ingress}}

CountApplicationEndpointRoute(d, path, except) ==
  {e \in Stored(endpoints) \ {except} : endpoints[e].domain = d /\ endpoints[e].path = path /\ endpoints[e].ingress}

\* What prepareApplicationEndpoint asks of the domain and its certificate.
prepareApplicationEndpoint(id, d, path, https, http) ==
  /\ d \in Stored(domains) /\ domains[d].enabled /\ domains[d].bound
  /\ http => CountApplicationEndpointRoute(d, path, id) = {}
  /\ https => domains[d].cert # None /\ certs[domains[d].cert] # None /\ certs[domains[d].cert].ready

SaveEndpoint(s, op, app, id) ==
  \E d \in Stored(domains), path \in Paths, https, http \in BOOLEAN :
    /\ prepareApplicationEndpoint(id, d, path, https, http)
    /\ Start(s, [pc |-> "list", app |-> app, lone |-> TRUE, op |-> op, id |-> id, list |-> {},
                 row |-> [app |-> app, domain |-> d, host |-> domains[d].host, path |-> path,
                          tls |-> IF https THEN domains[d].cert ELSE None, ingress |-> http, port |-> port[app]]])
    /\ UNCHANGED <<domains, certs, secrets, endpoints, ingress, port, made, renamed, faults>>

CreateApplicationEndpoint(s, app) == made.endpoints < MaxEndpoints /\ SaveEndpoint(s, "create", app, 0)

UpdateApplicationEndpoint(s, e) == e \in Stored(endpoints) /\ SaveEndpoint(s, "update", endpoints[e].app, e)

DeleteApplicationEndpoint(s, e) ==
  /\ e \in Stored(endpoints)
  /\ Start(s, [pc |-> "list", app |-> endpoints[e].app, lone |-> TRUE, op |-> "delete", id |-> e, list |-> {}, row |-> None])
  /\ UNCHANGED <<domains, certs, secrets, endpoints, ingress, port, made, renamed, faults>>

\* A release synchronizes the endpoints once its resources, with the port p, are applied.
ReleaseEndpoints(s, app, p) ==
  /\ Start(s, [pc |-> "list", app |-> app, lone |-> TRUE, op |-> "release", id |-> 0, list |-> {}, row |-> [port |-> p]])
  /\ UNCHANGED <<domains, certs, secrets, endpoints, ingress, port, made, renamed, faults>>

\* Mutant: the row that is deleted stays in the list.
ListWithDeleted(s) ==
  /\ slots[s].pc = "list"
  /\ LET mine == {e \in Stored(endpoints) : endpoints[e].app = slots[s].app}
         rows == [e \in mine |-> endpoints[e]]
     IN  slots' = [slots EXCEPT ![s].pc = "sync",
                                ![s].list = IF slots[s].op = "create" THEN [i \in mine \cup {0} |-> IF i = 0 THEN slots[s].row ELSE rows[i]] ELSE rows]
  /\ UNCHANGED <<domains, certs, secrets, endpoints, ingress, port, made, drift, overlap, renamed, requests, faults>>

\* The rows of the application, with this request's change: i -> row.
ListApplicationEndpoints(s) ==
  /\ slots[s].pc = "list"
  /\ LET r == slots[s]
         mine == {e \in Stored(endpoints) : endpoints[e].app = r.app}
         rest == IF r.op = "release" THEN [e \in mine |-> [endpoints[e] EXCEPT !.port = r.row.port]]
                 ELSE [e \in mine \ {r.id} |-> endpoints[e]]
         own == r.op = "create" \/ (r.op = "update" /\ r.id \in mine)
     IN  slots' = [slots EXCEPT ![s].pc = IF r.op = "release" THEN "ports" ELSE "sync",
                                ![s].list = [i \in DOMAIN rest \cup (IF own THEN {r.id} ELSE {}) |->
                                               IF i \in DOMAIN rest THEN rest[i] ELSE r.row]]
  /\ UNCHANGED <<domains, certs, secrets, endpoints, ingress, port, made, drift, overlap, renamed, requests, faults>>

\* Rows whose port the Service no longer has are saved, as they were listed.
syncApplicationEndpoints(s) ==
  /\ slots[s].pc = "ports"
  /\ LET list == slots[s].list IN
     endpoints' = [e \in EndpointIds |->
                     IF e \in DOMAIN list /\ (endpoints[e] = None \/ endpoints[e].port # list[e].port) THEN list[e] ELSE endpoints[e]]
  /\ Goto(s, "sync")
  /\ UNCHANGED <<domains, certs, secrets, ingress, port, made, drift, overlap, renamed, requests, faults>>

\* The release may still fail afterwards, and then the port is not the application's.
SyncApplicationEndpoints(s) ==
  /\ slots[s].pc = "sync"
  /\ LET r == slots[s] IN
       \/ /\ ingress' = [ingress EXCEPT ![r.app] = applicationEndpointsIngress({r.list[i] : i \in DOMAIN r.list})]
          /\ NoFault
          /\ IF r.op = "release" THEN Respond(s) /\ drift' = IF r.lone THEN drift \ {r.app} ELSE drift
             ELSE Goto(s, "write") /\ UNCHANGED drift
          /\ port' \in {port} \cup (IF r.op = "release" THEN {[port EXCEPT ![r.app] = r.row.port]} ELSE {})
       \/ /\ Fault /\ Respond(s) /\ UNCHANGED <<ingress, port>>
          /\ drift' = IF r.op = "release" THEN drift \cup {r.app} ELSE drift
  /\ UNCHANGED <<domains, certs, secrets, endpoints, made, overlap, renamed, requests>>

\* Create inserts, update saves the whole row (inserting it again when it is
\* gone), delete removes.  A failing write leaves the Ingress ahead of the rows.
WriteEndpoint(s) ==
  /\ slots[s].pc = "write"
  /\ Respond(s)
  /\ LET r == slots[s]
         id == IF r.op = "create" THEN made.endpoints + 1 ELSE r.id
     IN  \/ /\ id \in EndpointIds
            /\ endpoints' = [endpoints EXCEPT ![id] = r.row]
            /\ made' = IF r.op = "create" THEN [made EXCEPT !.endpoints = id] ELSE made
            /\ drift' = IF r.lone THEN drift \ {r.app} ELSE drift
            /\ NoFault
         \/ Fault /\ drift' = drift \cup {r.app} /\ UNCHANGED <<endpoints, made>>
  /\ UNCHANGED <<domains, certs, secrets, ingress, port, overlap, renamed, requests>>

(***************************************************************************)
(* cert-manager, and the certificate pages of the console.                 *)
(***************************************************************************)

Issue(c) ==
  /\ c \in Stored(certs) /\ (certs[c].ready => secrets[c] # certs[c].host)
  /\ certs' = [certs EXCEPT ![c].ready = TRUE]
  /\ secrets' = [secrets EXCEPT ![c] = certs[c].host]
  /\ UNCHANGED <<domains, endpoints, ingress, port, made, slots, drift, overlap, renamed, requests, faults>>

\* Deleting a Certificate leaves its TLS Secret.
DeleteCert(c) ==
  /\ c \in Stored(certs) /\ requests < MaxRequests
  /\ requests' = requests + 1
  /\ certs' = [certs EXCEPT ![c] = None]
  /\ UNCHANGED <<domains, secrets, endpoints, ingress, port, made, slots, drift, overlap, renamed, faults>>

CreateCert ==
  /\ certs[0] = None /\ requests < MaxRequests
  /\ requests' = requests + 1
  /\ certs' = [certs EXCEPT ![0] = [host |-> OwnHost, ready |-> FALSE]]
  /\ UNCHANGED <<domains, secrets, endpoints, ingress, port, made, slots, drift, overlap, renamed, faults>>

Begin(s) ==
  /\ slots[s] = Idle /\ requests < MaxRequests
  /\ \/ \E h \in Hosts : CreateDomain(s, h)
     \/ \E d \in Ids, h \in Hosts, enabled \in BOOLEAN : UpdateDomain(s, d, h, enabled)
     \/ \E d \in Ids : Claim(s, d) \/ RetryCertificate(s, d) \/ DeleteDomain(s, d)
     \/ ImportCertificate(s)
     \/ \E app \in Apps : CreateApplicationEndpoint(s, app) \/ \E p \in Ports : ReleaseEndpoints(s, app, p)
     \/ \E e \in EndpointIds : UpdateApplicationEndpoint(s, e) \/ DeleteApplicationEndpoint(s, e)

Step(s) ==
  \/ UpdateManagedDomain(s) \/ ensureManagedDomainCertificate(s)
  \/ DeleteCertificate(s) \/ DeleteTLSSecret(s) \/ DeleteManagedDomain(s)
  \/ ListApplicationEndpoints(s) \/ syncApplicationEndpoints(s) \/ SyncApplicationEndpoints(s) \/ WriteEndpoint(s)

Next == (\E s \in Slots : Begin(s) \/ Step(s)) \/ (\E c \in Certs : Issue(c) \/ DeleteCert(c)) \/ CreateCert

Spec == Init /\ [][Next]_vars

TypeOK ==
  /\ \A d \in Stored(domains) : domains[d].host \in Hosts /\ domains[d].cert \in Certs \cup {None}
  /\ \A e \in Stored(endpoints) : endpoints[e].app \in Apps /\ endpoints[e].domain \in Ids
  /\ drift \subseteq Apps /\ overlap \subseteq {"domains", "endpoints"}

(***************************************************************************)
(* Properties.                                                             *)
(***************************************************************************)

\* The Ingress of an application has exactly the rules of its stored endpoints
\* whenever no request on its endpoints is running.  It may drift when a write
\* failed after the Ingress was synchronized, or two requests on the same
\* application overlapped; the next request that runs alone repairs it.
IngressMatches ==
  \A a \in Apps \ drift :
    (\A s \in Slots : slots[s].app # a) => ingress[a] = applicationEndpointsIngress(Of(a))

\* No two endpoints publish the same path of the same host, unless two endpoint
\* requests passed the route check together or one of the domains was renamed;
\* and an endpoint's domain exists, unless a domain request ran beside another.
EndpointsSound ==
  /\ \A e, f \in Stored(endpoints) :
       /\ e # f /\ endpoints[e].ingress /\ endpoints[f].ingress
       /\ endpoints[e].host = endpoints[f].host /\ endpoints[e].path = endpoints[f].path
       => "endpoints" \in overlap \/ {endpoints[e].domain, endpoints[f].domain} \cap renamed # {}
  /\ \A e \in Stored(endpoints) : endpoints[e].domain \in Stored(domains) \/ "domains" \in overlap

\* An HTTPS endpoint names a TLS Secret issued for its host: the certificate was
\* ready when the endpoint was bound, deleting a Certificate leaves the Secret,
\* and a domain in use is not deleted.  Renaming the domain breaks this.
TLSServed ==
  \A e \in Stored(endpoints) :
    LET x == endpoints[e] IN
    x.tls # None => secrets[x.tls] = x.host \/ x.domain \in renamed \/ "domains" \in overlap
=============================================================================
