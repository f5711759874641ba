---------------------------- MODULE Integration ----------------------------
(***************************************************************************)
(* Consoles of applications that work on the platform's behalf             *)
(* (api/application/integration_session_handler.go,                        *)
(* integration_application_handler.go, service/auth/delegation.go).  A     *)
(* user opens a protected console with a handoff code; the console changes *)
(* the code into a session token, the token into short-lived delegations,  *)
(* and with a delegation reads and replaces the managed ConfigMap of an    *)
(* application, which lives in the application's default template.  A      *)
(* replacement may at once start a release of what it saved.               *)
(***************************************************************************)
EXTENDS Naturals, FiniteSets

CONSTANTS
    Apps,            \* applications
    EnvironmentOf,   \* application -> its environment
    ProjectOf,       \* application -> its project
    Capabilities,    \* capability labels
    Contents,        \* contents of the managed ConfigMap key
    Sessions,        \* integration sessions, one handoff code each
    Slots,           \* consoles at work on a ConfigMap
    MaxRequests,     \* bound: requests in a behaviour
    MaxTokens,       \* bound: session tokens made for one code
    None

VARIABLES
    capabilities,   \* application -> its capability labels
    sessions,       \* session -> its row, or None
    handed,         \* session -> the tokens its exchanges answered with
    delegations,    \* delegations signed and not expired
    templates,      \* application -> its templates
    default,        \* application -> its default template
    releases,       \* what restarts deployed: [app, content]
    mutex,          \* the holder of managedFileMutationMu, or None
    slots,          \* the consoles
    requests

vars == <<capabilities, sessions, handed, delegations, templates, default, releases, mutex, slots, requests>>

Actions == {"application:read", "configmap:read", "configmap:write", "application:restart"}
Claims == [project : {ProjectOf[a] : a \in Apps}, environments : SUBSET {EnvironmentOf[a] : a \in Apps},
           applications : SUBSET Apps, capability : Capabilities, actions : SUBSET Actions]
Ids == 1 .. 2
StoredTemplate == [revision : Nat, content : Contents, enabled : BOOLEAN, managed : BOOLEAN]

Idle == [pc |-> "idle", app |-> None, claims |-> None, expected |-> 0, seen |-> None, template |-> 0, target |-> 0,
         content |-> None, restart |-> FALSE, overtaken |-> FALSE]

TypeOK ==
    /\ capabilities \in [Apps -> SUBSET Capabilities]
    /\ \A i \in Sessions : sessions[i] = None
         \/ sessions[i] \in [app : Apps, used : BOOLEAN, open : BOOLEAN, live : BOOLEAN, token : 0 .. MaxTokens]
    /\ handed \in [Sessions -> SUBSET (1 .. MaxTokens)]
    /\ delegations \subseteq Claims
    /\ templates \in [Apps -> [Ids -> StoredTemplate]]
    /\ default \in [Apps -> Ids]
    /\ releases \subseteq [app : Apps, content : Contents]
    /\ mutex \in Slots \cup {None}
    /\ \A s \in Slots : slots[s].pc \in {"idle", "editing", "lock", "read", "write", "restart"}
    /\ requests \in 0 .. MaxRequests

\* The delegations a console may hold when a behaviour starts.
Signed(a, c) ==
    [project |-> ProjectOf[a], environments |-> {EnvironmentOf[a]}, applications |-> {}, capability |-> c, actions |-> Actions]

Init ==
    /\ capabilities = [a \in Apps |-> Capabilities]
    /\ sessions = [i \in Sessions |-> None] /\ handed = [i \in Sessions |-> {}]
    /\ \E a \in Apps, c \in Capabilities : delegations \in {{}, {Signed(a, c)}}
    /\ templates = [a \in Apps |-> [t \in Ids |->
         [revision |-> 1, content |-> CHOOSE c \in Contents : TRUE, enabled |-> TRUE, managed |-> TRUE]]]
    /\ default = [a \in Apps |-> 1]
    /\ releases = {} /\ mutex = None
    /\ slots = [s \in Slots |-> Idle]
    /\ requests = 0

Arrive == requests < MaxRequests /\ requests' = requests + 1

-----------------------------------------------------------------------------
(* Handoff, session, delegation.                                           *)

\* A user opens the console of an application whose endpoint is a protected
\* console with a domain: a row with the hash of a code good for 60 seconds.
CreateIntegrationSession(i, a) == [sessions EXCEPT ![i] = [app |-> a, used |-> FALSE, open |-> TRUE, live |-> TRUE, token |-> 0]]

createIntegrationHandoff(i, a) ==
    /\ Arrive /\ sessions[i] = None
    /\ sessions' = CreateIntegrationSession(i, a)
    /\ UNCHANGED <<capabilities, handed, delegations, templates, default, releases, mutex, slots>>

\* One UPDATE takes an unused, unexpired code and stores the token's hash.
ExchangeAgain(i) == sessions[i] # None /\ sessions[i].open
Exchangeable(i) == sessions[i] # None /\ ~sessions[i].used /\ sessions[i].open

ExchangeIntegrationSession(i) ==
    /\ Arrive /\ Exchangeable(i) /\ sessions[i].token < MaxTokens
    /\ LET token == sessions[i].token + 1 IN
       /\ sessions' = [sessions EXCEPT ![i] = [@ EXCEPT !.used = TRUE, !.live = TRUE, !.token = token]]
       /\ handed' = [handed EXCEPT ![i] = @ \cup {token}]
    /\ UNCHANGED <<capabilities, delegations, templates, default, releases, mutex, slots>>

GetActiveIntegrationSession(i, token) ==
    sessions[i] # None /\ sessions[i].token = token /\ sessions[i].live

\* GenerateDelegationToken: identifiers and actions become sets, and a
\* delegation must name a capability and an action.
GenerateDelegationToken(claims) == IF claims.actions = {} THEN {} ELSE {claims}

\* A session's delegation: its environment, whatever capability was asked for.
createIntegrationDelegation(i, token, c) ==
    /\ Arrive /\ token \in handed[i] /\ GetActiveIntegrationSession(i, token)
    /\ LET a == sessions[i].app IN
       delegations' = delegations \cup GenerateDelegationToken(
          [project |-> ProjectOf[a], environments |-> {EnvironmentOf[a]}, applications |-> {}, capability |-> c, actions |-> Actions])
    /\ UNCHANGED <<capabilities, sessions, handed, templates, default, releases, mutex, slots>>

\* A user's own delegation: one application, a capability it has, environments
\* of its project and the actions asked for, or all.
CreateDelegation(a, c, actions) ==
    /\ Arrive /\ c \in capabilities[a]
    /\ delegations' = delegations \cup GenerateDelegationToken(
          [project |-> ProjectOf[a], environments |-> {EnvironmentOf[a]}, applications |-> {a}, capability |-> c,
           actions |-> IF actions = {} THEN Actions ELSE actions])
    /\ UNCHANGED <<capabilities, sessions, handed, templates, default, releases, mutex, slots>>

\* ParseDelegationToken: what was signed and has not expired.
ParseDelegationToken(claims) == claims \in delegations

Expire ==
    \/ \E i \in Sessions : /\ sessions[i] # None /\ sessions[i].open
                           /\ sessions' = [sessions EXCEPT ![i].open = FALSE]
                           /\ UNCHANGED delegations
    \/ \E i \in Sessions : /\ sessions[i] # None /\ sessions[i].live /\ ~sessions[i].open
                           /\ sessions' = [sessions EXCEPT ![i].live = FALSE]
                           /\ UNCHANGED delegations
    \/ \E d \in delegations : delegations' = delegations \ {d} /\ UNCHANGED sessions

ExpireStep == Expire /\ UNCHANGED <<capabilities, handed, templates, default, releases, mutex, slots, requests>>

-----------------------------------------------------------------------------
(* What a delegation reaches.                                              *)

Allows(claims, action) == action \in claims.actions
AllowsEnvironment(claims, e) == claims.environments = {} \/ e \in claims.environments
AllowsApplication(claims, a) == claims.applications = {} \/ a \in claims.applications
applicationHasCapability(a, c) == c \in capabilities[a]

InScope(claims, a) ==
    /\ ProjectOf[a] = claims.project
    /\ AllowsEnvironment(claims, EnvironmentOf[a])
    /\ AllowsApplication(claims, a)
    /\ applicationHasCapability(a, claims.capability)

integrationApplication(claims, action, a) ==
    ParseDelegationToken(claims) /\ Allows(claims, action) /\ InScope(claims, a)

IntegrationDiscoverApplications(claims) ==
    IF Allows(claims, "application:read") THEN {a \in Apps : InScope(claims, a)} ELSE {}

GetDefault(a) == templates[a][default[a]]
configMapKeyEnabled(t) == t.managed
templateConfigMap(a) == GetDefault(a).enabled /\ configMapKeyEnabled(GetDefault(a))

-----------------------------------------------------------------------------
(* A console at work: read, replace, perhaps restart.                      *)

\* The console finds the application and reads content and revision together.
IntegrationGetManagedConfigMap(s, claims, a) ==
    /\ Arrive /\ slots[s].pc = "idle"
    /\ a \in IntegrationDiscoverApplications(claims)
    /\ integrationApplication(claims, "configmap:read", a) /\ templateConfigMap(a)
    /\ slots' = [slots EXCEPT ![s] = [Idle EXCEPT !.pc = "editing", !.app = a, !.claims = claims,
                                                  !.template = default[a],
                                                  !.expected = GetDefault(a).revision, !.seen = GetDefault(a).content]]
    /\ UNCHANGED <<capabilities, sessions, handed, delegations, templates, default, releases, mutex>>

\* The request is checked against the delegation before the mutex is asked for.
IntegrationReplaceManagedConfigMap(s, content, restart) ==
    /\ Arrive /\ slots[s].pc = "editing"
    /\ integrationApplication(slots[s].claims, "configmap:write", slots[s].app)
    /\ restart => Allows(slots[s].claims, "application:restart")
    /\ slots' = [slots EXCEPT ![s] = [@ EXCEPT !.pc = "lock", !.content = content, !.restart = restart]]
    /\ UNCHANGED <<capabilities, sessions, handed, delegations, templates, default, releases, mutex>>

\* One replacement at a time in the whole process.
MutexFree == mutex = None

Lock(s) ==
    /\ slots[s].pc = "lock" /\ MutexFree /\ mutex' = s
    /\ slots' = [slots EXCEPT ![s].pc = "read"]
    /\ UNCHANGED <<capabilities, sessions, handed, delegations, templates, default, releases, requests>>

Leave(s) == slots' = [slots EXCEPT ![s] = Idle] /\ mutex' = IF mutex = s THEN None ELSE mutex

ExpectedIgnored(s, t) == TRUE
ExpectedRevision(s, t) == templates[slots[s].app][t].revision = slots[s].expected

\* The managed file and the default template, whichever it is by now, are read;
\* a revision other than the one expected is a conflict.
ReplaceRead(s) ==
    /\ slots[s].pc = "read"
    /\ IF templateConfigMap(slots[s].app) /\ ExpectedRevision(s, default[slots[s].app])
       THEN slots' = [slots EXCEPT ![s] = [@ EXCEPT !.pc = "write", !.target = default[slots[s].app]]] /\ UNCHANGED mutex
       ELSE Leave(s)
    /\ UNCHANGED <<capabilities, sessions, handed, delegations, templates, default, releases, requests>>

\* UpdateApplicationDeploymentTemplateIfRevision: an UPDATE on the revision; the
\* handler writes the specification it read, with the one key replaced.
UpdateIfRevision(s, a, t) ==
    IF ExpectedRevision(s, t)
    THEN templates' = [templates EXCEPT ![a][t] = [@ EXCEPT !.content = slots[s].content, !.revision = slots[s].expected + 1]]
    ELSE UNCHANGED templates

ReplaceWrite(s) ==
    /\ slots[s].pc = "write"
    /\ UpdateIfRevision(s, slots[s].app, slots[s].target)
    /\ IF templates' # templates /\ slots[s].restart
       THEN slots' = [slots EXCEPT ![s].pc = "restart"] /\ UNCHANGED mutex
       ELSE Leave(s)
    /\ UNCHANGED <<capabilities, sessions, handed, delegations, default, releases, requests>>

\* createRestartRelease reads the default template again; a failure is only
\* reported, the saved content stays.
createRestartRelease(s) ==
    /\ slots[s].pc = "restart"
    /\ \/ /\ GetDefault(slots[s].app).enabled
          /\ releases' = releases \cup {[app |-> slots[s].app, content |-> GetDefault(slots[s].app).content]}
       \/ UNCHANGED releases
    /\ Leave(s)
    /\ UNCHANGED <<capabilities, sessions, handed, delegations, templates, default, requests>>

\* A restart on its own takes what the template holds.
IntegrationRestartApplication(claims, a) ==
    /\ Arrive /\ integrationApplication(claims, "application:restart", a) /\ GetDefault(a).enabled
    /\ releases' = releases \cup {[app |-> a, content |-> GetDefault(a).content]}
    /\ UNCHANGED <<capabilities, sessions, handed, delegations, templates, default, mutex, slots>>

-----------------------------------------------------------------------------
(* The platform's own pages: they do not take the mutex.                   *)

Overtake(a) == slots' = [s \in Slots |-> IF slots[s].app = a THEN [slots[s] EXCEPT !.overtaken = TRUE] ELSE slots[s]]

\* A template is saved in the editor: its content, whether consoles may change
\* the key, and, unless it is the default, whether it is enabled.
UpdateDeploymentTemplate(a, t, content, managed, enabled) ==
    /\ Arrive /\ (t = default[a] => enabled)
    /\ templates' = [templates EXCEPT ![a][t] = [revision |-> @.revision + 1, content |-> content, enabled |-> enabled, managed |-> managed]]
    /\ Overtake(a)
    /\ UNCHANGED <<capabilities, sessions, handed, delegations, default, releases, mutex>>

SetDefaultDeploymentTemplate(a, t) ==
    /\ Arrive /\ templates[a][t].enabled /\ default[a] # t
    /\ default' = [default EXCEPT ![a] = t]
    /\ Overtake(a)
    /\ UNCHANGED <<capabilities, sessions, handed, delegations, templates, releases, mutex>>

UpdateCapabilities(a, cs) ==
    /\ Arrive /\ capabilities' = [capabilities EXCEPT ![a] = cs]
    /\ UNCHANGED <<sessions, handed, delegations, templates, default, releases, mutex, slots>>

ConsoleNext(s) ==
    \/ \E d \in delegations, a \in Apps : IntegrationGetManagedConfigMap(s, d, a)
    \/ \E c \in Contents, r \in BOOLEAN : IntegrationReplaceManagedConfigMap(s, c, r)
    \/ Lock(s) \/ ReplaceRead(s) \/ ReplaceWrite(s) \/ createRestartRelease(s)

Next ==
    \/ \E i \in Sessions, a \in Apps : createIntegrationHandoff(i, a)
    \/ \E i \in Sessions : ExchangeIntegrationSession(i)
    \/ \E i \in Sessions, t \in 1 .. MaxTokens, c \in Capabilities : createIntegrationDelegation(i, t, c)
    \/ \E a \in Apps, c \in Capabilities, as \in {{}, {"application:read", "configmap:read"}} : CreateDelegation(a, c, as)
    \/ \E s \in Slots : ConsoleNext(s)
    \/ \E d \in delegations, a \in Apps : IntegrationRestartApplication(d, a)
    \/ \E a \in Apps, t \in Ids : \/ \E c \in Contents : UpdateDeploymentTemplate(a, t, c, TRUE, TRUE)
                                 \/ \E e \in BOOLEAN : UpdateDeploymentTemplate(a, t, templates[a][t].content, FALSE, e)
    \/ \E a \in Apps, t \in Ids : SetDefaultDeploymentTemplate(a, t)
    \/ \E a \in Apps : UpdateCapabilities(a, Capabilities \ capabilities[a])
    \/ ExpireStep

Spec == Init /\ [][Next]_vars

-----------------------------------------------------------------------------
\* A handoff code opens one session: however many consoles present it, at most
\* one token is handed out, and that one is the token the session knows.
HandoffOnce == \A i \in Sessions : handed[i] # {} => handed[i] = {sessions[i].token}

\* A console never overwrites what it has not read: unless another template
\* became the default since, the content it replaces is the one it saw, whatever
\* other consoles and the editor did in the meantime.
ReplaceSeen ==
    \A s \in Slots : (slots[s].pc = "write" /\ slots[s].target = slots[s].template /\ templates' # templates) =>
       \/ slots'[s].pc = "write"
       \/ templates[slots[s].app][slots[s].target].content = slots[s].seen

\* The release a replacement asks for will carry what it saved, unless the
\* platform's pages, which do not take the mutex, changed the template or the
\* choice of it since: createRestartRelease reads the template again.
RestartReadsSaved ==
    \A s \in Slots : slots[s].pc = "restart" /\ ~slots[s].overtaken => GetDefault(slots[s].app).content = slots[s].content
=============================================================================
