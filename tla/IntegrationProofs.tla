------------------------- MODULE IntegrationProofs -------------------------
(***************************************************************************)
(* Proofs about the integration consoles: a handoff code opens one         *)
(* session, the release a console asks for carries what it saved, and no   *)
(* console overwrites what it has not read.                                *)
(***************************************************************************)
EXTENDS Integration, TLAPS

\* The values of the state.
SessionRow == [app : Apps, used : BOOLEAN, open : BOOLEAN, live : BOOLEAN, token : 0 .. MaxTokens]
Pcs == {"idle", "editing", "lock", "read", "write", "restart"}
Console ==
    [pc : Pcs, app : Apps \cup {None}, claims : Claims \cup {None}, expected : Nat, seen : Contents \cup {None},
     template : {0} \cup Ids, target : {0} \cup Ids, content : Contents \cup {None}, restart : BOOLEAN, overtaken : BOOLEAN]

Types ==
    /\ capabilities \in [Apps -> SUBSET Capabilities]
    /\ sessions \in [Sessions -> SessionRow \cup {None}]
    /\ handed \in [Sessions -> SUBSET (1 .. MaxTokens)]
    /\ delegations \subseteq Claims
    /\ templates \in [Apps -> [Ids -> StoredTemplate]]
    /\ default \in [Apps -> Ids]
    /\ releases \subseteq [app : Apps, content : Contents]
    /\ mutex \in Slots \cup {None}
    /\ slots \in [Slots -> Console]
    /\ requests \in 0 .. MaxRequests

\* What the proofs need of the constants: there is content to start with, and None
\* is neither a console nor a row.
Grounded ==
    /\ Contents # {} /\ None \notin Slots
    /\ {MaxRequests, MaxTokens} \subseteq Nat
    /\ \A r \in SessionRow : r # None

\* A code that was exchanged is used up.
Handoffs == \A i \in Sessions : handed[i] # {} => sessions[i] # None /\ sessions[i].used /\ handed[i] = {sessions[i].token}

\* Who works on a template holds the mutex.
Locked == \A s \in Slots : slots[s].pc \in {"read", "write", "restart"} => mutex = s

\* What a console has filled in by the time it gets there.
Filled(r) ==
    /\ r.pc # "idle" => r.app \in Apps /\ r.template \in Ids
    /\ r.pc \in {"lock", "read", "write", "restart"} => r.content \in Contents
    /\ r.pc \in {"write", "restart"} => r.target \in Ids

\* Unless the platform's pages interfered, the template a console writes is the default
\* one, and after the write it holds the console's content.
Saved(r) ==
    ~r.overtaken =>
        /\ r.pc = "write" => r.target = default[r.app]
        /\ r.pc = "restart" => GetDefault(r.app).content = r.content

\* A template that still has the revision the console read still has the content.
Unseen(r) ==
    r.pc \in {"editing", "lock", "read", "write"} =>
        LET t == templates[r.app][r.template]
        IN  r.expected <= t.revision /\ (r.expected = t.revision => t.content = r.seen)

\* The inductive invariant.
IInv == Grounded /\ Types /\ Handoffs /\ Locked /\ \A s \in Slots : Filled(slots[s]) /\ Saved(slots[s]) /\ Unseen(slots[s])

\* A platform that has just started satisfies the invariant.
LEMMA IInvInit == Grounded /\ Init => IInv
<1> SUFFICES ASSUME Grounded, Init PROVE IInv
  OBVIOUS
<1> USE DEF Init
<1>1. Idle \in Console
  BY DEF Idle, Console, Pcs, Ids
<1>2. (CHOOSE c \in Contents : TRUE) \in Contents
  BY DEF Grounded
<1>3. [revision |-> 1, content |-> CHOOSE c \in Contents : TRUE, enabled |-> TRUE, managed |-> TRUE] \in StoredTemplate
  BY <1>2 DEF StoredTemplate
<1>4. templates \in [Apps -> [Ids -> StoredTemplate]]
  BY <1>3
<1>5. \A a \in Apps, c \in Capabilities : Signed(a, c) \in Claims
  BY DEF Signed, Claims
<1>6. delegations \subseteq Claims
  BY <1>5
<1>7. default \in [Apps -> Ids]
  BY DEF Ids
<1>8. Types
  <2>1. requests \in 0 .. MaxRequests
    BY DEF Grounded
  <2> QED
    BY <1>1, <1>4, <1>6, <1>7, <2>1 DEF Types
<1>9. Handoffs /\ Locked
  BY DEF Handoffs, Locked, Idle
<1>10. \A s \in Slots : Filled(slots[s]) /\ Saved(slots[s]) /\ Unseen(slots[s])
  BY DEF Filled, Saved, Unseen, Idle
<1> QED
  BY Zenon, <1>8, <1>9, <1>10 DEF IInv

\* Steps that touch neither templates nor consoles.
LEMMA Apart ==
    ASSUME IInv, UNCHANGED <<templates, default, mutex, slots>>
    PROVE  Locked' /\ \A s \in Slots : Filled(slots[s])' /\ Saved(slots[s])' /\ Unseen(slots[s])'
BY DEF IInv, Locked, Filled, Saved, Unseen, GetDefault

\* Requests are counted up to their bound.
LEMMA Arrived == IInv /\ Arrive => requests' \in 0 .. MaxRequests
BY DEF IInv, Grounded, Types, Arrive

\* Handing out codes, exchanging them, signing delegations, a restart on its own, a
\* change of capabilities and the passing of time keep the invariant: an exchange takes
\* a code that was never exchanged, and its row is used up from then on.
LEMMA SessionSteps ==
    ASSUME IInv,
           \/ \E i \in Sessions, a \in Apps : createIntegrationHandoff(i, a)
           \/ \E i \in Sessions : ExchangeIntegrationSession(i)
           \/ \E i \in Sessions, t \in 1 .. MaxTokens, c \in Capabilities : createIntegrationDelegation(i, t, c)
           \/ \E a \in Apps, c \in Capabilities, as \in {{}, {"application:read", "configmap:read"}} : CreateDelegation(a, c, as)
           \/ \E d \in delegations, a \in Apps : IntegrationRestartApplication(d, a)
           \/ \E a \in Apps : UpdateCapabilities(a, Capabilities \ capabilities[a])
           \/ ExpireStep
    PROVE  IInv'
<1> USE DEF IInv
<1>1. ASSUME NEW i \in Sessions, NEW a \in Apps, createIntegrationHandoff(i, a) PROVE IInv'
  <2>0. requests' \in 0 .. MaxRequests
    BY <1>1, Arrived DEF createIntegrationHandoff
  <2> USE <1>1 DEF createIntegrationHandoff, CreateIntegrationSession
  <2>1. [app |-> a, used |-> FALSE, open |-> TRUE, live |-> TRUE, token |-> 0] \in SessionRow
    BY DEF Grounded, SessionRow
  <2>2. sessions' \in [Sessions -> SessionRow \cup {None}] /\ \A j \in Sessions \ {i} : sessions'[j] = sessions[j]
    BY <2>1 DEF Types
  <2>3. Types'
    BY <2>0, <2>2 DEF Types
  <2>4. Handoffs'
    BY <2>2 DEF Handoffs
  <2> QED
    BY <2>3, <2>4, Apart
<1>2. ASSUME NEW i \in Sessions, ExchangeIntegrationSession(i) PROVE IInv'
  <2> DEFINE token == sessions[i].token + 1
  <2>1. /\ sessions[i] # None /\ ~sessions[i].used /\ sessions[i].token < MaxTokens
        /\ sessions' = [sessions EXCEPT ![i] = [@ EXCEPT !.used = TRUE, !.live = TRUE, !.token = token]]
        /\ handed' = [handed EXCEPT ![i] = @ \cup {token}]
        /\ UNCHANGED <<capabilities, delegations, templates, default, releases, mutex, slots>>
    BY Zenon, <1>2 DEF ExchangeIntegrationSession, Exchangeable
  <2>0. requests' \in 0 .. MaxRequests
    BY <1>2, Arrived DEF ExchangeIntegrationSession
  <2>2. sessions[i] \in SessionRow /\ handed[i] = {}
    BY <2>1 DEF Types, Handoffs
  <2>3. token \in 1 .. MaxTokens /\ token \in 0 .. MaxTokens
    BY <2>1, <2>2 DEF Grounded, SessionRow
  <2> HIDE DEF token
  <2> PICK row : row = [sessions[i] EXCEPT !.used = TRUE, !.live = TRUE, !.token = token]
    OBVIOUS
  <2>4. row \in SessionRow /\ row.used /\ row.token = token
    <3> PICK r : r = sessions[i]
      OBVIOUS
    <3>1. r \in SessionRow /\ row = [r EXCEPT !.used = TRUE, !.live = TRUE, !.token = token]
      BY <2>2
    <3> QED
      BY <2>3, <3>1 DEF SessionRow
  <2>5. sessions' = [sessions EXCEPT ![i] = row]
    BY Zenon, <2>1
  <2>6. handed' = [handed EXCEPT ![i] = {token}]
    BY <2>1, <2>2
  <2>7. /\ sessions' \in [Sessions -> SessionRow \cup {None}] /\ sessions'[i] = row
        /\ \A j \in Sessions \ {i} : sessions'[j] = sessions[j]
    BY <2>4, <2>5 DEF Types
  <2>8. /\ handed' \in [Sessions -> SUBSET (1 .. MaxTokens)] /\ handed'[i] = {token}
        /\ \A j \in Sessions \ {i} : handed'[j] = handed[j]
    BY <2>3, <2>6 DEF Types
  <2>9. Types'
    BY <2>0, <2>1, <2>7, <2>8 DEF Types
  <2>10. row # None
    BY Zenon, <2>4 DEF Grounded
  <2>11. Handoffs'
    BY <2>4, <2>7, <2>8, <2>10 DEF Handoffs
  <2> QED
    BY <2>1, <2>9, <2>11, Apart
<1>3. ASSUME NEW i \in Sessions, NEW t \in 1 .. MaxTokens, NEW c \in Capabilities, createIntegrationDelegation(i, t, c)
      PROVE  IInv'
  <2>1. /\ sessions[i] # None
        /\ delegations' = delegations \cup GenerateDelegationToken(Signed(sessions[i].app, c))
        /\ UNCHANGED <<capabilities, sessions, handed, templates, default, releases, mutex, slots>>
    BY Zenon, <1>3 DEF createIntegrationDelegation, GetActiveIntegrationSession, Signed
  <2>2. requests' \in 0 .. MaxRequests
    BY <1>3, Arrived DEF createIntegrationDelegation
  <2>3. sessions[i].app \in Apps
    BY <2>1 DEF Types, SessionRow
  <2>4. Signed(sessions[i].app, c) \in Claims
    BY <2>3 DEF Signed, Claims
  <2>5. GenerateDelegationToken(Signed(sessions[i].app, c)) \subseteq Claims
    BY <2>4 DEF GenerateDelegationToken
  <2>6. Types' /\ Handoffs'
    BY <2>1, <2>2, <2>5 DEF Types, Handoffs
  <2> QED
    BY <2>1, <2>6, Apart
<1>4. ASSUME NEW a \in Apps, NEW c \in Capabilities, NEW as \in {{}, {"application:read", "configmap:read"}},
             CreateDelegation(a, c, as)
      PROVE  IInv'
  <2> DEFINE claims == [project |-> ProjectOf[a], environments |-> {EnvironmentOf[a]}, applications |-> {a}, capability |-> c,
                        actions |-> IF as = {} THEN Actions ELSE as]
  <2>1. /\ delegations' = delegations \cup GenerateDelegationToken(claims)
        /\ UNCHANGED <<capabilities, sessions, handed, templates, default, releases, mutex, slots>>
        /\ requests' \in 0 .. MaxRequests
    BY <1>4, Arrived DEF CreateDelegation
  <2>2. (IF as = {} THEN Actions ELSE as) \in SUBSET Actions
    BY DEF Actions
  <2>3. claims \in Claims
    BY <2>2 DEF Claims
  <2>4. GenerateDelegationToken(claims) \subseteq Claims
    BY <2>3 DEF GenerateDelegationToken
  <2>5. Types' /\ Handoffs'
    BY <2>1, <2>4 DEF Types, Handoffs
  <2> QED
    BY <2>1, <2>5, Apart
<1>5. ASSUME NEW d \in delegations, NEW a \in Apps, IntegrationRestartApplication(d, a) PROVE IInv'
  <2>0. requests' \in 0 .. MaxRequests
    BY <1>5, Arrived DEF IntegrationRestartApplication
  <2> USE <1>5 DEF IntegrationRestartApplication
  <2>1. GetDefault(a).content \in Contents
    BY DEF GetDefault, Types, StoredTemplate
  <2>2. Types' /\ Handoffs'
    BY <2>0, <2>1 DEF Types, Handoffs
  <2> QED
    BY <2>2, Apart
<1>6. ASSUME NEW a \in Apps, UpdateCapabilities(a, Capabilities \ capabilities[a]) PROVE IInv'
  <2>0. requests' \in 0 .. MaxRequests
    BY <1>6, Arrived DEF UpdateCapabilities
  <2> USE <1>6 DEF UpdateCapabilities
  <2>1. Types' /\ Handoffs'
    BY <2>0 DEF Types, Handoffs
  <2> QED
    BY <2>1, Apart
<1>7. CASE ExpireStep
  <2> USE <1>7 DEF ExpireStep
  <2>1. /\ sessions' \in [Sessions -> SessionRow \cup {None}] /\ delegations' \subseteq Claims
        /\ \A i \in Sessions : sessions[i] # None /\ sessions[i].used =>
              sessions'[i] # None /\ sessions'[i].used /\ sessions'[i].token = sessions[i].token
    <3>1. ASSUME NEW i \in Sessions, sessions[i] # None, NEW row,
                 \/ row = [sessions[i] EXCEPT !.open = FALSE]
                 \/ row = [sessions[i] EXCEPT !.live = FALSE],
                 sessions' = [sessions EXCEPT ![i] = row]
          PROVE  /\ sessions' \in [Sessions -> SessionRow \cup {None}]
                 /\ \A j \in Sessions : sessions[j] # None /\ sessions[j].used =>
                       sessions'[j] # None /\ sessions'[j].used /\ sessions'[j].token = sessions[j].token
      <4>1. sessions[i] \in SessionRow
        BY <3>1 DEF Types
      <4>2. row \in SessionRow /\ row.used = sessions[i].used /\ row.token = sessions[i].token
        BY <3>1, <4>1 DEF SessionRow
      <4>3. row # None
        BY Zenon, <4>2 DEF Grounded
      <4> QED
        BY <3>1, <4>2, <4>3 DEF Types
    <3>2. CASE \E i \in Sessions : sessions[i] # None /\ sessions' = [sessions EXCEPT ![i].open = FALSE] /\ UNCHANGED delegations
      BY <3>1, <3>2 DEF Types
    <3>3. CASE \E i \in Sessions : sessions[i] # None /\ sessions' = [sessions EXCEPT ![i].live = FALSE] /\ UNCHANGED delegations
      BY <3>1, <3>3 DEF Types
    <3>4. CASE \E d \in delegations : delegations' = delegations \ {d} /\ UNCHANGED sessions
      BY <3>4 DEF Types
    <3> QED
      BY <3>2, <3>3, <3>4 DEF Expire
  <2>2. Types' /\ Handoffs'
    BY <2>1 DEF Types, Handoffs
  <2> QED
    BY <2>2, Apart
<1> QED
  BY <1>1, <1>2, <1>3, <1>4, <1>5, <1>6, <1>7

\* A console moves and the templates stay.
LEMMA ConsoleMoves ==
    ASSUME IInv, NEW s \in Slots, NEW r \in Console, slots' = [slots EXCEPT ![s] = r],
           UNCHANGED <<templates, default>>, mutex' \in Slots \cup {None},
           mutex' = mutex \/ mutex \in {s, None},
           r.pc \in {"read", "write", "restart"} => mutex' = s,
           Filled(r), Saved(r), Unseen(r)
    PROVE  /\ slots' \in [Slots -> Console] /\ Locked'
           /\ \A o \in Slots : Filled(slots[o])' /\ Saved(slots[o])' /\ Unseen(slots[o])'
<1>1. slots' \in [Slots -> Console] /\ slots'[s] = r /\ \A o \in Slots \ {s} : slots'[o] = slots[o]
  BY DEF IInv, Types
<1>2. Locked'
  BY <1>1 DEF IInv, Grounded, Locked
<1>3. ASSUME NEW o \in Slots PROVE Filled(slots[o])' /\ Saved(slots[o])' /\ Unseen(slots[o])'
  <2>1. slots'[o] = r \/ slots'[o] = slots[o]
    BY <1>1
  <2>2. Filled(slots'[o]) /\ Saved(slots'[o]) /\ Unseen(slots'[o])
    BY Zenon, <2>1 DEF IInv
  <2> QED
    BY <2>2 DEF Filled, Saved, Unseen, GetDefault
<1> QED
  BY <1>1, <1>2, <1>3

\* A console that gives up or is done is idle, and the mutex is no longer its own.
LEMMA Leaves ==
    ASSUME IInv, NEW s \in Slots, Leave(s), UNCHANGED <<templates, default>>
    PROVE  /\ slots' \in [Slots -> Console] /\ Locked' /\ mutex' \in Slots \cup {None}
           /\ \A o \in Slots : Filled(slots[o])' /\ Saved(slots[o])' /\ Unseen(slots[o])'
<1>1. Idle \in Console /\ Filled(Idle) /\ Saved(Idle) /\ Unseen(Idle) /\ Idle.pc = "idle"
  BY DEF Idle, Console, Pcs, Ids, Filled, Saved, Unseen
<1>2. mutex' \in Slots \cup {None} /\ (mutex' = mutex \/ mutex \in {s, None})
  BY DEF Leave, IInv, Types
<1>3. slots' = [slots EXCEPT ![s] = Idle]
  BY DEF Leave
<1> QED
  BY <1>1, <1>2, <1>3, ConsoleMoves

\* A console that reads, asks for the mutex, is given it, reads again under it, or
\* restarts the application keeps the invariant.
LEMMA Reads ==
    ASSUME IInv, NEW s \in Slots,
           \/ \E d \in delegations, a \in Apps : IntegrationGetManagedConfigMap(s, d, a)
           \/ \E c \in Contents, b \in BOOLEAN : IntegrationReplaceManagedConfigMap(s, c, b)
           \/ Lock(s) \/ ReplaceRead(s) \/ createRestartRelease(s)
    PROVE  IInv'
<1>0. Types /\ slots[s] \in Console /\ Filled(slots[s]) /\ Saved(slots[s]) /\ Unseen(slots[s]) /\ mutex \in Slots \cup {None}
  BY DEF IInv, Types
<1>1. ASSUME NEW d \in delegations, NEW a \in Apps, IntegrationGetManagedConfigMap(s, d, a) PROVE IInv'
  <2> PICK t : t = GetDefault(a)
    OBVIOUS
  <2>1. t \in StoredTemplate /\ t = templates[a][default[a]] /\ default[a] \in Ids /\ d \in Claims
    BY <1>0 DEF Types, GetDefault
  <2> PICK r : r = [Idle EXCEPT !.pc = "editing", !.app = a, !.claims = d, !.template = default[a], !.expected = t.revision, !.seen = t.content]
    OBVIOUS
  <2>2. /\ r.pc = "editing" /\ r.app = a /\ r.claims = d /\ r.expected = t.revision /\ r.seen = t.content
        /\ r.template = default[a]
    BY DEF Idle
  <2>3. slots' = [slots EXCEPT ![s] = r] /\ UNCHANGED <<capabilities, sessions, handed, delegations, templates, default, releases, mutex>>
    BY Zenon, <1>1 DEF IntegrationGetManagedConfigMap
  <2>4. requests' \in 0 .. MaxRequests
    BY <1>0, <1>1, Arrived DEF IntegrationGetManagedConfigMap
  <2>5. r \in Console
    <3>1. Idle \in Console
      BY DEF Idle, Console, Pcs, Ids
    <3>2. /\ a \in Apps \cup {None} /\ d \in Claims \cup {None} /\ default[a] \in {0} \cup Ids
          /\ t.revision \in Nat /\ t.content \in Contents \cup {None} /\ "editing" \in Pcs
      BY <2>1 DEF StoredTemplate, Pcs
    <3> QED
      BY <3>1, <3>2 DEF Console
  <2>6. Filled(r) /\ Saved(r) /\ Unseen(r)
    BY <2>1, <2>2 DEF Filled, Saved, Unseen, StoredTemplate
  <2>7. r.pc = "editing"
    BY <2>2
  <2>8. /\ slots' \in [Slots -> Console] /\ Locked'
        /\ \A o \in Slots : Filled(slots[o])' /\ Saved(slots[o])' /\ Unseen(slots[o])'
    BY <1>0, <2>3, <2>5, <2>6, <2>7, ConsoleMoves
  <2> QED
    BY <2>3, <2>4, <2>8 DEF IInv, Types, Handoffs
<1>2. ASSUME NEW c \in Contents, NEW b \in BOOLEAN, IntegrationReplaceManagedConfigMap(s, c, b) PROVE IInv'
  <2> PICK r : r = [slots[s] EXCEPT !.pc = "lock", !.content = c, !.restart = b]
    OBVIOUS
  <2>1. /\ slots[s].pc = "editing" /\ slots' = [slots EXCEPT ![s] = r]
        /\ UNCHANGED <<capabilities, sessions, handed, delegations, templates, default, releases, mutex>>
    BY <1>2 DEF IntegrationReplaceManagedConfigMap
  <2>2. requests' \in 0 .. MaxRequests
    BY <1>0, <1>2, Arrived DEF IntegrationReplaceManagedConfigMap
  <2>3. /\ r \in Console /\ r.pc = "lock" /\ r.content = c /\ r.app = slots[s].app /\ r.template = slots[s].template
        /\ r.expected = slots[s].expected /\ r.seen = slots[s].seen /\ r.target = slots[s].target
    BY <1>0 DEF Console, Pcs
  <2>4. Filled(r) /\ Saved(r) /\ Unseen(r)
    BY <1>0, <2>1, <2>3 DEF Filled, Saved, Unseen
  <2>5. /\ slots' \in [Slots -> Console] /\ Locked'
        /\ \A o \in Slots : Filled(slots[o])' /\ Saved(slots[o])' /\ Unseen(slots[o])'
    BY <1>0, <2>1, <2>3, <2>4, ConsoleMoves
  <2> QED
    BY <2>1, <2>2, <2>5 DEF IInv, Types, Handoffs
<1>3. CASE Lock(s)
  <2> PICK r : r = [slots[s] EXCEPT !.pc = "read"]
    OBVIOUS
  <2>1. /\ slots[s].pc = "lock" /\ mutex = None /\ mutex' = s /\ slots' = [slots EXCEPT ![s] = r]
        /\ UNCHANGED <<capabilities, sessions, handed, delegations, templates, default, releases, requests>>
    BY <1>3 DEF Lock, MutexFree
  <2>3. /\ r \in Console /\ r.pc = "read" /\ r.content = slots[s].content /\ r.app = slots[s].app /\ r.template = slots[s].template
        /\ r.expected = slots[s].expected /\ r.seen = slots[s].seen /\ r.target = slots[s].target
    BY <1>0 DEF Console, Pcs
  <2>4. Filled(r) /\ Saved(r) /\ Unseen(r)
    BY <1>0, <2>1, <2>3 DEF Filled, Saved, Unseen
  <2>5. /\ slots' \in [Slots -> Console] /\ Locked'
        /\ \A o \in Slots : Filled(slots[o])' /\ Saved(slots[o])' /\ Unseen(slots[o])'
    BY <1>0, <2>1, <2>3, <2>4, ConsoleMoves
  <2> QED
    BY <2>1, <2>5 DEF IInv, Types, Handoffs
<1>4. CASE ReplaceRead(s)
  <2> PICK r : r = [slots[s] EXCEPT !.pc = "write", !.target = default[slots[s].app]]
    OBVIOUS
  <2>1. /\ slots[s].pc = "read"
        /\ UNCHANGED <<capabilities, sessions, handed, delegations, templates, default, releases, requests>>
    BY <1>4 DEF ReplaceRead
  <2>2. CASE slots' = [slots EXCEPT ![s] = r] /\ mutex' = mutex
    <3>1. slots[s].app \in Apps /\ slots[s].template \in Ids /\ slots[s].content \in Contents /\ mutex = s
      BY <1>0, <2>1 DEF Filled, IInv, Locked
    <3>2. default[slots[s].app] \in Ids
      BY <1>0, <3>1 DEF Types
    <3>3. /\ r \in Console /\ r.pc = "write" /\ r.content = slots[s].content /\ r.app = slots[s].app /\ r.template = slots[s].template
          /\ r.expected = slots[s].expected /\ r.seen = slots[s].seen /\ r.target = default[slots[s].app]
      BY <1>0, <3>2 DEF Console, Pcs
    <3>4. Filled(r) /\ Saved(r) /\ Unseen(r)
      BY <1>0, <2>1, <3>1, <3>2, <3>3 DEF Filled, Saved, Unseen
    <3>5. /\ slots' \in [Slots -> Console] /\ Locked'
          /\ \A o \in Slots : Filled(slots[o])' /\ Saved(slots[o])' /\ Unseen(slots[o])'
      BY <1>0, <2>1, <2>2, <3>1, <3>3, <3>4, ConsoleMoves
    <3> QED
      BY <2>1, <2>2, <3>5 DEF IInv, Types, Handoffs
  <2>3. CASE Leave(s)
    BY <2>1, <2>3, Leaves DEF IInv, Types, Handoffs
  <2> QED
    BY <1>4, <2>2, <2>3 DEF ReplaceRead
<1>5. CASE createRestartRelease(s)
  <2>1. /\ Leave(s) /\ UNCHANGED <<capabilities, sessions, handed, delegations, templates, default, requests>>
        /\ slots[s].pc = "restart"
        /\ releases' \subseteq releases \cup {[app |-> slots[s].app, content |-> GetDefault(slots[s].app).content]}
    BY <1>5 DEF createRestartRelease
  <2>2. slots[s].app \in Apps
    BY <1>0, <2>1 DEF Filled
  <2>3. GetDefault(slots[s].app).content \in Contents
    BY <1>0, <2>2 DEF GetDefault, Types, StoredTemplate
  <2>4. releases' \subseteq [app : Apps, content : Contents]
    BY <1>0, <2>1, <2>2, <2>3 DEF Types
  <2> QED
    BY <2>1, <2>4, Leaves DEF IInv, Types, Handoffs
<1> QED
  BY <1>1, <1>2, <1>3, <1>4, <1>5

\* One template is saved again: nothing else changes, and no console that read it takes the new revision for the one it read.
LEMMA TemplateSaved ==
    ASSUME Types, NEW a \in Apps, NEW t \in Ids, NEW row \in StoredTemplate, templates' = [templates EXCEPT ![a][t] = row],
           row.revision = templates[a][t].revision + 1
    PROVE  /\ templates' \in [Apps -> [Ids -> StoredTemplate]] /\ templates'[a][t] = row /\ templates' # templates
           /\ \A b \in Apps, u \in Ids : b # a \/ u # t => templates'[b][u] = templates[b][u]
           /\ \A r \in Console : Filled(r) /\ Unseen(r) => Unseen(r)'
<1>0. templates \in [Apps -> [Ids -> StoredTemplate]] /\ templates[a][t].revision \in Nat
  BY DEF Types, StoredTemplate
<1>1. templates' \in [Apps -> [Ids -> StoredTemplate]]
  BY <1>0
<1>2. templates'[a][t] = row /\ \A b \in Apps, u \in Ids : b # a \/ u # t => templates'[b][u] = templates[b][u]
  BY <1>0
<1>3. templates' # templates
  BY <1>0, <1>2
<1>4. ASSUME NEW r \in Console, Filled(r), Unseen(r) PROVE Unseen(r)'
  <2>1. SUFFICES ASSUME r.pc \in {"editing", "lock", "read", "write"}
                 PROVE  /\ r.expected <= templates'[r.app][r.template].revision
                        /\ r.expected = templates'[r.app][r.template].revision => templates'[r.app][r.template].content = r.seen
    BY DEF Unseen
  <2>2. r.app \in Apps /\ r.template \in Ids /\ r.expected \in Nat
    BY <1>4, <2>1 DEF Filled, Console
  <2>3. /\ r.expected <= templates[r.app][r.template].revision
        /\ r.expected = templates[r.app][r.template].revision => templates[r.app][r.template].content = r.seen
    BY <1>4, <2>1 DEF Unseen
  <2>4. CASE r.app = a /\ r.template = t
    BY <1>0, <1>2, <2>2, <2>3, <2>4
  <2>5. CASE r.app # a \/ r.template # t
    BY <1>2, <2>2, <2>3, <2>5
  <2> QED
    BY <2>4, <2>5
<1> QED
  BY <1>1, <1>2, <1>3, <1>4

\* The conditional UPDATE of a replacement keeps the invariant: it takes the revision the
\* console read, so the template still has the content the console saw, and the mutex
\* keeps every other console out until the release is made.
LEMMA Writes == ASSUME IInv, NEW s \in Slots, ReplaceWrite(s) PROVE IInv'
<1>0. /\ Types /\ slots \in [Slots -> Console] /\ slots[s] \in Console /\ mutex \in Slots \cup {None}
      /\ Filled(slots[s]) /\ Saved(slots[s]) /\ Unseen(slots[s])
  BY DEF IInv, Types
<1>1. /\ slots[s].pc = "write"
      /\ UNCHANGED <<capabilities, sessions, handed, delegations, default, releases, requests>>
  BY DEF ReplaceWrite
<1> PICK a : a = slots[s].app
  OBVIOUS
<1> PICK t : t = slots[s].target
  OBVIOUS
<1>2. a \in Apps /\ t \in Ids /\ slots[s].content \in Contents /\ mutex = s
  BY <1>0, <1>1 DEF Filled, IInv, Locked
<1>3. CASE ExpectedRevision(s, t)
  <2> PICK row : row = [templates[a][t] EXCEPT !.content = slots[s].content, !.revision = slots[s].expected + 1]
    OBVIOUS
  <2>1. templates' = [templates EXCEPT ![a][t] = row]
    BY <1>3 DEF ReplaceWrite, UpdateIfRevision
  <2>2. templates[a][t] \in StoredTemplate /\ slots[s].expected \in Nat /\ templates[a][t].revision = slots[s].expected
    BY <1>0, <1>2, <1>3 DEF Types, Console, ExpectedRevision
  <2>3. row \in StoredTemplate /\ row.revision = templates[a][t].revision + 1 /\ row.content = slots[s].content
    <3>1. slots[s].expected + 1 \in Nat
      BY <2>2
    <3>2. row \in StoredTemplate /\ row.revision = slots[s].expected + 1 /\ row.content = slots[s].content
      <4> PICK o : o = templates[a][t]
        OBVIOUS
      <4> PICK c : c = slots[s].content
        OBVIOUS
      <4> PICK k : k = slots[s].expected + 1
        OBVIOUS
      <4>1. o \in StoredTemplate /\ c \in Contents /\ k \in Nat /\ row = [o EXCEPT !.content = c, !.revision = k]
        BY <1>2, <2>2, <3>1
      <4>2. row \in StoredTemplate /\ row.revision = k /\ row.content = c
        BY <4>1 DEF StoredTemplate
      <4> QED
        BY <4>2
    <3> QED
      BY <2>2, <3>2
  <2>4. templates' \in [Apps -> [Ids -> StoredTemplate]] /\ templates'[a][t] = row /\ templates' # templates
    <3>1. templates' \in [Apps -> [Ids -> StoredTemplate]]
      BY <1>0, <1>2, <2>1, <2>3, TemplateSaved
    <3>2. templates'[a][t] = row
      BY <1>0, <1>2, <2>1 DEF Types
    <3>3. templates' # templates
      BY <1>0, <1>2, <2>1, <2>3, TemplateSaved
    <3> QED
      BY <3>1, <3>2, <3>3
  <2>u. \A r \in Console : Filled(r) /\ Unseen(r) => Unseen(r)'
    BY <1>0, <1>2, <2>1, <2>3, TemplateSaved
  <2>5. PICK r : /\ slots' = [slots EXCEPT ![s] = r]
                 /\ \/ r = [slots[s] EXCEPT !.pc = "restart"] /\ mutex' = s
                    \/ r = Idle /\ mutex' = None
    BY <1>0, <1>2, <2>4 DEF ReplaceWrite, Leave
  <2>6. /\ r \in Console /\ r.pc \in {"restart", "idle"} /\ Filled(r) /\ (r.pc = "restart" => mutex' = s)
        /\ r.pc = "restart" => r.app = a /\ r.overtaken = slots[s].overtaken /\ r.content = slots[s].content
    <3>1. CASE r = [slots[s] EXCEPT !.pc = "restart"] /\ mutex' = s
      BY <1>0, <1>1, <3>1 DEF Console, Pcs, Filled
    <3>2. CASE r = Idle
      BY <3>2 DEF Idle, Console, Pcs, Ids, Filled
    <3> QED
      BY <2>5, <3>1, <3>2
  <2>7. /\ slots' \in [Slots -> Console] /\ slots'[s] = r /\ \A o \in Slots \ {s} : slots'[o] = slots[o]
        /\ mutex' \in Slots \cup {None}
    BY <1>0, <2>5, <2>6
  <2>8. \A o \in Slots \ {s} : slots[o].pc \notin {"read", "write", "restart"}
    BY <1>2 DEF IInv, Locked
  <2>9. Locked'
    BY <2>6, <2>7, <2>8 DEF Locked
  <2>10. Filled(r)' /\ Unseen(r)' /\ Saved(r)'
    <3>1. Saved(r)'
      <4>1. SUFFICES ASSUME ~r.overtaken, r.pc = "restart" PROVE templates'[r.app][default[r.app]].content = r.content
        BY <1>1, <2>6 DEF Saved, GetDefault
      <4>2. t = default[a]
        BY <1>0, <1>1, <2>6, <4>1 DEF Saved
      <4>3. r.app = a /\ r.content = slots[s].content
        BY <2>6, <4>1
      <4> QED
        BY Zenon, <2>3, <2>4, <4>2, <4>3
    <3>2. Filled(r)' /\ Unseen(r)'
      BY <2>6 DEF Filled, Unseen
    <3> QED
      BY <3>1, <3>2
  <2>11. ASSUME NEW o \in Slots PROVE Filled(slots[o])' /\ Saved(slots[o])' /\ Unseen(slots[o])'
    <3>1. CASE o = s
      BY <2>7, <2>10, <3>1 DEF Filled, Saved, Unseen, GetDefault
    <3>2. CASE o # s
      <4>1. slots'[o] = slots[o] /\ Filled(slots[o]) /\ slots[o] \in Console /\ Unseen(slots[o])
        BY <1>0, <2>7, <3>2 DEF IInv
      <4>2. PICK q : q = slots[o]
        OBVIOUS
      <4>3. Unseen(q)' /\ Filled(q)'
        BY <2>u, <4>1, <4>2 DEF Filled
      <4>4. Saved(q)'
        BY <2>8, <3>2, <4>2 DEF Saved
      <4> QED
        BY <4>1, <4>2, <4>3, <4>4 DEF Filled, Saved, Unseen, GetDefault
    <3> QED
      BY <3>1, <3>2
  <2> QED
    BY <1>0, <1>1, <2>4, <2>7, <2>9, <2>11 DEF IInv, Types, Handoffs
<1>4. CASE ~ExpectedRevision(s, t)
  <2>1. UNCHANGED templates /\ Leave(s)
    BY <1>4 DEF ReplaceWrite, UpdateIfRevision
  <2> QED
    BY <1>1, <2>1, Leaves DEF IInv, Types, Handoffs
<1> QED
  BY <1>3, <1>4

\* The platform's pages mark the consoles they overtake, and change nothing else of them.
LEMMA Overtaken ==
    ASSUME IInv, NEW a \in Apps, Overtake(a)
    PROVE  /\ slots' \in [Slots -> Console]
           /\ \A s \in Slots : /\ \A f \in {"pc", "app", "expected", "seen", "template", "target", "content"} : slots'[s][f] = slots[s][f]
                               /\ slots[s].app = a => slots'[s].overtaken
                               /\ slots[s].app # a => slots'[s] = slots[s]
<1> DEFINE marked(s) == [slots[s] EXCEPT !.overtaken = TRUE]
<1>1. slots \in [Slots -> Console]
  BY DEF IInv, Types
<1>2. \A s \in Slots : /\ marked(s) \in Console /\ marked(s).overtaken
                       /\ \A f \in {"pc", "app", "expected", "seen", "template", "target", "content"} : marked(s)[f] = slots[s][f]
  BY <1>1 DEF Console
<1>3. slots' = [s \in Slots |-> IF slots[s].app = a THEN marked(s) ELSE slots[s]]
  BY Zenon DEF Overtake
<1> HIDE DEF marked
<1> QED
  BY <1>1, <1>2, <1>3

\* The platform's own pages keep the invariant: they raise the revision of the template
\* they save, and mark the consoles they overtake.
LEMMA PageSteps ==
    ASSUME IInv,
           \/ \E a \in Apps, t \in Ids, c \in Contents, m \in BOOLEAN, e \in BOOLEAN : UpdateDeploymentTemplate(a, t, c, m, e)
           \/ \E a \in Apps, t \in Ids : SetDefaultDeploymentTemplate(a, t)
    PROVE  IInv'
<1>0. Types /\ slots \in [Slots -> Console]
  BY DEF IInv, Types
<1>1. ASSUME NEW a \in Apps, NEW t \in Ids, NEW c \in Contents, NEW m \in BOOLEAN, NEW e \in BOOLEAN,
             UpdateDeploymentTemplate(a, t, c, m, e)
      PROVE  IInv'
  <2> PICK row : row = [revision |-> templates[a][t].revision + 1, content |-> c, enabled |-> e, managed |-> m]
    OBVIOUS
  <2>1. /\ templates' = [templates EXCEPT ![a][t] = row] /\ Overtake(a)
        /\ UNCHANGED <<capabilities, sessions, handed, delegations, default, releases, mutex>>
    BY <1>1 DEF UpdateDeploymentTemplate
  <2>2. requests' \in 0 .. MaxRequests
    BY <1>0, <1>1, Arrived DEF UpdateDeploymentTemplate
  <2>3. row \in StoredTemplate /\ row.revision = templates[a][t].revision + 1
    BY <1>0 DEF Types, StoredTemplate
  <2>4. templates' \in [Apps -> [Ids -> StoredTemplate]]
    BY <1>0, <2>1, <2>3, TemplateSaved
  <2>5. \A b \in Apps, u \in Ids : b # a => templates'[b][u] = templates[b][u]
    BY <1>0, <2>1, <2>3, TemplateSaved
  <2>6. \A r \in Console : Filled(r) /\ Unseen(r) => Unseen(r)'
    BY <1>0, <2>1, <2>3, TemplateSaved
  <2>7. /\ slots' \in [Slots -> Console]
        /\ \A s \in Slots : /\ \A f \in {"pc", "app", "expected", "seen", "template", "target", "content"} : slots'[s][f] = slots[s][f]
                            /\ slots[s].app = a => slots'[s].overtaken
                            /\ slots[s].app # a => slots'[s] = slots[s]
    BY <2>1, Overtaken
  <2>8. Locked'
    BY <2>1, <2>7 DEF IInv, Locked
  <2>9. ASSUME NEW s \in Slots PROVE Filled(slots[s])' /\ Saved(slots[s])' /\ Unseen(slots[s])'
    <3> PICK q : q = slots[s]
      OBVIOUS
    <3> PICK r : r = slots'[s]
      OBVIOUS
    <3>1. /\ r.pc = q.pc /\ r.app = q.app /\ r.expected = q.expected /\ r.seen = q.seen /\ r.template = q.template
          /\ r.target = q.target /\ r.content = q.content /\ (q.app = a => r.overtaken) /\ (q.app # a => r = q)
      BY <2>7
    <3>2. q \in Console /\ Filled(q) /\ Saved(q) /\ Unseen(q)
      BY <1>0 DEF IInv
    <3>3. Filled(r)
      BY <3>1, <3>2 DEF Filled
    <3>4. Unseen(r)'
      <4>1. Unseen(q)'
        BY <2>6, <3>2
      <4> QED
        BY <3>1, <4>1 DEF Unseen
    <3>5. Saved(r)'
      <4>1. CASE q.app = a
        BY <3>1, <4>1 DEF Saved
      <4>2. CASE q.app # a /\ r.pc \in {"write", "restart"}
        <5>1. r = q /\ q.app \in Apps
          BY <3>1, <3>2, <4>2 DEF Filled
        <5>2. default[q.app] \in Ids /\ default' = default
          BY <1>0, <2>1, <5>1 DEF Types
        <5>3. templates'[q.app][default[q.app]] = templates[q.app][default[q.app]]
          BY <2>5, <4>2, <5>1, <5>2
        <5> QED
          BY <3>2, <5>1, <5>2, <5>3 DEF Saved, GetDefault
      <4>3. CASE r.pc \notin {"write", "restart"}
        BY <4>3 DEF Saved
      <4> QED
        BY <3>1, <4>1, <4>2, <4>3
    <3> QED
      BY <3>3, <3>4, <3>5 DEF Filled, Saved, Unseen, GetDefault
  <2> QED
    BY <1>0, <2>1, <2>2, <2>4, <2>7, <2>8, <2>9 DEF IInv, Types, Handoffs
<1>2. ASSUME NEW a \in Apps, NEW t \in Ids, SetDefaultDeploymentTemplate(a, t) PROVE IInv'
  <2>1. /\ default' = [default EXCEPT ![a] = t] /\ Overtake(a)
        /\ UNCHANGED <<capabilities, sessions, handed, delegations, templates, releases, mutex>>
    BY <1>2 DEF SetDefaultDeploymentTemplate
  <2>2. requests' \in 0 .. MaxRequests
    BY <1>0, <1>2, Arrived DEF SetDefaultDeploymentTemplate
  <2>3. default' \in [Apps -> Ids] /\ \A b \in Apps : b # a => default'[b] = default[b]
    BY <1>0, <2>1 DEF Types
  <2>7. /\ slots' \in [Slots -> Console]
        /\ \A s \in Slots : /\ \A f \in {"pc", "app", "expected", "seen", "template", "target", "content"} : slots'[s][f] = slots[s][f]
                            /\ slots[s].app = a => slots'[s].overtaken
                            /\ slots[s].app # a => slots'[s] = slots[s]
    BY <2>1, Overtaken
  <2>8. Locked'
    BY <2>1, <2>7 DEF IInv, Locked
  <2>9. ASSUME NEW s \in Slots PROVE Filled(slots[s])' /\ Saved(slots[s])' /\ Unseen(slots[s])'
    <3> PICK q : q = slots[s]
      OBVIOUS
    <3> PICK r : r = slots'[s]
      OBVIOUS
    <3>1. /\ r.pc = q.pc /\ r.app = q.app /\ r.expected = q.expected /\ r.seen = q.seen /\ r.template = q.template
          /\ r.target = q.target /\ r.content = q.content /\ (q.app = a => r.overtaken) /\ (q.app # a => r = q)
      BY <2>7
    <3>2. q \in Console /\ Filled(q) /\ Saved(q) /\ Unseen(q)
      BY <1>0 DEF IInv
    <3>3. Filled(r)
      BY <3>1, <3>2 DEF Filled
    <3>4. Unseen(r)'
      BY <2>1, <3>1, <3>2 DEF Unseen
    <3>5. Saved(r)'
      <4>1. CASE q.app = a
        BY <3>1, <4>1 DEF Saved
      <4>2. CASE q.app # a /\ r.pc \in {"write", "restart"}
        <5>1. r = q /\ q.app \in Apps
          BY <3>1, <3>2, <4>2 DEF Filled
        <5>2. default'[q.app] = default[q.app]
          BY <2>3, <4>2, <5>1
        <5> QED
          BY <2>1, <3>2, <5>1, <5>2 DEF Saved, GetDefault
      <4>3. CASE r.pc \notin {"write", "restart"}
        BY <4>3 DEF Saved
      <4> QED
        BY <3>1, <4>1, <4>2, <4>3
    <3> QED
      BY <3>3, <3>4, <3>5 DEF Filled, Saved, Unseen, GetDefault
  <2> QED
    BY <1>0, <2>1, <2>2, <2>3, <2>7, <2>8, <2>9 DEF IInv, Types, Handoffs
<1> QED
  BY <1>1, <1>2

\* Every step keeps the invariant.
LEMMA IInvStep == IInv /\ [Next]_vars => IInv'
<1> SUFFICES ASSUME IInv, [Next]_vars PROVE IInv'
  OBVIOUS
<1>1. CASE UNCHANGED vars
  BY <1>1 DEF vars, IInv, Types, Handoffs, Locked, Filled, Saved, Unseen, GetDefault
<1>2. CASE \E a \in Apps, t \in Ids : \/ \E c \in Contents : UpdateDeploymentTemplate(a, t, c, TRUE, TRUE)
                                    \/ \E e \in BOOLEAN : UpdateDeploymentTemplate(a, t, templates[a][t].content, FALSE, e)
  <2>1. \A a \in Apps, t \in Ids : templates[a][t].content \in Contents
    BY DEF IInv, Types, StoredTemplate
  <2> QED
    BY <1>2, <2>1, PageSteps
<1>3. CASE \E a \in Apps, t \in Ids : SetDefaultDeploymentTemplate(a, t)
  BY <1>3, PageSteps
<1>4. CASE \E s \in Slots : ConsoleNext(s)
  BY <1>4, Reads, Writes DEF ConsoleNext
<1> QED
  BY <1>1, <1>2, <1>3, <1>4, SessionSteps DEF Next

\* However many consoles present a handoff code (ExchangeIntegrationSession), one token is
\* handed out; and the release a replacement asks for (createRestartRelease reads the
\* template again) carries what it saved, unless the platform's pages interfered.
THEOREM OneSession == Grounded /\ Spec => [](TypeOK /\ HandoffOnce /\ RestartReadsSaved)
<1>1. IInv => TypeOK /\ HandoffOnce /\ RestartReadsSaved
  BY DEF IInv, Types, Handoffs, Saved, TypeOK, HandoffOnce, RestartReadsSaved, SessionRow, Console, Pcs
<1> QED
  BY <1>1, IInvInit, IInvStep, PTL DEF Spec

\* A console never overwrites content it has not seen, unless another template became the
\* default in between: the conditional UPDATE compares revisions, and every save of a
\* template raises its revision.
THEOREM Seen == Grounded /\ Spec => [][ReplaceSeen]_vars
<1>1. ASSUME IInv, Next PROVE ReplaceSeen
  <2>1. SUFFICES ASSUME NEW s \in Slots, slots[s].pc = "write", slots[s].target = slots[s].template, templates' # templates,
                        slots'[s].pc # "write"
                 PROVE  templates[slots[s].app][slots[s].target].content = slots[s].seen
    BY DEF ReplaceSeen
  <2>2. mutex = s /\ Unseen(slots[s])
    BY <1>1, <2>1 DEF IInv, Locked
  <2>3. CASE \E o \in Slots : ReplaceWrite(o)
    <3> PICK o \in Slots : ReplaceWrite(o)
      BY <2>3
    <3>1. o = s
      BY <1>1, <2>2 DEF ReplaceWrite, IInv, Locked
    <3>2. templates[slots[s].app][slots[s].target].revision = slots[s].expected
      BY <2>1, <3>1 DEF ReplaceWrite, UpdateIfRevision, ExpectedRevision
    <3> QED
      BY <2>1, <2>2, <3>2 DEF Unseen
  <2>4. CASE \E a \in Apps : Overtake(a)
    BY <1>1, <2>1, <2>4, Overtaken
  <2>5. CASE UNCHANGED templates
    BY <2>1, <2>5
  <2>6. \/ \E o \in Slots : ReplaceWrite(o)
        \/ \E a \in Apps : Overtake(a)
        \/ UNCHANGED templates
    BY <1>1 DEF Next, ConsoleNext, createIntegrationHandoff, ExchangeIntegrationSession, createIntegrationDelegation,
                CreateDelegation, IntegrationGetManagedConfigMap, IntegrationReplaceManagedConfigMap, Lock, ReplaceRead,
                createRestartRelease, IntegrationRestartApplication, UpdateDeploymentTemplate, SetDefaultDeploymentTemplate,
                UpdateCapabilities, ExpireStep
  <2> QED
    BY <2>3, <2>4, <2>5, <2>6
<1> QED
  BY <1>1, IInvInit, IInvStep, PTL DEF Spec
=============================================================================
