-------------------------------- MODULE Issuance --------------------------------
(***************************************************************************)
(* What certificates and names are resolved with: DNS credentials (a row   *)
(* and a Secret in the credential's namespace), the issuers that refer to  *)
(* those Secrets by name, and the cluster's DNS policy (a history of rows, *)
(* and the forward line of CoreDNS's Corefile).                            *)
(***************************************************************************)
EXTENDS Naturals, Sequences

CONSTANTS Namespaces, Values, Issuers, Resolvers, Host,   \* Host: forward to the node's own resolvers
          MaxCredentials, Slots, MaxRequests, MaxFaults, None

Ids == 1..MaxCredentials

VARIABLES creds,       \* id -> [ns, value, enabled], or None
          secrets,     \* <<id, namespace>> -> the value in the Secret, or None
          issuers,     \* name -> [kind, ns, cred] with cred = None unless it solves DNS-01, or None
          corefile,    \* [forward, version] of the CoreDNS ConfigMap
          policies,    \* the policy history; the last one is active
          made,        \* credential ids handed out so far
          slots,       \* the requests in flight
          moved,       \* credentials that changed namespace
          unsynced,    \* credentials whose Secret a failing step left behind or missing
          unsaved,     \* the Corefile was changed and its policy could not be saved
          raced,       \* two requests were in flight together
          requests, faults

vars == <<creds, secrets, issuers, corefile, policies, made, slots, moved, unsynced, unsaved, raced, requests, faults>>

Idle == [pc |-> "idle"]
Stored(table) == {i \in DOMAIN table : table[i] # None}
Fault == faults < MaxFaults /\ faults' = faults + 1
NoFault == UNCHANGED faults

Init ==
  /\ creds = [c \in Ids |-> None]
  /\ secrets = [x \in Ids \X Namespaces |-> None]
  /\ issuers = [i \in Issuers |-> None]
  /\ corefile = [forward |-> Host, version |-> 0]
  /\ policies = <<>>
  /\ made = 0
  /\ slots = [s \in Slots |-> Idle]
  /\ moved = {} /\ unsynced = {} /\ unsaved = FALSE /\ raced = FALSE /\ requests = 0 /\ faults = 0

Start(s, r) ==
  /\ slots[s] = Idle /\ requests < MaxRequests
  /\ requests' = requests + 1
  /\ slots' = [slots EXCEPT ![s] = r]
  /\ raced' = (raced \/ \E t \in Slots \ {s} : slots[t] # Idle)

Goto(s, pc) == slots' = [slots EXCEPT ![s].pc = pc]
Respond(s) == slots' = [slots EXCEPT ![s] = Idle]

(***************************************************************************)
(* DNS credentials.  The row is written before the Secret.                 *)
(***************************************************************************)

OnCredential(pc, op, c, old, row) == [pc |-> pc, op |-> op, id |-> c, old |-> old, row |-> row]

CreateDNSCredential(s, n, v) ==
  LET c == made + 1
      row == [ns |-> n, value |-> v, enabled |-> TRUE]
  IN  /\ c \in Ids
      /\ Start(s, OnCredential("name", "create", c, None, row))
      /\ made' = c
      /\ creds' = [creds EXCEPT ![c] = row]
      /\ UNCHANGED <<secrets, issuers, corefile, policies, moved, unsynced, unsaved, faults>>

\* Fields left blank keep the stored value; the namespace may change.
UpdateDNSCredential(s, c, n, v, enabled) ==
  /\ c \in Stored(creds)
  /\ Start(s, OnCredential("name", "update", c, creds[c], [ns |-> n, value |-> v, enabled |-> enabled]))
  /\ UNCHANGED <<creds, secrets, issuers, corefile, policies, made, moved, unsynced, unsaved, faults>>

\* Save: a row deleted meanwhile is inserted again.
SaveCredential(s) ==
  /\ slots[s].pc = "name"
  /\ creds' = [creds EXCEPT ![slots[s].id] = slots[s].row]
  /\ Goto(s, "sync")
  /\ UNCHANGED <<secrets, issuers, corefile, policies, made, moved, unsynced, unsaved, raced, requests, faults>>

\* Mutant: a Secret that exists keeps its data.
CreateSecretOnly(c, n, v) == secrets' = IF secrets[c, n] = None THEN [secrets EXCEPT ![<<c, n>>] = v] ELSE secrets

UpsertDNSCredentialSecret(c, n, v) == secrets' = [secrets EXCEPT ![<<c, n>>] = v]

\* A credential whose Secret cannot be created is removed again; an updated one stays.
SyncCredential(s) ==
  /\ slots[s].pc = "sync"
  /\ LET r == slots[s] IN
       \/ /\ UpsertDNSCredentialSecret(r.id, r.row.ns, r.row.value)
          /\ NoFault
          /\ IF r.op = "update" /\ r.old.ns # r.row.ns
               THEN Goto(s, "cleanup") /\ moved' = moved \cup {r.id}
               ELSE Respond(s) /\ UNCHANGED moved
          /\ UNCHANGED <<creds, unsynced>>
       \/ /\ Fault /\ Respond(s)
          /\ creds' = IF r.op = "create" THEN [creds EXCEPT ![r.id] = None] ELSE creds
          /\ unsynced' = unsynced \cup {r.id}
          /\ UNCHANGED <<secrets, moved>>
  /\ UNCHANGED <<issuers, corefile, policies, made, unsaved, raced, requests>>

\* The Secret of the namespace the credential left.
RemoveOldSecret(s) ==
  /\ slots[s].pc = "cleanup"
  /\ Respond(s)
  /\ \/ secrets' = [secrets EXCEPT ![<<slots[s].id, slots[s].old.ns>>] = None] /\ NoFault /\ UNCHANGED unsynced
     \/ Fault /\ unsynced' = unsynced \cup {slots[s].id} /\ UNCHANGED secrets
  /\ UNCHANGED <<creds, issuers, corefile, policies, made, moved, unsaved, raced, requests>>

\* An issuer refers to a credential by the name of its Secret.
NotReferenced(c) == \A i \in Stored(issuers) : issuers[i].cred # c

DeleteDNSCredential(s, c) ==
  /\ c \in Stored(creds) /\ NotReferenced(c)
  /\ Start(s, OnCredential("remove", "delete", c, creds[c], None))
  /\ UNCHANGED <<creds, secrets, issuers, corefile, policies, made, moved, unsynced, unsaved, faults>>

RemoveSecret(s) ==
  /\ slots[s].pc = "remove"
  /\ \/ secrets' = [secrets EXCEPT ![<<slots[s].id, slots[s].old.ns>>] = None] /\ NoFault /\ Goto(s, "row")
     \/ Fault /\ Respond(s) /\ UNCHANGED secrets
  /\ UNCHANGED <<creds, issuers, corefile, policies, made, moved, unsynced, unsaved, raced, requests>>

DeleteCredentialRow(s) ==
  /\ slots[s].pc = "row"
  /\ Respond(s)
  /\ \/ creds' = [creds EXCEPT ![slots[s].id] = None] /\ NoFault /\ UNCHANGED unsynced
     \/ Fault /\ unsynced' = unsynced \cup {slots[s].id} /\ UNCHANGED creds
  /\ UNCHANGED <<secrets, issuers, corefile, policies, made, moved, unsaved, raced, requests>>

(***************************************************************************)
(* Issuers.  A namespaced one must share the namespace of its credential.  *)
(***************************************************************************)

saveIssuer(s, i, kind, n, c) ==
  /\ c # None => c \in Stored(creds) /\ creds[c].enabled /\ (kind = "Issuer" => creds[c].ns = n)
  /\ Start(s, [pc |-> "issuer", name |-> i, row |-> [kind |-> kind, ns |-> n, cred |-> c]])
  /\ UNCHANGED <<creds, secrets, issuers, corefile, policies, made, moved, unsynced, unsaved, faults>>

\* A name that is taken is refused.
applyIssuer(s) ==
  /\ slots[s].pc = "issuer"
  /\ Respond(s)
  /\ issuers' = IF issuers[slots[s].name] = None THEN [issuers EXCEPT ![slots[s].name] = slots[s].row] ELSE issuers
  /\ UNCHANGED <<creds, secrets, corefile, policies, made, moved, unsynced, unsaved, raced, requests, faults>>

DeleteIssuer(i) ==
  /\ i \in Stored(issuers) /\ requests < MaxRequests
  /\ requests' = requests + 1
  /\ issuers' = [issuers EXCEPT ![i] = None]
  /\ UNCHANGED <<creds, secrets, corefile, policies, made, slots, moved, unsynced, unsaved, raced, faults>>

(***************************************************************************)
(* The DNS policy.                                                         *)
(***************************************************************************)

\* The Corefile as it is read, with its forward line replaced.
replaceCoreDNSForward(resolvers) == [pc |-> "update", read |-> corefile, forward |-> resolvers]

applyResolvers(s, resolvers) ==
  /\ Start(s, replaceCoreDNSForward(resolvers))
  /\ UNCHANGED <<creds, secrets, issuers, corefile, policies, made, moved, unsynced, unsaved, faults>>

Apply(s) == \E r \in Resolvers : applyResolvers(s, r)
Reset(s) == applyResolvers(s, Host)
Rollback(s) == \E i \in DOMAIN policies : applyResolvers(s, policies[i])

\* An update made from an older version of the ConfigMap is refused.
UpdateCoreDNSConfig(read, forward) ==
  corefile' = IF corefile.version = read.version THEN [forward |-> forward, version |-> read.version + 1] ELSE corefile

UpdateCorefile(s) ==
  /\ slots[s].pc = "update"
  /\ \/ UpdateCoreDNSConfig(slots[s].read, slots[s].forward)
        /\ (IF corefile' = corefile THEN Respond(s) ELSE Goto(s, "policy"))
        /\ NoFault
     \/ Fault /\ Respond(s) /\ UNCHANGED corefile
  /\ UNCHANGED <<creds, secrets, issuers, policies, made, moved, unsynced, unsaved, raced, requests>>

\* The new row is active and every other is not, in one transaction.
CreateClusterDNSPolicy(policy) == policies' = Append(policies, policy)

\* When the row cannot be saved the previous Corefile is written from the
\* ConfigMap that was read at the start, and the outcome is not looked at.
SavePolicy(s) ==
  /\ slots[s].pc = "policy"
  /\ Respond(s)
  /\ \/ CreateClusterDNSPolicy(slots[s].forward) /\ unsaved' = FALSE /\ NoFault /\ UNCHANGED corefile
     \/ Fault /\ UpdateCoreDNSConfig(slots[s].read, slots[s].read.forward) /\ unsaved' = TRUE /\ UNCHANGED policies
  /\ UNCHANGED <<creds, secrets, issuers, made, moved, unsynced, raced, requests>>

Request(s) ==
  \/ \E n \in Namespaces, v \in Values :
       \/ CreateDNSCredential(s, n, v)
       \/ \E c \in Ids, enabled \in BOOLEAN : UpdateDNSCredential(s, c, n, v, enabled)
  \/ \E c \in Ids : DeleteDNSCredential(s, c)
  \/ \E i \in Issuers, kind \in {"Issuer", "ClusterIssuer"}, n \in Namespaces, c \in Ids \cup {None} : saveIssuer(s, i, kind, n, c)
  \/ Apply(s) \/ Reset(s) \/ Rollback(s)

Step(s) ==
  \/ SaveCredential(s) \/ SyncCredential(s) \/ RemoveOldSecret(s) \/ RemoveSecret(s) \/ DeleteCredentialRow(s)
  \/ applyIssuer(s) \/ UpdateCorefile(s) \/ SavePolicy(s)

Next == (\E s \in Slots : Request(s) \/ Step(s)) \/ (\E i \in Issuers : DeleteIssuer(i))

Spec == Init /\ [][Next]_vars

TypeOK ==
  /\ \A c \in Stored(creds) : creds[c].ns \in Namespaces /\ creds[c].value \in Values
  /\ \A i \in Stored(issuers) : issuers[i].cred \in Ids \cup {None}
  /\ corefile.forward \in Resolvers \cup {Host} /\ moved \cup unsynced \subseteq Ids

(***************************************************************************)
(* Properties.                                                             *)
(***************************************************************************)

Quiet == ~raced /\ \A s \in Slots : slots[s] = Idle

\* Between requests that did not overlap, a credential's Secret is in its
\* namespace with its value and nowhere else, and a deleted credential has
\* none, unless a step of a request on that credential failed.
CredentialInForce ==
  Quiet => \A c \in Ids \ unsynced, n \in Namespaces :
    secrets[c, n] = IF c \in Stored(creds) /\ creds[c].ns = n THEN creds[c].value ELSE None

\* The Secret a namespaced issuer refers to exists in its namespace, unless its
\* credential has moved to another one: only deletion asks the issuers.
IssuerResolves ==
  Quiet => \A i \in Stored(issuers) :
    LET x == issuers[i] IN
    x.kind = "Issuer" /\ x.cred # None => secrets[x.cred, x.ns] # None \/ x.cred \in moved \cup unsynced

\* The active policy is what CoreDNS forwards to, unless its row could not be saved.
PolicyMatches ==
  Quiet /\ ~unsaved /\ policies # <<>> => corefile.forward = policies[Len(policies)]
=============================================================================
