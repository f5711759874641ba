------------------------------ MODULE Templates ------------------------------
(***************************************************************************)
(* The deployment templates of one application: its default template, the  *)
(* files integrations may edit, and the releases that name a template.     *)
(* Every handler reads the application and the template first and writes   *)
(* in a later transaction; handlers of several users interleave.           *)
(***************************************************************************)
EXTENDS Naturals, FiniteSets

CONSTANTS Ids,         \* 1..n, given out in order and never again
          Keys, Slots, MaxRequests, None

VARIABLES templates,   \* [enabled, rev, keys, secrets]: managed keys and stored secrets; or None
          default,     \* the default template in the application's row
          files,       \* the keys whose managed file is enabled
          released,    \* templates a release names
          lastId, slots, raced, stale, requests

vars == <<templates, default, files, released, lastId, slots, raced, stale, requests>>

Rows == <<templates, default, files, released>>
Idle == [op |-> "idle"]
Stored == {t \in Ids : templates[t] # None}
End(s) == slots' = [slots EXCEPT ![s] = Idle]
OthersBusy(s) == \E o \in Slots \ {s} : slots[o].op # "idle"

Begin(s, slot) ==
  /\ slots[s].op = "idle" /\ requests < MaxRequests
  /\ requests' = requests + 1
  /\ slots' = [slots EXCEPT ![s] = slot]
  /\ raced' = (raced \/ OthersBusy(s))

(***************************************************************************)
(* The store: each operator is one transaction.                            *)
(***************************************************************************)

CreateApplicationDeploymentTemplate(t, row, makeDefault) ==
  /\ templates' = [templates EXCEPT ![t] = [row EXCEPT !.rev = 1]]
  /\ default' = IF makeDefault THEN t ELSE default

UpdateApplicationDeploymentTemplate(t, row) ==
  templates' = [templates EXCEPT ![t] = [row EXCEPT !.rev = templates[t].rev + 1]]

\* Mutant: the revision is compared by the handler only.
UpdateWithoutRevision(t, row, expected) ==
  UpdateApplicationDeploymentTemplate(t, row)

UpdateApplicationDeploymentTemplateIfRevision(t, row, expected) ==
  /\ templates[t].rev = expected
  /\ UpdateApplicationDeploymentTemplate(t, row)

SetDefaultApplicationDeploymentTemplate(t) ==
  /\ t \in Stored /\ templates[t].enabled
  /\ default' = t

\* Mutant: the application keeps pointing at the deleted template.
DeleteKeepsDefault(t) ==
  /\ t \notin released
  /\ templates' = [templates EXCEPT ![t] = None]
  /\ UNCHANGED default

DeleteApplicationDeploymentTemplate(t) ==
  /\ t \notin released
  /\ templates' = [templates EXCEPT ![t] = None]
  /\ default' = IF default = t THEN None ELSE default

UpsertApplicationManagedFile(keys) == files' = files \cup keys

DisableApplicationManagedFilesNotIn(keys) == files' = files \cap keys

\* The application is new, or has a default template.
Init ==
  /\ \/ /\ templates = [t \in Ids |-> None] /\ default = None
        /\ files = {} /\ lastId = 0
     \/ /\ \E keys \in SUBSET Keys :
             /\ templates = [t \in Ids |->
                  IF t = 1 THEN [enabled |-> TRUE, rev |-> 1, keys |-> keys, secrets |-> {}] ELSE None]
             /\ files = keys
        /\ default = 1 /\ lastId = 1
  /\ released = {}
  /\ slots = [s \in Slots |-> Idle] /\ raced = FALSE /\ stale = FALSE /\ requests = 0

(***************************************************************************)
(* The handlers.                                                           *)
(***************************************************************************)

\* The row a request makes of a template: the secrets it gives are added to those
\* stored, blank ones leave what is there.
templateFromRequest(enabled, keys, given, current) ==
  [enabled |-> enabled, rev |-> 0, keys |-> keys, secrets |-> current \cup given]

\* The default is made of the first template, by the application as it was read.
CreateDeploymentTemplate(s) ==
  /\ \E enabled \in BOOLEAN, keys, given \in SUBSET Keys :
       Begin(s, [op |-> "create", makeDefault |-> default = None,
                 row |-> templateFromRequest(enabled, keys, given, {})])
  /\ UNCHANGED <<Rows, lastId, stale>>

Sync(s, keys) == slots' = [slots EXCEPT ![s] = [op |-> "upsert", keys |-> keys]]

CreateStore(s) ==
  LET r == slots[s] IN
  /\ r.op = "create" /\ lastId + 1 \in Ids
  /\ lastId' = lastId + 1
  /\ CreateApplicationDeploymentTemplate(lastId', r.row, r.makeDefault)
  /\ IF r.makeDefault THEN Sync(s, r.row.keys) ELSE End(s)
  /\ UNCHANGED <<files, released, raced, stale, requests>>

\* A request may name the revision it was made from; one that names another than
\* the current one is refused at once.  The default template cannot be disabled.
UpdateDeploymentTemplate(s, t) ==
  /\ t \in Stored
  /\ \E enabled \in BOOLEAN, keys, given \in SUBSET Keys, expected \in {0, templates[t].rev} :
       /\ default = t => enabled
       /\ Begin(s, [op |-> "update", t |-> t, expected |-> expected, key |-> None,
                    isDefault |-> default = t, read |-> templates[t],
                    row |-> templateFromRequest(enabled, keys, given, templates[t].secrets)])
  /\ UNCHANGED <<Rows, lastId, stale>>

\* A template that is gone, or whose revision moved on, is not written.
UpdateStore(s) ==
  LET r == slots[s] IN
  /\ r.op = "update"
  /\ \/ /\ r.t \in Stored
        /\ IF r.expected # 0
             THEN UpdateApplicationDeploymentTemplateIfRevision(r.t, r.row, r.expected)
             ELSE UpdateApplicationDeploymentTemplate(r.t, r.row)
        /\ IF r.isDefault THEN Sync(s, r.row.keys) ELSE End(s)
     \/ /\ r.t \in Stored => r.expected \notin {0, templates[r.t].rev}
        /\ End(s) /\ UNCHANGED templates
  /\ UNCHANGED <<default, files, released, lastId, raced, stale, requests>>

DeleteDeploymentTemplate(t) ==
  /\ t \in Stored /\ requests < MaxRequests /\ requests' = requests + 1
  /\ DeleteApplicationDeploymentTemplate(t)
  /\ raced' = (raced \/ \E s \in Slots : slots[s].op # "idle")
  /\ UNCHANGED <<files, released, lastId, slots, stale>>

SetDefaultDeploymentTemplate(s, t) ==
  /\ t \in Stored /\ templates[t].enabled
  /\ Begin(s, [op |-> "default", t |-> t, keys |-> templates[t].keys])
  /\ UNCHANGED <<Rows, lastId, stale>>

SetDefaultStore(s) ==
  LET r == slots[s] IN
  /\ r.op = "default"
  /\ \/ SetDefaultApplicationDeploymentTemplate(r.t) /\ Sync(s, r.keys)
     \/ ~(r.t \in Stored /\ templates[r.t].enabled) /\ End(s) /\ UNCHANGED default
  /\ UNCHANGED <<templates, files, released, lastId, raced, stale, requests>>

\* SyncManagedFiles: the keys of the template are enabled, all others disabled.
SyncUpsert(s) ==
  /\ slots[s].op = "upsert"
  /\ UpsertApplicationManagedFile(slots[s].keys)
  /\ slots' = [slots EXCEPT ![s].op = "disable"]
  /\ UNCHANGED <<templates, default, released, lastId, raced, stale, requests>>

SyncDisable(s) ==
  /\ slots[s].op = "disable"
  /\ DisableApplicationManagedFilesNotIn(slots[s].keys)
  /\ End(s)
  /\ UNCHANGED <<templates, default, released, lastId, raced, stale, requests>>

\* What an integration may replace: an enabled file whose key the default template
\* opens to integrations.
templateConfigMap(k) ==
  /\ k \in files /\ default \in Stored
  /\ templates[default].enabled /\ k \in templates[default].keys

\* managedFileMutationMu: one replacement at a time.
IntegrationReplaceManagedConfigMap(s, k) ==
  /\ \A o \in Slots : slots[o].op = "update" => slots[o].key = None
  /\ templateConfigMap(k)
  /\ Begin(s, [op |-> "update", t |-> default, expected |-> templates[default].rev, key |-> k,
               isDefault |-> FALSE, read |-> templates[default], row |-> templates[default]])
  /\ UNCHANGED <<Rows, lastId, stale>>

\* A release is inserted first and told its template by a second save.
CreateFromTemplate(s, t) ==
  /\ t \in Stored /\ templates[t].enabled
  /\ Begin(s, [op |-> "release", t |-> t])
  /\ UNCHANGED <<Rows, lastId, stale>>

AttributeRelease(s) ==
  /\ slots[s].op = "release"
  /\ released' = released \cup {slots[s].t}
  /\ End(s)
  /\ UNCHANGED <<templates, default, files, lastId, raced, stale, requests>>

\* Changing the workload kind reads the application, may wait minutes for the
\* cluster, and saves the whole row it read.
UpdateKind(s) ==
  /\ Begin(s, [op |-> "kind", default |-> default])
  /\ UNCHANGED <<Rows, lastId, stale>>

UpdateApplication(s) ==
  /\ slots[s].op = "kind"
  /\ default' = slots[s].default
  /\ stale' = (stale \/ default # slots[s].default)
  /\ End(s)
  /\ UNCHANGED <<templates, files, released, lastId, raced, requests>>

Next ==
  \/ \E s \in Slots :
       \/ CreateStore(s) \/ UpdateStore(s) \/ SetDefaultStore(s) \/ SyncUpsert(s) \/ SyncDisable(s)
       \/ AttributeRelease(s) \/ UpdateKind(s) \/ UpdateApplication(s)
       \/ CreateDeploymentTemplate(s)
       \/ \E t \in Ids : UpdateDeploymentTemplate(s, t) \/ SetDefaultDeploymentTemplate(s, t) \/ CreateFromTemplate(s, t)
       \/ \E k \in Keys : IntegrationReplaceManagedConfigMap(s, k)
  \/ \E t \in Ids : DeleteDeploymentTemplate(t)

Spec == Init /\ [][Next]_vars

(***************************************************************************)
(* Properties.                                                             *)
(***************************************************************************)

TypeOK ==
  /\ \A t \in Stored : templates[t].rev \in 1..(MaxRequests + 1) /\ templates[t].keys \subseteq Keys
  /\ default \in Ids \cup {None} /\ files \subseteq Keys /\ released \subseteq Ids
  /\ {raced, stale} \subseteq BOOLEAN

\* The default template exists unless the application was saved from a stale read,
\* and the template of a release exists unless it was deleted while the release was
\* being created.
ReferencesHold ==
  /\ stale \/ default \in Stored \cup {None}
  /\ raced \/ released \subseteq Stored

\* One request at a time, the default template is enabled (or was created disabled
\* as the application's first and never edited since), and the files open to
\* integrations are exactly the keys it manages.
DefaultInForce ==
  raced \/ default = None \/
    /\ templates[default].enabled \/ templates[default].rev = 1
    /\ (\A s \in Slots : slots[s].op \notin {"upsert", "disable"}) => files = templates[default].keys

\* An edit that names the revision it was made from replaces exactly the template
\* it was made from, and an integration changes only a key the template still
\* opens to it.
EditKeepsUnseen ==
  \A s \in Slots, t \in Ids :
    slots[s].op = "update" /\ slots[s].t = t /\ slots[s].expected # 0
      /\ slots'[s] # slots[s] /\ templates'[t] # templates[t] =>
        /\ slots[s].read = templates[t]
        /\ slots[s].key = None \/ slots[s].key \in templates[t].keys
=============================================================================
