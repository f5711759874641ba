------------------------------ MODULE Workspace ------------------------------
(***************************************************************************)
(* Projects, environments, applications and image registries, and the      *)
(* cluster namespaces that environments are bound to.  A handler reads     *)
(* and checks in one step and writes in a later one; handlers of two users *)
(* interleave.  The database enforces no foreign keys.                     *)
(***************************************************************************)
EXTENDS Naturals, FiniteSets

CONSTANTS Projects, Environments, Applications, Namespaces, Registries, Slots,
          Shared,          \* the environments an earlier version left, which may share a namespace
          MaxRequests,
          None

VARIABLES projects,        \* [live, default]: the default image registry
          environments,    \* [project, ns], or None
          applications,    \* the environment of an application, or None
          registries,      \* [live, enabled, projects]
          released,        \* registries a release names
          namespaces,      \* the cluster: "absent", "free" or the owning project
          unique,          \* the unique index on environments(namespace) exists
          slots, raced, stale, requests

vars == <<projects, environments, applications, registries, released, namespaces, unique,
          slots, raced, stale, requests>>

Idle == [op |-> "idle"]
Rows == <<projects, environments, applications, registries, released>>
LiveProject(p) == projects[p].live
Bound == {e \in Environments : environments[e] # None}
Busy(s) == {slots[o].op : o \in Slots \ {s}}
End(s) == slots' = [slots EXCEPT ![s] = Idle]

\* A handler takes a slot; `against` names the handlers whose check this one's
\* write can undo.
Begin(s, slot, against) ==
  /\ slots[s].op = "idle" /\ requests < MaxRequests
  /\ requests' = requests + 1
  /\ slots' = [slots EXCEPT ![s] = slot]
  /\ raced' = (raced \/ Busy(s) \cap against # {})

(***************************************************************************)
(* The store.                                                              *)
(***************************************************************************)

\* Mutant: an environment may take any namespace.
namespaceUnchecked(ns, except) == TRUE

ensureNamespaceAvailable(ns, except) ==
  \A e \in Bound \ {except} : environments[e].ns # ns

ListEnvironmentNamespaceConflicts(envs) ==
  {n \in Namespaces : Cardinality({e \in Environments : envs[e] # None /\ envs[e].ns = n}) > 1}

IsEnvironmentNamespaceConflicted(ns) == ns \in ListEnvironmentNamespaceConflicts(environments)

\* The index is created as soon as no two environments share a namespace.
ReconcileEnvironmentNamespaceUniqueness(envs) ==
  unique \/ ListEnvironmentNamespaceConflicts(envs) = {}

CountEnvironmentApplications(e) == Cardinality({a \in Applications : applications[a] = e})

CountProjectApplications(p) ==
  Cardinality({a \in Applications : applications[a] \in Bound /\ environments[applications[a]].project = p})

CountProjectEnvironments(p) == Cardinality({e \in Bound : environments[e].project = p})

GetImageRegistryForProject(r, p) ==
  registries[r].live /\ p \in registries[r].projects

\* One transaction saves the registry, replaces the projects it is granted to and
\* clears the default of every project that may no longer use it.
UpdateImageRegistry(r, row) ==
  /\ registries' = [registries EXCEPT ![r] = row]
  /\ projects' = [p \in Projects |->
       IF projects[p].default = r /\ ~(row.enabled /\ p \in row.projects)
         THEN [projects[p] EXCEPT !.default = None] ELSE projects[p]]

\* The environments after a project read earlier is saved: those deleted meanwhile
\* are inserted again.
Reinserted(read) ==
  [e \in Environments |->
     IF environments[e] = None /\ e \in DOMAIN read.environments THEN read.environments[e]
     ELSE environments[e]]

\* db.Save of a project that was read with its environments and its default
\* registry: deleted rows come back, the foreign key is taken from the registry
\* that was read, if there was one, and the unique index may refuse it all.
UpdateProject(p, default, read) ==
  IF unique /\ ListEnvironmentNamespaceConflicts(Reinserted(read)) # {}
    THEN UNCHANGED <<projects, environments, registries>>
    ELSE /\ projects' = [projects EXCEPT ![p] =
              [live |-> TRUE, default |-> IF read.registry # None THEN read.registry ELSE default]]
         /\ environments' = Reinserted(read)
         /\ registries' = [r \in Registries |->
              IF r = read.registry /\ ~registries[r].live THEN read.row ELSE registries[r]]

(***************************************************************************)
(* The cluster side of an environment.                                     *)
(***************************************************************************)

\* Mutant: the owner label of an existing namespace is not read.
claimAnyNamespace(p, ns, mode, allowExisting) ==
  namespaces' = [namespaces EXCEPT ![ns] = p]

\* A new namespace is labelled with its project, a free one is claimed, one that
\* belongs to another project is refused.
ensureEnvironmentNamespace(p, ns, mode, allowExisting) ==
  CASE namespaces[ns] = "absent" ->
         mode = "create" /\ namespaces' = [namespaces EXCEPT ![ns] = p]
    [] namespaces[ns] # "absent" ->
         /\ mode = "bind" \/ allowExisting
         /\ namespaces[ns] \in {"free", p}
         /\ namespaces' = [namespaces EXCEPT ![ns] = p]

Init ==
  /\ projects = [p \in Projects |-> [live |-> TRUE, default |-> None]]
  /\ environments = [e \in Environments |->
       IF e \in DOMAIN Shared THEN Shared[e] ELSE None]
  /\ applications = [a \in Applications |-> None]
  /\ registries = [r \in Registries |-> [live |-> TRUE, enabled |-> TRUE, projects |-> {}]]
  /\ released = {}
  /\ namespaces = [n \in Namespaces |->
       IF \E e \in DOMAIN Shared : Shared[e].ns = n THEN "free" ELSE "absent"]
  /\ unique = (ListEnvironmentNamespaceConflicts(environments) = {})
  /\ slots = [s \in Slots |-> Idle] /\ raced = FALSE /\ stale = FALSE /\ requests = 0

(***************************************************************************)
(* Projects.                                                               *)
(***************************************************************************)

ReadProject(p) ==
  LET d == projects[p].default
      found == IF d # None /\ registries[d].live THEN d ELSE None
  IN  [registry |-> found, row |-> IF found = None THEN None ELSE registries[found],
       environments |-> [e \in {x \in Bound : environments[x].project = p} |-> environments[e]],
       default |-> d]

\* The default may be cleared, kept, or set to an enabled registry granted to the
\* project.
UpdateProjectRead(s, p) ==
  /\ LiveProject(p)
  /\ \E default \in {None, projects[p].default} \cup {r \in Registries : GetImageRegistryForProject(r, p) /\ registries[r].enabled} :
       Begin(s, [op |-> "updateProject", p |-> p, default |-> default, read |-> ReadProject(p)], {})
  /\ UNCHANGED <<Rows, namespaces, unique, stale>>

UpdateProjectSave(s) ==
  /\ slots[s].op = "updateProject"
  /\ UpdateProject(slots[s].p, slots[s].default, slots[s].read)
  /\ stale' = (stale \/ ~LiveProject(slots[s].p) \/ ReadProject(slots[s].p) # slots[s].read
                     \/ (slots[s].default # None
                         /\ ~(GetImageRegistryForProject(slots[s].default, slots[s].p)
                              /\ registries[slots[s].default].enabled)))
  /\ End(s)
  /\ UNCHANGED <<applications, released, namespaces, unique, raced, requests>>

DeleteProjectCheck(s, p) ==
  /\ LiveProject(p)
  /\ CountProjectEnvironments(p) = 0 /\ CountProjectApplications(p) = 0
  /\ Begin(s, [op |-> "deleteProject", p |-> p], {"createEnvironment"})
  /\ UNCHANGED <<Rows, namespaces, unique, stale>>

DeleteProject(s) ==
  /\ slots[s].op = "deleteProject"
  /\ projects' = [projects EXCEPT ![slots[s].p] = [live |-> FALSE, default |-> None]]
  /\ End(s)
  /\ UNCHANGED <<environments, applications, registries, released, namespaces, unique, raced, stale, requests>>

(***************************************************************************)
(* Environments.                                                           *)
(***************************************************************************)

\* Checked and bound in the cluster first, stored afterwards.
CreateEnvironmentBind(s, p) ==
  /\ LiveProject(p)
  /\ \E ns \in Namespaces, mode \in {"create", "bind"} :
       /\ ensureNamespaceAvailable(ns, None)
       /\ ensureEnvironmentNamespace(p, ns, mode, FALSE)
       /\ Begin(s, [op |-> "createEnvironment", p |-> p, ns |-> ns], {"deleteProject"})
  /\ UNCHANGED <<Rows, unique, stale>>

\* The transaction checks the namespace again; a duplicate name is refused.
CreateEnvironment(s) ==
  /\ slots[s].op = "createEnvironment"
  /\ \/ \E e \in Environments \ Bound :
          /\ ensureNamespaceAvailable(slots[s].ns, None)
          /\ environments' = [environments EXCEPT ![e] = [project |-> slots[s].p, ns |-> slots[s].ns]]
     \/ UNCHANGED environments
  /\ End(s)
  /\ UNCHANGED <<projects, applications, registries, released, namespaces, unique, raced, stale, requests>>

\* An environment with applications keeps its namespace, unless the namespace is
\* shared: that is how a conflict is resolved.
UpdateEnvironmentBind(s, e) ==
  /\ e \in Bound
  /\ CountEnvironmentApplications(e) = 0 \/ IsEnvironmentNamespaceConflicted(environments[e].ns)
  /\ \E ns \in Namespaces, mode \in {"create", "bind"} :
       /\ IF ns = environments[e].ns THEN UNCHANGED namespaces
          ELSE /\ ensureNamespaceAvailable(ns, e)
               /\ ensureEnvironmentNamespace(environments[e].project, ns, mode, FALSE)
       /\ Begin(s, [op |-> "updateEnvironment", e |-> e, read |-> environments[e],
                 row |-> [environments[e] EXCEPT !.ns = ns]], {"createApplication"})
  /\ UNCHANGED <<Rows, unique, stale>>

UpdateEnvironment(s) ==
  /\ slots[s].op = "updateEnvironment"
  /\ \/ /\ ensureNamespaceAvailable(slots[s].row.ns, slots[s].e)
        /\ environments' = [environments EXCEPT ![slots[s].e] = slots[s].row]
        /\ unique' = ReconcileEnvironmentNamespaceUniqueness(environments')
        /\ stale' = (stale \/ environments[slots[s].e] # slots[s].read)
     \/ UNCHANGED <<environments, unique, stale>>
  /\ End(s)
  /\ UNCHANGED <<projects, applications, registries, released, namespaces, raced, requests>>

SyncEnvironmentNamespace(e) ==
  /\ e \in Bound /\ ensureNamespaceAvailable(environments[e].ns, e)
  /\ ensureEnvironmentNamespace(environments[e].project, environments[e].ns, "create", TRUE)
  /\ UNCHANGED <<Rows, unique, slots, raced, stale, requests>>

DeleteEnvironmentCheck(s, e) ==
  /\ e \in Bound /\ CountEnvironmentApplications(e) = 0
  /\ Begin(s, [op |-> "deleteEnvironment", e |-> e], {"createApplication"})
  /\ UNCHANGED <<Rows, namespaces, unique, stale>>

DeleteEnvironment(s) ==
  /\ slots[s].op = "deleteEnvironment"
  /\ environments' = [environments EXCEPT ![slots[s].e] = None]
  /\ unique' = ReconcileEnvironmentNamespaceUniqueness(environments')
  /\ End(s)
  /\ UNCHANGED <<projects, applications, registries, released, namespaces, raced, stale, requests>>

(***************************************************************************)
(* Applications and image registries.                                      *)
(***************************************************************************)

CreateApplicationCheck(s, a) ==
  /\ applications[a] = None
  /\ \E e \in Bound :
       /\ ensureNamespaceAvailable(environments[e].ns, e)
       /\ Begin(s, [op |-> "createApplication", a |-> a, e |-> e], {"deleteEnvironment", "updateEnvironment"})
  /\ UNCHANGED <<Rows, namespaces, unique, stale>>

CreateApplication(s) ==
  /\ slots[s].op = "createApplication"
  /\ applications' = [applications EXCEPT ![slots[s].a] = slots[s].e]
  /\ End(s)
  /\ UNCHANGED <<projects, environments, registries, released, namespaces, unique, raced, stale, requests>>

ImageRegistryUpdate(s, r) ==
  /\ registries[r].live
  /\ \E enabled \in BOOLEAN, granted \in SUBSET Projects :
       /\ \A p \in granted : LiveProject(p)
       /\ Begin(s, [op |-> "updateRegistry", r |-> r, row |-> [live |-> TRUE, enabled |-> enabled, projects |-> granted]], {})
  /\ UNCHANGED <<Rows, namespaces, unique, stale>>

\* A granted project that was deleted meanwhile fails the transaction.
ImageRegistrySave(s) ==
  /\ slots[s].op = "updateRegistry"
  /\ IF \A p \in slots[s].row.projects : LiveProject(p)
       THEN UpdateImageRegistry(slots[s].r, slots[s].row)
       ELSE UNCHANGED <<projects, registries>>
  /\ End(s)
  /\ UNCHANGED <<environments, applications, released, namespaces, unique, raced, stale, requests>>

ImageRegistryDelete(s, r) ==
  /\ registries[r].live /\ r \notin released
  /\ Begin(s, [op |-> "deleteRegistry", r |-> r], {})
  /\ UNCHANGED <<Rows, namespaces, unique, stale>>

\* Only the row goes; grants and defaults stay.
DeleteImageRegistry(s) ==
  /\ slots[s].op = "deleteRegistry"
  /\ registries' = [registries EXCEPT ![slots[s].r].live = FALSE]
  /\ End(s)
  /\ UNCHANGED <<projects, environments, applications, released, namespaces, unique, raced, stale, requests>>

\* A release of a project names its default registry.
ReleaseUsesRegistry(p) ==
  /\ LiveProject(p) /\ projects[p].default # None
  /\ released' = released \cup {projects[p].default}
  /\ UNCHANGED <<projects, environments, applications, registries, namespaces, unique, slots, raced, stale, requests>>

\* An administrator deletes a namespace in the cluster, perhaps under a handler that
\* has just bound it.
NamespaceGone(n) ==
  /\ namespaces[n] # "absent" /\ requests < MaxRequests /\ requests' = requests + 1
  /\ namespaces' = [namespaces EXCEPT ![n] = "absent"]
  /\ stale' = (stale \/ \E s \in Slots : slots[s].op \in {"createEnvironment", "updateEnvironment"})
  /\ UNCHANGED <<Rows, unique, slots, raced>>

Next ==
  \/ \E s \in Slots :
       \/ UpdateProjectSave(s) \/ DeleteProject(s) \/ CreateEnvironment(s) \/ UpdateEnvironment(s)
       \/ DeleteEnvironment(s) \/ CreateApplication(s) \/ ImageRegistrySave(s) \/ DeleteImageRegistry(s)
       \/ \E p \in Projects : UpdateProjectRead(s, p) \/ DeleteProjectCheck(s, p) \/ CreateEnvironmentBind(s, p)
       \/ \E e \in Environments : UpdateEnvironmentBind(s, e) \/ DeleteEnvironmentCheck(s, e)
       \/ \E a \in Applications : CreateApplicationCheck(s, a)
       \/ \E r \in Registries : ImageRegistryUpdate(s, r) \/ ImageRegistryDelete(s, r)
  \/ \E e \in Environments : SyncEnvironmentNamespace(e)
  \/ \E p \in Projects : ReleaseUsesRegistry(p)
  \/ \E n \in Namespaces : NamespaceGone(n)

Spec == Init /\ [][Next]_vars

(***************************************************************************)
(* Properties.                                                             *)
(***************************************************************************)

TypeOK ==
  /\ \A p \in Projects : projects[p].default \in Registries \cup {None}
  /\ \A e \in Bound : environments[e].project \in Projects /\ environments[e].ns \in Namespaces
  /\ \A n \in Namespaces : namespaces[n] \in {"absent", "free"} \cup Projects
  /\ {raced, stale, unique} \subseteq BOOLEAN

Together(e, f, envs) == envs[e] # None /\ envs[f] # None /\ envs[e].ns = envs[f].ns

\* No step binds two environments to one namespace that were not bound together
\* before, whether or not the unique index could be created yet; only a project
\* saved from a stale read can.
NamespaceBoundOnce ==
  stale' \/ \A e, f \in Environments : e # f /\ Together(e, f, environments') => Together(e, f, environments)

\* A namespace that carries a project label is bound only to environments of that
\* project.
NamespaceOwner ==
  stale \/ \A e \in Bound : namespaces[environments[e].ns] \in {"absent", "free", environments[e].project}

\* A project's default registry is enabled and granted to the project, unless the
\* registry was deleted or the project was saved from a stale read.
DefaultAuthorized ==
  stale \/ \A p \in Projects : LiveProject(p) /\ projects[p].default # None =>
    LET r == registries[projects[p].default]
    IN  r.live => r.enabled /\ p \in r.projects

\* Every application has its environment and every environment its project,
\* unless a creation and a deletion passed their checks together.
NoOrphans ==
  raced \/ stale \/
    /\ \A a \in Applications : applications[a] # None => applications[a] \in Bound
    /\ \A e \in Bound : LiveProject(environments[e].project)
=============================================================================
