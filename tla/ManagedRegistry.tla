--------------------------- MODULE ManagedRegistry ---------------------------
(***************************************************************************)
(* The managed OCI registry: its row, the image-registry and node-mirror   *)
(* rows it owns, and the four Kubernetes objects that serve it.  A request *)
(* is split where the code reads and later writes: concurrent polls,       *)
(* edits, repairs and deletions interleave.                                *)
(*                                                                         *)
(* Everything an edit can change (credential, image, resources, transport) *)
(* is one configuration number; 0 is a row or an object that is not there. *)
(***************************************************************************)
EXTENDS Naturals, FiniteSets, Sequences

CONSTANTS Ids,             \* registry ids; an id is never reused by the store
          Configs,         \* configurations a request may ask for
          Claims,          \* existing PVCs of the registry namespace
          Slots,
          MaxRequests,     \* bound: requests and faults, together
          None

VARIABLES rows,            \* managed_oci_registries
          images, mirrors, \* the owned rows: their configuration, 0 if absent
          objects,         \* the Kubernetes objects of the registry's name
          busyClaims,      \* claims another workload mounts
          refs,            \* ids whose image registry a release or a project uses
          raced,           \* ghost: ids referenced while their deletion was under way
          slots,
          lost,            \* ghost: writers overlapped, or a save used a stale read
          used

vars == <<rows, images, mirrors, objects, busyClaims, refs, raced, slots, lost, used>>

\* The order in which Apply writes.
Kinds == <<"secret", "deployment", "service", "ingress">>
Absent == [cfg |-> 0, status |-> "", claim |-> None]
Idle == [op |-> "idle", pc |-> "", id |-> None, row |-> Absent, read |-> Absent,
         todo |-> <<>>, alone |-> TRUE]
Live(i) == rows[i].cfg # 0
Another(i) == \E j \in Ids \ {i} : Live(j)
Fault == used.requests + used.faults < MaxRequests /\ used' = [used EXCEPT !.faults = @ + 1]

\* A request takes a slot; requests in flight together lose the ghost mark `alone`.
Begin(s, slot) ==
  /\ slots[s].op = "idle" /\ used.requests + used.faults < MaxRequests
  /\ used' = [used EXCEPT !.requests = @ + 1]
  /\ LET others == {o \in Slots \ {s} : slots[o].op # "idle"}
     IN  /\ lost' = (lost \/ (slot.op # "refresh" /\ \E o \in others : slots[o].op # "refresh"))
         /\ slots' = [o \in Slots |->
              IF o = s THEN [slot EXCEPT !.alone = (others = {})]
              ELSE IF o \in others THEN [slots[o] EXCEPT !.alone = FALSE] ELSE slots[o]]

Goto(s, pc) == slots' = [slots EXCEPT ![s].pc = pc]
End(s) == slots' = [slots EXCEPT ![s] = Idle]

(***************************************************************************)
(* The store.                                                              *)
(***************************************************************************)

\* db.Save writes every column of the row in memory and inserts a row that is
\* gone; the unique resource name refuses the insert while another registry
\* exists.
UpdateManagedOCIRegistry(i, row, read) ==
  IF Live(i) \/ ~Another(i)
    THEN /\ rows' = [rows EXCEPT ![i] = row]
         /\ lost' = (lost \/ rows[i] # read)
    ELSE UNCHANGED <<rows, lost>>

\* One transaction writes the registry and the two rows it owns; the unique
\* resource name lets one of two concurrent creations through.
CreateManagedOCIRegistry(i, row) ==
  /\ \A j \in Ids : ~Live(j)
  /\ rows' = [rows EXCEPT ![i] = row]
  /\ images' = [images EXCEPT ![i] = row.cfg]
  /\ mirrors' = [mirrors EXCEPT ![i] = row.cfg]

CountManagedOCIRegistryReferences(i) == IF i \in refs THEN 1 ELSE 0

(***************************************************************************)
(* Checks against the cluster.                                             *)
(***************************************************************************)

\* Nothing but the registry's own pods mounts the claim.
ensurePVCUnused(claim) == claim \notin busyClaims

\* Claims stands for the claims of the right namespace, storage class, binding and
\* access mode.
ResolvePVC(claim) == claim \in Claims /\ ensurePVCUnused(claim)

\* Nothing of the registry's name belongs to someone else.
EnsureResourcesAvailable == \A k \in DOMAIN objects : objects[k].owner # "other"

\* Mutant: an update may name another claim.
BuildAnyClaim(current, cfg, claim) ==
  {[cfg |-> cfg, status |-> "pending", claim |-> claim]}

\* What an update may ask for: the claim is fixed at creation.
BuildManagedRegistry(current, cfg, claim) ==
  IF current.cfg # 0 /\ claim # current.claim THEN {}
  ELSE {[cfg |-> cfg, status |-> "pending", claim |-> claim]}

ManagedRegistryStatus(i) ==
  IF objects["deployment"].owner = "none" THEN {"degraded"} ELSE {"pending", "degraded", "ready"}

Init ==
  /\ rows = [i \in Ids |-> Absent]
  /\ images = [i \in Ids |-> 0] /\ mirrors = [i \in Ids |-> 0]
  /\ objects = [k \in {"secret", "deployment", "service", "ingress"} |->
                  [owner |-> "none", cfg |-> 0]]
  /\ busyClaims = {} /\ refs = {} /\ raced = {} /\ lost = FALSE
  /\ slots = [s \in Slots |-> Idle]
  /\ used = [requests |-> 0, faults |-> 0, ids |-> {}]

(***************************************************************************)
(* Create, Update, Repair: check, write the cluster, save.                 *)
(***************************************************************************)

Cluster == <<objects, busyClaims>>
Stored == <<rows, images, mirrors>>
References == <<refs, raced>>

Create(s) ==
  /\ \A i \in Ids : ~Live(i)
  /\ EnsureResourcesAvailable
  /\ \E cfg \in Configs, claim \in Claims : \E row \in BuildManagedRegistry(Absent, cfg, claim) :
       /\ ResolvePVC(claim)
       /\ Begin(s, [Idle EXCEPT !.op = "create", !.pc = "persist", !.row = row])
  /\ UNCHANGED <<Stored, Cluster, References>>

\* PersistCreate lists the registries again and writes the three rows.
PersistCreate(s) ==
  /\ slots[s].pc = "persist"
  /\ \/ \E i \in Ids \ used.ids :
          /\ CreateManagedOCIRegistry(i, slots[s].row)
          /\ slots' = [slots EXCEPT ![s].pc = "apply", ![s].id = i,
                                    ![s].read = slots[s].row, ![s].todo = Kinds]
          /\ used' = [used EXCEPT !.ids = @ \cup {i}]
     \/ /\ \E j \in Ids : Live(j)
        /\ End(s) /\ UNCHANGED <<Stored, used>>
  /\ UNCHANGED <<Cluster, References, lost>>

Update(s, i) ==
  /\ Live(i)
  /\ \E cfg \in Configs, claim \in Claims : \E row \in BuildManagedRegistry(rows[i], cfg, claim) :
       /\ ResolvePVC(claim)
       /\ Begin(s, [Idle EXCEPT !.op = "update", !.pc = "apply", !.id = i, !.row = row,
                                !.read = rows[i], !.todo = Kinds])
  /\ UNCHANGED <<Stored, Cluster, References>>

Repair(s, i) ==
  /\ Live(i) /\ ResolvePVC(rows[i].claim)
  /\ Begin(s, [Idle EXCEPT !.op = "repair", !.pc = "apply", !.id = i, !.row = rows[i],
                           !.read = rows[i], !.todo = Kinds])
  /\ UNCHANGED <<Stored, Cluster, References>>

\* Upsert of one object: an existing object must carry the platform's label.
Upsert(kind, cfg) ==
  /\ objects[kind].owner # "other"
  /\ objects' = [objects EXCEPT ![kind] = [owner |-> "platform", cfg |-> cfg]]

\* Apply writes Secret, Deployment, Service and Ingress in this order.
Apply(s) ==
  /\ slots[s].pc = "apply" /\ slots[s].todo # <<>>
  /\ Upsert(Head(slots[s].todo), slots[s].row.cfg)
  /\ slots' = [slots EXCEPT ![s].todo = Tail(@)]
  /\ UNCHANGED <<Stored, busyClaims, References, lost, used>>

\* A foreign object or a failing call stops Apply where it is.  Create and Repair
\* save the row as failed; Update saves nothing.
ApplyFails(s) ==
  /\ slots[s].pc = "apply" /\ slots[s].todo # <<>>
  /\ \/ objects[Head(slots[s].todo)].owner = "other" /\ UNCHANGED used
     \/ Fault
  /\ IF slots[s].op = "update" THEN UNCHANGED <<rows, lost>>
     ELSE UpdateManagedOCIRegistry(slots[s].id, [slots[s].row EXCEPT !.status = "failed"],
                                   slots[s].read)
  /\ End(s)
  /\ UNCHANGED <<images, mirrors, Cluster, References>>

Applied(s) == slots[s].pc = "apply" /\ slots[s].todo = <<>>

\* UpdateAssociations: the image registry in one transaction, then the mirror
\* rule; either may fail and ends the request.
UpdateImageAssociation(s) ==
  /\ Applied(s) /\ slots[s].op = "update"
  /\ \/ /\ images' = [images EXCEPT ![slots[s].id] = slots[s].row.cfg]
        /\ Goto(s, "mirror") /\ UNCHANGED used
     \/ Fault /\ End(s) /\ UNCHANGED images
  /\ UNCHANGED <<rows, mirrors, Cluster, References, lost>>

\* Mutant: the mirror rule keeps the configuration it had.
UpdateMirrorSkipped(s) ==
  /\ slots[s].pc = "mirror"
  /\ Goto(s, "save")
  /\ UNCHANGED <<Stored, Cluster, References, lost, used>>

UpdateMirrorAssociation(s) ==
  /\ slots[s].pc = "mirror"
  /\ \/ /\ mirrors' = [mirrors EXCEPT ![slots[s].id] = slots[s].row.cfg]
        /\ Goto(s, "save") /\ UNCHANGED used
     \/ Fault /\ End(s) /\ UNCHANGED mirrors
  /\ UNCHANGED <<rows, images, Cluster, References, lost>>

\* The row is saved "deploying".
SaveDeploying(s) ==
  /\ \/ Applied(s) /\ slots[s].op \in {"create", "repair"}
     \/ slots[s].pc = "save"
  /\ UpdateManagedOCIRegistry(slots[s].id, [slots[s].row EXCEPT !.status = "deploying"], slots[s].read)
  /\ End(s)
  /\ UNCHANGED <<images, mirrors, Cluster, References, used>>

(***************************************************************************)
(* List and Get poll the cluster and save the row they read.               *)
(***************************************************************************)

RefreshRead(s, i) ==
  /\ Live(i)
  /\ Begin(s, [Idle EXCEPT !.op = "refresh", !.pc = "status", !.id = i, !.row = rows[i],
                           !.read = rows[i]])
  /\ UNCHANGED <<Stored, Cluster, References>>

refreshStatus(s) ==
  /\ slots[s].pc = "status"
  /\ \E status \in ManagedRegistryStatus(slots[s].id) :
       UpdateManagedOCIRegistry(slots[s].id, [slots[s].row EXCEPT !.status = status], slots[s].read)
  /\ End(s)
  /\ UNCHANGED <<images, mirrors, Cluster, References, used>>

(***************************************************************************)
(* Delete.                                                                 *)
(***************************************************************************)

PrepareDelete(s, i) ==
  /\ Live(i) /\ CountManagedOCIRegistryReferences(i) = 0
  /\ Begin(s, [Idle EXCEPT !.op = "delete", !.pc = "objects", !.id = i])
  /\ UNCHANGED <<Stored, Cluster, References>>

\* The four objects are deleted by name; an error is ignored.
DeleteResources(s) ==
  /\ slots[s].pc = "objects"
  /\ \E kept \in SUBSET DOMAIN objects :
       /\ IF kept = {} THEN UNCHANGED used ELSE Fault
       /\ objects' = [k \in DOMAIN objects |->
            IF k \in kept THEN objects[k] ELSE [owner |-> "none", cfg |-> 0]]
  /\ Goto(s, "rows")
  /\ UNCHANGED <<Stored, busyClaims, References, lost>>

\* The mirror rule and the image registry are deleted, errors ignored, then the row.
DeletePersisted(s) ==
  LET i == slots[s].id
  IN  /\ slots[s].pc = "rows"
      /\ \/ /\ images' = [images EXCEPT ![i] = 0] /\ mirrors' = [mirrors EXCEPT ![i] = 0]
            /\ UNCHANGED used
         \/ /\ Fault
            /\ \/ images' = [images EXCEPT ![i] = 0] /\ UNCHANGED mirrors
               \/ mirrors' = [mirrors EXCEPT ![i] = 0] /\ UNCHANGED images
      /\ rows' = [rows EXCEPT ![i] = Absent]
      /\ End(s)
      /\ UNCHANGED <<Cluster, References, lost>>

(***************************************************************************)
(* The rest of the platform and of the cluster.                            *)
(***************************************************************************)

\* A release or a project default starts to use the image registry, or stops.
Reference(i) ==
  /\ images[i] # 0
  /\ refs' = IF i \in refs THEN refs \ {i} ELSE refs \cup {i}
  /\ raced' = IF \E s \in Slots : slots[s].op = "delete" /\ slots[s].id = i
              THEN raced \cup {i} ELSE raced
  /\ UNCHANGED <<Stored, Cluster, slots, lost, used>>

\* Another controller creates an object of the registry's name.
ForeignObject(k) ==
  /\ objects[k].owner = "none" /\ Fault
  /\ objects' = [objects EXCEPT ![k] = [owner |-> "other", cfg |-> 0]]
  /\ UNCHANGED <<Stored, busyClaims, References, slots, lost>>

\* Another workload starts to mount a claim.
ForeignMount(claim) ==
  /\ claim \notin busyClaims /\ Fault
  /\ busyClaims' = busyClaims \cup {claim}
  /\ UNCHANGED <<Stored, objects, References, slots, lost>>

Next ==
  \/ \E s \in Slots :
       \/ Create(s) \/ PersistCreate(s) \/ Apply(s) \/ ApplyFails(s)
       \/ UpdateImageAssociation(s) \/ UpdateMirrorAssociation(s) \/ SaveDeploying(s)
       \/ refreshStatus(s) \/ DeleteResources(s) \/ DeletePersisted(s)
       \/ \E i \in Ids : Update(s, i) \/ Repair(s, i) \/ RefreshRead(s, i) \/ PrepareDelete(s, i)
  \/ \E i \in Ids : Reference(i)
  \/ \E k \in DOMAIN objects : ForeignObject(k)
  \/ \E claim \in Claims : ForeignMount(claim)

Spec == Init /\ [][Next]_vars

(***************************************************************************)
(* Properties.                                                             *)
(***************************************************************************)

Quiet == \A s \in Slots : slots[s].op = "idle"

\* Every variable stays in its domain.
TypeOK ==
  /\ \A i \in Ids : /\ rows[i].cfg \in Configs \cup {0} /\ images[i] \in Configs \cup {0}
                    /\ rows[i].cfg # 0 => rows[i].claim \in Claims
                    /\ mirrors[i] \in Configs \cup {0}
                    /\ rows[i].status \in {"", "pending", "deploying", "failed", "degraded", "ready"}
  /\ \A k \in DOMAIN objects : objects[k].owner \in {"none", "platform", "other"}
  /\ refs \subseteq Ids /\ busyClaims \subseteq Claims /\ lost \in BOOLEAN

\* At most one managed registry exists, whatever creations race and whatever
\* deleted row a stale save brings back.
OneRegistry == Cardinality({i \in Ids : Live(i)}) <= 1

\* With nothing in flight, no failed call, no overlapping writers and no save from a stale read, the
\* registry, its image registry and its mirror rule exist together with one
\* configuration, and the cluster serves that configuration.
AssociationsAgree ==
  Quiet /\ ~lost /\ used.faults = 0 =>
    \A i \in Ids :
      /\ images[i] = rows[i].cfg /\ mirrors[i] = rows[i].cfg
      /\ Live(i) => \A k \in DOMAIN objects : objects[k].cfg = rows[i].cfg

\* A repair that ran alone leaves every object with the stored configuration,
\* whatever failed before it.
RepairRestores ==
  \A s \in Slots :
    SaveDeploying(s) /\ slots[s].op = "repair" /\ slots[s].alone /\ Live(slots[s].id)
      => \A k \in DOMAIN objects :
           objects[k].owner = "platform" /\ objects[k].cfg = rows'[slots[s].id].cfg

\* The claim a registry was created with is never exchanged under its data.
ClaimFixed ==
  \A i \in Ids : Live(i) /\ rows'[i].cfg # 0 => rows'[i].claim = rows[i].claim

\* No release and no project default is left pointing at an image registry that
\* is gone, unless it was set after the deletion had counted the references.
NoDanglingReference == \A i \in refs : images[i] # 0 \/ i \in raced
=============================================================================
